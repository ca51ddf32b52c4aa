--------------------------- MODULE OperationsProofs ---------------------------
(***************************************************************************)
(* Theorems about the long-running work of the platform -- AI calls, the   *)
(* egress of scanner workers, tenants and schedules, engagements, tool     *)
(* runs -- for every value of the constants.  The components share no      *)
(* state: each theorem is about the specification of one component, or     *)
(* about several components running beside each other.                     *)
(***************************************************************************)
EXTENDS MCOperations, FiniteSetTheorems, TLAPS

-----------------------------------------------------------------------------
(* Finite sets                                                             *)

\* Adding, and removing, one element.
LEMMA CardAdd ==
    ASSUME NEW S, IsFiniteSet(S), NEW x, x \notin S
    PROVE  IsFiniteSet(S \cup {x}) /\ Cardinality(S \cup {x}) = Cardinality(S) + 1
BY FS_AddElement

LEMMA CardRemove ==
    ASSUME NEW S, IsFiniteSet(S), NEW x, x \in S
    PROVE  IsFiniteSet(S \ {x}) /\ Cardinality(S \ {x}) = Cardinality(S) - 1
BY FS_RemoveElement

\* A set with two different elements is not counted as at most one.
LEMMA CardTwo ==
    ASSUME NEW S, IsFiniteSet(S), NEW x \in S, NEW y \in S, x # y
    PROVE  ~(Cardinality(S) <= 1)
<1>1. IsFiniteSet({x}) /\ Cardinality({x}) = 1
  BY FS_Singleton
<1>2. IsFiniteSet({x} \cup {y}) /\ Cardinality({x} \cup {y}) = 2
  BY <1>1, CardAdd
<1>3. {x} \cup {y} \subseteq S
  OBVIOUS
<1>4. Cardinality({x} \cup {y}) <= Cardinality(S) /\ Cardinality(S) \in Nat
  BY <1>3, FS_Subset, FS_CardinalityType
<1> QED
  BY <1>2, <1>4

\* What holds of the empty set, and of a set when it holds of it without one
\* element, holds of every subset; and of every number, by the same argument.
LEMMA EverySubset ==
    ASSUME NEW S, IsFiniteSet(S), NEW P, {} \in P,
           \A T \in SUBSET S : T # {} => \E x \in T : T \ {x} \in P => T \in P
    PROVE  \A T \in SUBSET S : T \in P
<1> DEFINE Bad == {T \in SUBSET S : T \notin P}
           R == StrictSubsetOrdering(S)
<1> SUFFICES ASSUME Bad # {} PROVE FALSE
  OBVIOUS
<1>1. IsWellFoundedOn(R, SUBSET S)
  <2>1. IsWellFoundedOn(R, FiniteSubsetsOf(S))
    BY FS_StrictSubsetOrderingWellFounded
  <2>2. FiniteSubsetsOf(S) = SUBSET S
    BY FS_FiniteSubsetsOfFinite
  <2> QED
    BY <2>1, <2>2
<1>2. Bad \subseteq SUBSET S
  OBVIOUS
<1>3. PICK T \in Bad : \A U \in Bad : ~(<<U, T>> \in R)
  <2> HIDE DEF R, Bad
  <2> QED
    BY <1>1, <1>2, WFMin
<1>4. T # {} /\ T \in SUBSET S /\ T \notin P
  OBVIOUS
<1>5. PICK x \in T : T \ {x} \in P => T \in P
  BY <1>4
<1>6. T \ {x} \in Bad
  BY <1>4, <1>5
<1>7. <<T \ {x}, T>> \in R
  BY <1>4, <1>5 DEF StrictSubsetOrdering
<1> QED
  BY <1>3, <1>6, <1>7

LEMMA EveryNumber ==
    ASSUME NEW P, 0 \in P, \A n \in Nat : n \in P => n + 1 \in P
    PROVE  \A n \in Nat : n \in P
<1> DEFINE Bad == {n \in Nat : n \notin P}
           R == OpToRel(<, Nat)
<1> SUFFICES ASSUME Bad # {} PROVE FALSE
  OBVIOUS
<1>1. PICK n \in Bad : \A m \in Bad : ~(<<m, n>> \in R)
  <2>1. IsWellFoundedOn(R, Nat)
    BY NatLessThanWellFounded
  <2>2. Bad \subseteq Nat
    OBVIOUS
  <2> HIDE DEF Bad, R
  <2> QED
    BY <2>1, <2>2, WFMin
<1>2. n \in Nat /\ n # 0 /\ n \notin P
  OBVIOUS
<1>3. n - 1 \in Nat /\ (n - 1) + 1 = n /\ n - 1 < n
  BY <1>2
<1>4. n - 1 \in Bad
  BY <1>2, <1>3
<1>5. <<n - 1, n>> \in R
  BY <1>2, <1>3 DEF OpToRel
<1> QED
  BY <1>1, <1>4, <1>5

-----------------------------------------------------------------------------
(* AI calls                                                                *)

AiSpec == AiInit /\ [][AiNext]_aiVars

CallStates == [pc : {"free", "enforce", "invoke", "answered", "failed"}, at : 1 .. Len(Chain),
               try : 0 .. AiRetries, sink : Nat, answers : Nat, made : Nat]

\* Those whose check has passed and who have not been answered.
Admitted == {c \in Callers : call[c].pc = "invoke"}

\* The type, the answers of one call, and the inductive form of the bound:
\* who was admitted may still spend one unit.
AiInv ==
    /\ spend \in Nat /\ blind \in Nat /\ usageRows \in Nat /\ redis \in BOOLEAN
    /\ call \in [Callers -> CallStates]
    /\ \A c \in Callers : /\ call[c].answers <= 1
                          /\ call[c].pc \in {"free", "enforce", "invoke"} => call[c].answers = 0
    /\ Budget > 0 => spend + Cardinality(Admitted) <= Budget - 1 + Cardinality(Callers) + blind

\* The callers that were admitted are some of the callers.
LEMMA AdmittedFinite ==
    /\ IsFiniteSet(Admitted) /\ Cardinality(Admitted) \in Nat /\ Cardinality(Callers) \in Nat
    /\ Cardinality(Admitted) <= Cardinality(Callers)
<1>1. Admitted \subseteq Callers /\ IsFiniteSet(Callers)
  BY AiAssumption DEF Admitted
<1> QED
  BY <1>1, FS_Subset, FS_CardinalityType

\* The invariant holds at first.
LEMMA AiInitOK == AiInit => AiInv
<1> SUFFICES ASSUME AiInit PROVE AiInv
  OBVIOUS
<1>1. Free \in CallStates /\ Free.answers = 0 /\ Free.pc = "free"
  BY AiAssumption DEF Free, CallStates
<1>2. call = [c \in Callers |-> Free]
  BY DEF AiInit
<1>3. Admitted = {}
  BY <1>1, <1>2 DEF Admitted
<1>4. Cardinality(Admitted) = 0
  BY <1>3, FS_EmptySet
<1>5. Budget > 0 => spend + Cardinality(Admitted) <= Budget - 1 + Cardinality(Callers) + blind
  BY <1>4, AdmittedFinite, AiAssumption DEF AiInit
<1> QED
  BY <1>1, <1>2, <1>5 DEF AiInit, AiInv

\* One caller moves: what that does to the number of the admitted.
LEMMA AdmittedMove ==
    ASSUME AiInv, NEW c \in Callers, NEW x \in CallStates, call' = [call EXCEPT ![c] = x]
    PROVE  /\ call' \in [Callers -> CallStates] /\ call'[c] = x
           /\ \A d \in Callers : d # c => call'[d] = call[d]
           /\ Cardinality(Admitted') \in Nat /\ Cardinality(Admitted') <= Cardinality(Callers)
           /\ x.pc # "invoke" => Cardinality(Admitted') <= Cardinality(Admitted)
           /\ x.pc # "invoke" /\ call[c].pc = "invoke" => Cardinality(Admitted') = Cardinality(Admitted) - 1
           /\ x.pc = "invoke" /\ call[c].pc = "invoke" => Cardinality(Admitted') = Cardinality(Admitted)
           /\ x.pc = "invoke" => Cardinality(Admitted') <= Cardinality(Admitted) + 1
<1>1. /\ call' \in [Callers -> CallStates] /\ call'[c] = x
      /\ \A d \in Callers : d # c => call'[d] = call[d]
  BY DEF AiInv
<1>2. IsFiniteSet(Admitted) /\ Cardinality(Admitted) \in Nat /\ Cardinality(Callers) \in Nat
  BY AdmittedFinite
<1>3. Admitted' \subseteq Callers /\ IsFiniteSet(Callers)
  BY AiAssumption DEF Admitted
<1>4. Cardinality(Admitted') \in Nat /\ Cardinality(Admitted') <= Cardinality(Callers)
  BY <1>3, FS_Subset, FS_CardinalityType
<1>5. CASE x.pc # "invoke" /\ call[c].pc = "invoke"
  <2>1. Admitted' = Admitted \ {c} /\ c \in Admitted
    BY <1>1, <1>5 DEF Admitted
  <2>2. Cardinality(Admitted') = Cardinality(Admitted) - 1
    BY <1>2, <2>1, CardRemove
  <2> QED
    BY <1>1, <1>2, <1>4, <1>5, <2>2
<1>6. CASE (x.pc = "invoke") = (call[c].pc = "invoke")
  <2>1. Admitted' = Admitted
    BY <1>1, <1>6 DEF Admitted
  <2> QED
    BY <1>1, <1>2, <1>4, <1>6, <2>1
<1>7. CASE x.pc = "invoke" /\ call[c].pc # "invoke"
  <2>1. Admitted' = Admitted \cup {c} /\ c \notin Admitted
    BY <1>1, <1>7 DEF Admitted
  <2>2. Cardinality(Admitted') = Cardinality(Admitted) + 1
    BY <1>2, <2>1, CardAdd
  <2> QED
    BY <1>1, <1>2, <1>4, <1>7, <2>2
<1> QED
  BY <1>5, <1>6, <1>7

\* Where a failed attempt leads.
LEMMA NextTryOK ==
    ASSUME AiInv, NEW c \in Callers, call[c].pc = "invoke", NEW why
    PROVE  /\ NextTry(c, why) \in CallStates
           /\ NextTry(c, why).pc \in {"invoke", "enforce", "failed"}
           /\ why \notin {"outage", "unpaid"} => NextTry(c, why).pc = "failed"
           /\ NextTry(c, why).answers = call[c].answers
<1> DEFINE y == call[c]
<1>1. y \in CallStates /\ y.pc = "invoke"
  BY DEF AiInv
<1>2. y.try \in 0 .. AiRetries /\ y.at \in 1 .. Len(Chain) /\ Len(Chain) \in Nat /\ AiRetries \in Nat
  BY <1>1, AiAssumption DEF CallStates
<1> HIDE DEF y
<1>3. CASE Retries(why, y.try)
  <2>1. NextTry(c, why) = [y EXCEPT !.try = y.try + 1] /\ why = "outage"
    BY <1>3 DEF NextTry, Retries, y
  <2>2. y.try + 1 \in 0 .. AiRetries
    BY <1>2, <1>3 DEF Retries
  <2> QED
    BY <1>1, <2>1, <2>2 DEF CallStates, y
<1>4. CASE ~Retries(why, y.try) /\ why \in {"outage", "unpaid"} /\ y.at < Len(Chain)
  <2>1. NextTry(c, why) = [y EXCEPT !.at = y.at + 1, !.try = 0, !.pc = "enforce"]
    BY <1>4 DEF NextTry, y
  <2>2. y.at + 1 \in 1 .. Len(Chain) /\ 0 \in 0 .. AiRetries
    BY <1>2, <1>4
  <2> QED
    BY <1>1, <1>4, <2>1, <2>2 DEF CallStates, y
<1>5. CASE ~Retries(why, y.try) /\ ~(why \in {"outage", "unpaid"} /\ y.at < Len(Chain))
  <2>1. NextTry(c, why) = [y EXCEPT !.pc = "failed"]
    BY <1>5 DEF NextTry, y
  <2> QED
    BY <1>1, <2>1 DEF CallStates, y
<1> QED
  BY <1>3, <1>4, <1>5

\* Every step keeps the invariant.
LEMMA AiStepOK == AiInv /\ [AiNext]_aiVars => AiInv'
<1> SUFFICES ASSUME AiInv, [AiNext]_aiVars PROVE AiInv'
  OBVIOUS
<1>t. /\ spend \in Nat /\ blind \in Nat /\ usageRows \in Nat /\ redis \in BOOLEAN
      /\ Budget > 0 => spend + Cardinality(Admitted) <= Budget - 1 + Cardinality(Callers) + blind
      /\ \A c \in Callers : /\ call[c] \in CallStates /\ call[c].answers <= 1
                            /\ call[c].pc \in {"free", "enforce", "invoke"} => call[c].answers = 0
  BY DEF AiInv
<1>n. Cardinality(Admitted) \in Nat /\ Cardinality(Callers) \in Nat /\ Budget \in Nat
  BY AdmittedFinite, AiAssumption
<1>s. ASSUME NEW c \in Callers, NEW x \in CallStates, call' = [call EXCEPT ![c] = x],
             x.answers <= 1, x.pc \in {"free", "enforce", "invoke"} => x.answers = 0,
             spend' \in Nat, blind' \in Nat, usageRows' \in Nat, redis' \in BOOLEAN,
             Budget > 0 => spend' + Cardinality(Admitted') <= Budget - 1 + Cardinality(Callers) + blind'
      PROVE  AiInv'
  BY <1>s, <1>t, AdmittedMove DEF AiInv
<1>1. CASE UNCHANGED aiVars
  BY <1>1 DEF aiVars, AiInv, Admitted
<1>2. CASE RedisFlips
  BY <1>2 DEF RedisFlips, AiInv, Admitted
<1>3. ASSUME NEW c \in Callers, CallStart(c) PROVE AiInv'
  <2> DEFINE m == call[c].made + 1
             x == [Free EXCEPT !.pc = "enforce", !.made = m]
  <2>0. m \in Nat /\ 1 \in 1 .. Len(Chain) /\ 0 \in 0 .. AiRetries
    BY <1>t, AiAssumption DEF CallStates
  <2> HIDE DEF m
  <2>f. Free \in CallStates /\ Free.answers = 0
    BY AiAssumption DEF Free, CallStates
  <2>1. x \in CallStates /\ x.pc = "enforce" /\ x.answers = 0 /\ x.answers <= 1
    <3> DEFINE y == [Free EXCEPT !.pc = "enforce"]
    <3>1. y \in CallStates /\ y.pc = "enforce" /\ y.answers = 0
      BY <2>f DEF CallStates
    <3>2. x = [y EXCEPT !.made = m]
      OBVIOUS
    <3> HIDE DEF y, x
    <3> QED
      BY <2>0, <3>1, <3>2 DEF CallStates
  <2>2. call' = [call EXCEPT ![c] = x] /\ UNCHANGED <<spend, redis, blind, usageRows>>
    BY <1>3 DEF CallStart, m
  <2> HIDE DEF x
  <2>3. Cardinality(Admitted') \in Nat /\ Cardinality(Admitted') <= Cardinality(Admitted)
    BY <2>1, <2>2, AdmittedMove
  <2>4. Budget > 0 => spend' + Cardinality(Admitted') <= Budget - 1 + Cardinality(Callers) + blind'
    BY <2>2, <2>3, <1>t, <1>n
  <2>5. spend' \in Nat /\ blind' \in Nat /\ usageRows' \in Nat /\ redis' \in BOOLEAN
    BY <2>2, <1>t
  <2> QED
    BY <2>1, <2>2, <2>4, <2>5, <1>s
<1>4. ASSUME NEW c \in Callers, enforce_budget(c) PROVE AiInv'
  <2> DEFINE v == IF over_budget THEN "failed" ELSE "invoke"
             x == [call[c] EXCEPT !.pc = v]
  <2>0. call[c].pc = "enforce" /\ call[c].answers = 0
    BY <1>4, <1>t DEF enforce_budget
  <2>1. x \in CallStates /\ x.pc = v /\ x.answers = 0 /\ x.answers <= 1
    BY <1>t, <2>0 DEF CallStates
  <2>2. call' = [call EXCEPT ![c] = x] /\ UNCHANGED <<spend, redis, usageRows>>
        /\ blind' = IF redis THEN blind ELSE blind + 1
    BY <1>4 DEF enforce_budget
  <2>v. v \in {"failed", "invoke"} /\ (v = "invoke" /\ redis /\ Budget > 0 => spend < Budget)
    BY <1>t, <1>n DEF over_budget
  <2> HIDE DEF x, v
  <2>3. /\ Cardinality(Admitted') \in Nat /\ Cardinality(Admitted') <= Cardinality(Callers)
        /\ v = "failed" => Cardinality(Admitted') <= Cardinality(Admitted)
        /\ v = "invoke" => Cardinality(Admitted') <= Cardinality(Admitted) + 1
    BY <2>1, <2>2, AdmittedMove
  <2>4. Budget > 0 => spend' + Cardinality(Admitted') <= Budget - 1 + Cardinality(Callers) + blind'
    <3>1. CASE redis /\ v = "invoke"
      BY <2>2, <2>3, <2>v, <3>1, <1>t, <1>n
    <3>2. CASE ~redis /\ v = "invoke"
      BY <2>2, <2>3, <3>2, <1>t, <1>n
    <3>3. CASE v = "failed"
      BY <2>2, <2>3, <3>3, <1>t, <1>n
    <3> QED
      BY <3>1, <3>2, <3>3, <2>v
  <2>5. spend' \in Nat /\ blind' \in Nat /\ usageRows' \in Nat /\ redis' \in BOOLEAN
    BY <2>2, <1>t
  <2> QED
    BY <2>1, <2>2, <2>4, <2>5, <1>s
<1>5. ASSUME NEW c \in Callers, NEW k \in {"outage", "unpaid", "refusal"}, InvokeFails(c, k) PROVE AiInv'
  <2> DEFINE x == NextTry(c, k)
  <2>0. call[c].pc = "invoke" /\ call[c].answers = 0
    BY <1>5, <1>t DEF InvokeFails
  <2>1. x \in CallStates /\ x.answers = 0 /\ x.answers <= 1
    BY <2>0, NextTryOK
  <2>2. call' = [call EXCEPT ![c] = x] /\ UNCHANGED <<spend, redis, blind, usageRows>>
    BY <1>5 DEF InvokeFails
  <2> HIDE DEF x
  <2>3. Cardinality(Admitted') \in Nat /\ Cardinality(Admitted') <= Cardinality(Admitted)
    <3>1. /\ Cardinality(Admitted') \in Nat
          /\ x.pc # "invoke" => Cardinality(Admitted') <= Cardinality(Admitted)
          /\ x.pc = "invoke" => Cardinality(Admitted') = Cardinality(Admitted)
      BY <2>0, <2>1, <2>2, AdmittedMove
    <3> QED
      BY <3>1, <1>n
  <2>4. Budget > 0 => spend' + Cardinality(Admitted') <= Budget - 1 + Cardinality(Callers) + blind'
    BY <2>2, <2>3, <1>t, <1>n
  <2>5. spend' \in Nat /\ blind' \in Nat /\ usageRows' \in Nat /\ redis' \in BOOLEAN
    BY <2>2, <1>t
  <2> QED
    BY <2>1, <2>2, <2>4, <2>5, <1>s
<1>6. ASSUME NEW c \in Callers, NEW p \in BOOLEAN, InvokeAnswers(c, p) PROVE AiInv'
  <2> DEFINE next == IF p THEN [call[c] EXCEPT !.pc = "answered"] ELSE NextTry(c, "garbled")
             x == [next EXCEPT !.sink = call[c].sink + 1, !.answers = call[c].answers + 1]
  <2>0. call[c].pc = "invoke" /\ call[c].answers = 0 /\ call[c] \in CallStates
    BY <1>6, <1>t DEF InvokeAnswers
  <2>1. next \in CallStates /\ next.pc \in {"answered", "failed"}
    BY <2>0, NextTryOK DEF CallStates
  <2>2. call' = [call EXCEPT ![c] = x] /\ UNCHANGED <<redis, blind, usageRows>>
        /\ spend' = IF redis THEN spend + 1 ELSE spend
    <3> DEFINE billed == [call EXCEPT ![c].sink = @ + 1, ![c].answers = @ + 1]
    <3>1. billed[c].sink = call[c].sink + 1 /\ billed[c].answers = call[c].answers + 1
      BY <2>0 DEF AiInv, CallStates
    <3>2. call' = [billed EXCEPT ![c] =
                      [next EXCEPT !.sink = billed[c].sink, !.answers = billed[c].answers]]
      BY <1>6 DEF InvokeAnswers
    <3>3. call' = [billed EXCEPT ![c] = x]
      BY <3>1, <3>2
    <3> HIDE DEF x
    <3>4. [billed EXCEPT ![c] = x] = [call EXCEPT ![c] = x]
      BY DEF AiInv
    <3> QED
      BY <1>6, <3>3, <3>4 DEF InvokeAnswers
  <2> HIDE DEF next
  <2>3. x \in CallStates /\ x.answers = 1 /\ x.answers <= 1 /\ x.pc = next.pc
    <3> DEFINE n == call[c].sink + 1
               k == call[c].answers + 1
    <3>1. n \in Nat /\ k \in Nat /\ k = 1
      BY <2>0 DEF CallStates
    <3>2. x = [next EXCEPT !.sink = n, !.answers = k]
      OBVIOUS
    <3> HIDE DEF n, k, x
    <3>3. x \in CallStates /\ x.answers = k /\ x.pc = next.pc
      BY <2>1, <3>1, <3>2 DEF CallStates
    <3> QED
      BY <3>1, <3>3
  <2> HIDE DEF x
  <2>4. Cardinality(Admitted') \in Nat /\ Cardinality(Admitted') = Cardinality(Admitted) - 1
    BY <2>0, <2>1, <2>2, <2>3, AdmittedMove
  <2>5. Budget > 0 => spend' + Cardinality(Admitted') <= Budget - 1 + Cardinality(Callers) + blind'
    BY <2>2, <2>4, <1>t, <1>n
  <2>6. spend' \in Nat /\ blind' \in Nat /\ usageRows' \in Nat /\ redis' \in BOOLEAN
    BY <2>2, <1>t
  <2> QED
    BY <2>1, <2>2, <2>3, <2>5, <2>6, <1>s
<1>7. ASSUME NEW c \in Callers, NEW b \in BOOLEAN, persist_ai_usage(c, b) \/ CallFails(c, b) PROVE AiInv'
  <2> DEFINE m == call[c].made
             x == [Free EXCEPT !.made = m]
  <2>0. m \in Nat /\ call[c].sink \in Nat /\ 1 \in 1 .. Len(Chain) /\ 0 \in 0 .. AiRetries
    BY <1>t, AiAssumption DEF CallStates
  <2> HIDE DEF m
  <2>1. x \in CallStates /\ x.pc = "free" /\ x.answers = 0 /\ x.answers <= 1
    BY <2>0 DEF Free, CallStates
  <2>2. call' = [call EXCEPT ![c] = x] /\ UNCHANGED <<spend, redis, blind>>
        /\ usageRows' = usageRows + (IF b THEN call[c].sink ELSE 0)
    BY <1>7 DEF persist_ai_usage, CallFails, m
  <2>u. usageRows' \in Nat
    BY <2>0, <2>2, <1>t
  <2> HIDE DEF x
  <2>3. Cardinality(Admitted') \in Nat /\ Cardinality(Admitted') <= Cardinality(Admitted)
    BY <2>1, <2>2, AdmittedMove
  <2>4. Budget > 0 => spend' + Cardinality(Admitted') <= Budget - 1 + Cardinality(Callers) + blind'
    BY <2>2, <2>3, <1>t, <1>n
  <2>5. spend' \in Nat /\ blind' \in Nat /\ usageRows' \in Nat /\ redis' \in BOOLEAN
    BY <2>u, <2>2, <1>t
  <2> QED
    BY <2>1, <2>2, <2>4, <2>5, <1>s
<1> QED
  BY <1>1, <1>2, <1>3, <1>4, <1>5, <1>6, <1>7 DEF AiNext

\* The bound follows from the invariant.
LEMMA OvershootOK == AiInv => OvershootBounded
<1> SUFFICES ASSUME AiInv PROVE OvershootBounded
  OBVIOUS
<1>1. Budget > 0 => spend <= Budget - 1 + Cardinality(Callers) + blind
  BY AdmittedFinite, AiAssumption DEF AiInv
<1> QED
  BY <1>1 DEF AiInv, OvershootBounded

\* However many callers race between the check of the daily budget and the
\* spending, and whatever providers and retries a call goes through, the
\* overshoot is bounded by the callers and the checks Redis did not answer.
THEOREM OvershootTheorem == AiSpec => []OvershootBounded
BY OvershootOK, AiInitOK, AiStepOK, PTL DEF AiSpec

\* The invariant of the calls contains their type.
LEMMA AiTyped == AiInv => AiTypeOK
BY DEF AiInv, AiTypeOK, CallStates

-----------------------------------------------------------------------------
(* Egress                                                                  *)

EgressSpec == EgressInit /\ [][EgressNext]_egressVars

NetStates == [iface : {"absent", "down", "up"}, peer : {"live", "lost", "stale"}, route : BOOLEAN,
              rule : BOOLEAN, hijacked : BOOLEAN, chain : {"absent", "open", "closed"},
              attached : BOOLEAN, routes : SUBSET (Cidrs \cup {"default"})]

\* What the preflight of a scan found, each part as long as it has not broken.
Guarded ==
    /\ net.rule \/ "rule" \in faults
    /\ (net.route /\ net.iface = "up") \/ "interface" \in faults
    /\ (net.attached /\ net.chain = "closed") \/ "firewall" \in faults

EgressInv ==
    /\ kind \in {"vpn", "private"} /\ net \in NetStates
    /\ site \subseteq Cidrs \cup {"default"} /\ faults \subseteq Breakable
    /\ scan.st = "running" => proc = "serving"
    /\ "default" \notin net.routes
    /\ kind = "vpn" /\ scan.st = "running" => Guarded

\* The invariant holds at first.
LEMMA EgressInitOK == EgressInit => EgressInv
<1> SUFFICES ASSUME EgressInit PROVE EgressInv
  OBVIOUS
<1>1. Bare \in NetStates /\ Bare.routes = {}
  BY DEF Bare, NetStates
<1>2. NoScan.st = "none"
  BY DEF NoScan
<1> QED
  BY <1>1, <1>2 DEF EgressInit, EgressInv

\* A step of the set-up: no scan is running.
LEMMA SetupOK ==
    ASSUME EgressInv,
           \/ Start \/ SetupFails \/ FlushChain \/ AppendRules \/ AttachChain \/ BringUp
           \/ InstallRoute \/ InstallRule \/ SetupVerified
    PROVE  EgressInv'
<1>t. /\ kind \in {"vpn", "private"} /\ net \in NetStates
      /\ site \subseteq Cidrs \cup {"default"} /\ faults \subseteq Breakable
      /\ scan.st = "running" => proc = "serving"
      /\ "default" \notin net.routes
  BY DEF EgressInv
<1>1. proc # "serving" /\ UNCHANGED <<kind, site, scan, faults>>
  BY DEF Start, SetupFails, FlushChain, AppendRules, AttachChain, BringUp, InstallRoute, InstallRule,
         SetupVerified
<1>2. net' \in NetStates /\ "default" \notin net'.routes
  <2>1. CASE Start
    <3>1. Bare \in NetStates /\ Bare.routes = {}
      BY DEF Bare, NetStates
    <3> QED
      BY <1>t, <2>1, <3>1 DEF Start
  <2>2. CASE SetupFails \/ SetupVerified
    BY <1>t, <2>2 DEF SetupFails, SetupVerified
  <2>3. CASE FlushChain
    BY <1>t, <2>3 DEF FlushChain, NetStates
  <2>4. CASE AppendRules
    BY <1>t, <2>4 DEF AppendRules, NetStates
  <2>5. CASE AttachChain
    BY <1>t, <2>5 DEF AttachChain, NetStates
  <2>6. CASE BringUp
    <3> DEFINE r == IF kind = "private" THEN site ELSE net.routes
    <3>1. r \in SUBSET (Cidrs \cup {"default"}) /\ "default" \notin r
      BY <1>t, <2>6 DEF BringUp, build_allowed_ips, NetStates
    <3>2. PICK peer \in {"live", "stale"} : net' = [net EXCEPT !.iface = "up", !.peer = peer, !.routes = r]
      BY <2>6 DEF BringUp
    <3> HIDE DEF r
    <3> QED
      BY <1>t, <3>1, <3>2 DEF NetStates
  <2>7. CASE InstallRoute
    <3> DEFINE b == net.iface = "up"
    <3>1. b \in BOOLEAN /\ net' = [net EXCEPT !.route = b]
      BY <2>7 DEF InstallRoute
    <3> HIDE DEF b
    <3> QED
      BY <1>t, <3>1 DEF NetStates
  <2>8. CASE InstallRule
    BY <1>t, <2>8 DEF InstallRule, NetStates
  <2> QED
    BY <2>1, <2>2, <2>3, <2>4, <2>5, <2>6, <2>7, <2>8
<1> QED
  BY <1>t, <1>1, <1>2 DEF EgressInv

\* A scan begins behind a preflight that saw all three guards.
LEMMA PreflightOK ==
    ASSUME EgressInv, ScanStarts
    PROVE  EgressInv'
<1>1. kind = "vpn" => net.rule /\ net.route /\ net.iface = "up" /\ net.attached /\ net.chain = "closed"
  BY DEF ScanStarts, EgressHealthy, killswitch_active
<1>2. proc' = "serving" /\ UNCHANGED <<kind, net, site>> /\ faults' = {} /\ scan'.st = "running"
  BY DEF ScanStarts
<1> QED
  BY <1>1, <1>2 DEF EgressInv, Guarded

\* A fault during a scan takes away what it names and nothing else.
LEMMA FaultOK ==
    ASSUME EgressInv, NEW f \in Breakable, Fault(f)
    PROVE  EgressInv'
<1>t. /\ kind \in {"vpn", "private"} /\ net \in NetStates
      /\ site \subseteq Cidrs \cup {"default"} /\ faults \subseteq Breakable
      /\ "default" \notin net.routes
      /\ kind = "vpn" /\ scan.st = "running" => Guarded
  BY DEF EgressInv
<1>1. /\ proc = "serving" /\ net' = Breaks(f) /\ faults' = faults \cup {f}
      /\ UNCHANGED <<kind, proc, site, scan>>
  BY DEF Fault
<1>2. CASE f = "interface"
  <2>1. net' = [net EXCEPT !.iface = "down", !.route = FALSE, !.routes = {}]
    BY <1>1, <1>2 DEF Breaks
  <2>2. /\ net' \in NetStates /\ net'.rule = net.rule /\ net'.chain = net.chain /\ net'.attached = net.attached
        /\ "default" \notin net'.routes
    BY <1>t, <2>1 DEF NetStates
  <2> QED
    BY <1>t, <1>1, <1>2, <2>2 DEF EgressInv, Guarded
<1>3. CASE f = "peer"
  <2>1. net' = [net EXCEPT !.peer = "lost"]
    BY <1>1, <1>3 DEF Breaks
  <2>2. /\ net' \in NetStates /\ net'.rule = net.rule /\ net'.chain = net.chain /\ net'.attached = net.attached
        /\ net'.route = net.route /\ net'.iface = net.iface /\ net'.routes = net.routes
    BY <1>t, <2>1 DEF NetStates
  <2> QED
    BY <1>t, <1>1, <2>2 DEF EgressInv, Guarded
<1>4. CASE f = "rule"
  <2>1. net' = [net EXCEPT !.rule = FALSE]
    BY <1>1, <1>4 DEF Breaks
  <2>2. /\ net' \in NetStates /\ net'.chain = net.chain /\ net'.attached = net.attached
        /\ net'.route = net.route /\ net'.iface = net.iface /\ net'.routes = net.routes
    BY <1>t, <2>1 DEF NetStates
  <2> QED
    BY <1>t, <1>1, <1>4, <2>2 DEF EgressInv, Guarded
<1>5. CASE f = "firewall"
  <2>1. net' = [net EXCEPT !.chain = "open"]
    BY <1>1, <1>5 DEF Breaks
  <2>2. /\ net' \in NetStates /\ net'.rule = net.rule
        /\ net'.route = net.route /\ net'.iface = net.iface /\ net'.routes = net.routes
    BY <1>t, <2>1 DEF NetStates
  <2> QED
    BY <1>t, <1>1, <1>5, <2>2 DEF EgressInv, Guarded
<1>6. CASE f = "main"
  <2>1. net' = [net EXCEPT !.hijacked = TRUE]
    BY <1>1, <1>6 DEF Breaks
  <2>2. /\ net' \in NetStates /\ net'.rule = net.rule /\ net'.chain = net.chain /\ net'.attached = net.attached
        /\ net'.route = net.route /\ net'.iface = net.iface /\ net'.routes = net.routes
    BY <1>t, <2>1 DEF NetStates
  <2> QED
    BY <1>t, <1>1, <2>2 DEF EgressInv, Guarded
<1> QED
  BY <1>2, <1>3, <1>4, <1>5, <1>6 DEF Breakable

\* Every step keeps the invariant.
LEMMA EgressStepOK == EgressInv /\ [EgressNext]_egressVars => EgressInv'
<1> SUFFICES ASSUME EgressInv, [EgressNext]_egressVars PROVE EgressInv'
  OBVIOUS
<1>1. CASE UNCHANGED egressVars
  BY <1>1 DEF egressVars, EgressInv, Guarded
<1>2. CASE \/ Start \/ SetupFails \/ FlushChain \/ AppendRules \/ AttachChain \/ BringUp
           \/ InstallRoute \/ InstallRule \/ SetupVerified
  BY <1>2, SetupOK
<1>3. CASE ScanStarts
  BY <1>3, PreflightOK
<1>4. CASE ScanRefused \/ ScanEnds \/ Watch \/ Dies
  <2>1. /\ UNCHANGED <<kind, net, site>> /\ faults' \in {faults, {}}
        /\ (UNCHANGED <<scan, proc, faults>>) \/ scan'.st # "running"
    BY <1>4 DEF ScanRefused, ScanEnds, Watch, Dies, NoScan
  <2> QED
    BY <2>1 DEF EgressInv, Guarded
<1>5. CASE ExitIpExpires
  BY <1>5 DEF ExitIpExpires, EgressInv, Guarded
<1>6. CASE HandshakeAges
  <2>1. net' = [net EXCEPT !.peer = "stale"] /\ UNCHANGED <<kind, proc, site, scan, faults>>
    BY <1>6 DEF HandshakeAges
  <2>2. /\ net' \in NetStates /\ net'.rule = net.rule /\ net'.chain = net.chain /\ net'.attached = net.attached
        /\ net'.route = net.route /\ net'.iface = net.iface /\ net'.routes = net.routes
    BY <2>1 DEF NetStates, EgressInv
  <2> QED
    BY <2>1, <2>2 DEF EgressInv, Guarded
<1>7. ASSUME NEW f \in Breakable, Fault(f) PROVE EgressInv'
  BY <1>7, FaultOK
<1>8. ASSUME NEW c \in SUBSET (Cidrs \cup {"default"}), SiteChanges(c) PROVE EgressInv'
  BY <1>8 DEF SiteChanges, EgressInv, Guarded
<1> QED
  BY <1>1, <1>2, <1>3, <1>4, <1>5, <1>6, <1>7, <1>8 DEF EgressNext

\* Two things must be broken before traffic strays.
LEMMA ContainedOK == EgressInv => TrafficContained
<1> SUFFICES ASSUME EgressInv PROVE TrafficContained
  OBVIOUS
<1>1. NoDefaultRoute
  BY DEF EgressInv, NoDefaultRoute
<1>2. ASSUME kind = "vpn", scan.st = "running", Path = "direct" PROVE ~(Cardinality(faults) <= 1)
  <2>1. Guarded
    BY <1>2 DEF EgressInv
  <2>2. "firewall" \in faults
    BY <1>2, <2>1 DEF Guarded, Path
  <2>3. PICK f \in {"rule", "interface"} : f \in faults
    BY <1>2, <2>1 DEF Guarded, Path
  <2>4. IsFiniteSet(Breakable)
    <3>1. IsFiniteSet({}) BY FS_EmptySet
    <3>2. IsFiniteSet({} \cup {"interface"}) BY <3>1, FS_AddElement
    <3>3. IsFiniteSet(({} \cup {"interface"}) \cup {"peer"}) BY <3>2, FS_AddElement
    <3>4. IsFiniteSet((({} \cup {"interface"}) \cup {"peer"}) \cup {"rule"}) BY <3>3, FS_AddElement
    <3>5. IsFiniteSet(((({} \cup {"interface"}) \cup {"peer"}) \cup {"rule"}) \cup {"firewall"})
      BY <3>4, FS_AddElement
    <3>6. IsFiniteSet((((({} \cup {"interface"}) \cup {"peer"}) \cup {"rule"}) \cup {"firewall"}) \cup {"main"})
      BY <3>5, FS_AddElement
    <3>7. Breakable = (((({} \cup {"interface"}) \cup {"peer"}) \cup {"rule"}) \cup {"firewall"}) \cup {"main"}
      BY DEF Breakable
    <3> QED
      BY <3>6, <3>7
  <2>5. IsFiniteSet(faults)
    BY <2>4, FS_Subset DEF EgressInv
  <2>6. f # "firewall"
    BY <2>3
  <2> QED
    BY <2>2, <2>3, <2>5, <2>6, CardTwo
<1> QED
  BY <1>1, <1>2 DEF TrafficContained, OneFaultNeverLeaks

\* Whatever happens to the network of a worker and however its set-up was
\* interrupted before: one loss during a scan never sends the scan's traffic
\* over the platform's uplink, and no tunnel gets a default route.
THEOREM ContainedTheorem == EgressSpec => []TrafficContained
BY ContainedOK, EgressInitOK, EgressStepOK, PTL DEF EgressSpec

\* The cached exit address and the scan in hand: a scan is only ever given
\* networks of its site.
EgressTypes ==
    /\ exitip \in {"none", "vpn", "direct"}
    /\ scan \in [st : {"none", "running", "refused", "ended", "lost"}, cidrs : SUBSET Cidrs]

\* At first there is no scan.
LEMMA EgressTypesInit == EgressInit => EgressTypes
BY DEF EgressInit, EgressTypes, NoScan

\* A scan begins only after the preflight has refused the default route.
LEMMA EgressTypesStep == EgressInv /\ EgressTypes /\ [EgressNext]_egressVars => EgressTypes'
<1> SUFFICES ASSUME EgressInv, EgressTypes, [EgressNext]_egressVars PROVE EgressTypes'
  OBVIOUS
<1>o. observe_exit_ip \in {"none", "vpn", "direct"} /\ _exit_ip \in {"none", "vpn", "direct"}
  BY DEF observe_exit_ip, _exit_ip, EgressTypes, Path
<1>n. \A s \in {"none", "running", "refused", "ended", "lost"} :
        [NoScan EXCEPT !.st = s] \in [st : {"none", "running", "refused", "ended", "lost"}, cidrs : SUBSET Cidrs]
  BY DEF NoScan
<1>m. NoScan \in [st : {"none", "running", "refused", "ended", "lost"}, cidrs : SUBSET Cidrs]
  BY DEF NoScan
<1>1. CASE ScanStarts
  <2>1. kind = "private" => site \subseteq Cidrs
    <3>1. kind = "private" => build_allowed_ips(site)
      BY <1>1 DEF ScanStarts, TunnelHealthy, EgressInv
    <3> QED
      BY <3>1 DEF EgressInv, build_allowed_ips
  <2>2. scan' = [st |-> "running", cidrs |-> IF kind = "private" THEN site ELSE {}]
    BY <1>1 DEF ScanStarts
  <2>3. scan' \in [st : {"none", "running", "refused", "ended", "lost"}, cidrs : SUBSET Cidrs]
    BY <2>1, <2>2
  <2>4. exitip' \in {"none", "vpn", "direct"}
    BY <1>1, <1>o DEF ScanStarts, EgressTypes
  <2> QED
    BY <2>3, <2>4 DEF EgressTypes
<1>2. CASE ScanRefused \/ ScanEnds \/ Watch \/ Dies
  BY <1>2, <1>o, <1>n, <1>m DEF ScanRefused, ScanEnds, Watch, Dies, EgressTypes
<1>3. CASE Start \/ ExitIpExpires \/ SetupVerified
  BY <1>3, <1>o DEF Start, ExitIpExpires, SetupVerified, EgressTypes
<1>4. CASE \/ SetupFails \/ FlushChain \/ AppendRules \/ AttachChain \/ BringUp
           \/ InstallRoute \/ InstallRule \/ HandshakeAges
           \/ \E f \in Breakable : Fault(f)
           \/ \E c \in SUBSET (Cidrs \cup {"default"}) : SiteChanges(c)
           \/ UNCHANGED egressVars
  BY <1>4 DEF SetupFails, FlushChain, AppendRules, AttachChain, BringUp, InstallRoute, InstallRule,
              HandshakeAges, Fault, SiteChanges, egressVars, EgressTypes
<1> QED
  BY <1>1, <1>2, <1>3, <1>4 DEF EgressNext

\* Together these are the type of the component.
LEMMA EgressTyped == EgressInv /\ EgressTypes => EgressTypeOK
BY DEF EgressInv, EgressTypes, EgressTypeOK, NetStates

-----------------------------------------------------------------------------
(* Tenants                                                                 *)

TenantsSpec == TenantsInit /\ [][DailyNext(Beats) \/ DeletionNext]_tenantVars

Ops == {Idle} \cup [at : {"quota", "insert"}, kind : Kinds]
       \cup [at : {"schedule"}, what : {"create", "enable", "disable", "delete"}]
       \cup [at : {"claim"}, now : 0 .. MaxTime] \cup [at : {"request", "enqueue"}]

TenantTypes ==
    /\ ws \in [st : {"active", "deleting", "gone"}, plan : {"free", "enterprise"}]
    /\ holder \in Actors \cup {None}
    /\ used \in [Kinds -> Nat]
    /\ op \in [Actors -> Ops]
    /\ now \in 0 .. MaxTime
    /\ sched = None \/ sched \in [enabled : BOOLEAN, next : 0 .. MaxTime + 1]
    /\ fired \in [0 .. MaxTime + 1 -> Nat]

\* Who is about to insert holds the workspace row and has room in the plan.
RoomHeld ==
    \A a \in Actors : op[a].at = "insert" =>
        holder = a /\ (ws.st # "gone" => used[op[a].kind] < get_plan(op[a].kind))

\* What was dispatched is past, and the schedule has been moved beyond it; a
\* tick works with a time that is not in the future.
Occurrences ==
    /\ \A t \in 0 .. MaxTime + 1 : /\ fired[t] <= 1
                                   /\ fired[t] > 0 => t <= now /\ (sched # None => t < sched.next)
    /\ \A a \in Actors : op[a].at = "claim" => op[a].now <= now

TenantInv == TenantTypes /\ RoomHeld /\ Occurrences

\* The shape of what an actor is doing, by where it is.
LEMMA OpShapes ==
    ASSUME NEW x \in Ops
    PROVE  /\ x.at \in {"quota", "insert"} => x \in [at : {"quota", "insert"}, kind : Kinds]
           /\ x.at = "schedule" =>
                x \in [at : {"schedule"}, what : {"create", "enable", "disable", "delete"}]
           /\ x.at = "claim" => x \in [at : {"claim"}, now : 0 .. MaxTime]
           /\ x.at \in {"request", "enqueue"} => x \in [at : {"request", "enqueue"}]
BY DEF Ops, Idle

\* The limit of a plan is a number.
LEMMA PlanIsNat == ASSUME NEW k \in Kinds PROVE get_plan(k) \in Nat
BY LimitAssumption DEF get_plan, Kinds

\* The invariant holds at first.
LEMMA TenantsInitOK == TenantsInit => TenantInv
<1> SUFFICES ASSUME TenantsInit PROVE TenantInv
  OBVIOUS
<1>1. Idle \in Ops /\ Idle.at = "idle"
  BY DEF Idle, Ops
<1>2. TenantTypes
  BY <1>1, LimitAssumption DEF TenantsInit, TenantTypes
<1>3. RoomHeld
  BY <1>1 DEF TenantsInit, RoomHeld
<1>4. Occurrences
  BY <1>1, LimitAssumption DEF TenantsInit, Occurrences
<1> QED
  BY <1>2, <1>3, <1>4 DEF TenantInv

\* A step that leaves the rows, the schedule and the actors alone.
LEMMA NoRowsTouched ==
    ASSUME TenantInv, UNCHANGED <<rows, tick, op>>
    PROVE  TenantInv'
BY DEF TenantInv, TenantTypes, RoomHeld, Occurrences, rows, tick, get_plan

\* An actor moves on without having checked the quota, and may give the lock
\* back.
LEMMA MovesOn ==
    ASSUME TenantInv, NEW a \in Actors, NEW x \in Ops, op' = [op EXCEPT ![a] = x],
           UNCHANGED <<ws, used, tick>>, holder' \in {holder, Released(a)},
           x.at # "insert", x.at = "claim" => x.now <= now
    PROVE  TenantInv'
<1>1. /\ op' \in [Actors -> Ops] /\ op'[a] = x /\ \A b \in Actors : b # a => op'[b] = op[b]
      /\ UNCHANGED <<now, sched, fired>>
  BY DEF TenantInv, TenantTypes, tick
<1>2. TenantTypes'
  BY <1>1 DEF TenantInv, TenantTypes, Released
<1>3. RoomHeld'
  <2> SUFFICES ASSUME NEW b \in Actors, op'[b].at = "insert"
               PROVE  /\ op'[b] = op[b] /\ holder' = b
                      /\ ws.st # "gone" => used[op[b].kind] < get_plan(op[b].kind)
    BY DEF RoomHeld, get_plan
  <2>1. b # a /\ op'[b] = op[b]
    BY <1>1
  <2>2. holder = b /\ (ws.st # "gone" => used[op[b].kind] < get_plan(op[b].kind))
    BY <2>1 DEF TenantInv, RoomHeld
  <2>3. holder' = b
    BY <2>1, <2>2 DEF Released
  <2> QED
    BY <2>1, <2>2, <2>3
<1>4. Occurrences'
  BY <1>1 DEF TenantInv, Occurrences
<1> QED
  BY <1>2, <1>3, <1>4 DEF TenantInv

\* Nobody is about to insert while nobody holds the lock.
LEMMA UnlockedNoInsert ==
    ASSUME TenantInv, holder = None
    PROVE  \A a \in Actors : op[a].at # "insert"
BY LimitAssumption DEF TenantInv, RoomHeld, Actors

\* The quota is checked under the lock.
LEMMA QuotaOK ==
    ASSUME TenantInv, NEW a \in Actors, enforce_quota(a)
    PROVE  TenantInv'
<1> DEFINE x == [op[a] EXCEPT !.at = "insert"]
<1>0. op[a] \in [at : {"quota", "insert"}, kind : Kinds] /\ op[a] \in Ops
  BY OpShapes DEF enforce_quota, TenantInv, TenantTypes
<1>1. x \in Ops /\ x.kind = op[a].kind /\ op[a].kind \in Kinds
  BY <1>0 DEF Ops
<1>2. /\ op' = [op EXCEPT ![a] = x] /\ holder = None /\ holder' = a
      /\ UNCHANGED <<ws, used, now, sched, fired>> /\ ~_over(op[a].kind)
  BY DEF enforce_quota, _plan_for_update, tick
<1> HIDE DEF x
<1>3. op' \in [Actors -> Ops] /\ op'[a] = x /\ \A b \in Actors : b # a => op'[b] = op[b]
  BY <1>1, <1>2 DEF TenantInv, TenantTypes
<1>4. used[x.kind] < get_plan(x.kind)
  BY <1>1, <1>2, PlanIsNat DEF _over, TenantInv, TenantTypes
<1>5. TenantTypes'
  BY <1>2, <1>3 DEF TenantInv, TenantTypes
<1>6. RoomHeld'
  BY <1>2, <1>3, <1>4, UnlockedNoInsert DEF RoomHeld, get_plan
<1>7. Occurrences'
  <2>1. x.at = "insert"
    BY <1>0 DEF x
  <2> QED
    BY <1>2, <1>3, <2>1 DEF TenantInv, Occurrences
<1> QED
  BY <1>5, <1>6, <1>7 DEF TenantInv

\* The insert uses the room and gives the lock back.
LEMMA InsertOK ==
    ASSUME TenantInv, NEW a \in Actors, Insert(a)
    PROVE  /\ TenantInv'
           /\ \A k \in Kinds : used'[k] > used[k] => used'[k] <= get_plan(k)
<1> DEFINE j == op[a].kind
<1>0. j \in Kinds /\ op[a].at = "insert"
  BY OpShapes DEF Insert, TenantInv, TenantTypes
<1>1. /\ holder = a /\ used[j] < get_plan(j) /\ ws.st # "gone"
  BY <1>0 DEF Insert, TenantInv, RoomHeld
<1>2. /\ used' = [used EXCEPT ![j] = @ + 1] /\ holder' = None /\ op' = [op EXCEPT ![a] = Idle]
      /\ UNCHANGED <<ws, now, sched, fired>>
  BY <1>1 DEF Insert, Released, Ends, tick
<1> HIDE DEF j
<1>3. used' \in [Kinds -> Nat] /\ used'[j] = used[j] + 1 /\ \A k \in Kinds : k # j => used'[k] = used[k]
  BY <1>0, <1>2 DEF TenantInv, TenantTypes
<1>4. Idle \in Ops /\ Idle.at = "idle"
  BY DEF Idle, Ops
<1>5. op' \in [Actors -> Ops] /\ op'[a] = Idle /\ \A b \in Actors : b # a => op'[b] = op[b]
  BY <1>2, <1>4 DEF TenantInv, TenantTypes
<1>6. TenantTypes'
  BY <1>2, <1>3, <1>5 DEF TenantInv, TenantTypes
<1>7. \A b \in Actors : op'[b].at # "insert"
  BY <1>1, <1>4, <1>5 DEF TenantInv, RoomHeld
<1>8. Occurrences'
  BY <1>2, <1>4, <1>5 DEF TenantInv, Occurrences
<1>9. \A k \in Kinds : used'[k] > used[k] => used'[k] <= get_plan(k)
  BY <1>0, <1>1, <1>3, PlanIsNat DEF TenantInv, TenantTypes
<1> QED
  BY <1>6, <1>7, <1>8, <1>9 DEF TenantInv, RoomHeld

\* The workspace row changes while nobody holds it.
LEMMA RowWriteOK ==
    ASSUME TenantInv, NEW a \in Actors, NEW x \in Ops, op' = [op EXCEPT ![a] = x] \/ op' = op,
           x.at \notin {"insert", "claim"}, holder = None, UNCHANGED <<holder, now, fired>>,
           ws' \in [st : {"active", "deleting", "gone"}, plan : {"free", "enterprise"}],
           used' \in [Kinds -> Nat], sched' \in {sched, None}
    PROVE  TenantInv'
<1>1. op' \in [Actors -> Ops] /\ \A b \in Actors : op'[b] \in {x, op[b]}
  BY DEF TenantInv, TenantTypes
<1>2. TenantTypes'
  BY <1>1 DEF TenantInv, TenantTypes
<1>3. \A b \in Actors : op'[b].at # "insert"
  BY <1>1, UnlockedNoInsert
<1>4. Occurrences'
  BY <1>1 DEF TenantInv, Occurrences
<1> QED
  BY <1>2, <1>3, <1>4 DEF TenantInv, RoomHeld

\* Time passes, and a new month gives room.
LEMMA TickOK ==
    ASSUME TenantInv, Tick
    PROVE  TenantInv' /\ \A k \in Kinds : used'[k] <= used[k]
<1>1. /\ now' = now + 1 /\ now < MaxTime /\ UNCHANGED <<ws, holder, sched, fired, op>>
      /\ used' = [used EXCEPT !["scan"] = 0] \/ used' = used
  BY DEF Tick
<1>2. used' \in [Kinds -> Nat] /\ \A k \in Kinds : used'[k] <= used[k]
  <2>1. "scan" \in Kinds /\ used \in [Kinds -> Nat]
    BY LimitAssumption DEF TenantInv, TenantTypes, Kinds
  <2>2. CASE used' = [used EXCEPT !["scan"] = 0]
    BY <2>1, <2>2
  <2>3. CASE used' = used
    BY <2>1, <2>3
  <2> QED
    BY <1>1, <2>2, <2>3
<1>3. TenantTypes'
  BY <1>1, <1>2, LimitAssumption DEF TenantInv, TenantTypes
<1>4. RoomHeld'
  <2> SUFFICES ASSUME NEW b \in Actors, op[b].at = "insert"
               PROVE  holder = b /\ (ws.st # "gone" => used'[op[b].kind] < get_plan(op[b].kind))
    BY <1>1 DEF RoomHeld, get_plan
  <2>1. op[b].kind \in Kinds
    BY OpShapes DEF TenantInv, TenantTypes
  <2>2. used[op[b].kind] \in Nat /\ used'[op[b].kind] \in Nat /\ get_plan(op[b].kind) \in Nat
    BY <1>2, <2>1, PlanIsNat DEF TenantInv, TenantTypes
  <2> QED
    BY <1>2, <2>1, <2>2 DEF TenantInv, RoomHeld
<1>5. Occurrences'
  <2>1. \A b \in Actors : op[b].at = "claim" => op[b].now \in 0 .. MaxTime
    BY OpShapes DEF TenantInv, TenantTypes
  <2> QED
    BY <1>1, <2>1 DEF TenantInv, TenantTypes, Occurrences
<1> QED
  BY <1>2, <1>3, <1>4, <1>5 DEF TenantInv

\* The claim of a due occurrence: it had not been dispatched, and the next
\* one lies behind the time of the claim.
LEMMA ClaimOK ==
    ASSUME TenantInv, NEW b \in Beats, BeatClaim(b)
    PROVE  TenantInv'
<1>0. b \in Actors /\ Idle \in Ops /\ Idle.at = "idle"
  BY DEF Actors, Idle, Ops
<1>1. /\ op[b].at = "claim" /\ op[b].now \in 0 .. MaxTime /\ op[b].now <= now
      /\ UNCHANGED <<ws, holder, used, now>>
  BY <1>0, OpShapes DEF BeatClaim, TenantInv, TenantTypes, Occurrences, rows
<1>2. CASE ~StillDue(b)
  <2>1. op' = [op EXCEPT ![b] = Idle] /\ UNCHANGED <<ws, used, tick>> /\ holder' = holder
    BY <1>1, <1>2 DEF BeatClaim, Ends, tick
  <2> QED
    BY <1>0, <2>1, MovesOn
<1>3. CASE StillDue(b)
  <2> DEFINE n == sched.next
             m == op[b].now + 1
             x == [at |-> "quota", kind |-> "scan"]
  <2>1. sched # None /\ n <= op[b].now /\ sched \in [enabled : BOOLEAN, next : 0 .. MaxTime + 1]
    BY <1>3 DEF StillDue, TenantInv, TenantTypes
  <2>2. /\ fired' = [fired EXCEPT ![n] = @ + 1] /\ sched' = [sched EXCEPT !.next = m]
        /\ op' = [op EXCEPT ![b] = x]
    BY <1>3 DEF BeatClaim, compute_next_run
  <2>3. x \in Ops /\ x.at = "quota"
    BY LimitAssumption DEF Ops, Kinds
  <2>4. /\ n \in 0 .. MaxTime + 1 /\ m \in 0 .. MaxTime + 1 /\ n < m /\ n <= now /\ now \in 0 .. MaxTime
        /\ MaxTime \in Nat /\ fired \in [0 .. MaxTime + 1 -> Nat]
    <3>1. MaxTime \in Nat /\ now \in 0 .. MaxTime /\ fired \in [0 .. MaxTime + 1 -> Nat]
      BY LimitAssumption DEF TenantInv, TenantTypes
    <3>2. n \in 0 .. MaxTime + 1 /\ n <= op[b].now /\ op[b].now \in 0 .. MaxTime /\ op[b].now <= now
      BY <1>1, <2>1
    <3> DEFINE u == op[b].now
    <3> HIDE DEF n, u
    <3>3. n \in Int /\ u \in Int /\ now \in Int /\ 0 <= n /\ n <= MaxTime + 1 /\ n <= u /\ 0 <= u /\ u <= MaxTime
          /\ u <= now
      BY <3>1, <3>2 DEF u
    <3>4. m = u + 1
      BY DEF u
    <3> HIDE DEF m
    <3> QED
      BY <3>1, <3>3, <3>4
  <2>5. sched' \in [enabled : BOOLEAN, next : 0 .. MaxTime + 1] /\ sched'.next = m
    BY <2>1, <2>2, <2>4
  <2> HIDE DEF n, m, x
  <2>6. op' \in [Actors -> Ops] /\ op'[b] = x /\ \A a \in Actors : a # b => op'[a] = op[a]
    BY <1>0, <2>2, <2>3 DEF TenantInv, TenantTypes
  <2>7. /\ fired' \in [0 .. MaxTime + 1 -> Nat] /\ fired'[n] = fired[n] + 1
        /\ \A t \in 0 .. MaxTime + 1 : t # n => fired'[t] = fired[t]
    BY <2>2, <2>4
  <2>8. TenantTypes'
    BY <1>1, <2>5, <2>6, <2>7 DEF TenantInv, TenantTypes
  <2>9. RoomHeld'
    <3> SUFFICES ASSUME NEW a \in Actors, op'[a].at = "insert"
                 PROVE  /\ op'[a] = op[a] /\ holder = a
                        /\ ws.st # "gone" => used[op[a].kind] < get_plan(op[a].kind)
      BY <1>1 DEF RoomHeld, get_plan
    <3>1. op'[a] = op[a]
      BY <2>3, <2>6
    <3> QED
      BY <3>1 DEF TenantInv, RoomHeld
  <2>10. Occurrences'
    <3>1. ASSUME NEW t \in 0 .. MaxTime + 1
          PROVE  fired'[t] <= 1 /\ (fired'[t] > 0 => t <= now' /\ (sched' # None => t < sched'.next))
      <4>1. fired[t] \in Nat /\ fired[t] <= 1 /\ (fired[t] > 0 => t <= now /\ t < n)
        BY <2>1, <2>4 DEF TenantInv, Occurrences, n
      <4>2. CASE t = n
        BY <1>1, <2>4, <2>5, <2>7, <4>1, <4>2
      <4>3. CASE t # n
        BY <1>1, <2>4, <2>5, <2>7, <4>1, <4>3
      <4> QED
        BY <4>2, <4>3
    <3>2. \A a \in Actors : op'[a].at = "claim" => op'[a].now <= now'
      BY <1>1, <2>3, <2>6 DEF TenantInv, Occurrences
    <3> QED
      BY <3>1, <3>2 DEF Occurrences
  <2> QED
    BY <2>8, <2>9, <2>10 DEF TenantInv
<1> QED
  BY <1>2, <1>3

\* A schedule that is written anew comes due after everything dispatched.
LEMMA ScheduleOK ==
    ASSUME TenantInv, UNCHANGED <<rows, now, fired>>,
           \/ UNCHANGED op
           \/ \E a \in Actors : op' = [op EXCEPT ![a] = Idle],
           \/ sched' \in {sched, None}
           \/ \E e \in BOOLEAN : sched # None /\ sched' = [sched EXCEPT !.enabled = e]
           \/ \E e \in BOOLEAN : sched' = [enabled |-> e, next |-> now + 1]
    PROVE  TenantInv'
<1>1. UNCHANGED <<ws, holder, used, now, fired>>
  BY DEF rows
<1>2. op' \in [Actors -> Ops] /\ \A a \in Actors : op'[a] = Idle \/ op'[a] = op[a]
  <2>1. Idle \in Ops
    BY DEF Ops
  <2> QED
    BY <2>1 DEF TenantInv, TenantTypes
<1>3. Idle.at = "idle"
  BY DEF Idle
<1>4. now \in 0 .. MaxTime /\ MaxTime \in Nat
  BY LimitAssumption DEF TenantInv, TenantTypes
<1>5. /\ sched' = None \/ sched' \in [enabled : BOOLEAN, next : 0 .. MaxTime + 1]
      /\ sched' = None \/ (sched # None /\ sched'.next = sched.next) \/ sched'.next = now + 1
  <2>1. CASE sched' \in {sched, None}
    BY <2>1 DEF TenantInv, TenantTypes
  <2>2. CASE \E e \in BOOLEAN : sched # None /\ sched' = [sched EXCEPT !.enabled = e]
    BY <2>2 DEF TenantInv, TenantTypes
  <2>3. CASE \E e \in BOOLEAN : sched' = [enabled |-> e, next |-> now + 1]
    BY <1>4, <2>3
  <2> QED
    BY <2>1, <2>2, <2>3
<1>6. TenantTypes'
  BY <1>1, <1>2, <1>5 DEF TenantInv, TenantTypes
<1>7. RoomHeld'
  BY <1>1, <1>2, <1>3 DEF TenantInv, RoomHeld, get_plan
<1>8. Occurrences'
  BY <1>1, <1>2, <1>3, <1>4, <1>5 DEF TenantInv, Occurrences
<1> QED
  BY <1>6, <1>7, <1>8 DEF TenantInv

\* Every step keeps the invariant, and none takes a kind of row past the plan.
LEMMA TenantsStepOK ==
    ASSUME TenantInv, [DailyNext(Beats) \/ DeletionNext]_tenantVars
    PROVE  /\ TenantInv'
           /\ \A k \in Kinds : used'[k] > used[k] => used'[k] <= get_plan(k)
<1> DEFINE Fits == \A k \in Kinds : used'[k] > used[k] => used'[k] <= get_plan(k)
<1>i. Idle \in Ops /\ Idle.at = "idle"
  BY DEF Ops, Idle
<1>u. used' = used => Fits
  BY DEF TenantInv, TenantTypes
<1>1. CASE UNCHANGED tenantVars
  BY <1>1, <1>u, NoRowsTouched DEF tenantVars, rows
<1>2. ASSUME NEW a \in Actors, Creation(a) \/ Abort(a) PROVE TenantInv' /\ Fits
  <2>1. CASE enforce_quota(a)
    BY <2>1, <1>u, QuotaOK DEF enforce_quota
  <2>2. CASE Refused(a) \/ Abort(a)
    <3>1. /\ op' = [op EXCEPT ![a] = Idle] /\ UNCHANGED <<ws, used, tick>>
          /\ holder' \in {holder, Released(a)}
      BY <2>2 DEF Refused, Abort, Ends, rows
    <3> QED
      BY <3>1, <1>i, <1>u, MovesOn
  <2>3. CASE Insert(a)
    BY <2>3, InsertOK
  <2> QED
    BY <1>2, <2>1, <2>2, <2>3 DEF Creation
<1>3. ASSUME NEW c \in Clients PROVE c \in Actors
  BY DEF Actors
<1>4. ASSUME NEW c \in Clients, NEW k \in Kinds, CreateGate(c, k) PROVE TenantInv' /\ Fits
  <2> DEFINE x == [at |-> "quota", kind |-> k]
  <2>1. x \in Ops /\ x.at = "quota"
    BY DEF Ops
  <2>2. op' = [op EXCEPT ![c] = x] /\ UNCHANGED <<ws, used, tick>> /\ holder' = holder
    BY <1>4 DEF CreateGate, rows
  <2> HIDE DEF x
  <2> QED
    BY <1>3, <1>u, <2>1, <2>2, MovesOn
<1>5. ASSUME NEW c \in Clients, NEW tier \in {"free", "enterprise"}, set_plan(c, tier)
      PROVE  TenantInv' /\ Fits
  <2>1. /\ ws' \in [st : {"active", "deleting", "gone"}, plan : {"free", "enterprise"}]
        /\ holder = None /\ op' = op /\ sched' = sched /\ used' = used /\ UNCHANGED <<holder, now, fired>>
    BY <1>5 DEF set_plan, tick, TenantInv, TenantTypes
  <2>2. used' \in [Kinds -> Nat]
    BY <2>1 DEF TenantInv, TenantTypes
  <2> QED
    BY <1>3, <1>i, <1>u, <2>1, <2>2, RowWriteOK
<1>6. ASSUME NEW c \in Clients, NEW what \in {"create", "enable", "disable", "delete"}, ScheduleGate(c, what)
      PROVE  TenantInv' /\ Fits
  <2> DEFINE x == [at |-> "schedule", what |-> what]
  <2>1. x \in Ops /\ x.at = "schedule"
    BY DEF Ops
  <2>2. op' = [op EXCEPT ![c] = x] /\ UNCHANGED <<ws, used, tick>> /\ holder' = holder
    BY <1>6 DEF ScheduleGate, rows
  <2> HIDE DEF x
  <2> QED
    BY <1>3, <1>u, <2>1, <2>2, MovesOn
<1>7. ASSUME NEW c \in Clients, ScheduleWrite(c) PROVE TenantInv' /\ Fits
  <2>1. op' = [op EXCEPT ![c] = Idle] /\ UNCHANGED <<rows, now, fired>>
    BY <1>7 DEF ScheduleWrite, Ends
  <2>2. \/ sched' \in {sched, None}
        \/ \E e \in BOOLEAN : sched # None /\ sched' = [sched EXCEPT !.enabled = e]
        \/ \E e \in BOOLEAN : sched' = [enabled |-> e, next |-> now + 1]
    <3>1. CASE ws.st = "gone"
      BY <1>7, <3>1 DEF ScheduleWrite
    <3>2. CASE ws.st # "gone" /\ op[c].what = "create"
      BY <1>7, <3>2 DEF ScheduleWrite, compute_next_run
    <3>3. CASE ws.st # "gone" /\ op[c].what = "delete"
      BY <1>7, <3>3 DEF ScheduleWrite
    <3>4. CASE ws.st # "gone" /\ op[c].what \notin {"create", "delete"}
      <4> DEFINE e == op[c].what = "enable"
                 n == IF e THEN now + 1 ELSE sched.next
      <4>1. sched' = IF sched = None THEN None ELSE [sched EXCEPT !.enabled = e, !.next = n]
        BY <1>7, <3>4 DEF ScheduleWrite, compute_next_run
      <4>2. sched # None => sched \in [enabled : BOOLEAN, next : 0 .. MaxTime + 1]
        BY DEF TenantInv, TenantTypes
      <4>3. e \in BOOLEAN
        OBVIOUS
      <4>4. CASE sched = None
        BY <4>1, <4>4
      <4>5. CASE sched # None /\ e
        <5>1. n = now + 1 /\ sched' = [sched EXCEPT !.enabled = TRUE, !.next = n]
          BY <4>1, <4>5
        <5> HIDE DEF n, e
        <5>2. sched' = [enabled |-> TRUE, next |-> n]
          BY <5>1, <4>2, <4>5
        <5> QED
          BY <5>1, <5>2
      <4>6. CASE sched # None /\ ~e
        <5>1. n = sched.next /\ sched' = [sched EXCEPT !.enabled = FALSE, !.next = n]
          BY <4>1, <4>6
        <5> HIDE DEF n, e
        <5>2. sched' = [sched EXCEPT !.enabled = FALSE]
          BY <5>1, <4>2, <4>6
        <5> QED
          BY <5>2, <4>6
      <4> QED
        BY <4>4, <4>5, <4>6
    <3> QED
      BY <3>1, <3>2, <3>3, <3>4
  <2> QED
    BY <1>3, <1>u, <2>1, <2>2, ScheduleOK DEF rows
<1>8. ASSUME NEW b \in Beats, BeatSelect(b) \/ BeatClaim(b) PROVE TenantInv' /\ Fits
  <2>1. CASE BeatSelect(b)
    <3> DEFINE x == [at |-> "claim", now |-> now]
    <3>1. x \in Ops /\ x.at = "claim" /\ x.now <= now
      BY LimitAssumption DEF Ops, TenantInv, TenantTypes
    <3>2. op' = [op EXCEPT ![b] = x] /\ UNCHANGED <<ws, used, tick>> /\ holder' = holder /\ b \in Actors
      BY <2>1 DEF BeatSelect, rows, Actors
    <3> HIDE DEF x
    <3> QED
      BY <1>u, <3>1, <3>2, MovesOn
  <2>2. CASE BeatClaim(b)
    BY <2>2, <1>u, ClaimOK DEF BeatClaim, rows
  <2> QED
    BY <1>8, <2>1, <2>2
<1>9. CASE Tick
  <2>1. \A k \in Kinds : used'[k] <= used[k] /\ used[k] \in Nat /\ used'[k] \in Nat
    BY <1>9, TickOK DEF TenantInv, TenantTypes
  <2> QED
    BY <1>9, <2>1, TickOK
<1>10. ASSUME NEW s \in Scans, StartTool(s) \/ StoreEvidence(s) PROVE TenantInv' /\ Fits
  BY <1>10, <1>u, NoRowsTouched DEF StartTool, StoreEvidence, rows
<1>11. ASSUME NEW c \in Clients, RequestRead(c) \/ RequestEnqueue(c) PROVE TenantInv' /\ Fits
  <2>1. [at |-> "request"] \in Ops
    BY DEF Ops
  <2>2. PICK x \in {Idle, [at |-> "request"]} : op' = [op EXCEPT ![c] = x]
    BY <1>11 DEF RequestRead, RequestEnqueue, Ends
  <2>3. x \in Ops /\ x.at \in {"idle", "request"} /\ UNCHANGED <<ws, used, tick>> /\ holder' = holder
    BY <1>11, <1>i, <2>1 DEF RequestRead, RequestEnqueue, rows
  <2> QED
    BY <1>3, <1>u, <2>2, <2>3, MovesOn
<1>12. ASSUME NEW c \in Clients, RequestWrite(c) PROVE TenantInv' /\ Fits
  <2> DEFINE x == [op[c] EXCEPT !.at = "enqueue"]
  <2>1. op[c] \in [at : {"request", "enqueue"}]
    BY <1>3, <1>12, OpShapes DEF RequestWrite, TenantInv, TenantTypes
  <2>2. x \in Ops /\ x.at = "enqueue"
    BY <2>1 DEF Ops
  <2>3. /\ op' = [op EXCEPT ![c] = x] /\ holder = None /\ sched' = sched /\ used' = used
        /\ UNCHANGED <<holder, now, fired>>
        /\ ws' \in [st : {"active", "deleting", "gone"}, plan : {"free", "enterprise"}]
    BY <1>12 DEF RequestWrite, tick, TenantInv, TenantTypes
  <2>4. used' \in [Kinds -> Nat]
    BY <2>3 DEF TenantInv, TenantTypes
  <2> HIDE DEF x
  <2> QED
    BY <1>3, <1>u, <2>2, <2>3, <2>4, RowWriteOK
<1>13. ASSUME NEW d \in Deliveries, Deletion(d) \/ DeleteFails(d) \/ DeleteCrash(d) PROVE TenantInv' /\ Fits
  <2>1. CASE DeleteConverges(d) \/ _capture_storage_targets(d) \/ _cleanup_storage(d) \/ DeleteFails(d)
             \/ DeleteCrash(d)
    <3>1. UNCHANGED <<rows, tick, op>>
      BY <2>1 DEF DeleteConverges, _capture_storage_targets, _cleanup_storage, DeleteFails, DeleteCrash
    <3> QED
      BY <3>1, <1>u, NoRowsTouched DEF rows
  <2>2. CASE _deactivate_and_revoke(d)
    <3>1. /\ UNCHANGED <<rows, now, fired>> /\ op' = op
          /\ sched' \in {sched, None}
             \/ (\E e \in BOOLEAN : sched # None /\ sched' = [sched EXCEPT !.enabled = e])
      BY <2>2 DEF _deactivate_and_revoke
    <3> QED
      BY <3>1, <1>u, ScheduleOK DEF rows
  <2>3. CASE DeleteCommit(d)
    <3>1. /\ holder = None /\ UNCHANGED <<holder, now, fired>> /\ op' = op /\ sched' = None
          /\ ws' \in [st : {"active", "deleting", "gone"}, plan : {"free", "enterprise"}]
          /\ used' = [k \in Kinds |-> 0] /\ used' \in [Kinds -> Nat]
      BY <2>3 DEF DeleteCommit, TenantInv, TenantTypes
    <3>2. Fits
      BY <3>1 DEF TenantInv, TenantTypes
    <3>3. CASE Actors # {}
      BY <3>1, <3>2, <3>3, <1>i, RowWriteOK
    <3>4. CASE Actors = {}
      BY <3>1, <3>2, <3>4 DEF TenantInv, TenantTypes, RoomHeld, Occurrences
    <3> QED
      BY <3>3, <3>4
  <2> QED
    BY <1>13, <2>1, <2>2, <2>3 DEF Deletion
<1> QED
  BY <1>1, <1>2, <1>4, <1>5, <1>6, <1>7, <1>8, <1>9, <1>10, <1>11, <1>12, <1>13
  DEF DailyNext, DeletionNext, Actors

\* However many requests, ticks and deliveries of the deletion run at once, a
\* row is added only below the limit of the plan at that moment.
THEOREM QuotaTheorem == TenantsSpec => QuotaHeld
<1>1. TenantInv /\ [DailyNext(Beats) \/ DeletionNext]_tenantVars => TenantInv'
  BY TenantsStepOK
<1>2. TenantInv /\ [DailyNext(Beats) \/ DeletionNext]_tenantVars =>
        [\A k \in Kinds : used'[k] > used[k] => used'[k] <= get_plan(k)]_tenantVars
  BY TenantsStepOK
<1> QED
  BY <1>1, <1>2, TenantsInitOK, PTL DEF TenantsSpec, QuotaHeld

\* No occurrence was dispatched twice.
LEMMA OccurrenceOK == TenantInv => OccurrenceOnce
<1> SUFFICES ASSUME TenantInv PROVE OccurrenceOnce
  OBVIOUS
<1>1. DOMAIN fired = 0 .. MaxTime + 1
  BY DEF TenantInv, TenantTypes
<1> QED
  BY <1>1 DEF TenantInv, Occurrences, OccurrenceOnce

\* However the ticks overlap and the schedule is edited, no occurrence is
\* dispatched twice.
THEOREM OccurrenceTheorem == TenantsSpec => []OccurrenceOnce
<1>1. TenantInv /\ [DailyNext(Beats) \/ DeletionNext]_tenantVars => TenantInv'
  BY TenantsStepOK
<1> QED
  BY <1>1, OccurrenceOK, TenantsInitOK, PTL DEF TenantsSpec

TaskStates == [at : {"unsent", "queued", "quiet", "captured", "cleanup", "done", "failed"},
               tries : 0 .. MaxRetries, targets : SUBSET Scans]

\* The bounds of what is counted, and the deliveries of the deletion task.
TenantBounds ==
    /\ \A k \in Kinds : used[k] <= MaxRows
    /\ task \in [Deliveries -> TaskStates]

\* At first there are no rows and nothing was delivered.
LEMMA TenantBoundsInit == TenantsInit => TenantBounds
BY LimitAssumption DEF TenantsInit, TenantBounds, TaskStates

\* What happens to a delivery.
LEMMA TaskStepOK ==
    ASSUME TenantBounds, NEW d \in Deliveries,
           \/ _deactivate_and_revoke(d) \/ _capture_storage_targets(d) \/ DeleteConverges(d)
           \/ DeleteCommit(d) \/ _cleanup_storage(d) \/ DeleteFails(d) \/ DeleteCrash(d)
    PROVE  task' \in [Deliveries -> TaskStates]
<1>1. task[d] \in TaskStates /\ task \in [Deliveries -> TaskStates]
  BY DEF TenantBounds
<1>2. CASE _deactivate_and_revoke(d) \/ DeleteConverges(d) \/ DeleteCommit(d) \/ _cleanup_storage(d)
  <2>1. \E a \in {"quiet", "done", "cleanup"} : task' = [task EXCEPT ![d].at = a]
    BY <1>2 DEF _deactivate_and_revoke, DeleteConverges, DeleteCommit, _cleanup_storage
  <2> QED
    BY <1>1, <2>1 DEF TaskStates
<1>3. CASE _capture_storage_targets(d)
  <2> DEFINE T == {s \in Scans : scans[s] \notin {"none", "gone"}}
             m == [task[d] EXCEPT !.at = "captured", !.targets = T]
  <2>1. task' = [task EXCEPT ![d] = m]
    BY <1>1, <1>3 DEF _capture_storage_targets
  <2>2. T \in SUBSET Scans
    OBVIOUS
  <2> HIDE DEF T
  <2>3. m \in TaskStates
    BY <1>1, <2>2 DEF TaskStates
  <2> HIDE DEF m
  <2> QED
    BY <1>1, <2>1, <2>3
<1>4. CASE DeleteFails(d) \/ DeleteCrash(d)
  <2>1. PICK a \in {"queued", "failed"}, n \in 0 .. MaxRetries :
          task' = [task EXCEPT ![d] = [@ EXCEPT !.at = a, !.tries = n, !.targets = {}]]
    <3>1. CASE DeleteFails(d)
      <4> DEFINE a == IF task[d].tries < MaxRetries THEN "queued" ELSE "failed"
                 n == IF task[d].tries < MaxRetries THEN task[d].tries + 1 ELSE task[d].tries
      <4>1. task' = [task EXCEPT ![d] = [@ EXCEPT !.at = a, !.tries = n, !.targets = {}]]
        <5> DEFINE w == [task[d] EXCEPT !.at = IF task[d].tries < MaxRetries THEN "queued" ELSE "failed",
                                        !.tries = IF task[d].tries < MaxRetries THEN @ + 1 ELSE @,
                                        !.targets = {}]
                   v == [task[d] EXCEPT !.at = a, !.tries = n, !.targets = {}]
        <5>1. task' = [task EXCEPT ![d] = w]
          <6>1. task' = Retried(d)
            BY <3>1 DEF DeleteFails
          <6>2. Retried(d) = [task EXCEPT ![d] = w]
            BY <1>1, Zenon DEF Retried
          <6> QED
            BY <6>1, <6>2
        <5>2. v = w
          BY <1>1 DEF TaskStates
        <5> HIDE DEF w
        <5>3. task' = [task EXCEPT ![d] = v]
          BY <5>1, <5>2
        <5> QED
          BY <5>3
      <4>2. task[d].tries \in 0 .. MaxRetries /\ MaxRetries \in Nat
        BY <1>1, LimitAssumption DEF TaskStates
      <4>3. n \in 0 .. MaxRetries /\ a \in {"queued", "failed"}
        BY <4>2
      <4> QED
        BY <4>1, <4>3
    <3>2. CASE DeleteCrash(d)
      <4>1. task' = [task EXCEPT ![d] = [@ EXCEPT !.at = "queued", !.targets = {}]]
        BY <3>2 DEF DeleteCrash
      <4>2. [task[d] EXCEPT !.at = "queued", !.targets = {}]
              = [task[d] EXCEPT !.at = "queued", !.tries = task[d].tries, !.targets = {}]
        BY <1>1 DEF TaskStates
      <4>3. task[d].tries \in 0 .. MaxRetries
        BY <1>1 DEF TaskStates
      <4> QED
        BY <4>1, <4>2, <4>3
    <3> QED
      BY <1>4, <3>1, <3>2
  <2> DEFINE m == [task[d] EXCEPT !.at = a, !.tries = n, !.targets = {}]
  <2>2. m \in TaskStates /\ task' = [task EXCEPT ![d] = m]
    BY <1>1, <2>1 DEF TaskStates
  <2> HIDE DEF m
  <2> QED
    BY <1>1, <2>2
<1> QED
  BY <1>2, <1>3, <1>4

\* A row is added below the limit of the plan only.
LEMMA TenantBoundsStep ==
    TenantInv /\ TenantBounds /\ [DailyNext(Beats) \/ DeletionNext]_tenantVars => TenantBounds'
<1> SUFFICES ASSUME TenantInv, TenantBounds, [DailyNext(Beats) \/ DeletionNext]_tenantVars
             PROVE  TenantBounds'
  OBVIOUS
<1>t. /\ used \in [Kinds -> Nat] /\ task \in [Deliveries -> TaskStates] /\ MaxRows \in Nat
      /\ \A k \in Kinds : used[k] <= MaxRows
  BY LimitAssumption DEF TenantInv, TenantTypes, TenantBounds
<1>1. ASSUME NEW a \in Actors, Insert(a) PROVE TenantBounds'
  <2>1. PICK k \in Kinds : op[a].at = "insert" /\ k = op[a].kind
    <3>1. op[a] \in Ops /\ op[a].at = "insert"
      BY <1>1 DEF Insert, TenantInv, TenantTypes
    <3> QED
      BY <3>1, OpShapes
  <2>2. used[k] < get_plan(k)
    BY <1>1, <2>1 DEF Insert, TenantInv, RoomHeld
  <2>3. get_plan(k) <= MaxRows /\ get_plan(k) \in Nat
    BY <1>t, PlanIsNat, LimitAssumption DEF get_plan, Kinds
  <2>4. used' = [used EXCEPT ![k] = @ + 1] /\ task' = task
    BY <1>1, <2>1 DEF Insert, tear
  <2>5. used[k] \in Nat /\ used[k] + 1 <= MaxRows
    BY <1>t, <2>2, <2>3
  <2>6. \A j \in Kinds : used'[j] <= MaxRows
    BY <1>t, <2>4, <2>5
  <2> QED
    BY <1>t, <2>4, <2>6 DEF TenantBounds
<1>2. CASE Tick
  <2>1. PICK month \in BOOLEAN : used' = IF month THEN [used EXCEPT !["scan"] = 0] ELSE used
    BY <1>2 DEF Tick
  <2>2. \A j \in Kinds : used'[j] <= MaxRows
    BY <1>t, <2>1
  <2> QED
    BY <1>2, <1>t, <2>2 DEF Tick, tear, TenantBounds
<1>3. ASSUME NEW d \in Deliveries, Deletion(d) \/ DeleteFails(d) \/ DeleteCrash(d) PROVE TenantBounds'
  <2>1. task' \in [Deliveries -> TaskStates]
    BY <1>3, TaskStepOK DEF Deletion
  <2>2. used' = used \/ used' = [k \in Kinds |-> 0]
    BY <1>3 DEF Deletion, DeleteConverges, _deactivate_and_revoke, _capture_storage_targets, DeleteCommit,
                _cleanup_storage, DeleteFails, DeleteCrash, rows
  <2> QED
    BY <1>t, <2>1, <2>2 DEF TenantBounds
<1>4. ASSUME NEW c \in Clients, RequestEnqueue(c) PROVE TenantBounds'
  <2>1. PICK d \in Deliveries : task' = [task EXCEPT ![d].at = "queued"]
    BY <1>4 DEF RequestEnqueue
  <2>2. task' \in [Deliveries -> TaskStates]
    BY <1>t, <2>1 DEF TaskStates
  <2> QED
    BY <1>4, <1>t, <2>2 DEF RequestEnqueue, rows, TenantBounds
<1>5. ASSUME UNCHANGED <<used, task>> PROVE TenantBounds'
  BY <1>5, <1>t DEF TenantBounds
<1>6. CASE DailyNext(Beats)
  <2>1. CASE \E a \in Actors : Insert(a)
    BY <1>1, <2>1
  <2>2. CASE \/ \E a \in Actors : enforce_quota(a) \/ Refused(a) \/ Abort(a)
             \/ \E c \in Clients :
                   \/ \E k \in Kinds : CreateGate(c, k)
                   \/ \E tier \in {"free", "enterprise"} : set_plan(c, tier)
                   \/ \E what \in {"create", "enable", "disable", "delete"} : ScheduleGate(c, what)
                   \/ ScheduleWrite(c)
             \/ \E b \in Beats : BeatSelect(b) \/ BeatClaim(b)
             \/ \E s \in Scans : StartTool(s) \/ StoreEvidence(s)
    <3>1. UNCHANGED <<used, task>>
      BY <2>2 DEF enforce_quota, Refused, Abort, CreateGate, set_plan, ScheduleGate, ScheduleWrite,
                  BeatSelect, BeatClaim, StartTool, StoreEvidence, rows, tear
    <3> QED
      BY <1>5, <3>1
  <2> QED
    BY <1>2, <1>6, <2>1, <2>2 DEF DailyNext, Creation, Actors
<1>7. CASE DeletionNext
  <2>1. CASE \E c \in Clients : RequestRead(c) \/ RequestWrite(c)
    <3>1. UNCHANGED <<used, task>>
      BY <2>1 DEF RequestRead, RequestWrite, rows, tear
    <3> QED
      BY <1>5, <3>1
  <2> QED
    BY <1>3, <1>4, <1>7, <2>1 DEF DeletionNext
<1>8. CASE UNCHANGED tenantVars
  BY <1>5, <1>8 DEF tenantVars, rows, tear
<1> QED
  BY <1>6, <1>7, <1>8

\* Together these are the type of the component.
LEMMA TenantsTyped == TenantInv /\ TenantBounds => TenantsTypeOK
<1> SUFFICES ASSUME TenantInv, TenantBounds PROVE TenantsTypeOK
  OBVIOUS
<1>1. used \in [Kinds -> 0 .. MaxRows]
  BY LimitAssumption DEF TenantInv, TenantTypes, TenantBounds
<1>2. \A d \in Deliveries : task[d].tries \in 0 .. MaxRetries
  BY DEF TenantBounds, TaskStates
<1> QED
  BY <1>1, <1>2 DEF TenantInv, TenantTypes, TenantsTypeOK

-----------------------------------------------------------------------------
(* Engagement                                                              *)

EngagementSpec == EngagementInit /\ [][EngagementNext]_engagementVars

Outcomes == {"running", "completed", "partial", "failed", "abandoned_revoked"}
RunRows == [tool : AgentTools, status : Outcomes]

Working == {"loop", "deciding", "gate", "tool", "record", "phase", "confirm"}

AgentStates == [pc : {"idle", "returned", "gone"} \cup Working, step : Nat, ai : Nat, stall : Nat,
                round : Nat, already : SUBSET AgentTools, tool : AgentTools \cup {-1}, access : BOOLEAN,
                left : Nat, base : Nat, done : Seq(Outcomes)]

\* The tool whose run is stored while its step row is not.
InHand == IF agent.pc \in {"gate", "tool", "record"} THEN {agent.tool} ELSE {}

Explained(t) == \E j \in DOMAIN steps : steps[j].kind = "tool_run" /\ steps[j].tool = t

EngTypes ==
    /\ toolRuns \in Seq(RunRows) /\ steps \in Seq(StepRows) /\ agent \in AgentStates
    /\ engagement \in {"none", "running", "completed"}
    /\ engagement # "completed" => roe.rules.tier \in 0 .. 2

\* Without the row of the engagement nothing was begun, and a completed one is
\* left alone; a coroutine that has not begun knows nothing.
Begins ==
    /\ engagement = "none" => agent.pc \in {"idle", "gone"} /\ toolRuns = <<>> /\ steps = <<>>
    /\ engagement = "completed" => /\ agent.pc = "returned"
                                   /\ \A i \in DOMAIN toolRuns : Explained(toolRuns[i].tool)
    /\ agent.pc = "idle" => agent.step = 0 /\ agent.already = {}
    /\ agent.pc \in Working => engagement = "running"

\* What the coroutine has in memory accounts for the rows.
Accounted ==
    /\ \A i \in DOMAIN toolRuns : /\ toolRuns[i].tool \in agent.already \cup InHand
                                  /\ toolRuns[i].tool \in InHand \/ Explained(toolRuns[i].tool)
    /\ \A j \in DOMAIN steps : steps[j].kind = "tool_run" => steps[j].tool \in agent.already \ InHand
    /\ agent.pc \in {"gate", "tool"} => agent.tool \notin agent.already
    /\ agent.pc = "record" => agent.tool \in agent.already
    /\ agent.pc \in {"gate", "tool", "record"} => /\ agent.tool \in AgentTools /\ agent.step < MaxSteps
                                                  /\ Len(toolRuns) <= agent.step + 1
    /\ agent.pc = "deciding" => agent.step < MaxSteps
    /\ agent.pc \in {"loop", "deciding", "phase", "confirm"} => Len(toolRuns) <= agent.step

\* The rows themselves: one run and one step for a tool, within the ceiling,
\* and with the leave that intrusive work needs.
RowsOK ==
    /\ \A i, j \in DOMAIN toolRuns : toolRuns[i].tool = toolRuns[j].tool => i = j
    /\ Len(toolRuns) <= MaxSteps
    /\ \A i, j \in DOMAIN steps : /\ steps[i].kind = "tool_run" /\ steps[j].kind = "tool_run"
                                  /\ steps[i].tool = steps[j].tool
                                  => i = j
    /\ \A i \in DOMAIN toolRuns : TierOf[toolRuns[i].tool] = 2 => roe.rules.confirm
    /\ \A j \in DOMAIN steps : steps[j].kind = "exploit" =>
         /\ roe.rules.confirm /\ roe.rules.tier = 2
         /\ roe.approval => roe.approved

EngInv == EngTypes /\ Begins /\ (agent.pc \in Working => Accounted) /\ RowsOK

\* A row is appended to a table.
LEMMA AppendRow ==
    ASSUME NEW S, NEW s \in Seq(S), NEW e \in S
    PROVE  /\ Append(s, e) \in Seq(S) /\ Len(Append(s, e)) = Len(s) + 1 /\ Len(s) \in Nat
           /\ DOMAIN s = 1 .. Len(s) /\ DOMAIN Append(s, e) = 1 .. Len(s) + 1
           /\ Append(s, e)[Len(s) + 1] = e /\ \A i \in 1 .. Len(s) : Append(s, e)[i] = s[i]
OBVIOUS

\* The status of the last row is set.
LEMMA StatusSet ==
    ASSUME NEW rs \in Seq(RunRows), NEW st \in Outcomes
    PROVE  LET q == [rs EXCEPT ![Len(rs)].status = st] IN
           /\ q \in Seq(RunRows) /\ Len(q) = Len(rs) /\ DOMAIN q = DOMAIN rs
           /\ \A i \in DOMAIN rs : q[i].tool = rs[i].tool
<1> DEFINE n == Len(rs)
           z == [rs[n] EXCEPT !.status = st]
           q == [rs EXCEPT ![n] = z]
<1>1. DOMAIN rs = 1 .. n /\ n \in Nat
  OBVIOUS
<1>2. n \in 1 .. n => z \in RunRows /\ z.tool = rs[n].tool
  <2>1. n \in 1 .. n => rs[n] \in RunRows
    OBVIOUS
  <2> QED
    BY <2>1 DEF RunRows
<1>3. q = [rs EXCEPT ![Len(rs)].status = st]
  OBVIOUS
<1> HIDE DEF z, n
<1>4. DOMAIN q = 1 .. n /\ \A i \in 1 .. n : q[i] = IF i = n THEN z ELSE rs[i]
  BY <1>1
<1>5. \A i \in 1 .. n : q[i] \in RunRows /\ q[i].tool = rs[i].tool
  <2>1. \A i \in 1 .. n : rs[i] \in RunRows
    BY <1>1
  <2> QED
    BY <1>2, <1>4, <2>1
<1>6. q \in [1 .. n -> RunRows]
  BY <1>4, <1>5
<1> HIDE DEF q
<1>7. q \in Seq(RunRows) /\ Len(q) = n
  BY <1>1, <1>6
<1> QED
  BY <1>1, <1>3, <1>4, <1>5, <1>7 DEF n

\* The results a re-run takes over.
LEMMA Statuses ==
    ASSUME NEW rs \in Seq(RunRows)
    PROVE  [i \in DOMAIN rs |-> rs[i].status] \in Seq(Outcomes)
<1>1. DOMAIN rs = 1 .. Len(rs) /\ Len(rs) \in Nat
  OBVIOUS
<1>2. \A i \in 1 .. Len(rs) : rs[i] \in RunRows
  OBVIOUS
<1>3. \A i \in 1 .. Len(rs) : rs[i].status \in Outcomes
  BY <1>2 DEF RunRows
<1> QED
  BY <1>1, <1>3

\* What is offered to the model has not run.
LEMMA AvailableOK ==
    ASSUME NEW A, NEW t \in available_tools(A)
    PROVE  t \in AgentTools /\ t \notin A
BY DEF available_tools, resolve_capability

\* The invariant holds at first.
LEMMA EngagementInitOK == EngagementInit => EngInv
<1> SUFFICES ASSUME EngagementInit PROVE EngInv
  OBVIOUS
<1>1. agent = Unstarted /\ toolRuns = <<>> /\ steps = <<>> /\ engagement = "none" /\ roe \in RoE
  BY DEF EngagementInit
<1>2. Unstarted \in AgentStates /\ Unstarted.pc = "idle" /\ Unstarted.step = 0 /\ Unstarted.already = {}
  BY DEF Unstarted, AgentStates
<1>3. roe.rules.tier \in 0 .. 2
  BY <1>1 DEF RoE, from_config
<1>4. DOMAIN toolRuns = {} /\ DOMAIN steps = {} /\ Len(toolRuns) = 0 /\ MaxSteps \in Nat
      /\ toolRuns \in Seq(RunRows) /\ steps \in Seq(StepRows)
  BY <1>1, EngagementAssumption
<1>5. EngTypes
  BY <1>1, <1>2, <1>3, <1>4 DEF EngTypes
<1>6. Begins /\ agent.pc \notin Working
  BY <1>1, <1>2 DEF Begins, Working
<1>7. RowsOK
  BY <1>4 DEF RowsOK
<1> QED
  BY <1>5, <1>6, <1>7 DEF EngInv

\* The coroutine is not at work afterwards: it died, was taken away, or
\* begins anew.
LEMMA LeavesWork ==
    ASSUME EngInv, UNCHANGED <<roe, engagement, toolRuns, steps>>, agent' \in AgentStates,
           agent'.pc \in {"idle", "returned", "gone"},
           engagement = "none" => agent'.pc \in {"idle", "gone"},
           engagement = "completed" => agent'.pc = "returned",
           agent'.pc = "idle" => agent'.step = 0 /\ agent'.already = {}
    PROVE  EngInv'
BY DEF EngInv, EngTypes, Begins, RowsOK, Explained, Working

\* The coroutine goes on and writes nothing.
LEMMA GoesOn ==
    ASSUME EngInv, UNCHANGED <<roe, engagement, toolRuns, steps>>, agent' \in AgentStates,
           agent.pc \in Working, agent'.pc \in Working,
           agent'.already = agent.already, agent'.step = agent.step, agent'.tool = agent.tool,
           \/ agent.pc = "gate" /\ agent'.pc = "tool"
           \/ /\ agent.pc \in {"loop", "deciding", "phase", "confirm"}
              /\ agent'.pc \in {"loop", "deciding", "phase", "confirm"}
              /\ agent'.pc = "deciding" => agent.step < MaxSteps
    PROVE  EngInv'
<1>1. EngTypes /\ Begins /\ Accounted /\ RowsOK
  BY DEF EngInv
<1>2. EngTypes' /\ Begins' /\ RowsOK'
  BY <1>1 DEF EngTypes, Begins, RowsOK, Explained, Working
<1>3. InHand' = InHand
  BY DEF InHand
<1>4. Accounted'
  BY <1>1, <1>3 DEF Accounted, Explained
<1> QED
  BY <1>2, <1>4 DEF EngInv

\* The coroutine records a step that is not a tool run.
LEMMA RecordsOther ==
    ASSUME EngInv, UNCHANGED <<roe, engagement, toolRuns>>, agent' \in AgentStates,
           NEW e \in StepRows, steps' = Append(steps, e), e.kind # "tool_run",
           e.kind = "exploit" => /\ roe.rules.confirm /\ roe.rules.tier = 2
                                 /\ roe.approval => roe.approved,
           agent.pc \in {"loop", "deciding", "phase", "confirm"},
           agent'.pc \in {"loop", "phase", "confirm"},
           agent.already \subseteq agent'.already, agent.step <= agent'.step
    PROVE  EngInv'
<1>1. EngTypes /\ Begins /\ Accounted /\ RowsOK /\ agent.pc \in Working /\ agent'.pc \in Working
  BY DEF EngInv, Working
<1>2. /\ steps' \in Seq(StepRows) /\ DOMAIN steps = 1 .. Len(steps) /\ DOMAIN steps' = 1 .. Len(steps) + 1
      /\ Len(steps) \in Nat /\ steps'[Len(steps) + 1] = e
      /\ \A j \in DOMAIN steps : j \in DOMAIN steps' /\ steps'[j] = steps[j]
  BY <1>1, AppendRow DEF EngTypes
<1>3. \A j \in DOMAIN steps' : (j \in DOMAIN steps /\ steps'[j] = steps[j]) \/ steps'[j] = e
  BY <1>2
<1>4. InHand = {} /\ InHand' = {}
  BY DEF InHand
<1>5. \A t : Explained(t) => Explained(t)'
  BY <1>2 DEF Explained
<1>6. EngTypes' /\ Begins'
  BY <1>1, <1>2 DEF EngTypes, Begins, Working
<1>7. RowsOK'
  BY <1>1, <1>3 DEF RowsOK
<1>8. Accounted'
  <2>1. agent.step \in Nat /\ agent'.step \in Nat /\ Len(toolRuns) \in Nat
    BY <1>1 DEF EngTypes, AgentStates
  <2>2. Len(toolRuns)' <= agent'.step
    BY <1>1, <2>1 DEF Accounted
  <2>3. \A i \in DOMAIN toolRuns : toolRuns[i].tool \in agent'.already /\ Explained(toolRuns[i].tool)'
    BY <1>1, <1>4, <1>5 DEF Accounted
  <2>4. \A j \in DOMAIN steps' : steps'[j].kind = "tool_run" => steps'[j].tool \in agent'.already
    BY <1>1, <1>3, <1>4 DEF Accounted
  <2> QED
    BY <1>4, <2>2, <2>3, <2>4 DEF Accounted
<1> QED
  BY <1>6, <1>7, <1>8 DEF EngInv

\* The row of a new run is committed: the tool had not run before, and a step
\* remains for it.
LEMMA DecideToolOK ==
    ASSUME EngInv, NEW t \in AgentTools, DecideTool(t)
    PROVE  EngInv'
<1> DEFINE e == [tool |-> t, status |-> "running"]
<1>1. /\ EngTypes /\ Begins /\ RowsOK /\ Accounted /\ agent.pc = "deciding" /\ agent \in AgentStates
      /\ engagement = "running"
  BY DEF EngInv, DecideTool, Working, EngTypes, Begins
<1>2. /\ t \notin agent.already /\ assert_action_allowed(TierOf[t])
      /\ agent' = [agent EXCEPT !.pc = "gate", !.ai = @ + 1, !.tool = t]
      /\ toolRuns' = Append(toolRuns, e) /\ UNCHANGED <<roe, engagement, steps>>
  BY AvailableOK DEF DecideTool
<1>3. /\ agent' \in AgentStates /\ agent'.pc = "gate" /\ agent'.tool = t /\ agent'.step = agent.step
      /\ agent'.already = agent.already
  <2> DEFINE m == agent.ai + 1
  <2>1. m \in Nat
    BY <1>1 DEF AgentStates
  <2>2. agent' = [agent EXCEPT !.pc = "gate", !.ai = m, !.tool = t]
    BY <1>2
  <2> HIDE DEF m
  <2> QED
    BY <1>1, <2>1, <2>2 DEF AgentStates, Working
<1>4. e \in RunRows /\ e.tool = t
  BY DEF RunRows, Outcomes
<1> HIDE DEF e
<1>5. /\ toolRuns' \in Seq(RunRows) /\ DOMAIN toolRuns = 1 .. Len(toolRuns) /\ Len(toolRuns) \in Nat
      /\ DOMAIN toolRuns' = 1 .. Len(toolRuns) + 1 /\ Len(toolRuns') = Len(toolRuns) + 1
      /\ toolRuns'[Len(toolRuns) + 1] = e
      /\ \A i \in 1 .. Len(toolRuns) : toolRuns'[i] = toolRuns[i]
  BY <1>1, <1>2, <1>4, AppendRow DEF EngTypes
<1>6. InHand = {} /\ InHand' = {t}
  BY <1>1, <1>3 DEF InHand
<1>7. \A i \in DOMAIN toolRuns : toolRuns[i].tool \in agent.already /\ Explained(toolRuns[i].tool)
  BY <1>1, <1>6 DEF Accounted
<1>8. Len(toolRuns) <= agent.step /\ agent.step < MaxSteps /\ agent.step \in Nat /\ MaxSteps \in Nat
  BY <1>1, EngagementAssumption DEF Accounted, AgentStates
<1>9. EngTypes'
  BY <1>1, <1>2, <1>3, <1>5 DEF EngTypes
<1>10. Begins'
  BY <1>1, <1>2, <1>3 DEF Begins
<1>11. Accounted'
  <2>1. \A u : Explained(u)' = Explained(u)
    BY <1>2 DEF Explained
  <2>2. \A i \in DOMAIN toolRuns' : /\ toolRuns'[i].tool \in agent'.already \cup InHand'
                                    /\ toolRuns'[i].tool \in InHand' \/ Explained(toolRuns[i].tool)
    BY <1>3, <1>4, <1>5, <1>6, <1>7
  <2>3. \A i \in DOMAIN toolRuns' : toolRuns'[i].tool \in InHand' \/ Explained(toolRuns'[i].tool)
    BY <1>4, <1>5, <1>6, <1>7
  <2>4. \A j \in DOMAIN steps : steps[j].kind = "tool_run" => steps[j].tool \in agent'.already \ InHand'
    BY <1>1, <1>2, <1>3, <1>6 DEF Accounted
  <2>5. Len(toolRuns') <= agent'.step + 1
    BY <1>3, <1>5, <1>8
  <2>6. \A i \in DOMAIN toolRuns' : toolRuns'[i].tool \in InHand' \/ (Explained(toolRuns[i].tool)')
    BY <1>4, <1>5, <1>6, <1>7, <2>1
  <2> QED
    BY <1>2, <1>3, <1>8, <2>1, <2>2, <2>3, <2>4, <2>5, <2>6 DEF Accounted, Explained
<1>12. RowsOK'
  <2>1. \A i, j \in DOMAIN toolRuns' : toolRuns'[i].tool = toolRuns'[j].tool => i = j
    <3>1. \A i \in 1 .. Len(toolRuns) : toolRuns'[i].tool # t
      BY <1>2, <1>5, <1>7
    <3>2. toolRuns'[Len(toolRuns) + 1].tool = t
      BY <1>4, <1>5
    <3>3. \A i, j \in 1 .. Len(toolRuns) : toolRuns'[i].tool = toolRuns'[j].tool => i = j
      BY <1>1, <1>5 DEF RowsOK
    <3> QED
      BY <1>5, <3>1, <3>2, <3>3
  <2>2. Len(toolRuns') <= MaxSteps
    BY <1>5, <1>8
  <2>3. \A i \in DOMAIN toolRuns' : TierOf[toolRuns'[i].tool] = 2 => roe.rules.confirm
    <3>1. TierOf[t] = 2 => roe.rules.confirm
      BY <1>2 DEF assert_action_allowed
    <3>2. \A i \in 1 .. Len(toolRuns) : TierOf[toolRuns'[i].tool] = 2 => roe.rules.confirm
      BY <1>1, <1>5 DEF RowsOK
    <3> QED
      BY <1>4, <1>5, <3>1, <3>2
  <2> QED
    BY <1>1, <1>2, <2>1, <2>2, <2>3 DEF RowsOK
<1> QED
  BY <1>9, <1>10, <1>11, <1>12 DEF EngInv

\* The status of the run in hand is written.
LEMMA StatusOK ==
    ASSUME EngInv, NEW st \in Outcomes, toolRuns' = [toolRuns EXCEPT ![Len(toolRuns)].status = st],
           UNCHANGED <<roe, engagement, steps>>, agent' \in AgentStates, agent.pc \in {"gate", "tool"},
           \/ agent'.pc = "gone"
           \/ /\ agent'.pc = "record" /\ agent'.already = agent.already \cup {agent.tool}
              /\ agent'.tool = agent.tool /\ agent'.step = agent.step
    PROVE  EngInv'
<1>1. EngTypes /\ Begins /\ RowsOK /\ Accounted /\ engagement = "running"
  BY DEF EngInv, Working, Begins
<1>2. /\ toolRuns' \in Seq(RunRows) /\ Len(toolRuns') = Len(toolRuns) /\ DOMAIN toolRuns' = DOMAIN toolRuns
      /\ \A i \in DOMAIN toolRuns : toolRuns'[i].tool = toolRuns[i].tool
  BY <1>1, StatusSet DEF EngTypes
<1>3. EngTypes'
  BY <1>1, <1>2 DEF EngTypes
<1>4. Begins'
  BY <1>1, <1>2 DEF Begins, Working
<1>5. RowsOK'
  BY <1>1, <1>2 DEF RowsOK
<1>6. agent'.pc = "record" => Accounted'
  <2> SUFFICES ASSUME agent'.pc = "record" PROVE Accounted'
    OBVIOUS
  <2>1. InHand = {agent.tool} /\ InHand' = {agent.tool} /\ agent'.already = agent.already \cup {agent.tool}
        /\ agent'.tool = agent.tool /\ agent'.step = agent.step
    BY DEF InHand
  <2>2. \A i \in DOMAIN toolRuns : /\ toolRuns[i].tool \in agent'.already
                                   /\ toolRuns[i].tool \in InHand' \/ Explained(toolRuns[i].tool)
    BY <1>1, <2>1 DEF Accounted
  <2>3. \A j \in DOMAIN steps : steps[j].kind = "tool_run" => steps[j].tool \in agent'.already \ InHand'
    BY <1>1, <2>1 DEF Accounted
  <2> QED
    BY <1>1, <1>2, <2>1, <2>2, <2>3 DEF Accounted, Explained
<1> QED
  BY <1>3, <1>4, <1>5, <1>6 DEF EngInv, Working

\* The step row of the run in hand is committed.
LEMMA RecordToolOK ==
    ASSUME EngInv, RecordTool
    PROVE  EngInv'
<1> DEFINE e == [no |-> agent.step, kind |-> "tool_run", tool |-> agent.tool]
           n == agent.step + 1
<1>1. /\ EngTypes /\ Begins /\ RowsOK /\ Accounted /\ agent.pc = "record" /\ agent \in AgentStates
      /\ engagement = "running"
  BY DEF EngInv, RecordTool, Working, EngTypes, Begins
<1>2. /\ agent' = [agent EXCEPT !.pc = "loop", !.step = n, !.tool = -1]
      /\ steps' = Append(steps, e) /\ UNCHANGED <<roe, engagement, toolRuns>>
  BY DEF RecordTool, Recorded
<1>3. agent.step \in Nat /\ n \in Nat /\ n = agent.step + 1 /\ agent.tool \in AgentTools
  BY <1>1 DEF AgentStates, Accounted
<1>4. e \in StepRows /\ e.kind = "tool_run" /\ e.tool = agent.tool
  BY <1>3 DEF StepRows
<1> HIDE DEF e, n
<1>5. agent' \in AgentStates /\ agent'.pc = "loop" /\ agent'.step = n /\ agent'.already = agent.already
  BY <1>1, <1>2, <1>3 DEF AgentStates, Working
<1>6. /\ steps' \in Seq(StepRows) /\ DOMAIN steps = 1 .. Len(steps) /\ Len(steps) \in Nat
      /\ DOMAIN steps' = 1 .. Len(steps) + 1 /\ steps'[Len(steps) + 1] = e
      /\ \A j \in 1 .. Len(steps) : steps'[j] = steps[j]
  BY <1>1, <1>2, <1>4, AppendRow DEF EngTypes
<1>7. InHand = {agent.tool} /\ InHand' = {}
  BY <1>1, <1>5 DEF InHand
<1>8. \A j \in 1 .. Len(steps) : steps[j].kind = "tool_run" => steps[j].tool # agent.tool
  BY <1>1, <1>6, <1>7 DEF Accounted
<1>9. EngTypes'
  BY <1>1, <1>2, <1>5, <1>6 DEF EngTypes
<1>10. Begins'
  BY <1>1, <1>2, <1>5 DEF Begins
<1>11. Accounted'
  <2>2. \A i \in DOMAIN toolRuns : toolRuns[i].tool \in agent.already
    BY <1>1, <1>7 DEF Accounted
  <2>3. \A i \in DOMAIN toolRuns : Explained(toolRuns[i].tool)'
    <3> SUFFICES ASSUME NEW i \in DOMAIN toolRuns
                 PROVE  \E j \in DOMAIN steps' : steps'[j].kind = "tool_run" /\ steps'[j].tool = toolRuns[i].tool
      BY <1>2 DEF Explained
    <3>1. CASE toolRuns[i].tool = agent.tool
      BY <3>1, <1>4, <1>6
    <3>2. CASE toolRuns[i].tool # agent.tool
      <4>1. PICK j \in DOMAIN steps : steps[j].kind = "tool_run" /\ steps[j].tool = toolRuns[i].tool
        BY <3>2, <1>1, <1>7 DEF Accounted, Explained
      <4> QED
        BY <4>1, <1>6
    <3> QED
      BY <3>1, <3>2
  <2>4. Len(toolRuns) <= agent'.step
    BY <1>1, <1>3, <1>5 DEF Accounted
  <2>5. \A j \in DOMAIN steps' : steps'[j].kind = "tool_run" => steps'[j].tool \in agent.already
    BY <1>1, <1>4, <1>6, <1>7 DEF Accounted
  <2> QED
    BY <1>2, <1>5, <1>7, <2>2, <2>3, <2>4, <2>5 DEF Accounted
<1>12. RowsOK'
  <2>1. ASSUME NEW i \in DOMAIN steps', NEW j \in DOMAIN steps', steps'[i].kind = "tool_run",
               steps'[j].kind = "tool_run", steps'[i].tool = steps'[j].tool
        PROVE  i = j
    <3>1. CASE i = Len(steps) + 1 /\ j = Len(steps) + 1
      BY <3>1
    <3>2. CASE i \in 1 .. Len(steps) /\ j \in 1 .. Len(steps)
      BY <2>1, <3>2, <1>1, <1>6 DEF RowsOK
    <3>3. CASE i # j /\ Len(steps) + 1 \in {i, j}
      BY <2>1, <3>3, <1>4, <1>6, <1>8
    <3> QED
      BY <1>6, <3>1, <3>2, <3>3
  <2>2. \A j \in DOMAIN steps' : steps'[j].kind = "exploit" => j \in DOMAIN steps /\ steps'[j] = steps[j]
    BY <1>4, <1>6
  <2> QED
    BY <1>1, <1>2, <2>1, <2>2 DEF RowsOK
<1> QED
  BY <1>9, <1>10, <1>11, <1>12 DEF EngInv

\* A fresh engagement begins with empty tables, a finished one has explained
\* every run.
LEMMA BeginEndOK ==
    ASSUME EngInv, BeginFresh \/ Finish
    PROVE  EngInv'
<1>1. EngTypes /\ Begins /\ RowsOK /\ agent \in AgentStates /\ UNCHANGED <<roe, toolRuns, steps>>
  BY DEF EngInv, EngTypes, BeginFresh, Finish
<1>2. RowsOK'
  BY <1>1 DEF RowsOK
<1>3. CASE BeginFresh
  <2>1. /\ agent.pc = "idle" /\ engagement = "none" /\ engagement' = "running" /\ toolRuns = <<>> /\ steps = <<>>
        /\ agent.step = 0 /\ agent.already = {}
        /\ agent' = [agent EXCEPT !.pc = IF MaxRounds > 0 THEN "loop" ELSE "confirm"]
    BY <1>1, <1>3 DEF BeginFresh, Begins
  <2>2. /\ agent' \in AgentStates /\ agent'.pc \in {"loop", "confirm"}
        /\ agent'.step = 0 /\ agent'.already = {}
    <3> DEFINE p == IF MaxRounds > 0 THEN "loop" ELSE "confirm"
    <3>1. agent' = [agent EXCEPT !.pc = p] /\ p \in {"loop", "confirm"}
      BY <2>1
    <3> HIDE DEF p
    <3> QED
      BY <1>1, <2>1, <3>1 DEF AgentStates, Working
  <2>3. EngTypes' /\ Begins'
    BY <1>1, <2>1, <2>2 DEF EngTypes, Begins
  <2>4. Accounted'
    <3>1. DOMAIN toolRuns = {} /\ DOMAIN steps = {} /\ Len(toolRuns) = 0
      BY <2>1
    <3> QED
      BY <1>1, <2>2, <3>1 DEF Accounted
  <2> QED
    BY <1>2, <2>3, <2>4 DEF EngInv
<1>4. CASE Finish
  <2>1. /\ agent.pc = "confirm" /\ engagement' = "completed"
        /\ agent' = [agent EXCEPT !.pc = "returned", !.round = IF @ < MaxRounds THEN @ + 1 ELSE @]
    BY <1>4 DEF Finish
  <2>2. agent' \in AgentStates /\ agent'.pc = "returned"
    <3> DEFINE m == IF agent.round < MaxRounds THEN agent.round + 1 ELSE agent.round
    <3>1. m \in Nat
      BY <1>1 DEF AgentStates
    <3>2. agent' = [agent EXCEPT !.pc = "returned", !.round = m]
      BY <2>1
    <3> HIDE DEF m
    <3> QED
      BY <1>1, <3>1, <3>2 DEF AgentStates
  <2>3. \A i \in DOMAIN toolRuns : Explained(toolRuns[i].tool)
    BY <2>1 DEF EngInv, Accounted, InHand, Working
  <2>4. EngTypes'
    BY <1>1, <2>1, <2>2 DEF EngTypes
  <2>5. Begins'
    BY <1>1, <2>1, <2>2, <2>3 DEF Begins, Explained, Working
  <2> QED
    BY <1>2, <2>2, <2>4, <2>5 DEF EngInv, Working
<1> QED
  BY <1>3, <1>4

\* Every step of the coroutine keeps the invariant.
LEMMA AgentStepOK ==
    ASSUME EngInv, AgentStep \/ BudgetStop(TRUE)
    PROVE  EngInv'
<1>t. agent \in AgentStates /\ Unstarted \in AgentStates /\ Unstarted.pc = "idle" /\ toolRuns \in Seq(RunRows)
  BY DEF EngInv, EngTypes, Unstarted, AgentStates
<1>w. /\ agent.step \in Nat /\ agent.ai \in Nat /\ agent.stall \in Nat /\ agent.round \in Nat
      /\ agent.left \in Nat /\ agent.base \in Nat /\ agent.step + 1 \in Nat /\ agent.ai + 1 \in Nat
      /\ agent.tool \in AgentTools \cup {-1} /\ agent.already \in SUBSET AgentTools
  BY <1>t, SMTT(30) DEF AgentStates
<1>g. /\ [Unstarted EXCEPT !.pc = "gone"] \in AgentStates
      /\ [Unstarted EXCEPT !.pc = "gone"].pc = "gone"
  <2> HIDE DEF Unstarted
  <2> QED
    BY <1>t DEF AgentStates
<1>c. agent.pc \in Working => engagement = "running"
  BY DEF EngInv, Begins
<1>1. CASE BeginReuse
  <2> DEFINE d == [i \in DOMAIN toolRuns |-> toolRuns[i].status]
  <2>1. d \in Seq(Outcomes)
    BY <1>t, Statuses
  <2>2. /\ agent' = [agent EXCEPT !.pc = "returned", !.done = d] /\ engagement # "none"
        /\ UNCHANGED <<roe, engagement, toolRuns, steps>>
    BY <1>1 DEF BeginReuse
  <2> HIDE DEF d
  <2>3. agent' \in AgentStates /\ agent'.pc = "returned"
    BY <1>t, <2>1, <2>2 DEF AgentStates
  <2> QED
    BY <2>2, <2>3, LeavesWork
<1>2. CASE BeginFresh \/ Finish
  BY <1>2, BeginEndOK
<1>3. CASE LoopEnds \/ Ask \/ GateOpens
  <2>1. PICK p \in {"phase", "deciding", "tool"} :
           /\ agent' = [agent EXCEPT !.pc = p] /\ UNCHANGED <<roe, engagement, toolRuns, steps>>
           /\ p = "tool" => agent.pc = "gate"
           /\ p # "tool" => agent.pc = "loop"
           /\ p = "deciding" => agent.step < MaxSteps
    BY <1>3 DEF LoopEnds, Ask, GateOpens
  <2>2. /\ agent' \in AgentStates /\ agent'.pc = p /\ agent'.already = agent.already
        /\ agent'.step = agent.step /\ agent'.tool = agent.tool
    BY <1>t, <2>1 DEF AgentStates, Working
  <2> QED
    BY <2>1, <2>2, GoesOn DEF Working
<1>4. CASE LoopRevoked
  BY <1>4, <1>g, <1>c, LeavesWork DEF LoopRevoked, Working
<1>5. CASE BudgetStop(TRUE) \/ BudgetStop(FALSE) \/ DecideFinish
  <2> DEFINE e == [no |-> agent.step, kind |-> "finish", tool |-> -1]
             n == agent.step + 1
  <2>1. PICK m \in Nat : agent' = [agent EXCEPT !.pc = "phase", !.ai = m, !.step = n]
    <3>1. CASE DecideFinish
      BY <1>w, <3>1 DEF DecideFinish
    <3>2. CASE BudgetStop(TRUE) \/ BudgetStop(FALSE)
      <4>1. agent' = [agent EXCEPT !.pc = "phase", !.step = n]
        BY <3>2 DEF BudgetStop
      <4>2. agent' = [agent EXCEPT !.pc = "phase", !.ai = agent.ai, !.step = n]
        <5> HIDE DEF n
        <5> QED
          BY <1>t, <4>1 DEF AgentStates
      <4> QED
        BY <1>w, <4>2
    <3> QED
      BY <1>5, <3>1, <3>2
  <2>2. /\ steps' = Append(steps, e) /\ UNCHANGED <<roe, engagement, toolRuns>>
        /\ agent.pc \in {"loop", "deciding"}
    BY <1>5 DEF BudgetStop, DecideFinish, Recorded
  <2>3. e \in StepRows /\ e.kind = "finish"
    BY <1>w DEF StepRows
  <2>n. n \in Nat /\ agent.step <= n /\ "phase" \in Working
    BY <1>w DEF Working
  <2> HIDE DEF e, n
  <2>4. /\ agent' \in AgentStates /\ agent'.pc = "phase" /\ agent'.already = agent.already
        /\ agent'.step = n
    BY <1>t, <2>1, <2>n DEF AgentStates, Working
  <2> QED
    BY <2>2, <2>3, <2>4, <2>n, RecordsOther
<1>6. ASSUME NEW t \in AgentTools, DecideBlocked(t) PROVE EngInv'
  <2> DEFINE e == [no |-> agent.step, kind |-> "blocked", tool |-> t]
             n == agent.step + 1
             m == agent.ai + 1
             s == agent.already \cup {t}
  <2>1. agent' = [agent EXCEPT !.pc = "loop", !.ai = m, !.step = n, !.already = s]
    BY <1>6 DEF DecideBlocked
  <2>2. /\ steps' = Append(steps, e) /\ UNCHANGED <<roe, engagement, toolRuns>>
        /\ agent.pc = "deciding"
    BY <1>6 DEF DecideBlocked, Recorded
  <2>3. e \in StepRows /\ e.kind = "blocked"
    BY <1>w DEF StepRows
  <2>n. /\ n \in Nat /\ agent.step <= n /\ m \in Nat /\ s \in SUBSET AgentTools /\ agent.already \subseteq s
        /\ "loop" \in Working
    BY <1>w DEF Working
  <2> HIDE DEF e, n, m, s
  <2>4. /\ agent' \in AgentStates /\ agent'.pc = "loop" /\ agent'.already = s /\ agent'.step = n
    BY <1>t, <2>1, <2>n DEF AgentStates
  <2> QED
    BY <2>2, <2>3, <2>4, <2>n, RecordsOther
<1>7. ASSUME NEW t \in AgentTools, DecideTool(t) PROVE EngInv'
  BY <1>7, DecideToolOK
<1>8. CASE GateRefuses
  BY <1>8, <1>g, StatusOK DEF GateRefuses, Outcomes
<1>9. ASSUME NEW s \in {"completed", "partial", "failed"}, NEW f \in BOOLEAN, ToolEnds(s, f) PROVE EngInv'
  <2> DEFINE d == Append(agent.done, s)
             n == IF f THEN 0 ELSE agent.stall + 1
             a == agent.already \cup {agent.tool}
  <2>1. /\ agent' = [agent EXCEPT !.pc = "record", !.done = d, !.already = a, !.stall = n]
        /\ agent.pc = "tool" /\ UNCHANGED <<roe, engagement, steps>>
        /\ toolRuns' = [toolRuns EXCEPT ![Len(toolRuns)].status = s]
    BY <1>9 DEF ToolEnds
  <2>2. n \in Nat /\ s \in Outcomes
    BY <1>w DEF Outcomes
  <2>3. d \in Seq(Outcomes)
    BY <1>t, <2>2 DEF AgentStates
  <2>4. a \in SUBSET AgentTools
    BY <1>w, <2>1 DEF EngInv, Accounted, Working
  <2> HIDE DEF d, n, a
  <2>5. /\ agent' \in AgentStates /\ agent'.pc = "record" /\ agent'.already = a
        /\ agent'.tool = agent.tool /\ agent'.step = agent.step
    BY <1>t, <2>1, <2>2, <2>3, <2>4 DEF AgentStates, Working
  <2> QED
    BY <2>1, <2>2, <2>5, StatusOK DEF a
<1>10. CASE RecordTool
  BY <1>10, RecordToolOK
<1>11. CASE PhaseStart
  <2> DEFINE l == IF roe.rules.confirm THEN Confirmable ELSE 0
             b == agent.step
  <2>1. /\ agent' = [agent EXCEPT !.pc = "confirm", !.access = FALSE, !.base = b, !.left = l]
        /\ agent.pc = "phase" /\ UNCHANGED <<roe, engagement, toolRuns, steps>>
    BY <1>11 DEF PhaseStart
  <2>2. l \in Nat /\ b \in Nat
    BY <1>w, EngagementAssumption
  <2> HIDE DEF l, b
  <2>3. /\ agent' \in AgentStates /\ agent'.pc = "confirm" /\ agent'.already = agent.already
        /\ agent'.step = agent.step /\ agent'.tool = agent.tool
    BY <1>t, <2>1, <2>2 DEF AgentStates, Working
  <2> QED
    BY <2>1, <2>3, GoesOn DEF Working
<1>12. ASSUME NEW k \in {"approval_wait", "exploit", "blocked"}, NEW y \in BOOLEAN, ConfirmOne(k, y) PROVE EngInv'
  <2> DEFINE e == [no |-> agent.base, kind |-> k, tool |-> -1]
             l == agent.left - 1
             b == agent.base + 1
             z == agent.access \/ y
  <2>1. /\ agent' = [agent EXCEPT !.left = l, !.base = b, !.access = z]
        /\ steps' = Append(steps, e) /\ UNCHANGED <<roe, engagement, toolRuns>>
        /\ agent.pc = "confirm" /\ agent.left > 0
    BY <1>12 DEF ConfirmOne
  <2>2. l \in Nat /\ b \in Nat /\ z \in BOOLEAN
    BY <1>w, <2>1, SMTT(30)
  <2>3. e \in StepRows /\ e.kind = k
    BY <1>w DEF StepRows
  <2>4. k = "exploit" => /\ roe.rules.confirm /\ roe.rules.tier = 2
                         /\ roe.approval => roe.approved
    <3>1. roe.rules.tier \in 0 .. 2
      BY <1>c, <2>1 DEF EngInv, EngTypes, Working
    <3> QED
      BY <1>12, <3>1 DEF ConfirmOne, assert_action_allowed
  <2> HIDE DEF l, b, z, e
  <2>5. /\ agent' \in AgentStates /\ agent'.pc = "confirm" /\ agent'.already = agent.already
        /\ agent'.step = agent.step
    BY <1>t, <2>1, <2>2 DEF AgentStates
  <2> QED
    BY <1>w, <2>1, <2>3, <2>4, <2>5, RecordsOther
<1>13. CASE RoundAgain
  <2> DEFINE n == agent.round + 1
  <2>1. /\ agent' = [agent EXCEPT !.pc = "loop", !.round = n] /\ n \in Nat
        /\ agent.pc = "confirm" /\ UNCHANGED <<roe, engagement, toolRuns, steps>>
    BY <1>13, <1>w DEF RoundAgain
  <2> HIDE DEF n
  <2>3. /\ agent' \in AgentStates /\ agent'.pc = "loop" /\ agent'.already = agent.already
        /\ agent'.step = agent.step /\ agent'.tool = agent.tool
    BY <1>t, <2>1 DEF AgentStates, Working
  <2> QED
    BY <2>1, <2>3, GoesOn DEF Working
<1> QED
  BY <1>1, <1>2, <1>3, <1>4, <1>5, <1>6, <1>7, <1>8, <1>9, <1>10, <1>11, <1>12, <1>13 DEF AgentStep

\* Every step keeps the invariant.
LEMMA EngagementStepOK == EngInv /\ [EngagementNext]_engagementVars => EngInv'
<1> SUFFICES ASSUME EngInv, [EngagementNext]_engagementVars PROVE EngInv'
  OBVIOUS
<1>g. /\ Unstarted \in AgentStates /\ Unstarted.pc = "idle" /\ Unstarted.step = 0 /\ Unstarted.already = {}
  BY DEF Unstarted, AgentStates
<1>h. /\ [Unstarted EXCEPT !.pc = "gone"] \in AgentStates /\ [Unstarted EXCEPT !.pc = "gone"].pc = "gone"
  BY <1>g DEF AgentStates
<1>c. engagement = "completed" => agent.pc = "returned"
  BY DEF EngInv, Begins
<1>1. CASE AgentStep \/ BudgetStop(TRUE)
  BY <1>1, AgentStepOK
<1>2. CASE (\E w \in {"cancelled", "revoked"} : StopScan(w)) \/ UNCHANGED engagementVars
  <2>1. UNCHANGED <<roe, engagement, toolRuns, steps, agent>>
    BY <1>2 DEF StopScan, engagementVars
  <2> QED
    BY <2>1 DEF EngInv, EngTypes, Begins, Accounted, RowsOK, Explained, InHand
<1>3. CASE AgentDies
  BY <1>3, <1>h, <1>c, LeavesWork DEF AgentDies
<1>4. CASE Retry
  BY <1>4, <1>g, <1>c, LeavesWork DEF Retry
<1> QED
  BY <1>1, <1>2, <1>3, <1>4 DEF EngagementNext

\* The rows show no tool twice.
LEMMA RunOnceOK == EngInv => ToolsRunOnce
BY DEF EngInv, RowsOK, ToolsRunOnce, Launched

\* Over all rounds, crashes, revocations and re-runs of a scan no tool is
\* launched twice and none beyond the step ceiling, whatever the model says.
THEOREM RunOnceTheorem == EngagementSpec => []ToolsRunOnce
BY RunOnceOK, EngagementInitOK, EngagementStepOK, PTL DEF EngagementSpec

\* The step that explains a run is the only one.
LEMMA ExplainedOK == EngInv => RunsExplained
<1> SUFFICES ASSUME EngInv PROVE RunsExplained
  OBVIOUS
<1>1. ASSUME engagement = "completed", NEW i \in DOMAIN toolRuns
      PROVE  Cardinality({j \in DOMAIN steps : /\ steps[j].kind = "tool_run"
                                               /\ steps[j].tool = toolRuns[i].tool}) = 1
  <2>1. PICK j \in DOMAIN steps : steps[j].kind = "tool_run" /\ steps[j].tool = toolRuns[i].tool
    BY <1>1 DEF EngInv, Begins, Explained
  <2>2. {h \in DOMAIN steps : steps[h].kind = "tool_run" /\ steps[h].tool = toolRuns[i].tool} = {j}
    BY <2>1 DEF EngInv, RowsOK
  <2> QED
    BY <2>2, FS_Singleton
<1> QED
  BY <1>1 DEF RunsExplained, Launched, EngInv, RowsOK

\* An engagement that completed explains each of its runs by exactly one step,
\* and nothing intrusive was done without both opt-ins and the approval.
THEOREM ExplainedTheorem == EngagementSpec => []RunsExplained
BY ExplainedOK, EngagementInitOK, EngagementStepOK, PTL DEF EngagementSpec

\* Neither a scheduled occurrence nor a tool of an engagement is set off twice,
\* with tenants and engagements running beside each other.
THEOREM AtMostOnceTheorem == TenantsSpec /\ EngagementSpec => []AtMostOnce
<1>1. OccurrenceOnce /\ ToolsRunOnce => AtMostOnce
  BY DEF AtMostOnce
<1> QED
  BY <1>1, OccurrenceTheorem, RunOnceTheorem, PTL

\* What stopped the scan, its rules, and the rounds of its engagement.
EngScope ==
    /\ stop \in {"none", "cancelled", "revoked"} /\ roe.rules \in Rules
    /\ agent.round <= MaxRounds

\* The rules of an engagement are within those of the deployment.
LEMMA RulesOK == \A r \in RoE : r.rules \in Rules
<1>1. \A c \in 1..2, k \in 0..2, d \in BOOLEAN, o \in BOOLEAN : from_config(c, k, d, o) \in Rules
  BY DEF from_config, Rules
<1> QED
  BY <1>1 DEF RoE

\* There are rules of engagement.
LEMMA RoESome == RoE # {}
<1> DEFINE e == from_config(1, 0, TRUE, TRUE)
           S == {from_config(c, k, d, o) : c \in 1..2, k \in 0..2, d \in BOOLEAN, o \in BOOLEAN}
           b == [rules |-> e, approval |-> TRUE, approved |-> TRUE, active |-> TRUE]
<1>0. 1 \in 1..2 /\ 0 \in 0..2 /\ TRUE \in BOOLEAN
  OBVIOUS
<1>1. \E c \in 1..2, k \in 0..2, d \in BOOLEAN, o \in BOOLEAN : e = from_config(c, k, d, o)
  BY <1>0, Zenon
<1> HIDE DEF e
<1>2. e \in S
  BY <1>1
<1>3. \E r \in S, a \in BOOLEAN, h \in BOOLEAN, t \in BOOLEAN :
         b = [rules |-> r, approval |-> a, approved |-> h, active |-> t]
  <2> HIDE DEF S
  <2> QED
    BY <1>2, <1>0, Zenon
<1> HIDE DEF S, b
<1>4. b \in {[rules |-> r, approval |-> a, approved |-> h, active |-> t] :
               r \in S, a \in BOOLEAN, h \in BOOLEAN, t \in BOOLEAN}
  BY <1>3
<1> QED
  BY <1>4 DEF RoE, S

\* A coroutine begins with no round behind it.
LEMMA EngScopeInit == EngagementInit => EngScope
<1>1. Unstarted.round = 0 /\ 0 <= MaxRounds
  BY EngagementAssumption DEF Unstarted
<1> QED
  BY <1>1, RulesOK DEF EngagementInit, EngScope

\* Only the end of a round counts one, and only while one remains.
LEMMA EngScopeStep == EngInv /\ EngScope /\ [EngagementNext]_engagementVars => EngScope'
<1> SUFFICES ASSUME EngInv, EngScope, [EngagementNext]_engagementVars PROVE EngScope'
  OBVIOUS
<1>t. /\ agent \in AgentStates /\ agent.round \in Nat /\ MaxRounds \in Nat /\ agent.round <= MaxRounds
      /\ stop \in {"none", "cancelled", "revoked"} /\ roe.rules \in Rules
  BY EngagementAssumption DEF EngInv, EngTypes, AgentStates, EngScope
<1>u. Unstarted.round = 0 /\ [Unstarted EXCEPT !.pc = "gone"].round = 0
  BY DEF Unstarted
<1>d. DOMAIN agent = {"pc", "step", "ai", "stall", "round", "already", "tool", "access", "left", "base", "done"}
  BY <1>t DEF AgentStates
<1>1. CASE LoopRevoked \/ GateRefuses \/ AgentDies \/ Retry
  <2>1. /\ agent' = Unstarted \/ agent' = [Unstarted EXCEPT !.pc = "gone"]
        /\ roe' = roe /\ stop' \in {stop, "none"}
    BY <1>1 DEF LoopRevoked, GateRefuses, AgentDies, Retry
  <2>2. agent'.round = 0
    BY <1>u, <2>1
  <2>3. 0 <= MaxRounds
    BY <1>t
  <2> QED
    BY <1>t, <2>1, <2>2, <2>3 DEF EngScope
<1>2. CASE \E w \in {"cancelled", "revoked"} : StopScan(w)
  BY <1>2, <1>t DEF StopScan, EngScope
<1>3. CASE BeginReuse \/ BeginFresh \/ LoopEnds \/ BudgetStop(FALSE) \/ BudgetStop(TRUE) \/ Ask \/ DecideFinish
  <2>1. agent'.round = agent.round /\ UNCHANGED <<stop, roe>>
    BY <1>3, <1>d DEF BeginReuse, BeginFresh, LoopEnds, BudgetStop, Ask, DecideFinish
  <2> QED
    BY <1>t, <2>1 DEF EngScope
<1>4. CASE \/ \E t \in AgentTools : DecideBlocked(t) \/ DecideTool(t)
           \/ GateOpens
           \/ \E s \in {"completed", "partial", "failed"}, f \in BOOLEAN : ToolEnds(s, f)
           \/ RecordTool \/ PhaseStart
           \/ \E k \in {"approval_wait", "exploit", "blocked"}, y \in BOOLEAN : ConfirmOne(k, y)
  <2>1. agent'.round = agent.round /\ UNCHANGED <<stop, roe>>
    BY <1>4, <1>d DEF DecideBlocked, DecideTool, GateOpens, ToolEnds, RecordTool, PhaseStart, ConfirmOne
  <2> QED
    BY <1>t, <2>1 DEF EngScope
<1>5. CASE RoundAgain \/ Finish
  <2>1. UNCHANGED <<stop, roe>>
    BY <1>5 DEF RoundAgain, Finish
  <2>2. CASE RoundAgain
    <3>1. agent'.round = agent.round + 1 /\ agent.round + 1 < MaxRounds
      BY <2>2, <1>d DEF RoundAgain, AnotherRound
    <3> QED
      BY <1>t, <2>1, <3>1 DEF EngScope
  <2>3. CASE Finish
    <3>1. agent'.round = IF agent.round < MaxRounds THEN agent.round + 1 ELSE agent.round
      BY <2>3, <1>d DEF Finish
    <3> QED
      BY <1>t, <2>1, <3>1 DEF EngScope
  <2> QED
    BY <1>5, <2>2, <2>3
<1>6. CASE UNCHANGED engagementVars
  BY <1>6, <1>t DEF engagementVars, EngScope
<1> QED
  BY <1>1, <1>2, <1>3, <1>4, <1>5, <1>6 DEF EngagementNext, AgentStep

\* Together with the invariant of the rows this is the type.
LEMMA EngTyped == EngInv /\ EngScope => EngagementTypeOK
<1> SUFFICES ASSUME EngInv, EngScope PROVE EngagementTypeOK
  OBVIOUS
<1>1. toolRuns \in Seq(RunRows) /\ steps \in Seq(StepRows) /\ engagement \in {"none", "running", "completed"}
  BY DEF EngInv, EngTypes
<1>2. \A i \in DOMAIN toolRuns : toolRuns[i] \in RunRows
  BY <1>1
<1>3. \A i \in DOMAIN toolRuns : toolRuns[i].tool \in AgentTools
  BY <1>2 DEF RunRows
<1>4. \A i \in DOMAIN steps : steps[i] \in StepRows
  BY <1>1
<1> QED
  BY <1>1, <1>3, <1>4 DEF EngScope, EngagementTypeOK

-----------------------------------------------------------------------------
(* Sequences of targets                                                    *)

Distinct(s) == \A i, j \in DOMAIN s : i # j => s[i] # s[j]
IsSeq(s) == s \in Seq(ToSet(s))

\* A sequence is a function on the numbers up to its length.
LEMMA SeqIs ==
    ASSUME NEW s, IsSeq(s)
    PROVE  Len(s) \in Nat /\ DOMAIN s = 1 .. Len(s)
BY DEF IsSeq

\* A sequence of anything is one of its own elements.
LEMMA SeqTyped ==
    ASSUME NEW S, NEW s \in Seq(S)
    PROVE  IsSeq(s)
<1>1. Len(s) \in Nat /\ DOMAIN s = 1 .. Len(s) /\ s = [i \in 1 .. Len(s) |-> s[i]]
  OBVIOUS
<1>2. \A i \in 1 .. Len(s) : s[i] \in ToSet(s)
  BY <1>1 DEF ToSet
<1> QED
  BY <1>1, <1>2 DEF IsSeq

RankIn(I, i) == Cardinality({j \in I : j <= i})
PickIn(I, n) == CHOOSE i \in I : RankIn(I, i) = n

\* Of n positions, some one is the k-th, for every k up to n.
LEMMA RankOK ==
    ASSUME NEW I, IsFiniteSet(I), I \subseteq Nat
    PROVE  \A n \in 1 .. Cardinality(I) : PickIn(I, n) \in I /\ RankIn(I, PickIn(I, n)) = n
<1> DEFINE R == [i \in I |-> RankIn(I, i)]
           N == Cardinality(I)
<1>1. ASSUME NEW i \in I PROVE RankIn(I, i) \in 1 .. N
  <2> DEFINE A == {j \in I : j <= i}
  <2>1. IsFiniteSet(A) /\ Cardinality(A) \in Nat /\ Cardinality(A) <= N /\ N \in Nat
    BY FS_Subset, FS_CardinalityType
  <2>2. i \in A
    OBVIOUS
  <2>3. Cardinality(A) # 0
    BY <2>1, <2>2, FS_EmptySet
  <2> QED
    BY <2>1, <2>3 DEF RankIn
<1>2. ASSUME NEW i \in I, NEW j \in I, i < j PROVE RankIn(I, i) # RankIn(I, j)
  <2> DEFINE A == {k \in I : k <= i}
             B == {k \in I : k <= j}
  <2>1. IsFiniteSet(A) /\ IsFiniteSet(B)
    BY FS_Subset
  <2>0. i \in Nat /\ j \in Nat /\ \A k \in I : k \in Nat
    OBVIOUS
  <2>2. A \subseteq B
    <3> SUFFICES ASSUME NEW k \in I, k <= i PROVE k <= j
      OBVIOUS
    <3> QED
      BY <1>2, <2>0
  <2>4. j \in B /\ j \notin A
    BY <1>2, <2>0
  <2>3. Cardinality(A) # Cardinality(B)
    BY <2>1, <2>2, <2>4, FS_Subset
  <2> QED
    BY <2>3 DEF RankIn
<1>3. R \in Injection(I, 1 .. N)
  <2>1. R \in [I -> 1 .. N]
    BY <1>1
  <2>2. \A i, j \in I : R[i] = R[j] => i = j
    BY <1>2
  <2> QED
    BY <2>1, <2>2 DEF Injection, IsInjective
<1>4. IsFiniteSet(1 .. N) /\ Cardinality(1 .. N) = N
  BY FS_CardinalityType, FS_Interval
<1>5. R \in Surjection(I, 1 .. N)
  BY <1>3, <1>4, FS_Injection
<1>6. ASSUME NEW n \in 1 .. N PROVE \E i \in I : RankIn(I, i) = n
  BY <1>5 DEF Surjection
<1> QED
  BY <1>6 DEF PickIn

\* What At takes out of a sequence is a sequence of some of its elements,
\* different ones when those at the positions are different.
LEMMA AtOK ==
    ASSUME NEW s, IsSeq(s), NEW I \in SUBSET DOMAIN s
    PROVE  /\ IsSeq(At(s, I))
           /\ \A n \in DOMAIN At(s, I) : \E i \in I : At(s, I)[n] = s[i]
           /\ (\A i, j \in I : i # j => s[i] # s[j]) => Distinct(At(s, I))
<1>1. IsFiniteSet(I) /\ Cardinality(I) \in Nat /\ I \subseteq Nat
  <2>1. I \subseteq 1 .. Len(s) /\ Len(s) \in Int
    BY SeqIs
  <2>2. IsFiniteSet(1 .. Len(s))
    BY <2>1, FS_Interval
  <2> QED
    BY <2>1, <2>2, FS_Subset, FS_CardinalityType
<1>2. \A n \in 1 .. Cardinality(I) : PickIn(I, n) \in I /\ RankIn(I, PickIn(I, n)) = n
  BY <1>1, RankOK
<1>3. At(s, I) = [n \in 1 .. Cardinality(I) |-> s[PickIn(I, n)]]
  BY DEF At, PickIn, RankIn
<1>4. IsSeq(At(s, I))
  <2>1. \A n \in 1 .. Cardinality(I) : s[PickIn(I, n)] \in ToSet(s)
    BY <1>2 DEF ToSet
  <2>2. At(s, I) \in Seq(ToSet(s))
    BY <1>1, <1>3, <2>1
  <2> QED
    BY <2>2, SeqTyped
<1> QED
  BY <1>2, <1>3, <1>4 DEF Distinct

\* _dedupe returns every element once.
LEMMA DedupeOK ==
    ASSUME NEW s, IsSeq(s)
    PROVE  IsSeq(_dedupe(s)) /\ Distinct(_dedupe(s))
<1> DEFINE I == {i \in DOMAIN s : \A j \in DOMAIN s : s[j] = s[i] => i <= j}
<1>1. _dedupe(s) = At(s, I)
  BY DEF _dedupe, DedupeBy
<1>2. DOMAIN s \subseteq Nat
  BY SeqIs
<1>3. \A i, j \in I : i # j => s[i] # s[j]
  BY <1>2
<1> QED
  BY <1>1, <1>3, AtOK

\* Of two servers with one key the first stays, so none comes twice.
LEMMA BareOK ==
    ASSUME NEW s, IsSeq(s)
    PROVE  IsSeq(DedupeBy(_bare_host_dedupe_key, s)) /\ Distinct(DedupeBy(_bare_host_dedupe_key, s))
<1> DEFINE key(u) == _bare_host_dedupe_key(u)
           I == {i \in DOMAIN s : \A j \in DOMAIN s : key(s[j]) = key(s[i]) => i <= j}
<1>1. DedupeBy(_bare_host_dedupe_key, s) = At(s, I)
  BY DEF DedupeBy
<1>2. DOMAIN s \subseteq Nat
  BY SeqIs
<1> HIDE DEF key
<1>3. \A i, j \in I : i # j => s[i] # s[j]
  BY <1>2
<1> QED
  BY <1>1, <1>3, AtOK

\* What the filters of the runners leave.
LEMMA WhereOK ==
    ASSUME NEW s, IsSeq(s)
    PROVE  /\ \A type : IsSeq(Of(type, s))
           /\ IsSeq(Where(_root_is_fuzzable, s))
           /\ IsSeq(Where(LAMBDA f : f.source = "arjun", s))
           /\ IsSeq(Where(LAMBDA u : ~u.params, s))
           /\ IsSeq(Where(LAMBDA u : u.path # "static", s))
           /\ IsSeq(Resolvable(s))
BY AtOK DEF Of, Where, Resolvable

\* A filter does not make equal elements of different ones.
LEMMA WhereDistinct ==
    ASSUME NEW s, IsSeq(s), Distinct(s)
    PROVE  /\ Distinct(Where(LAMBDA u : u.path # "static", s))
           /\ Distinct(Resolvable(s))
<1>1. \A I \in SUBSET DOMAIN s : Distinct(At(s, I))
  <2> SUFFICES ASSUME NEW I \in SUBSET DOMAIN s PROVE Distinct(At(s, I))
    OBVIOUS
  <2>1. \A i, j \in I : i # j => s[i] # s[j]
    BY DEF Distinct
  <2> QED
    BY <2>1, AtOK
<1>2. /\ {i \in DOMAIN s : s[i].path # "static"} \in SUBSET DOMAIN s
      /\ {i \in DOMAIN s : s[i].host # "unresolvable"} \in SUBSET DOMAIN s
  OBVIOUS
<1> QED
  BY <1>1, <1>2 DEF Where, Resolvable

\* The targets of a list of findings.
LEMMA ValuesOK == ASSUME NEW fs, IsSeq(fs) PROVE IsSeq(ValuesOf(fs))
<1> DEFINE S == {Value(fs[i]) : i \in DOMAIN fs}
<1>1. Len(fs) \in Nat /\ DOMAIN fs = 1 .. Len(fs)
  BY SeqIs
<1>2. ValuesOf(fs) \in Seq(S)
  BY <1>1 DEF ValuesOf
<1> QED
  BY <1>2, SeqTyped

\* A prefix.
LEMMA FirstOK ==
    ASSUME NEW s, IsSeq(s), Distinct(s), NEW n \in Nat \ {0}
    PROVE  IsSeq(First(n, s)) /\ Distinct(First(n, s))
<1> DEFINE m == IF Len(s) < n THEN Len(s) ELSE n
<1>1. Len(s) \in Nat /\ DOMAIN s = 1 .. Len(s) /\ s \in Seq(ToSet(s))
  BY SeqIs DEF IsSeq
<1>2. m \in Nat /\ m <= Len(s)
  BY <1>1
<1>3. First(n, s) = SubSeq(s, 1, m)
  BY DEF First
<1> HIDE DEF m
<1>4. SubSeq(s, 1, m) \in Seq(ToSet(s)) /\ DOMAIN SubSeq(s, 1, m) = 1 .. m
      /\ \A i \in 1 .. m : SubSeq(s, 1, m)[i] = s[i]
  BY <1>1, <1>2
<1>5. Distinct(SubSeq(s, 1, m))
  <2> DEFINE t == SubSeq(s, 1, m)
  <2>1. DOMAIN t = 1 .. m /\ (\A i \in 1 .. m : t[i] = s[i] /\ i \in DOMAIN s)
    BY <1>1, <1>2, <1>4
  <2> HIDE DEF t
  <2>2. Distinct(t)
    BY <2>1 DEF Distinct
  <2> QED
    BY <2>2 DEF t
<1> QED
  BY <1>3, <1>4, <1>5, SeqTyped

Good(s) == IsSeq(s) /\ Distinct(s)

\* The single target a run falls back on.
LEMMA RootOK == ASSUME NEW h PROVE Good(<<Root(h)>>)
<1>1. <<Root(h)>> \in Seq({Root(h)}) /\ DOMAIN <<Root(h)>> = {1}
  OBVIOUS
<1> QED
  BY <1>1, SeqTyped DEF Good, Distinct

\* Two lists, one after the other.
LEMMA JoinOK ==
    ASSUME NEW a, NEW b, IsSeq(a), IsSeq(b)
    PROVE  IsSeq(a \o b)
<1> DEFINE A == ToSet(a)
           B == ToSet(b)
<1>1. a \in Seq(A \cup B) /\ b \in Seq(A \cup B)
  <2>1. a \in Seq(A) /\ b \in Seq(B)
    BY DEF IsSeq
  <2> HIDE DEF A, B
  <2> QED
    BY <2>1
<1>2. a \o b \in Seq(A \cup B)
  BY <1>1
<1> QED
  BY <1>2, SeqTyped

\* A list made of another one, element by element.
LEMMA RootsOK ==
    ASSUME NEW fs, IsSeq(fs)
    PROVE  IsSeq([i \in DOMAIN fs |-> Root(fs[i].host)])
<1> DEFINE S == {Root(fs[i].host) : i \in DOMAIN fs}
           r == [i \in DOMAIN fs |-> Root(fs[i].host)]
<1>1. Len(fs) \in Nat /\ DOMAIN fs = 1 .. Len(fs)
  BY SeqIs
<1>2. r \in Seq(S)
  BY <1>1
<1> HIDE DEF r
<1>3. IsSeq(r)
  BY <1>2, SeqTyped
<1> QED
  BY <1>3 DEF r

\* The URLs of a list without their parameters.
LEMMA BasesOK ==
    ASSUME NEW fs, IsSeq(fs)
    PROVE  IsSeq([i \in DOMAIN fs |-> [fs[i] EXCEPT !.params = FALSE]])
<1> DEFINE base(i) == [fs[i] EXCEPT !.params = FALSE]
           S == {base(i) : i \in DOMAIN fs}
           r == [i \in DOMAIN fs |-> base(i)]
<1>1. Len(fs) \in Nat /\ DOMAIN fs = 1 .. Len(fs)
  BY SeqIs
<1> HIDE DEF base
<1>2. r \in Seq(S)
  BY <1>1
<1> HIDE DEF r
<1>3. IsSeq(r)
  BY <1>2, SeqTyped
<1> QED
  BY <1>3 DEF r, base

\* Whatever was found before, a runner is given each of its targets once.
LEMMA TargetsOK ==
    ASSUME NEW tool \in Tools, NEW target, NEW prior \in Priors
    PROVE  Good(TargetsOf(tool, target, prior))
<1>1. IsSeq(prior)
  BY ToolAssumption DEF IsSeq
<1>2. \A type : IsSeq(Of(type, prior)) /\ IsSeq(ValuesOf(Of(type, prior)))
  BY <1>1, WhereOK, ValuesOK
<1>3. Good(http_service_urls(prior))
  BY <1>2, BareOK DEF http_service_urls, Good
<1>4. Good(discovered_port_urls(prior))
  BY <1>2, RootsOK, DedupeOK DEF discovered_port_urls, Good
<1>5. Good(web_targets(target, prior))
  BY <1>3, <1>4, RootOK DEF web_targets
<1>6. Good(content_discovery_targets(target, prior))
  <2> DEFINE usable == Where(_root_is_fuzzable, Of("http_service", prior))
  <2>1. IsSeq(usable)
    BY <1>2, WhereOK
  <2> HIDE DEF usable
  <2>2. Good(_dedupe(ValuesOf(usable)))
    BY <2>1, ValuesOK, DedupeOK DEF Good
  <2> QED
    BY <1>4, <2>2, RootOK DEF content_discovery_targets, usable
<1>7. Good(crawled_urls(prior))
  <2> DEFINE urls == Of("url", prior)
             byArjun == Where(LAMBDA f : f.source = "arjun", urls)
             arjun == ValuesOf(byArjun)
             params == Where(LAMBDA u : u.params /\ u \notin ToSet(arjun), ValuesOf(urls))
             rest == Where(LAMBDA u : ~u.params, ValuesOf(urls))
  <2>1. IsSeq(urls) /\ IsSeq(ValuesOf(urls))
    BY <1>2
  <2>2. crawled_urls(prior) = _dedupe(arjun \o params \o rest)
    BY DEF crawled_urls
  <2> HIDE DEF urls
  <2>3. IsSeq(byArjun)
    BY <2>1, WhereOK
  <2> HIDE DEF byArjun
  <2>4. IsSeq(arjun)
    BY <2>3, ValuesOK
  <2> HIDE DEF arjun
  <2>5. IsSeq(params)
    <3> DEFINE v == ValuesOf(urls)
               I == {i \in DOMAIN v : v[i].params /\ v[i] \notin ToSet(arjun)}
    <3>1. IsSeq(v) /\ I \in SUBSET DOMAIN v
      BY <2>1
    <3>2. params = At(v, I)
      BY DEF Where
    <3> HIDE DEF v, I, params
    <3> QED
      BY <3>1, <3>2, AtOK
  <2>6. IsSeq(rest)
    BY <2>1, WhereOK
  <2> HIDE DEF params, rest
  <2>7. IsSeq(arjun \o params \o rest)
    BY <2>4, <2>5, <2>6, JoinOK
  <2> QED
    BY <2>2, <2>7, DedupeOK DEF Good
<1>8. Good(param_discovery_targets(prior))
  <2> DEFINE urls == ValuesOf(Of("url", prior))
             bases == _dedupe([i \in DOMAIN urls |-> [urls[i] EXCEPT !.params = FALSE]])
  <2>1. param_discovery_targets(prior) = Where(LAMBDA u : u.path # "static", bases)
    BY DEF param_discovery_targets
  <2>2. IsSeq(urls)
    BY <1>2
  <2> HIDE DEF urls
  <2>3. IsSeq(bases) /\ Distinct(bases)
    BY <2>2, BasesOK, DedupeOK
  <2> HIDE DEF bases
  <2>4. IsSeq(Where(LAMBDA u : u.path # "static", bases))
    BY <2>3, WhereOK
  <2>5. Distinct(Where(LAMBDA u : u.path # "static", bases))
    BY <2>3, WhereDistinct
  <2> QED
    BY <2>1, <2>4, <2>5 DEF Good
<1>9. Good(_available_urls(target, prior))
  BY <1>5, <1>7 DEF _available_urls
<1>10. Good(_host_set(target, prior)) /\ Good(naabu_hosts(target, prior))
  <2>1. ASSUME NEW type PROVE Good(_dedupe(<<Root(target)>> \o [i \in DOMAIN Of(type, prior) |-> Root(Of(type, prior)[i].host)]))
    BY <1>2, RootsOK, RootOK, JoinOK, DedupeOK DEF Good
  <2>2. Good(_host_set(target, prior))
    BY <2>1 DEF _host_set
  <2> QED
    BY <2>1, <2>2 DEF naabu_hosts
<1>11. Good(_targets_and_ports(target, prior))
  BY <1>4, RootOK DEF _targets_and_ports
<1>12. \A s : Good(s) => Good(Resolvable(s)) /\ Good(First(MaxTargets, s))
  BY WhereOK, WhereDistinct, FirstOK, ToolAssumption DEF Good
<1>13. /\ Good(subfinder_run(target, prior)) /\ Good(amass_run(target, prior)) /\ Good(dnsx_run(target, prior))
       /\ Good(httpx_run(target, prior)) /\ Good(naabu_run(target, prior)) /\ Good(nmap_run(target, prior))
  BY <1>10, <1>11, <1>12, RootOK DEF subfinder_run, amass_run, dnsx_run, httpx_run, naabu_run, nmap_run
<1>14. /\ Good(whatweb_run(target, prior)) /\ Good(nuclei_run(target, prior))
       /\ Good(nuclei_dast_run(target, prior)) /\ Good(katana_run(target, prior))
       /\ Good(ffuf_run(target, prior)) /\ Good(arjun_run(target, prior))
  BY <1>5, <1>6, <1>8, <1>9, <1>12
     DEF whatweb_run, nuclei_run, nuclei_dast_run, katana_run, ffuf_run, arjun_run
<1> HIDE DEF Good
<1> QED
  BY <1>13, <1>14, ToolAssumption DEF TargetsOf

(* The output of a run is a fold over its children, the last one first.    *)
Newest(s) == CHOOSE x \in s : \A y \in s : x >= y
Numbers(n) == [c \in 1 .. n |-> c]
ReadOf(k, q, g, s) == IF s = {} THEN <<>> ELSE g[s \ {Newest(s)}] \o k[q[Newest(s)]]
ReadIn(k, q, S) == CHOOSE g : g = [s \in SUBSET S |-> ReadOf(k, q, g, s)]

\* Output is the value that fold has on all the children.
LEMMA OutputIs ==
    LET q == Numbers(Cardinality(Children)) IN Output = ReadIn(Documents, q, DOMAIN q)[DOMAIN q]
BY DEF Output, FoldLeft, MapThenFoldSet, Max, ReadIn, ReadOf, Newest, Numbers

\* The output is made of nothing but the children.
LEMMA OutputStays == job' = job /\ child' = child => Output' = Output
<1> SUFFICES ASSUME job' = job, child' = child PROVE Output' = Output
  OBVIOUS
<1>1. Children' = Children
  BY DEF Children
<1>2. Documents' = Documents
  BY <1>1 DEF Documents
<1> QED
  BY <1>1, <1>2 DEF Output, FoldLeft, MapThenFoldSet, Max

\* Two lists are empty when the one they make is.
LEMMA ConcatEmpty ==
    ASSUME NEW S, NEW a \in Seq(S), NEW b \in Seq(S), a \o b = <<>>
    PROVE  a = <<>> /\ b = <<>>
<1>1. Len(a \o b) = Len(a) + Len(b) /\ Len(a) \in Nat /\ Len(b) \in Nat /\ Len(a \o b) = 0
  OBVIOUS
<1> QED
  BY <1>1


\* A set of numbers that is not empty has a greatest one.
LEMMA NewestOK ==
    ASSUME NEW N \in Nat, NEW s \in SUBSET (1 .. N), s # {}
    PROVE  Newest(s) \in s
<1>1. IsFiniteSet(s) /\ Cardinality(s) \in Nat /\ s \subseteq Nat /\ Cardinality(s) # 0
  <2>1. IsFiniteSet(1 .. N)
    BY FS_Interval
  <2>2. IsFiniteSet(s) /\ Cardinality(s) \in Nat /\ Cardinality(s) # 0
    BY <2>1, FS_Subset, FS_CardinalityType, FS_EmptySet
  <2> QED
    BY <2>2
<1> DEFINE i == PickIn(s, Cardinality(s))
<1>2. i \in s /\ Cardinality({j \in s : j <= i}) = Cardinality(s)
  <2>1. Cardinality(s) \in 1 .. Cardinality(s)
    BY <1>1
  <2>2. i \in s /\ RankIn(s, i) = Cardinality(s)
    BY <1>1, <2>1, RankOK
  <2> QED
    BY <2>2 DEF RankIn
<1> HIDE DEF i
<1>3. {j \in s : j <= i} = s
  BY <1>1, <1>2, FS_Subset
<1>4. \A j \in s : i >= j
  BY <1>1, <1>2, <1>3
<1> QED
  BY <1>2, <1>4 DEF Newest

IsRead(k, q, S, g) == g = [s \in SUBSET S |-> ReadOf(k, q, g, s)]

\* The fold exists: extend it from the sets of at most n children to those
\* of at most n + 1.
LEMMA ReadExists ==
    ASSUME NEW k, NEW q, NEW N \in Nat
    PROVE  IsRead(k, q, 1 .. N, ReadIn(k, q, 1 .. N))
<1> DEFINE S == 1 .. N
           Upto(n) == {s \in SUBSET S : Cardinality(s) <= n}
           P == {n \in Nat : \E g : g = [s \in Upto(n) |-> ReadOf(k, q, g, s)]}
<1>s. IsFiniteSet(S)
  BY FS_Interval
<1>p. \A s \in SUBSET S : s # {} => Newest(s) \in s
  BY NewestOK
<1> HIDE DEF S
<1>1. \A s \in SUBSET S : IsFiniteSet(s) /\ Cardinality(s) \in Nat /\ Cardinality(s) <= Cardinality(S)
  BY <1>s, FS_Subset, FS_CardinalityType
<1>2. 0 \in P
  <2> DEFINE g == [s \in Upto(0) |-> <<>>]
  <2>1. \A s \in Upto(0) : s = {}
    BY <1>1, FS_EmptySet
  <2>2. \A s \in Upto(0) : ReadOf(k, q, g, s) = <<>>
    BY <2>1 DEF ReadOf
  <2>3. g = [s \in Upto(0) |-> ReadOf(k, q, g, s)]
    BY <2>2
  <2> HIDE DEF g, Upto
  <2> QED
    BY <2>3
<1>3. ASSUME NEW n \in Nat, n \in P PROVE n + 1 \in P
  <2>1. PICK g : g = [s \in Upto(n) |-> ReadOf(k, q, g, s)]
    BY <1>3
  <2> DEFINE h == [s \in Upto(n + 1) |-> ReadOf(k, q, g, s)]
  <2>2. ASSUME NEW s \in Upto(n + 1), s # {}
        PROVE  s \ {Newest(s)} \in Upto(n)
    <3>1. Newest(s) \in s
      BY <1>p, <2>2
    <3>2. Cardinality(s \ {Newest(s)}) = Cardinality(s) - 1
      BY <1>1, <3>1, FS_RemoveElement
    <3> QED
      BY <1>1, <3>1, <3>2
  <2>3. Upto(n) \subseteq Upto(n + 1)
    BY <1>1
  <2> HIDE DEF Upto
  <2>4. \A s \in Upto(n) : h[s] = g[s]
    BY <2>1, <2>3
  <2>5. ASSUME NEW s \in Upto(n + 1) PROVE ReadOf(k, q, g, s) = ReadOf(k, q, h, s)
    <3>1. s # {} => h[s \ {Newest(s)}] = g[s \ {Newest(s)}]
      BY <2>2, <2>4
    <3> HIDE DEF h
    <3> QED
      BY <3>1 DEF ReadOf
  <2>6. h = [s \in Upto(n + 1) |-> ReadOf(k, q, h, s)]
    BY <2>5, Zenon
  <2> HIDE DEF h
  <2>7. \E f : f = [s \in Upto(n + 1) |-> ReadOf(k, q, f, s)]
    BY <2>6
  <2>8. n + 1 \in Nat
    OBVIOUS
  <2> QED
    BY <2>7, <2>8
<1>4. Cardinality(S) \in P
  <2> HIDE DEF P
  <2>1. \A n \in Nat : n \in P
    BY <1>2, <1>3, EveryNumber
  <2> QED
    BY <1>s, <2>1, FS_CardinalityType
<1>5. Upto(Cardinality(S)) = SUBSET S
  BY <1>1
<1>6. \E g : g = [s \in SUBSET S |-> ReadOf(k, q, g, s)]
  BY <1>4, <1>5
<1> QED
  BY <1>6 DEF ReadIn, IsRead, S

\* What a child left is in the output.
LEMMA ReadOK ==
    ASSUME NEW k, NEW N \in Nat, \A c \in 1 .. N : k[c] \in Seq(Lines),
           ReadIn(k, Numbers(N), 1 .. N)[1 .. N] = <<>>
    PROVE  \A c \in 1 .. N : k[c] = <<>>
<1> DEFINE S == 1 .. N
           q == Numbers(N)
           L == ReadIn(k, q, S)
           Silent(T) == \A c \in T : k[c] = <<>>
           P == {T \in SUBSET S : L[T] \in Seq(Lines) /\ (L[T] = <<>> => Silent(T))}
<1>1. L = [s \in SUBSET S |-> ReadOf(k, q, L, s)]
  <2> HIDE DEF q
  <2>1. IsRead(k, q, 1 .. N, ReadIn(k, q, 1 .. N))
    BY ReadExists
  <2> QED
    BY <2>1 DEF IsRead
<1>2. \A T \in SUBSET S : T # {} => Newest(T) \in T
  BY NewestOK
<1>3. \A c \in S : q[c] = c
  BY DEF Numbers
<1>s. S \in SUBSET S /\ IsFiniteSet(S) /\ \A c \in S : k[c] \in Seq(Lines)
  BY FS_Interval
<1>0. L[S] = <<>>
  OBVIOUS
<1> HIDE DEF L, S, q
<1>4. ASSUME NEW T \in SUBSET S, T # {}
      PROVE  L[T] = L[T \ {Newest(T)}] \o k[Newest(T)]
  <2>1. L[T] = ReadOf(k, q, L, T)
    BY <1>1
  <2>2. q[Newest(T)] = Newest(T)
    BY <1>2, <1>3, <1>4
  <2> QED
    BY <2>1, <2>2, <1>4 DEF ReadOf
<1>5. L[{}] = <<>>
  BY <1>1 DEF ReadOf
<1>6. {} \in P
  <2>1. <<>> \in Seq(Lines) /\ {} \in SUBSET S /\ Silent({})
    OBVIOUS
  <2> QED
    BY <1>5, <2>1
<1>7. ASSUME NEW T \in SUBSET S, T # {}, T \ {Newest(T)} \in P PROVE T \in P
  <2> DEFINE a == L[T \ {Newest(T)}]
             b == k[Newest(T)]
  <2>1. a \in Seq(Lines) /\ b \in Seq(Lines) /\ Newest(T) \in T
    BY <1>2, <1>7, <1>s
  <2>2. L[T] = a \o b
    BY <1>4, <1>7
  <2>n. a = <<>> => Silent(T \ {Newest(T)})
    BY <1>7
  <2> HIDE DEF a, b
  <2>3. a \o b \in Seq(Lines) /\ (a \o b = <<>> => a = <<>> /\ b = <<>>)
    BY <2>1, ConcatEmpty
  <2>4. a \o b = <<>> => Silent(T)
    BY <2>3, <2>n DEF b
  <2> QED
    BY <2>2, <2>3, <2>4
<1>8. S \in P
  <2>1. \A T \in SUBSET S : T # {} => \E x \in T : T \ {x} \in P => T \in P
    BY <1>2, <1>7
  <2> HIDE DEF P
  <2> QED
    BY <1>s, <1>6, <2>1, EverySubset
<1> QED
  BY <1>0, <1>8 DEF S

-----------------------------------------------------------------------------
(* Tool runs                                                               *)

ToolSpec == ToolInit /\ [][ToolNext]_toolVars

ChildStates ==
    [st : {"none", "running", "exited", "killed", "stuck"}, code : {0, 1}, pipe : Seq(Lines),
     wrote : Nat, kept : Seq(Lines), whole : BOOLEAN, pump : {"on", "cut", "eof"},
     end : {"none", "ok", "limited", "timeout", "cancelled", "error", "skipped"}]

\* As long as a child is read, nothing it wrote is lost, and at the end of its
\* output all of it is kept; what ended stays as it is, and one that ended well
\* was read to the end.
ChildOK(j, k) ==
    /\ k.st = "none" => k.pipe = <<>> /\ k.wrote = 0 /\ k.kept = <<>>
    /\ k.end = "none" /\ k.pump # "cut" => k.wrote = Len(k.kept) + Len(k.pipe)
    /\ k.pump = "eof" => k.pipe = <<>>
    /\ j.tool = "arjun" => k.pipe = <<>>
    /\ k.end # "none" => k.st # "running"
    /\ k.end = "ok" => k.st = "exited" /\ k.wrote = Len(k.kept)
    /\ Len(k.pipe) <= 1 /\ Len(k.kept) + Len(k.pipe) <= k.wrote
    /\ j.tool = "katana" => Len(k.kept) <= Cap /\ (k.pump = "on" => Len(k.kept) < Cap)

\* The targets are given once, and a run that failed has nothing to show.
ToolInv ==
    /\ Good(job.targets)
    /\ run.pc \in {"running", "returned", "raised", "cancelled"}
    /\ run.pc = "returned" /\ run.status = "failed" => run.found = <<>> /\ Output = <<>>
    /\ DOMAIN child = Children
    /\ \A c \in Children : child[c] \in ChildStates /\ ChildOK(job, child[c])
    /\ run.pc = "returned" =>
          /\ \A c \in Children : child[c].end # "none"
          /\ run.status = "completed" /\ job.tool # "arjun" => \A c \in Children : Clean(c)

\* What is kept, and what the pipe holds of it.
LEMMA KeptOnly ==
    ASSUME NEW a \in Nat, NEW b \in Nat, NEW w \in Nat
    PROVE  a + b <= w => a <= w
OBVIOUS

LEMMA OneMore ==
    ASSUME NEW a \in Nat, NEW b \in Nat, NEW w \in Nat, b <= 1
    PROVE  (a < w => a + b <= w) /\ (a + 1 < w => a + b < w)
OBVIOUS

\* A step of one child that is still at work.
LEMMA ChildStep ==
    ASSUME ToolInv, NEW c \in Children, NEW k \in ChildStates, ChildOK(job, k),
           child' = [child EXCEPT ![c] = k], child[c].end = "none",
           UNCHANGED <<job, run>>
    PROVE  ToolInv'
<1>1. Children' = Children /\ DOMAIN child' = Children
  BY DEF ToolInv, Children
<1>2. \A d \in Children : child'[d] = IF d = c THEN k ELSE child[d]
  BY DEF ToolInv
<1>3. run.pc # "returned"
  BY DEF ToolInv
<1> QED
  BY <1>1, <1>2, <1>3 DEF ToolInv

\* A zero exit is reported for a run whose children are all clean.
LEMMA ZeroIsClean ==
    ASSUME ToolInv, RawToolOutput.exit = 0, job.tool # "arjun"
    PROVE  \A c \in Children : Clean(c)
<1>1. CASE Children = {}
  BY <1>1
<1>2. CASE Children # {} /\ job.tool \in {"katana", "ffuf"}
  <2>1. RawToolOutput.exit = aggregate_exit
    BY <1>2 DEF RawToolOutput
  <2> QED
    BY <2>1 DEF aggregate_exit
<1>3. CASE Children # {} /\ job.tool \notin {"katana", "ffuf"}
  <2>1. Children = {1}
    <3>1. job.tool \notin FanOut
      BY <1>3 DEF FanOut
    <3>2. job.targets # <<>>
      <4> SUFFICES ASSUME job.targets = <<>> PROVE FALSE
        OBVIOUS
      <4>1. Children = DOMAIN <<>>
        BY <3>1 DEF Children
      <4> QED
        BY <4>1, <1>3
    <3> QED
      BY <3>1, <3>2 DEF Children
  <2>2. RawToolOutput.exit = IF child[1].end = "ok" THEN child[1].code ELSE -1
    BY <1>3 DEF RawToolOutput
  <2>3. child[1].end = "ok" /\ child[1].code = 0
    BY <2>2
  <2> QED
    BY <2>1, <2>3 DEF Clean
<1> QED
  BY <1>1, <1>2, <1>3

\* One child writes, exits, is read, is ended.
LEMMA ChildActionOK ==
    ASSUME ToolInv, NEW c \in Children,
           \/ \E l \in Lines : Write(c, l) \/ WriteFile(c, l)
           \/ CloseFile(c)
           \/ Spawn(c) \/ SpawnFails(c) \/ Drain(c) \/ RssLimit(c) \/ EndOfOutput(c) \/ WaitEnds(c)
           \/ \E code \in {0, 1} : Exit(c, code)
           \/ \E s \in {"killed", "stuck"} : LimitReached(c, s) \/ TimesOut(c, s) \/ CancelChild(c, s)
    PROVE  ToolInv'
<1> DEFINE k == child[c]
<1>t. k \in ChildStates /\ ChildOK(job, k) /\ c \in DOMAIN child
  BY DEF ToolInv
<1>f. /\ k.wrote \in Nat /\ k.pipe \in Seq(Lines) /\ k.kept \in Seq(Lines) /\ Len(k.kept) \in Nat
      /\ Len(k.pipe) \in Nat
  BY <1>t DEF ChildStates
<1>1. ASSUME NEW l \in Lines, Write(c, l) PROVE ToolInv'
  <2> DEFINE n == k.wrote + 1
             o == <<l>>
             m == [k EXCEPT !.pipe = o, !.wrote = n]
  <2>1. /\ child' = [child EXCEPT ![c] = m] /\ k.st = "running" /\ k.pipe = <<>> /\ UNCHANGED <<job, run>>
        /\ job.tool # "arjun" /\ k.pump # "eof"
    BY <1>1, <1>t DEF Write, Writes
  <2>2. n \in Nat /\ o \in Seq(Lines) /\ Len(o) = 1 /\ n = k.wrote + 1 /\ Len(k.pipe) = 0
    BY <1>f, <2>1
  <2> HIDE DEF n, o
  <2>3. m \in ChildStates
    BY <1>t, <2>2 DEF ChildStates
  <2>m. ChildOK(job, m)
    <3>1. m.st = "running" /\ m.pipe = o /\ m.wrote = n /\ m.kept = k.kept /\ m.pump = k.pump /\ m.end = k.end
      BY <1>t, <2>1 DEF ChildStates
    <3>2. /\ k.end = "none" /\ k.pump # "cut" => k.wrote = Len(k.kept) + Len(k.pipe)
          /\ k.end = "none"
      BY <1>t, <2>1 DEF ChildOK
    <3>3. k.pump # "cut" => n = Len(k.kept) + Len(o)
      BY <1>f, <2>2, <3>2
    <3>4. /\ Len(o) <= 1 /\ Len(k.kept) + Len(o) <= n
          /\ job.tool = "katana" => Len(k.kept) <= Cap /\ (k.pump = "on" => Len(k.kept) < Cap)
      <4>1. /\ Len(k.kept) + Len(k.pipe) <= k.wrote
            /\ job.tool = "katana" => Len(k.kept) <= Cap /\ (k.pump = "on" => Len(k.kept) < Cap)
        BY <1>t DEF ChildOK
      <4> QED
        BY <1>f, <2>2, <4>1
    <3> HIDE DEF m
    <3> QED
      BY <2>1, <3>1, <3>2, <3>3, <3>4 DEF ChildOK
  <2>4. k.end = "none"
    BY <1>t, <2>1 DEF ChildOK
  <2> HIDE DEF m
  <2> QED
    BY <2>1, <2>3, <2>m, <2>4, ChildStep
<1>10. ASSUME NEW l \in Lines, WriteFile(c, l) PROVE ToolInv'
  <2> DEFINE n == k.wrote + 1
             o == Append(k.kept, l)
             m == [k EXCEPT !.kept = o, !.wrote = n]
  <2>1. child' = [child EXCEPT ![c] = m] /\ k.st = "running" /\ UNCHANGED <<job, run>> /\ job.tool = "arjun"
    BY <1>10, <1>t DEF WriteFile, Writes
  <2>2. n \in Nat /\ o \in Seq(Lines) /\ Len(o) = Len(k.kept) + 1 /\ n = k.wrote + 1
    BY <1>f
  <2> HIDE DEF n, o
  <2>3. m \in ChildStates
    BY <1>t, <2>2 DEF ChildStates
  <2>m. ChildOK(job, m)
    <3>1. m.st = "running" /\ m.pipe = k.pipe /\ m.wrote = n /\ m.kept = o /\ m.pump = k.pump /\ m.end = k.end
      BY <1>t, <2>1 DEF ChildStates
    <3>2. /\ k.end = "none" /\ k.pump # "cut" => k.wrote = Len(k.kept) + Len(k.pipe)
          /\ k.end = "none" /\ k.pipe = <<>> /\ Len(k.kept) + Len(k.pipe) <= k.wrote /\ Len(k.pipe) <= 1
      BY <1>t, <2>1 DEF ChildOK
    <3>3. k.pump # "cut" => n = Len(o) + Len(k.pipe)
      BY <1>f, <2>2, <3>2
    <3>4. Len(o) + Len(k.pipe) <= n
      BY <1>f, <2>2, <3>2
    <3> HIDE DEF m
    <3> QED
      BY <2>1, <3>1, <3>2, <3>3, <3>4 DEF ChildOK
  <2>4. k.end = "none"
    BY <1>t, <2>1 DEF ChildOK
  <2> HIDE DEF m
  <2> QED
    BY <2>1, <2>3, <2>m, <2>4, ChildStep
<1>11. ASSUME CloseFile(c) PROVE ToolInv'
  <2> DEFINE m == [k EXCEPT !.whole = TRUE]
  <2>1. child' = [child EXCEPT ![c] = m] /\ k.st = "running" /\ UNCHANGED <<job, run>>
    BY <1>11, <1>t DEF CloseFile
  <2>2. k.end = "none"
    BY <1>t, <2>1 DEF ChildOK
  <2>3. m \in ChildStates /\ ChildOK(job, m)
    BY <1>t, <2>1 DEF ChildStates, ChildOK
  <2> HIDE DEF m
  <2> QED
    BY <2>1, <2>2, <2>3, ChildStep
<1>2. ASSUME Spawn(c) PROVE ToolInv'
  <2> DEFINE m == [k EXCEPT !.st = "running"]
  <2>1. child' = [child EXCEPT ![c] = m] /\ k.st = "none" /\ k.end = "none" /\ UNCHANGED <<job, run>>
    BY <1>2, <1>t DEF Spawn, MayStart
  <2>2. m \in ChildStates /\ ChildOK(job, m)
    BY <1>t, <2>1 DEF ChildStates, ChildOK
  <2> HIDE DEF m
  <2> QED
    BY <2>1, <2>2, ChildStep
<1>3. ASSUME SpawnFails(c) PROVE ToolInv'
  <2>0. k.st = "none" /\ k.end = "none" /\ run.pc = "running" /\ job' = job
    BY <1>3 DEF SpawnFails, MayStart
  <2>1. CASE job.tool = "ffuf"
    <3> DEFINE m == [k EXCEPT !.end = "error"]
    <3>1. child' = [child EXCEPT ![c] = m] /\ UNCHANGED <<job, run>>
      BY <1>3, <1>t, <2>1 DEF SpawnFails
    <3>2. m \in ChildStates /\ ChildOK(job, m)
      BY <1>t, <2>0 DEF ChildStates, ChildOK
    <3> HIDE DEF m
    <3> QED
      BY <2>0, <3>1, <3>2, ChildStep
  <2>2. CASE job.tool # "ffuf"
    <3>1. run' = [run EXCEPT !.pc = "raised"] /\ child' = child
      BY <1>3, <2>2 DEF SpawnFails
    <3>2. run'.pc # "returned"
      BY <3>1, <2>0
    <3> QED
      BY <2>0, <3>1, <3>2 DEF ToolInv, Children
  <2> QED
    BY <2>1, <2>2
<1>4. ASSUME Drain(c) PROVE ToolInv'
  <2> DEFINE n == k.kept \o k.pipe
             u == IF Limited /\ Len(k.kept) + 1 >= Cap THEN "cut" ELSE k.pump
             m == [k EXCEPT !.pipe = <<>>, !.kept = n, !.pump = u]
  <2>1. /\ child' = [child EXCEPT ![c] = m] /\ k.end = "none" /\ k.pump = "on" /\ k.st # "none"
        /\ UNCHANGED <<job, run>>
    BY <1>4, <1>t DEF Drain, Reading, Kept
  <2>2. n \in Seq(Lines) /\ Len(n) = Len(k.kept) + Len(k.pipe)
    BY <1>f
  <2>3. u \in {"on", "cut", "eof"} /\ u # "eof"
    BY <2>1
  <2>4. <<>> \in Seq(Lines) /\ Len(<<>>) = 0
    OBVIOUS
  <2> HIDE DEF n, u
  <2>5. m \in ChildStates
    BY <1>t, <2>2, <2>3, <2>4 DEF ChildStates
  <2>6. ChildOK(job, m)
    <3>1. m.st = k.st /\ m.pipe = <<>> /\ m.wrote = k.wrote /\ m.kept = n /\ m.pump = u /\ m.end = "none"
      BY <1>t, <2>1 DEF ChildStates
    <3>2. k.wrote = Len(k.kept) + Len(k.pipe)
      BY <1>t, <2>1 DEF ChildOK
    <3>3. k.wrote = Len(n) + Len(<<>>)
      BY <1>f, <2>2, <2>4, <3>2
    <3>4. job.tool = "katana" => Len(n) <= Cap /\ (u = "on" => Len(n) < Cap)
      <4>1. /\ Len(k.pipe) <= 1 /\ Cap \in Nat
            /\ job.tool = "katana" => Len(k.kept) < Cap
        BY <1>t, <2>1, ToolAssumption DEF ChildOK
      <4>2. job.tool = "katana" /\ u = "on" => Len(k.kept) + 1 < Cap
        <5>1. job.tool = "katana" /\ Len(k.kept) + 1 >= Cap => u = "cut"
          BY DEF Limited, u
        <5> QED
          BY <1>f, <4>1, <5>1
      <4>3. /\ Len(k.kept) < Cap => Len(k.kept) + Len(k.pipe) <= Cap
            /\ Len(k.kept) + 1 < Cap => Len(k.kept) + Len(k.pipe) < Cap
        BY <1>f, <4>1, OneMore
      <4> QED
        BY <2>2, <4>1, <4>2, <4>3
    <3>5. Len(<<>>) <= 1 /\ Len(n) + Len(<<>>) <= k.wrote
      BY <1>f, <2>2, <2>4, <3>3
    <3> HIDE DEF m
    <3> QED
      BY <2>1, <2>3, <3>1, <3>3, <3>4, <3>5 DEF ChildOK
  <2> HIDE DEF m
  <2> QED
    BY <2>1, <2>5, <2>6, ChildStep
<1>5. ASSUME RssLimit(c) PROVE ToolInv'
  <2> DEFINE m == [k EXCEPT !.pump = "cut"]
  <2>1. child' = [child EXCEPT ![c] = m] /\ k.end = "none" /\ UNCHANGED <<job, run>>
    BY <1>5, <1>t DEF RssLimit, Reading
  <2>2. m \in ChildStates /\ ChildOK(job, m)
    BY <1>t, <2>1 DEF ChildStates, ChildOK
  <2> HIDE DEF m
  <2> QED
    BY <2>1, <2>2, ChildStep
<1>6. ASSUME EndOfOutput(c) PROVE ToolInv'
  <2> DEFINE m == [k EXCEPT !.pump = "eof"]
  <2>1. /\ child' = [child EXCEPT ![c] = m] /\ k.end = "none" /\ k.pump = "on"
        /\ k.st \in {"running", "exited"} /\ k.pipe = <<>> /\ UNCHANGED <<job, run>>
    BY <1>6, <1>t DEF EndOfOutput, Reading
  <2>2. m \in ChildStates /\ ChildOK(job, m)
    BY <1>t, <2>1 DEF ChildStates, ChildOK
  <2> HIDE DEF m
  <2> QED
    BY <2>1, <2>2, ChildStep
<1>12. ASSUME WaitEnds(c) PROVE ToolInv'
  <2> DEFINE m == [k EXCEPT !.end = "ok"]
  <2>1. /\ child' = [child EXCEPT ![c] = m] /\ k.end = "none" /\ k.pump = "eof"
        /\ k.st = "exited" /\ UNCHANGED <<job, run>>
    BY <1>12, <1>t DEF WaitEnds
  <2>2. k.wrote = Len(k.kept)
    <3>1. k.wrote = Len(k.kept) + Len(k.pipe) /\ k.pipe = <<>>
      BY <1>t, <2>1 DEF ChildOK
    <3> QED
      BY <1>f, <3>1
  <2>3. m \in ChildStates /\ ChildOK(job, m)
    BY <1>t, <2>1, <2>2 DEF ChildStates, ChildOK
  <2> HIDE DEF m
  <2> QED
    BY <2>1, <2>3, ChildStep
<1>7. ASSUME NEW code \in {0, 1}, Exit(c, code) PROVE ToolInv'
  <2> DEFINE m == [k EXCEPT !.st = "exited", !.code = code]
  <2>1. child' = [child EXCEPT ![c] = m] /\ k.st = "running" /\ UNCHANGED <<job, run>>
    BY <1>7, <1>t DEF Exit
  <2>2. k.end = "none"
    BY <1>t, <2>1 DEF ChildOK
  <2>3. m \in ChildStates /\ ChildOK(job, m)
    BY <1>t, <2>1, <2>2 DEF ChildStates, ChildOK
  <2> HIDE DEF m
  <2> QED
    BY <2>1, <2>2, <2>3, ChildStep
<1>8. ASSUME NEW s \in {"killed", "stuck"}, NEW e \in {"limited", "timeout", "cancelled"},
             FinishChild(c, s, e), k.end = "none", UNCHANGED <<job, run>>,
             k.st # "none" \/ e = "limited"
      PROVE  ToolInv'
  <2> DEFINE z == IF k.st = "running" THEN s ELSE k.st
             m == [k EXCEPT !.st = z, !.pipe = <<>>, !.end = e]
  <2>1. child' = [child EXCEPT ![c] = m]
    <3>1. child' = [child EXCEPT ![c] = [Reaped(child[c], s) EXCEPT !.end = e]]
      BY <1>8 DEF FinishChild
    <3>2. [Reaped(child[c], s) EXCEPT !.end = e] = m
      BY <1>t DEF Reaped, ChildStates
    <3> QED
      BY <3>1, <3>2
  <2>2. z \in {"none", "exited", "killed", "stuck"} /\ (z = "none" => k.st = "none")
    BY <1>t DEF ChildStates
  <2>3. <<>> \in Seq(Lines) /\ Len(<<>>) = 0
    OBVIOUS
  <2> HIDE DEF z
  <2>4. m \in ChildStates
    BY <1>t, <1>8, <2>2, <2>3 DEF ChildStates
  <2>5. ChildOK(job, m)
    <3>1. m.st = z /\ m.pipe = <<>> /\ m.wrote = k.wrote /\ m.kept = k.kept /\ m.pump = k.pump /\ m.end = e
      BY <1>t DEF ChildStates
    <3>2. /\ k.st = "none" => k.wrote = 0 /\ k.kept = <<>>
          /\ Len(k.kept) + Len(k.pipe) <= k.wrote
          /\ job.tool = "katana" => Len(k.kept) <= Cap /\ (k.pump = "on" => Len(k.kept) < Cap)
      BY <1>t DEF ChildOK
    <3>3. Len(<<>>) <= 1 /\ Len(k.kept) + Len(<<>>) <= k.wrote
      <4>1. Len(k.kept) <= k.wrote
        <5>1. Len(k.kept) + Len(k.pipe) <= k.wrote
          BY <3>2
        <5> QED
          BY <1>f, <5>1, KeptOnly
      <4> QED
        BY <1>f, <2>3, <4>1
    <3> HIDE DEF m
    <3> QED
      BY <1>8, <2>2, <3>1, <3>2, <3>3 DEF ChildOK
  <2> HIDE DEF m
  <2> QED
    BY <1>8, <2>1, <2>4, <2>5, ChildStep
<1>9. ASSUME NEW s \in {"killed", "stuck"}, LimitReached(c, s) \/ TimesOut(c, s) \/ CancelChild(c, s)
      PROVE  ToolInv'
  <2>1. /\ FinishChild(c, s, "limited") \/ FinishChild(c, s, "timeout") \/ FinishChild(c, s, "cancelled")
        /\ k.end = "none" /\ UNCHANGED <<job, run>>
        /\ k.st # "none" \/ FinishChild(c, s, "limited")
    BY <1>9 DEF LimitReached, TimesOut, CancelChild
  <2> QED
    BY <1>8, <2>1
<1> QED
  BY <1>1, <1>2, <1>3, <1>4, <1>5, <1>6, <1>7, <1>9, <1>10, <1>11, <1>12

\* The runner gives up, returns, is cancelled.
LEMMA RunnerActionOK ==
    ASSUME ToolInv, BudgetExhausted \/ Return \/ CallerSeesError \/ Cancel
    PROVE  ToolInv'
<1>1. ASSUME BudgetExhausted PROVE ToolInv'
  <2>1. /\ child' = [c \in DOMAIN child |-> IF child[c].st = "none" THEN [child[c] EXCEPT !.end = "skipped"]
                                           ELSE child[c]]
        /\ UNCHANGED <<job, run>> /\ run.pc = "running"
    BY <1>1 DEF BudgetExhausted
  <2>2. Children' = Children /\ DOMAIN child' = Children /\ DOMAIN child = Children
    BY <2>1 DEF ToolInv, Children
  <2>3. ASSUME NEW c \in Children PROVE child'[c] \in ChildStates /\ ChildOK(job', child'[c])
    <3>1. child[c] \in ChildStates /\ ChildOK(job, child[c])
      BY DEF ToolInv
    <3>2. CASE child[c].st = "none"
      <4> DEFINE m == [child[c] EXCEPT !.end = "skipped"]
      <4>1. child'[c] = m /\ job' = job
        BY <2>1, <2>2, <3>2
      <4>2. m \in ChildStates
        BY <3>1 DEF ChildStates
      <4>3. /\ m.st = "none" /\ m.pipe = child[c].pipe /\ m.wrote = child[c].wrote
            /\ m.kept = child[c].kept /\ m.pump = child[c].pump /\ m.end = "skipped"
        BY <3>1, <3>2 DEF ChildStates
      <4> HIDE DEF m
      <4>4. ChildOK(job, m)
        BY <3>1, <3>2, <4>3 DEF ChildOK
      <4> QED
        BY <4>1, <4>2, <4>4
    <3>3. CASE child[c].st # "none"
      BY <2>1, <2>2, <3>1, <3>3
    <3> QED
      BY <3>2, <3>3
  <2> QED
    BY <2>1, <2>2, <2>3 DEF ToolInv
<1>2. ASSUME Return PROVE ToolInv'
  <2>1. /\ UNCHANGED <<job, child>> /\ \A c \in Children : child[c].end # "none"
        /\ run'.status = classify_run(RawToolOutput)
    BY <1>2 DEF Return
  <2>2. Children' = Children /\ \A c \in Children : Clean(c)' = Clean(c)
    BY <2>1 DEF Children, Clean
  <2>3. ASSUME run'.status = "completed", job.tool # "arjun" PROVE \A c \in Children : Clean(c)
    <3>1. RawToolOutput.exit = 0
      BY <2>1, <2>3 DEF classify_run
    <3> QED
      BY <2>3, <3>1, ZeroIsClean
  <2>4. ASSUME run'.status = "failed" PROVE run'.found = <<>> /\ Output' = <<>>
    <3>1. ~RawToolOutput.stdout /\ run'.found = <<>>
      BY <1>2, <2>1, <2>4 DEF Return, classify_run
    <3>2. Output = <<>>
      BY <3>1 DEF RawToolOutput
    <3> QED
      BY <2>1, <3>1, <3>2, OutputStays
  <2>5. run'.pc = "returned"
    BY <1>2 DEF Return
  <2> QED
    BY <2>1, <2>2, <2>3, <2>4, <2>5 DEF ToolInv
<1>3. ASSUME CallerSeesError \/ Cancel PROVE ToolInv'
  <2>1. UNCHANGED <<job, child>> /\ Children' = Children
    BY <1>3 DEF CallerSeesError, Cancel, Children
  <2>2. run'.pc \in {"raised", "cancelled"}
    <3>1. CASE CallerSeesError
      <4>1. run' = [run EXCEPT !.status = "failed"] /\ run.pc = "raised"
        BY <3>1 DEF CallerSeesError
      <4> QED
        BY <4>1
    <3>2. CASE Cancel
      <4>1. run' = [run EXCEPT !.pc = "cancelled"] /\ run.pc = "running"
        BY <3>2 DEF Cancel
      <4> QED
        BY <4>1
    <3> QED
      BY <1>3, <3>1, <3>2
  <2> QED
    BY <2>1, <2>2 DEF ToolInv
<1> QED
  BY <1>1, <1>2, <1>3

\* Before the first child starts.
LEMMA ToolInitOK == ToolInit => ToolInv
<1> SUFFICES ASSUME ToolInit PROVE ToolInv
  OBVIOUS
<1>1. child = [c \in Children |-> NoChild] /\ run.pc = "running"
  BY DEF ToolInit
<1>2. NoChild \in ChildStates
  BY DEF NoChild, ChildStates
<1>3. ChildOK(job, NoChild)
  <2>1. Len(<<>>) = 0 /\ 0 < Cap /\ 0 <= Cap
    BY ToolAssumption
  <2> QED
    BY <2>1 DEF NoChild, ChildOK
<1>4. Good(job.targets)
  BY TargetsOK DEF ToolInit
<1> QED
  BY <1>1, <1>2, <1>3, <1>4 DEF ToolInv

\* Children and runner together.
LEMMA ToolStepOK == ToolInv /\ [ToolNext]_toolVars => ToolInv'
<1> SUFFICES ASSUME ToolInv, [ToolNext]_toolVars PROVE ToolInv'
  OBVIOUS
<1>1. CASE BudgetExhausted \/ Return \/ CallerSeesError \/ Cancel
  BY <1>1, RunnerActionOK
<1>2. CASE ToolNext /\ ~(BudgetExhausted \/ Return \/ CallerSeesError \/ Cancel)
  BY <1>2, ChildActionOK DEF ToolNext
<1>3. CASE UNCHANGED toolVars
  <2>1. UNCHANGED <<job, child, run>> /\ Children' = Children /\ Output' = Output
    BY <1>3, OutputStays DEF toolVars, Children
  <2> QED
    BY <2>1 DEF ToolInv, Clean
<1> QED
  BY <1>1, <1>2, <1>3

\* What the invariant says of a completed run.
LEMMA CoveredOK == ToolInv => CompletedIsCovered
BY DEF ToolInv, CompletedIsCovered, Clean, ChildOK

\* A tool run that is called completed read all its processes wrote to the
\* end, and each ended with success: for every runner, number of targets and
\* order in which processes exit, are read, hit a limit or are killed.
THEOREM CoveredTheorem == ToolSpec => []CompletedIsCovered
BY ToolInitOK, ToolStepOK, CoveredOK, PTL DEF ToolSpec

\* The children are numbered from one.
LEMMA ChildrenOK ==
    ASSUME Good(job.targets)
    PROVE  Cardinality(Children) \in Nat /\ Children = 1 .. Cardinality(Children)
<1>1. CASE Children = {1}
  BY <1>1, FS_Singleton
<1>2. CASE Children # {1}
  <2>1. Len(job.targets) \in Nat /\ Children = 1 .. Len(job.targets)
    BY <1>2, SeqIs DEF Children, Good
  <2>2. Cardinality(1 .. Len(job.targets)) = Len(job.targets)
    BY <2>1, FS_Interval
  <2> QED
    BY <2>1, <2>2
<1> QED
  BY <1>1, <1>2

\* A run whose output is empty has nothing of any child.
LEMMA EmptyOutput ==
    ASSUME ToolInv, Output = <<>>
    PROVE  \A c \in Children : Documents[c] = <<>>
<1> DEFINE N == Cardinality(Children)
<1>1. N \in Nat /\ Children = 1 .. N
  BY ChildrenOK DEF ToolInv
<1>2. \A c \in Children : Documents[c] \in Seq(Lines)
  <2>1. \A c \in Children : child[c].kept \in Seq(Lines) /\ <<>> \in Seq(Lines)
    BY DEF ToolInv, ChildStates
  <2> QED
    BY <2>1 DEF Documents
<1>3. DOMAIN Numbers(N) = 1 .. N
  BY DEF Numbers
<1>4. Output = ReadIn(Documents, Numbers(N), 1 .. N)[1 .. N]
  BY <1>3, OutputIs
<1> HIDE DEF N
<1> QED
  BY <1>1, <1>2, <1>4, ReadOK

\* What the invariant says of a run that has returned.
LEMMA ToldOK == ToolInv => StatusTellsCoverage
<1> SUFFICES ASSUME ToolInv PROVE StatusTellsCoverage
  OBVIOUS
<1>1. ASSUME run.pc = "returned", run.status = "failed"
      PROVE  run.found = <<>> /\ \A c \in Children : Documents[c] = <<>>
  <2>1. run.found = <<>> /\ Output = <<>>
    BY <1>1 DEF ToolInv
  <2> QED
    BY <2>1, EmptyOutput
<1> QED
  BY <1>1, CoveredOK DEF StatusTellsCoverage, Documents

\* The status of a tool run tells what the run covered: completed, it read all
\* its processes wrote; with any output of theirs in hand, however the run was
\* cut short, it is not called failed; and called failed it shows nothing.
\* Beside it, an engagement explains each of its runs by one step.
THEOREM RecordsTheorem == ToolSpec /\ EngagementSpec => []RecordsTellTruth
<1>1. ToolSpec => []StatusTellsCoverage
  BY ToolInitOK, ToolStepOK, ToldOK, PTL DEF ToolSpec
<1>2. StatusTellsCoverage /\ RunsExplained <=> RecordsTellTruth
  BY DEF RecordsTellTruth
<1> QED
  BY <1>1, <1>2, ExplainedTheorem, PTL

\* Its output within the cap, its targets once.
LEMMA ToolTyped == ToolInv => ToolTypeOK
<1> SUFFICES ASSUME ToolInv PROVE ToolTypeOK
  OBVIOUS
<1>1. ASSUME NEW c \in Children
      PROVE  Len(child[c].kept) <= child[c].wrote /\ (Limited => Len(child[c].kept) <= Cap)
  <2>1. child[c] \in ChildStates /\ ChildOK(job, child[c])
    BY DEF ToolInv
  <2>2. /\ Len(child[c].kept) \in Nat /\ Len(child[c].pipe) \in Nat /\ child[c].wrote \in Nat
        /\ Len(child[c].kept) + Len(child[c].pipe) <= child[c].wrote
    <3>1. Len(child[c].kept) \in Nat /\ Len(child[c].pipe) \in Nat /\ child[c].wrote \in Nat
      BY <2>1 DEF ChildStates
    <3>2. Len(child[c].kept) + Len(child[c].pipe) <= child[c].wrote
      BY <2>1 DEF ChildOK
    <3> QED
      BY <3>1, <3>2
  <2>3. Len(child[c].kept) <= child[c].wrote
    BY <2>2, KeptOnly
  <2> QED
    BY <2>1, <2>3 DEF ChildOK, Limited
<1>2. \A i, j \in DOMAIN job.targets : i # j => job.targets[i] # job.targets[j]
  BY DEF ToolInv, Good, Distinct
<1>3. run.pc \in {"running", "returned", "raised", "cancelled"}
  BY DEF ToolInv
<1> QED
  BY <1>1, <1>2, <1>3 DEF ToolTypeOK

-----------------------------------------------------------------------------
(* The components side by side                                             *)

Beside ==
    /\ TenantInv /\ TenantBounds /\ EngInv /\ EngScope /\ EgressInv /\ EgressTypes
    /\ AiInv /\ ToolInv

\* Whatever part a behaviour exercises, the others keep their invariants.
LEMMA SideInitOK == Init => Beside
<1> SUFFICES ASSUME Init PROVE Beside
  OBVIOUS
<1>1. TenantInv /\ TenantBounds /\ EgressInv /\ EgressTypes /\ AiInv /\ ToolInv
  BY TenantsInitOK, TenantBoundsInit, EgressInitOK, EgressTypesInit, AiInitOK, ToolInitOK DEF Init
<1>2. CASE EngagementInit
  BY <1>1, <1>2, EngagementInitOK, EngScopeInit DEF Beside
<1>3. CASE EngagementDone
  <2>1. /\ toolRuns = <<>> /\ steps = <<>> /\ engagement = "completed"
        /\ agent = [Unstarted EXCEPT !.pc = "returned"]
    BY <1>3 DEF EngagementDone
  <2>3. Unstarted \in AgentStates
    BY DEF Unstarted, AgentStates
  <2>4. agent \in AgentStates /\ agent.pc = "returned"
    BY <2>1, <2>3 DEF AgentStates
  <2>5. DOMAIN toolRuns = {} /\ DOMAIN steps = {} /\ Len(toolRuns) = 0 /\ MaxSteps \in Nat
        /\ toolRuns \in Seq(RunRows) /\ steps \in Seq(StepRows)
    BY <2>1, EngagementAssumption
  <2>6. EngTypes /\ RowsOK /\ Begins /\ agent.pc \notin Working
    BY <2>1, <2>4, <2>5 DEF EngTypes, RowsOK, Begins, Working
  <2>7. EngScope
    <3>3. roe \in RoE /\ stop = "none"
      BY <1>3, RoESome DEF EngagementDone
    <3>4. agent.round = 0 /\ 0 <= MaxRounds
      BY <2>1, EngagementAssumption DEF Unstarted
    <3> QED
      BY <3>3, <3>4, RulesOK DEF EngScope
  <2> QED
    BY <1>1, <2>6, <2>7 DEF Beside, EngInv
<1> QED
  BY <1>2, <1>3 DEF Init

\* A step of the composition is a step of each component, or leaves it alone.
LEMMA SideStepOK ==
    ASSUME Beats # {}, Beside, [Next]_vars
    PROVE  Beside' /\ [\A k \in Kinds : used'[k] > used[k] => used'[k] <= get_plan(k)]_tenantVars
<1>1. [DailyNext(Beats) \/ DeletionNext]_tenantVars
  <2>1. DailyNext({CHOOSE b \in Beats : TRUE}) => DailyNext(Beats)
    <3>1. {CHOOSE b \in Beats : TRUE} \subseteq Beats
      OBVIOUS
    <3> QED
      BY <3>1 DEF DailyNext
  <2> QED
    BY <2>1 DEF Next, Still, vars
<1>2. [EngagementNext]_engagementVars
  BY DEF Next, Still, vars
<1>3. [EgressNext]_egressVars
  BY DEF Next, Still, vars
<1>4. [AiNext]_aiVars
  BY DEF Next, Still, vars
<1>5. [ToolNext]_toolVars
  BY DEF Next, Still, vars
<1>6. TenantInv' /\ TenantBounds' /\ EngInv' /\ EngScope'
  BY <1>1, <1>2, TenantsStepOK, TenantBoundsStep, EngagementStepOK, EngScopeStep DEF Beside
<1>7. EgressInv' /\ EgressTypes' /\ AiInv' /\ ToolInv'
  BY <1>3, <1>4, <1>5, EgressStepOK, EgressTypesStep, AiStepOK, ToolStepOK DEF Beside
<1>8. [\A k \in Kinds : used'[k] > used[k] => used'[k] <= get_plan(k)]_tenantVars
  BY <1>1, TenantsStepOK DEF Beside
<1> QED
  BY <1>6, <1>7, <1>8 DEF Beside

\* The state of every component is well typed in every reachable state of the
\* composition: usage stays within the bound of the rows whatever plan the
\* workspace has, a deletion is retried no more often than it may be, a scan
\* runs on the networks its site authorizes, the rounds of an engagement are
\* bounded, and a tool run has no target twice and no more output than its cap.
THEOREM OperationsTypeTheorem == ASSUME Beats # {} PROVE Spec => []TypeOK
<1>1. Beside /\ [Next]_vars => Beside'
  BY SideStepOK
<1>2. Beside => TypeOK
  BY TenantsTyped, EgressTyped, EngTyped, AiTyped, ToolTyped DEF Beside, TypeOK
<1> QED
  BY <1>1, <1>2, SideInitOK, PTL DEF Spec

\* What the component theorems say holds of the components side by side, in
\* every behaviour of the composed specification.
THEOREM SideBySide ==
    ASSUME Beats # {}
    PROVE  Spec => /\ [](AtMostOnce /\ TrafficContained /\ OvershootBounded)
                   /\ []RecordsTellTruth
                   /\ QuotaHeld
<1>1. Beside /\ [Next]_vars => Beside'
  BY SideStepOK
<1>2. Beside /\ [Next]_vars =>
        [\A k \in Kinds : used'[k] > used[k] => used'[k] <= get_plan(k)]_tenantVars
  BY SideStepOK
<1>3. Beside => /\ AtMostOnce /\ TrafficContained /\ OvershootBounded
                /\ RecordsTellTruth
  BY OccurrenceOK, RunOnceOK, ContainedOK, OvershootOK, ExplainedOK, ToldOK
     DEF Beside, AtMostOnce, RecordsTellTruth
<1> QED
  BY <1>1, <1>2, <1>3, SideInitOK, PTL DEF Spec, QuotaHeld

=============================================================================
