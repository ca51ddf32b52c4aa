------------------------------- MODULE AiCalls -------------------------------
(***************************************************************************)
(* Calls to the AI providers of one workspace: the failover chain          *)
(* (ai_agent/providers/factory.py, fallback.py), the retries of one        *)
(* provider (base.py), the daily budget (ai_agent/budget.py) and the usage *)
(* records of a call (usage.py, usage_repo.py).  Every successful answer   *)
(* costs one unit.                                                         *)
(***************************************************************************)
EXTENDS Integers, Sequences, FiniteSets

CONSTANTS
  Callers,     \* concurrent requests and scans of the workspace
  Chain,       \* the providers get_ai_client chains, in order
  AiRetries,  \* ai_max_retries
  Budget,      \* ai_daily_budget_usd in units of one call, 0 = off
  MaxCalls     \* bound on the calls of one caller

ASSUME AiAssumption ==
  /\ Chain \in Seq(STRING) /\ Chain # <<>>
  /\ AiRetries \in Nat /\ Budget \in Nat /\ MaxCalls \in Nat \ {0}
  /\ IsFiniteSet(Callers)

VARIABLES
  spend,  \* the counter ai:spend:<workspace>:<day> in Redis
  redis,  \* whether Redis answers
  blind,  \* history: checks that passed unread because Redis was down
  usageRows,  \* ai_usage rows stored
  call    \* caller -> the state of its call

aiVars == <<spend, redis, blind, usageRows, call>>

Free == [pc |-> "free", at |-> 1, try |-> 0, sink |-> 0, answers |-> 0, made |-> 0]

AiInit ==
  /\ spend = 0 /\ redis = TRUE /\ blind = 0 /\ usageRows = 0
  /\ call = [c \in Callers |-> Free]

\* over_budget: a Redis failure reads as no spend at all.
over_budget == Budget > 0 /\ redis /\ spend >= Budget

\* A caller asks; the first provider of the chain is tried.
CallStart(c) ==
  /\ call[c].pc = "free" /\ call[c].made < MaxCalls
  /\ call' = [call EXCEPT ![c] = [Free EXCEPT !.pc = "enforce", !.made = call[c].made + 1]]
  /\ UNCHANGED <<spend, redis, blind, usageRows>>

\* enforce_budget at the head of every provider's complete_json. Its error is
\* not an availability failure, so the chain is not tried further.
enforce_budget(c) ==
  /\ call[c].pc = "enforce"
  /\ call' = [call EXCEPT ![c].pc = IF over_budget THEN "failed" ELSE "invoke"]
  /\ blind' = IF redis THEN blind ELSE blind + 1
  /\ UNCHANGED <<spend, redis, usageRows>>

\* The retry decision of complete_json: an outage is retried by the provider,
\* a refusal or an unreadable answer is not.
Retries(kind, try) == kind = "outage" /\ try < AiRetries

\* Mutant: an answer that does not parse is asked for again.
NextTryEager(c, kind) ==
  IF kind # "refusal" /\ call[c].try < AiRetries
  THEN [call[c] EXCEPT !.try = @ + 1]
  ELSE [call[c] EXCEPT !.pc = "failed"]

\* Where a failed attempt leads: the same provider again, the next provider
\* of the chain when the failure was one of availability, or an error.
NextTry(c, kind) ==
  IF Retries(kind, call[c].try)
  THEN [call[c] EXCEPT !.try = @ + 1]
  ELSE IF kind \in {"outage", "unpaid"} /\ call[c].at < Len(Chain)
       THEN [call[c] EXCEPT !.at = @ + 1, !.try = 0, !.pc = "enforce"]
       ELSE [call[c] EXCEPT !.pc = "failed"]

\* _invoke raises: a timeout, a 429 or a 5xx (outage), a 402, which is an
\* availability failure no retry helps (unpaid), or another 4xx (refusal).
InvokeFails(c, kind) ==
  /\ call[c].pc = "invoke"
  /\ call' = [call EXCEPT ![c] = NextTry(c, kind)]
  /\ UNCHANGED <<spend, redis, blind, usageRows>>

\* _invoke answers: emit_usage appends to the sink of the call and adds the
\* cost to the day's counter, all before the text is parsed.
InvokeAnswers(c, parses) ==
  /\ call[c].pc = "invoke"
  /\ spend' = IF redis THEN spend + 1 ELSE spend
  /\ LET billed == [call EXCEPT ![c].sink = @ + 1, ![c].answers = @ + 1] IN
     call' = [billed EXCEPT ![c] =
                LET next == IF parses THEN [call[c] EXCEPT !.pc = "answered"]
                                      ELSE NextTry(c, "garbled")
                IN  [next EXCEPT !.sink = billed[c].sink, !.answers = billed[c].answers]]
  /\ UNCHANGED <<redis, blind, usageRows>>

\* The caller got an answer and stores the usage of the call, best effort.
persist_ai_usage(c, stored) ==
  /\ call[c].pc = "answered"
  /\ usageRows' = usageRows + (IF stored THEN call[c].sink ELSE 0)
  /\ call' = [call EXCEPT ![c] = [Free EXCEPT !.made = call[c].made]]
  /\ UNCHANGED <<spend, redis, blind>>

\* The error reaches the caller; the assistant's request ends in a 503 without
\* storing the sink, the agent's decide turns it into a finish and stores it.
CallFails(c, stored) ==
  /\ call[c].pc = "failed"
  /\ usageRows' = usageRows + (IF stored THEN call[c].sink ELSE 0)
  /\ call' = [call EXCEPT ![c] = [Free EXCEPT !.made = call[c].made]]
  /\ UNCHANGED <<spend, redis, blind>>

RedisFlips ==
  /\ redis' = ~ redis
  /\ UNCHANGED <<spend, blind, usageRows, call>>

AiNext ==
  \/ \E c \in Callers :
       \/ CallStart(c) \/ enforce_budget(c)
       \/ \E k \in {"outage", "unpaid", "refusal"} : InvokeFails(c, k)
       \/ \E p \in BOOLEAN : InvokeAnswers(c, p)
       \/ \E s \in BOOLEAN : persist_ai_usage(c, s) \/ CallFails(c, s)
  \/ RedisFlips

-----------------------------------------------------------------------------
AiTypeOK ==
  /\ spend \in Nat /\ usageRows \in Nat /\ redis \in BOOLEAN
  /\ \A c \in Callers : /\ call[c].at \in 1..Len(Chain)
                        /\ call[c].try \in 0..AiRetries
                        /\ call[c].pc \in {"free", "enforce", "invoke", "answered", "failed"}

\* Check-then-spend is not atomic, but the overshoot is bounded: every caller
\* that passed the check pays for at most one answer, however many providers
\* and retries its call goes through, and only checks made while Redis was
\* down (over_budget fails open) let more through.
OvershootBounded ==
  /\ Budget > 0 => spend <= Budget - 1 + Cardinality(Callers) + blind
  /\ \A c \in Callers : call[c].answers <= 1
=============================================================================
