------------------------------ MODULE Accounts ------------------------------
(***************************************************************************)
(* One user account: sessions, the second factor, API keys and erasure     *)
(* (modules/auth, modules/users, modules/api_keys, core/deps.py).          *)
(*                                                                         *)
(* A request loads the rows it needs, checks them, and writes; nothing is  *)
(* locked, so another request may commit between its read and its write.   *)
(***************************************************************************)
EXTENDS Naturals, FiniteSets

CONSTANTS
    Tokens,        \* refresh tokens
    AccountRequests,      \* requests in flight
    MaxAttempts,   \* mfa_max_attempts
    NoNext

ASSUME AccountsAssumption ==
    MaxAttempts \in Nat \ {0} /\ NoNext \notin Tokens /\ IsFiniteSet(AccountRequests)

VARIABLES
    acct,     \* the users row: status, mfa_enabled, and whether a secret is stored
    token,    \* refresh token -> its row
    code,     \* the recovery codes: "none", "unused", "used"
    akey,     \* the API key: "none", "live", "revoked"
    fails,    \* the failure counter in Redis
    outage,   \* Redis has been unreachable at some time
    areq      \* request -> its progress

accountVars == <<acct, token, code, akey, fails, outage, areq>>

AtRest == [at |-> "idle"]
NoToken == [st |-> "none", next |-> NoNext]
Begin(q, r) == areq' = [areq EXCEPT ![q] = r]
EndRequest(q) == areq' = [areq EXCEPT ![q] = AtRest]

-----------------------------------------------------------------------------
(* Sessions                                                                *)

\* issue_token_pair inserts a token no other request has.
Issue(t) == token[t] = NoToken /\ token' = [token EXCEPT ![t].st = "live"]

\* authenticate_user and begin_login: the password is right and the account
\* active; without a second factor the tokens follow, with one a challenge.
LoginRead(q) ==
    /\ areq[q] = AtRest /\ acct.status = "active"
    /\ Begin(q, [at |-> IF acct.enabled THEN "challenged" ELSE "issue", born |-> acct.status])
    /\ UNCHANGED <<acct, token, code, akey, fails, outage>>

LoginIssue(q, t) ==
    /\ areq[q].at = "issue"
    /\ Issue(t)
    /\ EndRequest(q)
    /\ UNCHANGED <<acct, code, akey, fails, outage>>

\* Mutant: the account behind a refresh token is not looked at.
RotateReadUnchecked(q, t) ==
    /\ areq[q] = AtRest /\ token[t].st = "live"
    /\ Begin(q, [at |-> "rotate", born |-> acct.status, old |-> t])
    /\ UNCHANGED <<acct, token, code, akey, fails, outage>>

\* rotate_refresh_token reads the token, then the user.
RotateRead(q, t) ==
    /\ areq[q] = AtRest /\ token[t].st = "live" /\ acct.status = "active"
    /\ Begin(q, [at |-> "rotate", born |-> acct.status, old |-> t])
    /\ UNCHANGED <<acct, token, code, akey, fails, outage>>

\* The successor is inserted and the old row stamped.  If erasure deleted the
\* old row, the UPDATE matches nothing, SQLAlchemy raises, all is rolled back.
RotateWrite(q, t) ==
    /\ areq[q].at = "rotate"
    /\ LET old == areq[q].old IN
          \/ /\ token[old].st # "gone" /\ token[t] = NoToken /\ t # old
             /\ token' = [token EXCEPT ![t].st = "live",
                                       ![old] = [st |-> "revoked", next |-> t]]
          \/ token[old].st = "gone" /\ UNCHANGED token
    /\ EndRequest(q)
    /\ UNCHANGED <<acct, code, akey, fails, outage>>

\* The tokens the replaced_by_id chain reaches from t (_revoke_token_family).
Closed(S) == \A x \in S : token[x].next # NoNext => token[x].next \in S
Family(t) == {x \in Tokens : \A S \in SUBSET Tokens : t \in S /\ Closed(S) => x \in S}

\* A token presented again after it was revoked takes its descendants along.
Reuse(t) ==
    /\ token[t].st = "revoked"
    /\ token' = [x \in Tokens |-> IF x \in Family(t) /\ token[x].st = "live"
                                    THEN [token[x] EXCEPT !.st = "revoked"] ELSE token[x]]
    /\ UNCHANGED <<acct, code, akey, fails, outage, areq>>

\* revoke_refresh_token (logout)
Logout(t) ==
    /\ token[t].st = "live"
    /\ token' = [token EXCEPT ![t].st = "revoked"]
    /\ UNCHANGED <<acct, code, akey, fails, outage, areq>>

-----------------------------------------------------------------------------
(* The second factor                                                       *)

\* start_mfa_enrollment stores a secret; it does not enable anything.
Enrol ==
    /\ acct.status = "active" /\ ~acct.enabled
    /\ acct' = [acct EXCEPT !.secret = TRUE]
    /\ UNCHANGED <<token, code, akey, fails, outage, areq>>

\* verify_and_enable_mfa reads the account; complete_mfa_login reads it again.
EnableRead(q) ==
    /\ areq[q] = AtRest /\ acct.status = "active" /\ ~acct.enabled /\ acct.secret
    /\ Begin(q, [at |-> "guard", born |-> acct.status, then |-> "enable"])
    /\ UNCHANGED <<acct, token, code, akey, fails, outage>>

MfaLoginRead(q) ==
    /\ areq[q].at = "challenged"
    /\ \/ /\ acct.status = "active" /\ acct.enabled
          /\ Begin(q, [at |-> "guard", born |-> areq[q].born, then |-> "issue"])
       \/ /\ ~(acct.status = "active" /\ acct.enabled)
          /\ EndRequest(q)
    /\ UNCHANGED <<acct, token, code, akey, fails, outage>>

NotLocked == fails < MaxAttempts

\* assert_not_locked: refuses at the limit; an outage (bound: one) lets it through.
Guard(q) ==
    /\ areq[q].at = "guard"
    /\ \/ NotLocked /\ Begin(q, [areq[q] EXCEPT !.at = "attempt"]) /\ UNCHANGED outage
       \/ ~NotLocked /\ EndRequest(q) /\ UNCHANGED outage
       \/ ~outage /\ outage' = TRUE /\ Begin(q, [areq[q] EXCEPT !.at = "attempt"])
    /\ UNCHANGED <<acct, token, code, akey, fails>>

\* The code is wrong: record_failure increments, unless Redis is out.
Wrong(q) ==
    /\ areq[q].at = "attempt"
    /\ fails' = fails + 1
    /\ EndRequest(q)
    /\ UNCHANGED <<acct, token, code, akey, outage>>

\* The code is right: the counter is cleared and the request goes on.  A
\* recovery code is redeemed in the same transaction (_consume_recovery_code).
Right(q) ==
    /\ areq[q].at = "attempt"
    /\ fails' = 0
    /\ \/ UNCHANGED code
       \/ areq[q].then = "issue" /\ code = "unused" /\ code' = "used"
    /\ Begin(q, [areq[q] EXCEPT !.at = areq[q].then])
    /\ UNCHANGED <<acct, token, akey, outage>>

\* The commit of verify_and_enable_mfa, from the row it read.
Enable(q) ==
    /\ areq[q].at = "enable"
    /\ acct' = [acct EXCEPT !.enabled = TRUE]
    /\ code' = "unused"
    /\ EndRequest(q)
    /\ UNCHANGED <<token, akey, fails, outage>>

\* disable_mfa: password and code, then secret and codes are dropped.
Disable ==
    /\ acct.status = "active" /\ acct.enabled
    /\ acct' = [acct EXCEPT !.enabled = FALSE, !.secret = FALSE]
    /\ code' = "none"
    /\ UNCHANGED <<token, akey, fails, outage, areq>>

\* The lockout window elapses.
WindowElapses ==
    /\ fails > 0 /\ fails' = 0
    /\ UNCHANGED <<acct, token, code, akey, outage, areq>>

-----------------------------------------------------------------------------
(* API keys and erasure                                                    *)

\* create_key: the session was authenticated before the insert.
KeyRead(q) ==
    /\ areq[q] = AtRest /\ acct.status = "active" /\ akey = "none"
    /\ Begin(q, [at |-> "key", born |-> acct.status])
    /\ UNCHANGED <<acct, token, code, akey, fails, outage>>

KeyWrite(q) ==
    /\ areq[q].at = "key"
    /\ akey' = "live"
    /\ EndRequest(q)
    /\ UNCHANGED <<acct, token, code, fails, outage>>

revoke_key ==
    /\ akey = "live" /\ akey' = "revoked"
    /\ UNCHANGED <<acct, token, code, fails, outage, areq>>

\* authenticate_key, then get_current_user's own check of the owner.
KeyUse(q) ==
    /\ areq[q] = AtRest /\ akey = "live" /\ acct.status = "active"
    /\ Begin(q, [at |-> "served", born |-> acct.status])
    /\ UNCHANGED <<acct, token, code, akey, fails, outage>>

Served(q) ==
    /\ areq[q].at = "served"
    /\ EndRequest(q)
    /\ UNCHANGED <<acct, token, code, akey, fails, outage>>

\* erase_user: tokens and codes are deleted, keys revoked, the row scrubbed.
Erase ==
    /\ acct.status = "active"
    /\ acct' = [status |-> "deleted", enabled |-> FALSE, secret |-> FALSE]
    /\ token' = [t \in Tokens |-> IF token[t] = NoToken THEN NoToken
                                    ELSE [st |-> "gone", next |-> NoNext]]
    /\ code' = "none"
    /\ akey' = IF akey = "live" THEN "revoked" ELSE akey
    /\ UNCHANGED <<fails, outage, areq>>

AccountInit ==
    /\ acct = [status |-> "active", enabled |-> FALSE, secret |-> FALSE]   \* register_user
    /\ token = [t \in Tokens |-> NoToken]
    /\ code = "none" /\ akey = "none" /\ fails = 0 /\ outage = FALSE
    /\ areq = [q \in AccountRequests |-> AtRest]

AccountNext ==
    \/ \E q \in AccountRequests :
          \/ LoginRead(q) \/ EnableRead(q) \/ MfaLoginRead(q) \/ Guard(q) \/ Wrong(q) \/ Right(q)
          \/ Enable(q) \/ KeyRead(q) \/ KeyWrite(q) \/ KeyUse(q) \/ Served(q)
          \/ \E t \in Tokens : LoginIssue(q, t) \/ RotateRead(q, t) \/ RotateWrite(q, t)
    \/ \E t \in Tokens : Reuse(t) \/ Logout(t)
    \/ Enrol \/ Disable \/ WindowElapses \/ revoke_key \/ Erase

-----------------------------------------------------------------------------
(* Properties                                                              *)

AccountTypeOK ==
    /\ acct \in [status : {"active", "deleted"}, enabled : BOOLEAN, secret : BOOLEAN]
    /\ token \in [Tokens -> [st : {"none", "live", "revoked", "gone"}, next : Tokens \cup {NoNext}]]
    /\ code \in {"none", "unused", "used"} /\ akey \in {"none", "live", "revoked"}
    /\ fails \in Nat

(* users/service.py: an erased account "can never authenticate again".     *)
(* Credentials may be written after the erasure by requests that began     *)
(* before it, but no request that began after it ever gets anywhere.       *)
ErasedStaysOut == \A q \in AccountRequests : areq[q] # AtRest => areq[q].born = "active"

(* The lockout is read before and counted after the attempt: concurrent    *)
(* requests overshoot the limit by at most their number, while Redis is up *)
LockoutHolds == ~outage => fails < MaxAttempts + Cardinality(AccountRequests)

(* Neither an erased account nor a locked one lets anybody in.             *)
AccountsHold == ErasedStaysOut /\ LockoutHolds
=============================================================================
