----------------------------- MODULE QboRequest -----------------------------
(***************************************************************************)
(* One request to QBO, as QboHttpClient makes it: find an access token,    *)
(* refresh it under the application lock if it is about to expire, meter   *)
(* the call against the month's budget, send it, and on a 401 refresh and  *)
(* send once more; all of it up to MaxAttempts times.  The tokens are in   *)
(* the row qbo.Auth that every process shares.  Intuit may replace the     *)
(* refresh token whenever it is used, and refuses the replaced one.  The   *)
(* operator's routes (authorise, refresh, revoke) write the same row and   *)
(* take no lock.                                                           *)
(***************************************************************************)
EXTENDS Integers

CONSTANTS
    Caller,       \* threads that call QBO: requests, drain ticks, pulls, scripts
    Operator,     \* threads of the routes of the integration page
    MaxAttempts,  \* RetryPolicy.max_attempts
    Block,        \* block threshold of the month's budget
    MaxTrouble    \* bound: faults, expiries and operator interventions in one behaviour

Actor  == Caller \cup Operator
Nobody == "nobody"
None   == 0                        \* no token
NoRow  == [access |-> None, refresh |-> None, expired |-> TRUE]

ASSUME ConstantsAssumption ==
    /\ Caller \cap Operator = {}
    /\ Nobody \notin Actor
    /\ {MaxAttempts, Block} \subseteq Nat \ {0}
    /\ MaxTrouble \in Nat

VARIABLES
    row,      \* qbo.Auth: access token, refresh token, access token near its expiry
    intuit,   \* what Intuit accepts: a refresh token, access tokens; the tokens issued
    lock,     \* owner of the applock qbo_auth_refresh:<realm id>
    call,     \* Actor -> the local variables of its call
    meter,    \* qbo.ApiUsage: calls counted in the month, as far as Block
    traffic,  \* calls QBO served in the month: all of them, and those not counted in it
    serial,   \* no refresh was made beside the lock or beside an authorisation, so far or
              \* since an authorisation that met neither
    lost,     \* Intuit has withdrawn tokens, or issued some that were not stored
    troubles  \* how many there have been

tokens  == <<row, intuit, lost>>
budget  == <<meter, traffic>>
vars    == <<row, intuit, lock, call, meter, traffic, serial, lost, troubles>>

Pc     == {"ended", "resolve", "lock", "reread", "read", "ask", "store", "readback",
           "meter", "send", "delete", "authorize"}
Result == {"none", "ok", "transient", "permanent", "blocked"}
Pair   == [access : Nat, refresh : Nat]

NoPair == [access |-> None, refresh |-> None]

Idle == [pc |-> "ended", attempt |-> 0, stale |-> None, token |-> None, reply |-> NoPair,
         counted |-> FALSE, result |-> "none"]

TypeOK ==
    /\ row \in [access : Nat, refresh : Nat, expired : BOOLEAN]
    /\ intuit \in [refresh : Nat, access : SUBSET (1 .. intuit.issued), issued : Nat]
    /\ lock \in Actor \cup {Nobody}
    /\ call \in [Actor -> [pc : Pc, attempt : 0 .. MaxAttempts, stale : Nat, token : Nat,
                           reply : Pair, counted : BOOLEAN, result : Result]]
    /\ meter \in 0 .. Block
    /\ traffic \in [served : Nat, uncounted : Nat]
    /\ {serial, lost} \subseteq BOOLEAN
    /\ troubles \in 0 .. MaxTrouble

Init ==
    /\ row = [access |-> 1, refresh |-> 1, expired |-> FALSE]
    /\ intuit = [refresh |-> 1, access |-> {1}, issued |-> 1]
    /\ lock = Nobody
    /\ call = [p \in Actor |-> Idle]
    /\ meter = 0
    /\ traffic = [served |-> 0, uncounted |-> 0]
    /\ serial = TRUE
    /\ lost = FALSE
    /\ troubles = 0

Trouble   == troubles < MaxTrouble /\ troubles' = troubles + 1
NoTrouble == UNCHANGED troubles

At(p, label) == call[p].pc = label
Set(p, fields) == call' = [call EXCEPT ![p] = fields]
Goto(p, label) == call' = [call EXCEPT ![p].pc = label]

\* Somebody has authorised: Intuit has issued a pair that its callback is to store.
Authorising == \E p \in Actor : At(p, "authorize")

Release(p) == lock' = IF lock = p THEN Nobody ELSE lock

End(p, result) == Set(p, [Idle EXCEPT !.result = result])

\* Fault: attempts are counted from zero.
FailOnceMore(p) ==
    IF p \in Operator \/ call[p].attempt > MaxAttempts
    THEN End(p, "transient")
    ELSE Set(p, [Idle EXCEPT !.pc = "resolve", !.attempt = call[p].attempt + 1])

\* A retryable failure of an attempt: the next one starts from scratch.  An operator's
\* route has no retries.
Fail(p) ==
    IF p \in Operator \/ call[p].attempt = MaxAttempts
    THEN End(p, "transient")
    ELSE Set(p, [Idle EXCEPT !.pc = "resolve", !.attempt = call[p].attempt + 1])

----------------------------------------------------------------------------
(* ensure_valid_token_classified                                           *)

Start(p) ==
    /\ At(p, "ended")
    /\ Set(p, [Idle EXCEPT !.pc = "resolve", !.attempt = 1])
    /\ UNCHANGED <<tokens, lock, budget, serial>> /\ NoTrouble

\* Fault: a call whose token was refused takes the same one from the row.
FreshUnlessExpired(p) == ~ row.expired

\* The row serves the call as it is.  A call whose token was refused (stale) takes only
\* another one: somebody has refreshed in the meantime.
Fresh(p) == ~ row.expired /\ row.access # call[p].stale

Use(p) == Set(p, [call[p] EXCEPT !.pc = "meter", !.token = row.access])

Resolve(p) ==
    /\ At(p, "resolve")
    /\ CASE row = NoRow -> End(p, "permanent")
         [] Fresh(p)    -> Use(p)
         [] OTHER       -> Goto(p, "lock")
    /\ UNCHANGED <<tokens, lock, budget, serial>> /\ NoTrouble

AcquireLock(p) ==
    /\ At(p, "lock")
    /\ lock = Nobody
    /\ lock' = p
    /\ Goto(p, "reread")
    /\ UNCHANGED <<tokens, budget, serial>> /\ NoTrouble

\* The lock was held for 15 s.
LockTimesOut(p) ==
    /\ At(p, "lock")
    /\ lock # Nobody
    /\ Fail(p)
    /\ UNCHANGED <<tokens, lock, budget, serial>> /\ NoTrouble

\* Fault: the row is not read again under the lock.
TrustFirstRead(p) ==
    /\ At(p, "reread")
    /\ Goto(p, "read") /\ UNCHANGED lock
    /\ serial' = (serial /\ ~ Authorising)
    /\ UNCHANGED <<tokens, budget>> /\ NoTrouble

\* Under the lock the row is read again: another call may have refreshed it.
Reread(p) ==
    /\ At(p, "reread")
    /\ CASE row = NoRow -> End(p, "permanent") /\ Release(p)
         [] Fresh(p)    -> Use(p) /\ Release(p)
         [] OTHER       -> Goto(p, "read") /\ UNCHANGED lock
    /\ serial' = (serial /\ (Authorising => call'[p].pc # "read"))
    /\ UNCHANGED <<tokens, budget>> /\ NoTrouble

\* connect_intuit_oauth_2_token_endpoint_refresh reads the refresh token once more ...
ReadRefreshToken(p) ==
    /\ At(p, "read")
    /\ IF row = NoRow
       THEN Fail(p) /\ Release(p)
       ELSE /\ Set(p, [call[p] EXCEPT !.pc = "ask", !.reply.refresh = row.refresh])
            /\ UNCHANGED lock
    /\ UNCHANGED <<tokens, budget, serial>> /\ NoTrouble

\* ... and Intuit issues an access token and maybe another refresh token ...
Issue(refresh) ==
    intuit' = [refresh |-> refresh, access |-> intuit.access \cup {intuit.issued + 1},
               issued  |-> intuit.issued + 1]

Issued == [access |-> intuit.issued + 1, refresh |-> intuit'.refresh]

\* Fault: the lock is released as soon as Intuit has answered.
AskAndRelease(p) ==
    /\ At(p, "ask")
    /\ call[p].reply.refresh = intuit.refresh
    /\ \E refresh \in {intuit.refresh, intuit.issued + 1} : Issue(refresh)
    /\ Set(p, [call[p] EXCEPT !.pc = "store", !.reply = Issued])
    /\ Release(p)
    /\ UNCHANGED <<row, lost, budget, serial>> /\ NoTrouble

AskIntuit(p) ==
    /\ At(p, "ask")
    /\ call[p].reply.refresh = intuit.refresh
    /\ \E refresh \in {intuit.refresh, intuit.issued + 1} : Issue(refresh)
    /\ Set(p, [call[p] EXCEPT !.pc = "store", !.reply = Issued])
    /\ UNCHANGED <<row, lost, lock, budget, serial>> /\ NoTrouble

\* ... or answers 400, invalid_grant: somebody has to authorise anew.
InvalidGrant(p) ==
    /\ At(p, "ask")
    /\ call[p].reply.refresh # intuit.refresh
    /\ End(p, "permanent")
    /\ Release(p)
    /\ UNCHANGED <<tokens, budget, serial>> /\ NoTrouble

\* No discovery document, no answer, or another status; what was issued may be lost.
RefreshFails(p) ==
    /\ call[p].pc \in {"read", "ask"}
    /\ Trouble
    /\ \/ UNCHANGED <<intuit, lost>>
       \/ /\ At(p, "ask")
          /\ call[p].reply.refresh = intuit.refresh
          /\ Issue(intuit.issued + 1)
          /\ lost' = TRUE
    /\ Fail(p)
    /\ Release(p)
    /\ UNCHANGED <<row, budget, serial>>

\* Fault: the new refresh token is not stored.
StoreAccessToken(p) ==
    /\ At(p, "store")
    /\ row # NoRow
    /\ row' = [row EXCEPT !.access = call[p].reply.access, !.expired = FALSE]
    /\ Set(p, [call[p] EXCEPT !.pc = "readback", !.reply = NoPair])
    /\ UNCHANGED <<intuit, lost, lock, budget, serial>> /\ NoTrouble

\* UpdateQboAuthByRealmId: by realm, whatever the row holds by now.
StoreTokens(p) ==
    /\ At(p, "store")
    /\ IF row = NoRow
       THEN Fail(p) /\ Release(p) /\ lost' = TRUE /\ UNCHANGED row
       ELSE /\ row' = [access |-> call[p].reply.access, refresh |-> call[p].reply.refresh,
                       expired |-> FALSE]
            /\ Set(p, [call[p] EXCEPT !.pc = "readback", !.reply = NoPair])
            /\ UNCHANGED <<lock, lost>>
    /\ UNCHANGED <<intuit, budget, serial>> /\ NoTrouble

\* Neither a refresh nor the callback keeps what it could not store.
StoreFails(p) ==
    /\ call[p].pc \in {"store", "authorize"}
    /\ Trouble
    /\ lost' = TRUE
    /\ Fail(p)
    /\ Release(p)
    /\ UNCHANGED <<row, intuit, budget, serial>>

\* The call goes on with what the row holds now.
ReadBack(p) ==
    /\ At(p, "readback")
    /\ CASE p \in Operator -> End(p, "ok")
         [] row = NoRow    -> Fail(p)
         [] OTHER          -> Use(p)
    /\ Release(p)
    /\ UNCHANGED <<tokens, budget, serial>> /\ NoTrouble

----------------------------------------------------------------------------
(* _send_once and QboApiBudget                                             *)

\* Fault: the call that is sent again after a 401 is not counted.
CountFirstSend(p) ==
    /\ At(p, "meter")
    /\ IF call[p].stale # None \/ meter + 1 < Block
       THEN Set(p, [call[p] EXCEPT !.pc = "send", !.counted = TRUE])
       ELSE End(p, "blocked")
    /\ meter' = IF call[p].stale = None /\ meter < Block THEN meter + 1 ELSE meter
    /\ UNCHANGED <<tokens, lock, traffic, serial>> /\ NoTrouble

\* record_call_or_raise: count first, then refuse at the threshold.
Count(p) ==
    /\ At(p, "meter")
    /\ meter' = IF meter < Block THEN meter + 1 ELSE meter
    /\ IF meter' < Block THEN Set(p, [call[p] EXCEPT !.pc = "send", !.counted = TRUE])
                         ELSE End(p, "blocked")
    /\ UNCHANGED <<tokens, lock, traffic, serial>> /\ NoTrouble

\* The meter fails open.
CountFails(p) ==
    /\ At(p, "meter")
    /\ Trouble
    /\ Goto(p, "send")
    /\ UNCHANGED <<tokens, lock, budget, serial>>

Serve(p) ==
    traffic' = [served    |-> traffic.served + 1,
                uncounted |-> traffic.uncounted + IF call[p].counted THEN 0 ELSE 1]

Send(p) ==
    /\ At(p, "send")
    /\ Serve(p)
    /\ CASE call[p].token \in intuit.access -> End(p, "ok")
         [] call[p].stale # None            -> Fail(p)
         [] OTHER -> Set(p, [Idle EXCEPT !.pc = "resolve", !.attempt = call[p].attempt,
                                         !.stale = call[p].token])
    /\ UNCHANGED <<tokens, lock, meter, serial>> /\ NoTrouble

\* A 5xx, a 429 or a lost answer.
SendFails(p) ==
    /\ At(p, "send")
    /\ Trouble
    /\ Serve(p) \/ UNCHANGED traffic
    /\ Fail(p)
    /\ UNCHANGED <<tokens, lock, meter, serial>>

\* The calendar month ends: the meter has another key.
MonthTurns ==
    /\ meter > 0
    /\ meter' = 0
    /\ traffic' = [served |-> 0, uncounted |-> 0]
    /\ call' = [p \in Actor |-> [call[p] EXCEPT !.counted = FALSE]]
    /\ UNCHANGED <<tokens, lock, serial>> /\ NoTrouble

----------------------------------------------------------------------------
(* Expiry, faults and the operator's routes.                               *)

\* The access token comes within 300 s of its expiry.
TokenAges ==
    /\ Trouble
    /\ row # NoRow /\ ~ row.expired
    /\ row' = [row EXCEPT !.expired = TRUE]
    /\ UNCHANGED <<intuit, lost, lock, call, budget, serial>>

\* Intuit stops accepting an access token before its time.
TokenRefused(t) ==
    /\ Trouble
    /\ t \in intuit.access
    /\ intuit' = [intuit EXCEPT !.access = @ \ {t}]
    /\ UNCHANGED <<row, lost, lock, call, budget, serial>>

\* The process dies, and the session that owns the lock with it.
Crash(p) ==
    /\ ~ At(p, "ended")
    /\ Trouble
    /\ lost' = (lost \/ call[p].pc \in {"store", "authorize"})
    /\ Set(p, Idle)
    /\ Release(p)
    /\ UNCHANGED <<row, intuit, budget, serial>>

\* The session that owns the lock is closed while its owner goes on.
LockDrops ==
    /\ Trouble
    /\ lock # Nobody
    /\ lock' = Nobody
    /\ serial' = FALSE
    /\ UNCHANGED <<tokens, call, budget>>

\* GET /intuit/qbo/auth/refresh/request refreshes without taking the lock.
RefreshByHand(o) ==
    /\ At(o, "ended")
    /\ Trouble
    /\ Goto(o, "read")
    /\ serial' = FALSE
    /\ UNCHANGED <<tokens, lock, budget>>

\* GET /intuit/qbo/auth/revoke/request: Intuit withdraws the tokens, then the row goes.
Revoke(o) ==
    /\ At(o, "ended")
    /\ row # NoRow
    /\ Trouble
    /\ intuit' = [intuit EXCEPT !.refresh = None, !.access = {}]
    /\ lost' = TRUE
    /\ Goto(o, "delete")
    /\ UNCHANGED <<row, lock, budget, serial>>

DeleteRow(o) ==
    /\ At(o, "delete")
    /\ row' = NoRow
    /\ End(o, "ok")
    /\ UNCHANGED <<intuit, lost, lock, budget, serial>> /\ NoTrouble

Dead == row = NoRow \/ row.refresh # intuit.refresh

\* No call or route but o's is between reading the refresh token and storing another, and
\* whoever is under the lock has it.
Alone(o) ==
    \A p \in Actor \ {o} :
        /\ call[p].pc \notin {"read", "ask", "store", "authorize", "delete"}
        /\ call[p].pc \in {"reread", "readback"} => lock = p

\* Somebody authorises, because he was told to or not: whatever calls are on their way,
\* Intuit exchanges the code for a new pair ...
Authorize(o) ==
    /\ At(o, "ended")
    /\ Trouble
    /\ Issue(intuit.issued + 1)
    /\ Set(o, [Idle EXCEPT !.pc = "authorize", !.reply = Issued])
    /\ serial' = (serial /\ Alone(o))
    /\ UNCHANGED <<row, lost, lock, budget>>

\* ... and the callback stores it, without the lock and whatever the row holds by now (its
\* look at whether there is a row, and the update or insert after it, are one step).
StoreAuthorization(o) ==
    /\ At(o, "authorize")
    /\ row' = [access |-> call[o].reply.access, refresh |-> call[o].reply.refresh,
               expired |-> FALSE]
    /\ End(o, "ok")
    /\ LET clean == Alone(o) /\ call[o].reply.refresh = intuit.refresh
       IN  serial' = (serial \/ clean) /\ lost' = (lost /\ ~ clean)
    /\ UNCHANGED <<intuit, lock, budget>> /\ NoTrouble

----------------------------------------------------------------------------

Refresh(p) ==
    \/ Resolve(p) \/ AcquireLock(p) \/ LockTimesOut(p) \/ Reread(p) \/ ReadRefreshToken(p)
    \/ AskIntuit(p) \/ InvalidGrant(p) \/ StoreTokens(p) \/ ReadBack(p)

Progress(p) == Refresh(p) \/ Count(p) \/ Send(p)

Faults(p) == RefreshFails(p) \/ StoreFails(p) \/ CountFails(p) \/ SendFails(p) \/ Crash(p)

Next ==
    \/ \E p \in Caller : Start(p)
    \/ \E p \in Actor : Progress(p) \/ Faults(p)
    \/ MonthTurns \/ TokenAges \/ LockDrops
    \/ \E t \in intuit.access : TokenRefused(t)
    \/ \E o \in Operator : RefreshByHand(o) \/ Revoke(o) \/ DeleteRow(o) \/ Authorize(o)
                            \/ StoreAuthorization(o)

Spec == Init /\ [][Next]_vars

\* Threads are scheduled, months pass.
Fairness ==
    /\ \A p \in Caller : WF_vars(Start(p) \/ Progress(p))
    /\ \A o \in Operator : WF_vars(Progress(o) \/ DeleteRow(o) \/ StoreAuthorization(o))
    /\ WF_vars(MonthTurns)

FairSpec == Spec /\ Fairness

----------------------------------------------------------------------------

AboutToStore == \E p \in Actor : call[p].pc \in {"store", "authorize"}

\* While refreshes are serialised, with each other and with authorisations, and Intuit's
\* answers are stored, the row holds the refresh token that Intuit accepts, or somebody is
\* about to store it: no refresh overwrites a later token.  An authorisation that meets
\* no refresh restores this after any disorder.  The code serialises refreshes by the
\* lock; nothing in it keeps an authorisation away from a refresh (serial).
RefreshTokenKept ==
    (serial /\ ~ lost) => (AboutToStore \/ ~ Dead)

\* The row's refresh token is worthless and stays so.
Worthless == row = NoRow \/ (Dead /\ ~ AboutToStore)

\* As long as refreshes are serialised, with each other and with authorisations, a call
\* ends with "re-authorise" (which dead-letters an outbox row at once) only if the row's
\* refresh token is worthless.
PermanentIsTrue ==
    [][\A p \in Caller :
          (serial /\ call'[p].result = "permanent" /\ call[p].result # "permanent")
             => Worthless]_vars

\* Of any number of calls that find one token expired or refused, one refreshes it, as
\* long as refreshes are serialised; an authorisation issues tokens at any time.
OneRefreshPerToken ==
    [][(serial /\ intuit'.issued > intuit.issued) =>
          \/ Dead \/ row.expired \/ row.access \notin intuit.access
          \/ \E o \in Operator : Authorize(o)]_vars

\* QBO serves less than Block calls in a month, apart from those that were counted in
\* the month before or not at all because the meter failed.
CapHolds == traffic.served < Block + traffic.uncounted

\* Once Intuit accepts the row's refresh token for good, calls succeed again and again.
ServiceResumes ==
    <>[](~ Dead) => []<>(\E p \in Caller : call[p].result = "ok")
=============================================================================
