-------------------------- MODULE QboRequestProofs --------------------------
(***************************************************************************)
(* Proofs about QboRequest, for any number of callers and operators, any   *)
(* attempts, any budget and any number of troubles.                        *)
(***************************************************************************)
EXTENDS QboRequest, FiniteSets, FiniteSetTheorems, TLAPS

\* The conjuncts of TypeOK.
Calls == [pc : Pc, attempt : 0 .. MaxAttempts, stale : Nat, token : Nat,
          reply : Pair, counted : BOOLEAN, result : Result]

RowOK    == row \in [access : Nat, refresh : Nat, expired : BOOLEAN]
IntuitOK == intuit \in [refresh : Nat, access : SUBSET (1 .. intuit.issued), issued : Nat]
LockOK   == lock \in Actor \cup {Nobody}
BudgetOK == meter \in 0 .. Block /\ traffic \in [served : Nat, uncounted : Nat]
FlagsOK  == serial \in BOOLEAN /\ lost \in BOOLEAN
FaultsOK == troubles \in 0 .. MaxTrouble
RestOK   == RowOK /\ IntuitOK /\ LockOK /\ BudgetOK /\ FaultsOK

USE ConstantsAssumption DEF Actor, Nobody, None

\* What a step may write into call[p] is typed.
LEMMA CallTypes ==
    ASSUME TypeOK, NEW p \in Actor
    PROVE  /\ \A result \in Result : [Idle EXCEPT !.result = result] \in Calls
           /\ \A n \in 0 .. MaxAttempts : [Idle EXCEPT !.pc = "resolve", !.attempt = n] \in Calls
           /\ \A label \in Pc : [call[p] EXCEPT !.pc = label] \in Calls
           /\ \A n \in Nat : [call[p] EXCEPT !.pc = "meter", !.token = n] \in Calls
           /\ \A n \in Nat : [call[p] EXCEPT !.pc = "ask", !.reply.refresh = n] \in Calls
           /\ \A r \in Pair : [call[p] EXCEPT !.pc = "store", !.reply = r] \in Calls
           /\ [call[p] EXCEPT !.pc = "send", !.counted = TRUE] \in Calls
           /\ [call[p] EXCEPT !.counted = FALSE] \in Calls
           /\ \A n \in 0 .. MaxAttempts, t \in Nat :
                [Idle EXCEPT !.pc = "resolve", !.attempt = n, !.stale = t] \in Calls
           /\ \A r \in Pair : [Idle EXCEPT !.pc = "authorize", !.reply = r] \in Calls
           /\ [call[p] EXCEPT !.pc = "readback", !.reply = NoPair] \in Calls
           /\ Idle \in Calls
           /\ call[p] \in Calls
<1> USE DEF Calls, Pc, Result, Pair
<1>1. call[p] \in Calls
  BY DEF TypeOK
<1>2. Idle \in Calls
  BY DEF Idle, NoPair
<1> HIDE DEF Pc, Result, Pair
<1>3. /\ \A label \in Pc : [call[p] EXCEPT !.pc = label] \in Calls
      /\ [call[p] EXCEPT !.counted = FALSE] \in Calls
  BY <1>1
<1>4. /\ \A n \in Nat : [call[p] EXCEPT !.pc = "meter", !.token = n] \in Calls
      /\ [call[p] EXCEPT !.pc = "send", !.counted = TRUE] \in Calls
      /\ \A r \in Pair : [call[p] EXCEPT !.pc = "store", !.reply = r] \in Calls
  BY <1>1 DEF Pc
<1>5. \A n \in Nat : [call[p] EXCEPT !.pc = "ask", !.reply.refresh = n] \in Calls
  BY <1>1 DEF Pc, Pair
<1>6. \A result \in Result : [Idle EXCEPT !.result = result] \in Calls
  BY <1>2
<1>7. \A n \in 0 .. MaxAttempts : [Idle EXCEPT !.pc = "resolve", !.attempt = n] \in Calls
  BY <1>2 DEF Pc
<1>8. \A n \in 0 .. MaxAttempts, t \in Nat :
                [Idle EXCEPT !.pc = "resolve", !.attempt = n, !.stale = t] \in Calls
  BY <1>2 DEF Pc
<1>9. \A r \in Pair : [Idle EXCEPT !.pc = "authorize", !.reply = r] \in Calls
  BY <1>2 DEF Pc
<1>10. [call[p] EXCEPT !.pc = "readback", !.reply = NoPair] \in Calls
  BY <1>1 DEF Pc, Pair, NoPair
<1> QED BY <1>1, <1>2, <1>3, <1>4, <1>5, <1>6, <1>7, <1>8, <1>9, <1>10

\* Replacing one call keeps call typed.
LEMMA SetType ==
    ASSUME TypeOK, NEW p \in Actor, NEW c \in Calls, Set(p, c)
    PROVE  call' \in [Actor -> Calls]
BY DEF Set, TypeOK, Calls

\* Moving one call to another label keeps call typed.
LEMMA GotoType ==
    ASSUME TypeOK, NEW p \in Actor, NEW label \in Pc, Goto(p, label)
    PROVE  call' \in [Actor -> Calls]
<1>1. Set(p, [call[p] EXCEPT !.pc = label])
  BY DEF Goto, Set, TypeOK
<1>2. [call[p] EXCEPT !.pc = label] \in Calls
  BY CallTypes
<1> QED BY <1>1, <1>2, SetType

\* A failed attempt never counts beyond MaxAttempts.
LEMMA FailType ==
    ASSUME TypeOK, NEW p \in Actor, Fail(p)
    PROVE  call' \in [Actor -> Calls]
<1>1. CASE End(p, "transient")
  BY <1>1, CallTypes, SetType DEF End, Result
<1>2. CASE /\ call[p].attempt # MaxAttempts
           /\ Set(p, [Idle EXCEPT !.pc = "resolve", !.attempt = call[p].attempt + 1])
  <2>1. call[p].attempt + 1 \in 0 .. MaxAttempts
    BY <1>2 DEF TypeOK
  <2>2. [Idle EXCEPT !.pc = "resolve", !.attempt = call[p].attempt + 1] \in Calls
    BY <2>1, CallTypes
  <2> QED BY <1>2, <2>2, SetType
<1> QED BY <1>1, <1>2 DEF Fail

\* Every step of a caller or an operator's route keeps call typed.
LEMMA ActorTyped ==
    ASSUME TypeOK, NEW p \in Actor, Progress(p) \/ Faults(p) \/ Start(p)
    PROVE  call' \in [Actor -> Calls]
<1>1. {"permanent", "ok", "blocked"} \subseteq Result
  BY DEF Result
<1>2. {"lock", "reread", "read", "readback", "send"} \subseteq Pc
  BY DEF Pc
<1>3. row.access \in Nat /\ row.refresh \in Nat /\ call[p] \in Calls
  BY CallTypes DEF TypeOK
<1>4. CASE Crash(p)
  BY <1>4, CallTypes, SetType DEF Crash
<1>5. CASE Start(p)
  <2>1. 1 \in 0 .. MaxAttempts
    OBVIOUS
  <2>2. [Idle EXCEPT !.pc = "resolve", !.attempt = 1] \in Calls
    BY <2>1, CallTypes
  <2> QED BY <1>5, <2>2, SetType DEF Start
<1>6. CASE Resolve(p)
  BY <1>1, <1>2, <1>3, <1>6, GotoType, CallTypes, SetType DEF Resolve, End, Use
<1>7. CASE \/ AcquireLock(p) \/ LockTimesOut(p) \/ SendFails(p) \/ CountFails(p)
           \/ RefreshFails(p) \/ StoreFails(p)
  BY <1>2, <1>7, GotoType, FailType
     DEF AcquireLock, LockTimesOut, SendFails, CountFails, RefreshFails, StoreFails
<1>8. CASE Reread(p)
  BY <1>1, <1>2, <1>3, <1>8, GotoType, CallTypes, SetType DEF Reread, End, Use
<1>9. CASE ReadRefreshToken(p)
  BY <1>2, <1>3, <1>9, FailType, CallTypes, SetType DEF ReadRefreshToken
<1>10. CASE AskIntuit(p)
  <2>1. Issued \in Pair
    BY <1>10 DEF AskIntuit, Issue, Issued, Pair, TypeOK
  <2> QED BY <1>10, <2>1, CallTypes, SetType DEF AskIntuit
<1>11. CASE InvalidGrant(p)
  BY <1>1, <1>11, CallTypes, SetType DEF InvalidGrant, End
<1>12. CASE StoreTokens(p)
  BY <1>12, FailType, CallTypes, SetType DEF StoreTokens
<1>13. CASE ReadBack(p)
  BY <1>1, <1>3, <1>13, FailType, CallTypes, SetType DEF ReadBack, Use, End
<1>14. CASE Count(p)
  BY <1>1, <1>14, CallTypes, SetType DEF Count, End
<1>15. CASE Send(p)
  <2>1. call[p].attempt \in 0 .. MaxAttempts /\ call[p].token \in Nat
    BY DEF TypeOK
  <2> QED BY <1>1, <1>15, <2>1, FailType, CallTypes, SetType DEF Send, End
<1> QED
  BY <1>4, <1>5, <1>6, <1>7, <1>8, <1>9, <1>10, <1>11, <1>12, <1>13, <1>14, <1>15
  DEF Progress, Refresh, Faults

\* The token that is issued is the next one.
LEMMA IssueType ==
    ASSUME IntuitOK, NEW refresh \in Nat, Issue(refresh)
    PROVE  IntuitOK'
<1>1. intuit.issued + 1 \in Nat /\ 1 .. intuit.issued \subseteq 1 .. (intuit.issued + 1)
  BY DEF IntuitOK
<1>2. intuit.access \cup {intuit.issued + 1} \subseteq 1 .. (intuit.issued + 1)
  BY <1>1 DEF IntuitOK
<1> QED BY <1>1, <1>2 DEF Issue, IntuitOK

\* serial and lost stay Booleans.
LEMMA FlagStep ==
    ASSUME FlagsOK, Next
    PROVE  FlagsOK'
<1> USE DEF Next, Start, MonthTurns, TokenAges, LockDrops, TokenRefused, RefreshByHand, Revoke,
            DeleteRow, Authorize, StoreAuthorization, Progress, Refresh, Faults, Resolve, AcquireLock, LockTimesOut,
            Reread, ReadRefreshToken, AskIntuit, InvalidGrant, StoreTokens, ReadBack, Count, Send,
            RefreshFails, StoreFails, CountFails, SendFails, Crash, tokens
<1>1. \/ serial' = serial \/ serial' = FALSE
      \/ \E p \in Actor : serial' = (serial /\ (Authorising => call'[p].pc # "read"))
      \/ \E o \in Operator : serial' = (serial /\ Alone(o))
      \/ \E o \in Operator :
           serial' = (serial \/ (Alone(o) /\ call[o].reply.refresh = intuit.refresh))
  OBVIOUS
<1>2. \/ lost' = lost \/ lost' = TRUE
      \/ \E p \in Actor : lost' = (lost \/ call[p].pc \in {"store", "authorize"})
      \/ \E o \in Operator :
           lost' = (lost /\ ~ (Alone(o) /\ call[o].reply.refresh = intuit.refresh))
  OBVIOUS
<1>3. serial' \in BOOLEAN
  BY <1>1 DEF FlagsOK
<1>4. lost' \in BOOLEAN
  BY <1>2 DEF FlagsOK
<1> QED BY <1>3, <1>4 DEF FlagsOK

\* No step disturbs the types.
LEMMA TypeStep ==
    ASSUME TypeOK, Next
    PROVE  TypeOK'
<1> USE DEF tokens, budget, Trouble, NoTrouble
<1>1. call' \in [Actor -> Calls]
  <2>1. ASSUME NEW p \in Actor, Progress(p) \/ Faults(p) \/ Start(p) PROVE call' \in [Actor -> Calls]
    BY <2>1, ActorTyped
  <2>2. CASE MonthTurns
    <3>1. \A p \in Actor : [call[p] EXCEPT !.counted = FALSE] \in Calls
      BY CallTypes
    <3> QED BY <2>2, <3>1 DEF MonthTurns
  <2>3. ASSUME NEW o \in Operator, RefreshByHand(o) \/ Revoke(o)
        PROVE  call' \in [Actor -> Calls]
    BY <2>3, GotoType DEF RefreshByHand, Revoke, Pc
  <2>4. ASSUME NEW o \in Operator, DeleteRow(o) PROVE call' \in [Actor -> Calls]
    BY <2>4, CallTypes, SetType DEF DeleteRow, End, Result
  <2>5. CASE UNCHANGED call
    BY <2>5 DEF TypeOK, Calls
  <2>6. ASSUME NEW o \in Operator, Authorize(o) PROVE call' \in [Actor -> Calls]
    <3>1. Issued \in Pair
      BY <2>6 DEF Authorize, Issue, Issued, Pair, TypeOK
    <3> QED BY <2>6, <3>1, CallTypes, SetType DEF Authorize
  <2>7. ASSUME NEW o \in Operator, StoreAuthorization(o) PROVE call' \in [Actor -> Calls]
    BY <2>7, CallTypes, SetType DEF StoreAuthorization, End, Result
  <2> QED BY <2>1, <2>2, <2>3, <2>4, <2>5, <2>6, <2>7 DEF Next, TokenAges, LockDrops, TokenRefused
<1>0. RestOK /\ FlagsOK
  BY DEF TypeOK, RestOK, Calls, RowOK, IntuitOK, LockOK, BudgetOK, FaultsOK, FlagsOK
<1>2. RestOK'
  <2> USE DEF RestOK, LockOK, FaultsOK
  <2>1. ASSUME NEW p \in Actor,
               Start(p) \/ Resolve(p) \/ LockTimesOut(p) \/ AcquireLock(p)
        PROVE  RestOK'
    BY <1>0, <2>1 DEF Start, Resolve, LockTimesOut, AcquireLock, RowOK, IntuitOK, BudgetOK
  <2>2. ASSUME NEW p \in Actor,
               Reread(p) \/ ReadRefreshToken(p) \/ InvalidGrant(p) \/ ReadBack(p)
        PROVE  RestOK'
    BY <1>0, <2>2 DEF Reread, ReadRefreshToken, InvalidGrant, ReadBack, Release, RowOK, IntuitOK, BudgetOK
  <2>3. ASSUME NEW p \in Actor, AskIntuit(p) \/ RefreshFails(p) PROVE RestOK'
    <3>1. IntuitOK'
      <4>1. \/ UNCHANGED intuit 
            \/ Issue(intuit.refresh) \/ Issue(intuit.issued + 1)
        BY <2>3 DEF AskIntuit, RefreshFails
      <4>2. intuit.refresh \in Nat /\ intuit.issued + 1 \in Nat
        BY <1>0 DEF IntuitOK
      <4>3. CASE UNCHANGED intuit
        BY <1>0, <4>3 DEF IntuitOK
      <4> QED BY <1>0, <4>1, <4>2, <4>3, IssueType
    <3>2. RowOK' /\ BudgetOK'
      BY <1>0, <2>3 DEF AskIntuit, RefreshFails, RowOK, BudgetOK
    <3>3. LockOK'
      BY <1>0, <2>3 DEF AskIntuit, RefreshFails, Release
    <3>4. FaultsOK'
      BY <1>0, <2>3 DEF AskIntuit, RefreshFails
    <3> QED BY <3>1, <3>2, <3>3, <3>4
  <2>4. ASSUME NEW p \in Actor, StoreTokens(p) \/ StoreFails(p) \/ Crash(p) PROVE RestOK'
    <3>1. RowOK'
      <4>1. call[p].reply \in Pair
        BY DEF TypeOK
      <4>2. \/ UNCHANGED row
            \/ row' = [access |-> call[p].reply.access, refresh |-> call[p].reply.refresh,
                       expired |-> FALSE]
        BY <2>4 DEF StoreTokens, StoreFails, Crash
      <4>3. call[p].reply.access \in Nat /\ call[p].reply.refresh \in Nat
        BY <4>1 DEF Pair
      <4>4. CASE UNCHANGED row
        BY <1>0, <4>4 DEF RowOK
      <4>5. ASSUME NEW a \in Nat, NEW t \in Nat,
                   row' = [access |-> a, refresh |-> t, expired |-> FALSE]
            PROVE  RowOK'
        BY <4>5 DEF RowOK
      <4> QED BY <4>2, <4>3, <4>4, <4>5
    <3>2. IntuitOK' /\ BudgetOK'
      BY <1>0, <2>4 DEF StoreTokens, StoreFails, Crash, IntuitOK, BudgetOK
    <3>3. LockOK'
      BY <1>0, <2>4 DEF StoreTokens, StoreFails, Crash, Release, Fail, Goto
    <3>4. FaultsOK'
      BY <1>0, <2>4 DEF StoreTokens, StoreFails, Crash
    <3> QED BY <3>1, <3>2, <3>3, <3>4
  <2>5. ASSUME NEW p \in Actor, Count(p) \/ CountFails(p) \/ Send(p) \/ SendFails(p)
        PROVE  RestOK'
    <3>1. BudgetOK'
      BY <1>0, <2>5 DEF Count, CountFails, Send, SendFails, Serve, BudgetOK
    <3> QED BY <1>0, <2>5, <3>1 DEF Count, CountFails, Send, SendFails, RowOK, IntuitOK
  <2>6. CASE MonthTurns \/ TokenAges \/ LockDrops
    <3>1. RowOK' /\ IntuitOK'
      BY <1>0, <2>6 DEF MonthTurns, TokenAges, LockDrops, RowOK, IntuitOK
    <3>2. BudgetOK'
      BY <1>0, <2>6 DEF MonthTurns, TokenAges, LockDrops, BudgetOK
    <3>3. LockOK' /\ FaultsOK'
      BY <1>0, <2>6 DEF MonthTurns, TokenAges, LockDrops
    <3> QED BY <3>1, <3>2, <3>3
  <2>7. ASSUME NEW t \in intuit.access, TokenRefused(t) PROVE RestOK'
    BY <1>0, <2>7 DEF TokenRefused, RowOK, IntuitOK, BudgetOK
  <2>8. ASSUME NEW o \in Operator, RefreshByHand(o) \/ DeleteRow(o)
        PROVE  RestOK'
    <3>1. RowOK'
      <4>1. row' = row \/ row' = NoRow
        BY <2>8 DEF RefreshByHand, DeleteRow
      <4>2. CASE row' = NoRow
        BY <4>2 DEF NoRow, RowOK
      <4>3. CASE row' = row
        BY <1>0, <4>3 DEF RowOK
      <4> QED BY <4>1, <4>2, <4>3
    <3>2. IntuitOK' /\ BudgetOK'
      BY <1>0, <2>8 DEF RefreshByHand, DeleteRow, IntuitOK, BudgetOK
    <3>3. LockOK' /\ FaultsOK'
      BY <1>0, <2>8 DEF RefreshByHand, DeleteRow
    <3> QED BY <3>1, <3>2, <3>3
  <2>9. ASSUME NEW o \in Operator, Revoke(o) PROVE RestOK'
    <3>1. RowOK' /\ IntuitOK' /\ BudgetOK'
      BY <1>0, <2>9 DEF Revoke, RowOK, IntuitOK, BudgetOK
    <3> QED BY <1>0, <2>9, <3>1 DEF Revoke
  <2>10. ASSUME NEW o \in Operator, Authorize(o) PROVE RestOK'
    <3>1. intuit.issued + 1 \in Nat
      BY <1>0 DEF IntuitOK
    <3>2. IntuitOK'
      BY <1>0, <2>10, <3>1, IssueType DEF Authorize
    <3> QED BY <1>0, <2>10, <3>2 DEF Authorize, RowOK, BudgetOK
  <2>11. ASSUME NEW o \in Operator, StoreAuthorization(o) PROVE RestOK'
    <3>1. call[o].reply.access \in Nat /\ call[o].reply.refresh \in Nat
      BY DEF TypeOK, Pair
    <3>2. RowOK'
      BY <2>11, <3>1 DEF StoreAuthorization, RowOK
    <3> QED BY <1>0, <2>11, <3>2 DEF StoreAuthorization, IntuitOK, BudgetOK
  <2> QED
    BY <2>1, <2>2, <2>3, <2>4, <2>5, <2>6, <2>7, <2>8, <2>9, <2>10, <2>11
    DEF Next, Progress, Refresh, Faults
<1>3. FlagsOK'
  BY <1>0, FlagStep
<1>4. call' \in [Actor -> Calls] /\ RestOK' /\ FlagsOK' => TypeOK'
  BY DEF TypeOK, RestOK, Calls, RowOK, IntuitOK, LockOK, BudgetOK, FaultsOK, FlagsOK
<1> QED BY <1>1, <1>2, <1>3, <1>4

----------------------------------------------------------------------------
(* The tokens.                                                             *)

\* Steps between taking the lock and giving it back.
UnderLock == {"reread", "read", "ask", "store", "readback"}

\* While refreshes are serialised, whoever is between taking and giving back the lock has it.
Serialised == serial => \A p \in Actor : call[p].pc \in UnderLock => lock = p

\* Tokens are numbered as Intuit issues them; a token a call was refused is not accepted any more.
TokensKnown(p) ==
    /\ call[p].token <= intuit.issued
    /\ call[p].stale <= intuit.issued
    /\ call[p].pc \in {"store", "authorize"} => call[p].reply.access \in 1 .. intuit.issued
    /\ call[p].stale # None => call[p].stale \notin intuit.access

TokensIssued ==
    /\ row # NoRow => row.access \in 1 .. intuit.issued
    /\ \A p \in Actor : TokensKnown(p)

\* A row goes only when its tokens were withdrawn first.
GoneIsLost ==
    /\ row = NoRow => lost
    /\ \A p \in Actor : At(p, "delete") => lost

\* What a refresh has read about the row is still so.
ReadCurrent(p) ==
    /\ At(p, "ask") => call[p].reply.refresh = row.refresh
    /\ call[p].pc \in {"read", "ask"} => row.expired \/ row.access = call[p].stale

ReadIsCurrent == (serial /\ row # NoRow) => \A p \in Actor : ReadCurrent(p)

\* Nobody has used or replaced the refresh token that Intuit has just handed out.
ReplyIsCurrent ==
    (serial /\ ~ lost) =>
        \A p \in Actor : call[p].pc \in {"store", "authorize"} => call[p].reply.refresh = intuit.refresh

\* While somebody authorises, nobody else is about to use or store a refresh token.
AuthorisesAlone ==
    serial => \A o \in Actor : At(o, "authorize") =>
                 \A p \in Actor \ {o} : call[p].pc \notin {"read", "ask", "store", "authorize"}

\* The inductive invariant of the tokens.
TokenInv ==
    /\ Serialised /\ TokensIssued /\ GoneIsLost /\ ReadIsCurrent /\ ReplyIsCurrent
    /\ AuthorisesAlone /\ RefreshTokenKept

\* p's call goes on, or ends, without the lock and without a refresh under way.
Leaves(p) ==
    /\ \A q \in Actor \ {p} : call'[q] = call[q]
    /\ call'[p].pc \in Pc \ (UnderLock \cup {"delete", "authorize"})
    /\ \/ call'[p].stale \in {None, call[p].stale}
       \/ call'[p].stale = call[p].token /\ call[p].token \notin intuit.access
    /\ call'[p].token \in {None, call[p].token} \/ (call'[p].token = row.access /\ row # NoRow)

\* A call that ends leaves ...
LEMMA EndLeaves ==
    ASSUME TypeOK, NEW p \in Actor, NEW result, End(p, result)
    PROVE  Leaves(p)
BY DEF Leaves, End, Set, TypeOK, Idle, UnderLock, Pc

\* ... and so does one that starts over ...
LEMMA FailLeaves ==
    ASSUME TypeOK, NEW p \in Actor, Fail(p)
    PROVE  Leaves(p)
<1>1. CASE End(p, "transient")
  BY <1>1, EndLeaves
<1>2. CASE Set(p, [Idle EXCEPT !.pc = "resolve", !.attempt = call[p].attempt + 1])
  BY <1>2 DEF Leaves, Set, TypeOK, Idle, UnderLock, Pc
<1> QED BY <1>1, <1>2 DEF Fail

\* ... or takes the row's token.
LEMMA UseLeaves ==
    ASSUME TypeOK, NEW p \in Actor, Use(p), row # NoRow
    PROVE  Leaves(p)
BY DEF Leaves, Use, Set, TypeOK, UnderLock, Pc

\* All steps but those on the way from the lock to Intuit's answer leave.
LEMMA StepLeaves ==
    ASSUME TypeOK, NEW p \in Actor,
           \/ Start(p) \/ Resolve(p) \/ LockTimesOut(p) \/ InvalidGrant(p)
           \/ RefreshFails(p) \/ StoreFails(p) \/ ReadBack(p) \/ Count(p) \/ CountFails(p) \/ Send(p)
           \/ SendFails(p) \/ Crash(p)
    PROVE  Leaves(p)
<1>1. CASE LockTimesOut(p) \/ InvalidGrant(p) \/ RefreshFails(p) \/ StoreFails(p) \/ SendFails(p)
  BY <1>1, FailLeaves, EndLeaves DEF LockTimesOut, InvalidGrant, RefreshFails, StoreFails, SendFails
<1>2. CASE Start(p)
  BY <1>2 DEF Start, Leaves, Set, TypeOK, Idle, UnderLock, Pc
<1>8. CASE Crash(p)
  BY <1>8 DEF Crash, Leaves, Set, TypeOK, Idle, UnderLock, Pc
<1>7. CASE CountFails(p)
  BY <1>7 DEF CountFails, Goto, Leaves, TypeOK, UnderLock, Pc
<1>3. CASE Resolve(p)
  <2>1. CASE Goto(p, "lock")
    BY <2>1 DEF Goto, Leaves, TypeOK, UnderLock, Pc
  <2> QED BY <1>3, <2>1, EndLeaves, UseLeaves DEF Resolve, Fresh, NoRow
<1>4. CASE ReadBack(p)
  BY <1>4, EndLeaves, FailLeaves, UseLeaves DEF ReadBack
<1>5. CASE Count(p)
  <2>1. CASE Set(p, [call[p] EXCEPT !.pc = "send", !.counted = TRUE])
    BY <2>1 DEF Set, Leaves, TypeOK, UnderLock, Pc
  <2> QED BY <1>5, <2>1, EndLeaves DEF Count
<1>6. CASE Send(p)
  <2>1. CASE /\ call[p].token \notin intuit.access
             /\ Set(p, [Idle EXCEPT !.pc = "resolve", !.attempt = call[p].attempt,
                                    !.stale = call[p].token])
    BY <2>1 DEF Set, Leaves, TypeOK, UnderLock, Pc, Idle
  <2> QED BY <1>6, <2>1, EndLeaves, FailLeaves DEF Send
<1> QED BY <1>1, <1>2, <1>3, <1>4, <1>5, <1>6, <1>7, <1>8

\* The types the proofs below compare.
LEMMA StaleType ==
    ASSUME TypeOK
    PROVE  /\ row.access \in Nat /\ row.refresh \in Nat
           /\ intuit.issued \in Nat /\ intuit.refresh \in Nat
           /\ intuit.access \subseteq 1 .. intuit.issued
           /\ \A p \in Actor : /\ call[p].token \in Nat /\ call[p].stale \in Nat
                               /\ call[p].reply.access \in Nat /\ call[p].reply.refresh \in Nat
BY DEF TypeOK, Pair

\* A step that leaves the lock, the row and what Intuit accepts alone, or gives the lock back.
LEMMA LeavingKeeps ==
    ASSUME TypeOK, TokenInv, NEW p \in Actor, Leaves(p), UNCHANGED <<row, intuit, serial>>,
           lost => lost', call[p].pc \in {"store", "authorize"} => lost',
           lock' = lock \/ Release(p)
    PROVE  TokenInv'
<1> USE DEF TokenInv, Leaves, At
<1>1. Serialised'
  BY DEF Serialised, Release, UnderLock
<1>2. TokensIssued'
  <2>2. ASSUME NEW q \in Actor PROVE TokensKnown(q)'
    <3>1. CASE q # p
      BY <3>1 DEF TokensIssued, TokensKnown
    <3>2. CASE q = p
      BY <3>2, StaleType DEF TokensIssued, TokensKnown, UnderLock
    <3> QED BY <3>1, <3>2
  <2> QED BY <2>2 DEF TokensIssued
<1>3. GoneIsLost'
  BY DEF GoneIsLost
<1>4. ReadIsCurrent' /\ ReplyIsCurrent'
  BY DEF ReadIsCurrent, ReadCurrent, ReplyIsCurrent, UnderLock
<1>5. RefreshTokenKept'
  BY DEF RefreshTokenKept, AboutToStore, Dead
<1>6. AuthorisesAlone'
  BY DEF AuthorisesAlone, UnderLock
<1> QED BY <1>1, <1>2, <1>3, <1>4, <1>5, <1>6

\* A step on the way from the lock to Intuit's answer.
LEMMA HoldingKeeps ==
    ASSUME TypeOK, TokenInv, NEW p \in Actor,
           UNCHANGED <<row, intuit, lost>>, serial' => serial,
           \A q \in Actor \ {p} : call'[q] = call[q],
           call'[p].pc \in {"reread", "read", "ask"}, call[p].pc \notin {"store", "authorize"},
           serial' => (call'[p].pc = "reread" \/ ~ Authorising),
           call'[p].token = call[p].token, call'[p].stale = call[p].stale,
           (serial /\ row # NoRow) => ReadCurrent(p)',
           \/ lock' = p /\ lock \in {Nobody, p}
           \/ lock' = lock /\ call[p].pc \in UnderLock
           \/ ~ serial
    PROVE  TokenInv'
<1> USE DEF TokenInv, At
<1>1. Serialised'
  BY DEF Serialised, UnderLock
<1>2. TokensIssued'
  <2>1. ASSUME NEW q \in Actor PROVE TokensKnown(q)'
    <3>1. CASE q # p
      BY <3>1 DEF TokensIssued, TokensKnown
    <3>2. CASE q = p
      BY <3>2 DEF TokensIssued, TokensKnown
    <3> QED BY <3>1, <3>2
  <2> QED BY <2>1 DEF TokensIssued
<1>3. GoneIsLost'
  BY DEF GoneIsLost
<1>4. ReadIsCurrent'
  <2>1. ASSUME serial, row # NoRow, NEW q \in Actor PROVE ReadCurrent(q)'
    <3>1. CASE q # p
      BY <2>1, <3>1 DEF ReadIsCurrent, ReadCurrent
    <3> QED BY <2>1, <3>1
  <2> QED BY <2>1 DEF ReadIsCurrent
<1>5. ReplyIsCurrent'
  BY DEF ReplyIsCurrent
<1>6. RefreshTokenKept'
  BY DEF RefreshTokenKept, AboutToStore, Dead
<1>7. AuthorisesAlone'
  BY DEF AuthorisesAlone, Authorising
<1> QED BY <1>1, <1>2, <1>3, <1>4, <1>5, <1>6, <1>7

\* Issuing tokens leaves what is known about the earlier ones as it is.
LEMMA IssuingKeeps ==
    ASSUME TypeOK, TokensIssued, NEW refresh, Issue(refresh)
    PROVE  /\ \A q \in Actor : call'[q] = call[q] => TokensKnown(q)'
           /\ \A q \in Actor : Leaves(q) => TokensKnown(q)'
           /\ row # NoRow => row.access \in 1 .. intuit'.issued
<1> USE DEF At
<1>1. /\ intuit'.issued = intuit.issued + 1
      /\ intuit'.access = intuit.access \cup {intuit.issued + 1}
  BY DEF Issue
<1>2. ASSUME NEW q \in Actor, call'[q] = call[q] PROVE TokensKnown(q)'
  BY <1>1, <1>2, StaleType DEF TokensIssued, TokensKnown
<1>3. ASSUME NEW q \in Actor, Leaves(q) PROVE TokensKnown(q)'
  <2>1. call'[q].token \in 0 .. intuit.issued
    <3>1. call[q].token \in 0 .. intuit.issued /\ 0 \in 0 .. intuit.issued
      BY StaleType DEF TokensIssued, TokensKnown
    <3>2. row # NoRow => row.access \in 0 .. intuit.issued
      BY StaleType DEF TokensIssued
    <3> QED BY <1>3, <3>1, <3>2 DEF Leaves
  <2>2. /\ call'[q].stale \in 0 .. intuit.issued
        /\ call'[q].stale # None => call'[q].stale \notin intuit.access
    <3>1. /\ call[q].token \in 0 .. intuit.issued /\ call[q].stale \in 0 .. intuit.issued
          /\ 0 \in 0 .. intuit.issued
      BY StaleType DEF TokensIssued, TokensKnown
    <3>2. call[q].stale # None => call[q].stale \notin intuit.access
      BY DEF TokensIssued, TokensKnown
    <3> QED BY <1>3, <3>1, <3>2 DEF Leaves
  <2>3. call'[q].pc \notin {"store", "authorize"}
    BY <1>3 DEF UnderLock, Leaves
  <2> QED BY <1>1, <2>1, <2>2, <2>3, StaleType DEF TokensKnown
<1>4. row # NoRow => row.access \in 1 .. intuit'.issued
  BY <1>1, StaleType DEF TokensIssued
<1> QED BY <1>2, <1>3, <1>4

\* No step of a caller or an operator's route disturbs the invariant.
LEMMA ActorKeepsTokens ==
    ASSUME TypeOK, TokenInv, NEW p \in Actor, Progress(p) \/ Faults(p) \/ Start(p)
    PROVE  TokenInv'
<1> USE DEF tokens, budget, TokenInv, At
<1>1. CASE Start(p) \/ Resolve(p) \/ LockTimesOut(p) \/ InvalidGrant(p) \/ ReadBack(p)
           \/ Count(p) \/ CountFails(p) \/ Send(p) \/ SendFails(p)
  <2>1. /\ UNCHANGED <<row, intuit, serial>> /\ lost' = lost
        /\ call[p].pc \notin {"store", "authorize"} /\ (lock' = lock \/ Release(p))
    BY <1>1 DEF Start, Resolve, LockTimesOut, InvalidGrant, ReadBack, Count, CountFails, Send, SendFails
  <2>2. Leaves(p)
    BY <1>1, StepLeaves
  <2> QED BY <2>1, <2>2, LeavingKeeps
<1>2. CASE StoreFails(p) \/ Crash(p)
  <2>1. /\ UNCHANGED <<row, intuit, serial>> /\ (lost => lost')
        /\ (call[p].pc \in {"store", "authorize"} => lost')
        /\ (lock' = lock \/ Release(p))
    BY <1>2 DEF StoreFails, Crash
  <2> QED BY <1>2, <2>1, StepLeaves, LeavingKeeps
<1>3. CASE RefreshFails(p)
  <2>1. /\ UNCHANGED <<row, serial>> /\ Release(p) /\ call[p].pc \notin {"store", "authorize"}
        /\ Leaves(p)
    BY <1>3, StepLeaves DEF RefreshFails
  <2>2. CASE UNCHANGED <<intuit, lost>>
    BY <2>1, <2>2, LeavingKeeps
  <2>3. CASE Issue(intuit.issued + 1) /\ lost' = TRUE
    <3>1. TokensIssued'
      <4>1. \A q \in Actor : q # p => call'[q] = call[q]
        BY <2>1 DEF Leaves
      <4> QED BY <2>1, <2>3, <4>1, IssuingKeeps DEF TokensIssued
    <3>2. Serialised'
      BY <2>1 DEF Serialised, Release, UnderLock, Leaves
    <3>3. ReadIsCurrent' /\ ReplyIsCurrent'
      BY <2>1, <2>3 DEF ReadIsCurrent, ReadCurrent, ReplyIsCurrent, UnderLock, Leaves
    <3>4. GoneIsLost' /\ RefreshTokenKept'
      BY <2>3 DEF GoneIsLost, RefreshTokenKept
    <3>5. AuthorisesAlone'
      BY <2>1 DEF AuthorisesAlone, Leaves, UnderLock
    <3> QED BY <3>1, <3>2, <3>3, <3>4, <3>5
  <2> QED BY <1>3, <2>2, <2>3 DEF RefreshFails
<1>4. CASE AcquireLock(p)
  <2>1. /\ UNCHANGED <<row, intuit, lost, serial>> /\ lock = Nobody /\ lock' = p
        /\ call[p].pc \notin {"store", "authorize"}
        /\ \A q \in Actor \ {p} : call'[q] = call[q]
        /\ call'[p] = [call[p] EXCEPT !.pc = "reread"]
    BY <1>4 DEF AcquireLock, Goto, TypeOK
  <2>2. call'[p].pc = "reread" /\ call'[p].token = call[p].token /\ call'[p].stale = call[p].stale
    BY <2>1 DEF TypeOK
  <2>3. ReadCurrent(p)'
    BY <2>2 DEF ReadCurrent
  <2> QED BY <2>1, <2>2, <2>3, HoldingKeeps
<1>5. CASE Reread(p)
  <2>1. CASE End(p, "permanent") \/ (row # NoRow /\ Use(p))
    <3>1. Leaves(p)
      BY <2>1, EndLeaves, UseLeaves
    <3>2. /\ UNCHANGED <<row, intuit>> /\ lost' = lost /\ call[p].pc \notin {"store", "authorize"}
          /\ (lock' = lock \/ Release(p))
      BY <1>5 DEF Reread
    <3>3. call'[p].pc # "read" /\ serial' = (serial /\ (Authorising => call'[p].pc # "read"))
      BY <1>5, <3>1 DEF Reread, Leaves, UnderLock
    <3>4. UNCHANGED serial
      BY <3>3 DEF TypeOK
    <3> QED BY <3>1, <3>2, <3>4, LeavingKeeps
  <2>2. CASE ~ Fresh(p) /\ Goto(p, "read") /\ UNCHANGED lock
    <3>1. /\ UNCHANGED <<row, intuit, lost, lock>> /\ call[p].pc = "reread"
          /\ \A q \in Actor \ {p} : call'[q] = call[q]
          /\ call'[p] = [call[p] EXCEPT !.pc = "read"]
      BY <1>5, <2>2 DEF Reread, Goto, TypeOK
    <3>2. call'[p].pc = "read" /\ call'[p].token = call[p].token /\ call'[p].stale = call[p].stale
      BY <3>1 DEF TypeOK
    <3>3. ReadCurrent(p)'
      BY <2>2, <3>1, <3>2 DEF ReadCurrent, Fresh
    <3>4. (serial' => serial) /\ (serial' => ~ Authorising)
      BY <1>5, <3>2 DEF Reread
    <3> QED BY <3>1, <3>2, <3>3, <3>4, HoldingKeeps DEF UnderLock
  <2> QED BY <1>5, <2>1, <2>2 DEF Reread, Fresh, NoRow
<1>6. CASE ReadRefreshToken(p)
  <2>1. CASE Fail(p) /\ Release(p)
    <3>1. /\ UNCHANGED <<row, intuit, serial>> /\ lost' = lost
          /\ call[p].pc \notin {"store", "authorize"}
      BY <1>6 DEF ReadRefreshToken
    <3> QED BY <2>1, <3>1, FailLeaves, LeavingKeeps
  <2>2. CASE row # NoRow
    <3>1. /\ UNCHANGED <<row, intuit, lost, serial, lock>> /\ call[p].pc = "read"
          /\ \A q \in Actor \ {p} : call'[q] = call[q]
          /\ call'[p] = [call[p] EXCEPT !.pc = "ask", !.reply.refresh = row.refresh]
      BY <1>6, <2>2 DEF ReadRefreshToken, Set, TypeOK
    <3>2. /\ call'[p].pc = "ask" /\ call'[p].token = call[p].token /\ call'[p].stale = call[p].stale
          /\ call'[p].reply.refresh = row.refresh
      BY <3>1 DEF TypeOK, Pair
    <3>3. serial => ReadCurrent(p)'
      BY <2>2, <3>1, <3>2 DEF ReadIsCurrent, ReadCurrent
    <3>4. serial => ~ Authorising
      BY <3>1 DEF AuthorisesAlone, Authorising
    <3> QED BY <3>1, <3>2, <3>3, <3>4, HoldingKeeps DEF UnderLock
  <2> QED BY <1>6, <2>1, <2>2 DEF ReadRefreshToken
<1>7. CASE AskIntuit(p)
  <2>1. PICK refresh \in {intuit.refresh, intuit.issued + 1} : Issue(refresh)
    BY <1>7 DEF AskIntuit
  <2>2. /\ UNCHANGED <<row, lost, serial, lock>> /\ call[p].pc = "ask"
        /\ \A q \in Actor \ {p} : call'[q] = call[q]
        /\ call'[p] = [call[p] EXCEPT !.pc = "store", !.reply = Issued]
    BY <1>7 DEF AskIntuit, Set, TypeOK
  <2>3. /\ call'[p].pc = "store" /\ call'[p].token = call[p].token /\ call'[p].stale = call[p].stale
        /\ call'[p].reply.access = intuit.issued + 1 /\ call'[p].reply.refresh = intuit'.refresh
    BY <2>2 DEF TypeOK, Issued
  <2>4. /\ intuit'.issued = intuit.issued + 1
        /\ intuit'.access = intuit.access \cup {intuit.issued + 1}
    BY <2>1 DEF Issue
  <2>5. Serialised'
    BY <2>2, <2>3 DEF Serialised, UnderLock
  <2>6. TokensIssued'
    <3>1. TokensKnown(p)'
      BY <2>3, <2>4, StaleType DEF TokensIssued, TokensKnown
    <3>2. \A q \in Actor \ {p} : TokensKnown(q)'
      BY <2>1, <2>2, IssuingKeeps
    <3> QED BY <2>1, <2>2, <3>1, <3>2, IssuingKeeps DEF TokensIssued
  <2>7. GoneIsLost'
    BY <2>2, <2>3 DEF GoneIsLost
  <2>8. ReadIsCurrent'
    <3>1. ASSUME serial, row # NoRow, NEW q \in Actor PROVE ReadCurrent(q)'
      <4>1. CASE q # p
        BY <2>2, <3>1, <4>1 DEF ReadIsCurrent, ReadCurrent
      <4>2. CASE q = p
        BY <2>3, <4>2 DEF ReadCurrent
      <4> QED BY <4>1, <4>2
    <3> QED BY <2>2, <3>1 DEF ReadIsCurrent
  <2>12. serial => ~ Authorising
    BY <2>2 DEF AuthorisesAlone, Authorising
  <2>9. ReplyIsCurrent'
    <3>1. ASSUME serial, NEW q \in Actor, q # p
          PROVE  call'[q].pc \notin {"store", "authorize"}
      <4>1. call'[q] = call[q]
        BY <2>2, <3>1
      <4>2. call[q].pc # "authorize"
        BY <2>12, <3>1 DEF Authorising, At
      <4>3. call[q].pc # "store"
        BY <2>2, <3>1 DEF Serialised, UnderLock
      <4> QED BY <4>1, <4>2, <4>3
    <3> QED BY <2>2, <2>3, <3>1 DEF ReplyIsCurrent
  <2>10. RefreshTokenKept'
    BY <2>3 DEF RefreshTokenKept, AboutToStore
  <2>11. AuthorisesAlone'
    BY <2>2, <2>3, <2>12 DEF AuthorisesAlone, Authorising
  <2> QED BY <2>5, <2>6, <2>7, <2>8, <2>9, <2>10, <2>11
<1>8. CASE StoreTokens(p)
  <2>1. CASE row = NoRow
    <3>1. /\ UNCHANGED <<row, intuit, serial>> /\ lost' = TRUE /\ Fail(p) /\ Release(p)
      BY <1>8, <2>1 DEF StoreTokens
    <3> QED BY <3>1, FailLeaves, LeavingKeeps
  <2>2. CASE row # NoRow
    <3>1. /\ UNCHANGED <<intuit, lost, serial, lock>> /\ call[p].pc = "store"
          /\ \A q \in Actor \ {p} : call'[q] = call[q]
          /\ call'[p] = [call[p] EXCEPT !.pc = "readback", !.reply = NoPair]
          /\ row' = [access |-> call[p].reply.access, refresh |-> call[p].reply.refresh,
                     expired |-> FALSE]
      BY <1>8, <2>2 DEF StoreTokens, Set, TypeOK
    <3>2. call'[p].pc = "readback" /\ call'[p].token = call[p].token /\ call'[p].stale = call[p].stale
      BY <3>1 DEF TypeOK
    <3>3. row'.access \in 1 .. intuit.issued /\ row'.refresh = call[p].reply.refresh
      BY <3>1 DEF TokensIssued, TokensKnown
    <3>4. Serialised'
      BY <3>1, <3>2 DEF Serialised, UnderLock
    <3>5. TokensIssued'
      BY <3>1, <3>2, <3>3 DEF TokensIssued, TokensKnown
    <3>6. GoneIsLost' /\ row' # NoRow
      BY <3>1, <3>2, <3>3 DEF GoneIsLost, NoRow
    <3>7. ASSUME serial, NEW q \in Actor PROVE ReadCurrent(q)'
      <4>1. CASE q = p
        BY <3>2, <4>1 DEF ReadCurrent
      <4>2. CASE q # p
        <5>1. call[q].pc \notin UnderLock
          BY <3>1, <3>7, <4>2 DEF Serialised, UnderLock
        <5>2. call'[q].pc \notin {"read", "ask"}
          BY <3>1, <4>2, <5>1 DEF UnderLock
        <5> QED BY <5>2 DEF ReadCurrent
      <4> QED BY <4>1, <4>2
    <3>10. ReadIsCurrent'
      BY <3>1, <3>7 DEF ReadIsCurrent
    <3>8. ReplyIsCurrent'
      BY <3>1, <3>2 DEF ReplyIsCurrent
    <3>9. RefreshTokenKept'
      BY <3>1, <3>3, <3>6 DEF RefreshTokenKept, Dead, ReplyIsCurrent
    <3>11. AuthorisesAlone'
      BY <3>1, <3>2 DEF AuthorisesAlone
    <3> QED BY <3>4, <3>5, <3>6, <3>8, <3>9, <3>10, <3>11
  <2> QED BY <2>1, <2>2
<1> QED
  BY <1>1, <1>2, <1>3, <1>4, <1>5, <1>6, <1>7, <1>8 DEF Progress, Refresh, Faults

\* Neither do the operator's first steps, expiry, and faults.
LEMMA TokenStep ==
    ASSUME TypeOK, TokenInv, Next
    PROVE  TokenInv'
<1> USE DEF TokenInv, tokens, budget
<1>1. ASSUME NEW p \in Actor, Start(p) \/ Progress(p) \/ Faults(p) PROVE TokenInv'
  BY <1>1, ActorKeepsTokens
<1>2. CASE MonthTurns
  <2>1. /\ UNCHANGED <<row, intuit, lost, lock, serial>>
        /\ \A p \in Actor : /\ call'[p].pc = call[p].pc /\ call'[p].token = call[p].token
                            /\ call'[p].stale = call[p].stale /\ call'[p].reply = call[p].reply
    BY <1>2 DEF MonthTurns, TypeOK
  <2>2. Serialised' /\ GoneIsLost'
    BY <2>1 DEF Serialised, GoneIsLost, At
  <2>3. TokensIssued'
    BY <2>1 DEF TokensIssued, TokensKnown, At
  <2>4. ReadIsCurrent'
    BY <2>1 DEF ReadIsCurrent, ReadCurrent, At
  <2>5. ReplyIsCurrent'
    BY <2>1 DEF ReplyIsCurrent, At
  <2>6. RefreshTokenKept'
    BY <2>1 DEF RefreshTokenKept, AboutToStore, Dead, At
  <2>7. AuthorisesAlone'
    BY <2>1 DEF AuthorisesAlone, At
  <2> QED BY <2>2, <2>3, <2>4, <2>5, <2>6, <2>7
<1>3. CASE TokenAges
  <2>1. /\ UNCHANGED <<intuit, lost, lock, serial, call>> /\ row # NoRow
        /\ row' = [row EXCEPT !.expired = TRUE]
    BY <1>3 DEF TokenAges
  <2>2. row'.access = row.access /\ row'.refresh = row.refresh /\ row'.expired
    BY <2>1 DEF TypeOK
  <2>3. row' # NoRow
    <3>1. row.access # None
      BY <2>1 DEF TokensIssued
    <3> QED BY <2>2, <3>1 DEF NoRow
  <2>4. Serialised' /\ GoneIsLost'
    BY <2>1, <2>3 DEF Serialised, GoneIsLost, At
  <2>5. TokensIssued'
    BY <2>1, <2>2 DEF TokensIssued, TokensKnown, At
  <2>6. ReadIsCurrent'
    BY <2>1, <2>2 DEF ReadIsCurrent, ReadCurrent, At
  <2>7. ReplyIsCurrent'
    BY <2>1 DEF ReplyIsCurrent, At
  <2>8. RefreshTokenKept'
    BY <2>1, <2>2, <2>3 DEF RefreshTokenKept, AboutToStore, Dead, At
  <2>9. AuthorisesAlone'
    BY <2>1 DEF AuthorisesAlone, At
  <2> QED BY <2>4, <2>5, <2>6, <2>7, <2>8, <2>9
<1>4. ASSUME NEW t \in intuit.access, TokenRefused(t) PROVE TokenInv'
  <2>1. UNCHANGED <<row, lost, lock, serial, call>>
    BY <1>4 DEF TokenRefused
  <2>2. /\ intuit'.refresh = intuit.refresh /\ intuit'.issued = intuit.issued
        /\ intuit'.access \subseteq intuit.access
    BY <1>4 DEF TokenRefused, TypeOK
  <2>3. Serialised' /\ GoneIsLost'
    BY <2>1 DEF Serialised, GoneIsLost, At
  <2>4. TokensIssued'
    BY <2>1, <2>2 DEF TokensIssued, TokensKnown, At
  <2>5. ReadIsCurrent' /\ ReplyIsCurrent'
    BY <2>1, <2>2 DEF ReadIsCurrent, ReadCurrent, ReplyIsCurrent, At
  <2>6. RefreshTokenKept'
    BY <2>1, <2>2 DEF RefreshTokenKept, AboutToStore, Dead, At
  <2>7. AuthorisesAlone'
    BY <2>1 DEF AuthorisesAlone, At
  <2> QED BY <2>3, <2>4, <2>5, <2>6, <2>7
<1>5. CASE LockDrops
  <2>1. UNCHANGED <<row, intuit, lost, call>> /\ serial' = FALSE
    BY <1>5 DEF LockDrops
  <2>2. TokensIssued' /\ GoneIsLost'
    BY <2>1 DEF TokensIssued, TokensKnown, GoneIsLost, At
  <2> QED BY <2>1, <2>2 DEF Serialised, ReadIsCurrent, ReplyIsCurrent, AuthorisesAlone, RefreshTokenKept
<1>6. ASSUME NEW o \in Operator, RefreshByHand(o) PROVE TokenInv'
  <2>1. /\ UNCHANGED <<row, intuit, lost>> /\ serial' = FALSE
        /\ \A p \in Actor : /\ call'[p].pc \in {call[p].pc, "read"} /\ call'[p].token = call[p].token
                            /\ call'[p].stale = call[p].stale /\ call'[p].reply = call[p].reply
    BY <1>6 DEF RefreshByHand, Goto, TypeOK
  <2>2. TokensIssued'
    BY <2>1 DEF TokensIssued, TokensKnown, At
  <2>3. GoneIsLost'
    BY <2>1 DEF GoneIsLost, At
  <2> QED BY <2>1, <2>2, <2>3 DEF Serialised, ReadIsCurrent, ReplyIsCurrent, AuthorisesAlone, RefreshTokenKept
<1>7. ASSUME NEW o \in Operator, Revoke(o) PROVE TokenInv'
  <2>1. /\ UNCHANGED <<row, lock, serial>> /\ lost' = TRUE
        /\ \A p \in Actor \ {o} : call'[p] = call[p]
        /\ call'[o] = [call[o] EXCEPT !.pc = "delete"]
    BY <1>7 DEF Revoke, Goto, TypeOK
  <2>2. /\ call'[o].pc = "delete" /\ call'[o].token = call[o].token /\ call'[o].stale = call[o].stale
    BY <2>1 DEF TypeOK
  <2>3. intuit'.issued = intuit.issued /\ intuit'.access = {}
    BY <1>7 DEF Revoke, TypeOK
  <2>4. TokensIssued'
    <3>1. ASSUME NEW p \in Actor PROVE TokensKnown(p)'
      <4>1. CASE p # o
        BY <2>1, <2>3, <4>1 DEF TokensIssued, TokensKnown, At
      <4>2. CASE p = o
        BY <2>2, <2>3, <4>2 DEF TokensIssued, TokensKnown, At
      <4> QED BY <4>1, <4>2
    <3> QED BY <2>1, <2>3, <3>1 DEF TokensIssued
  <2>5. ReadIsCurrent'
    BY <2>1, <2>2 DEF ReadIsCurrent, ReadCurrent, At
  <2>6. Serialised'
    BY <2>1, <2>2 DEF Serialised, UnderLock
  <2>7. AuthorisesAlone'
    BY <2>1, <2>2 DEF AuthorisesAlone, At
  <2> QED BY <2>1, <2>4, <2>5, <2>6, <2>7 DEF GoneIsLost, ReplyIsCurrent, RefreshTokenKept
<1>8. ASSUME NEW o \in Operator, DeleteRow(o) PROVE TokenInv'
  <2>1. /\ row' = NoRow /\ UNCHANGED <<intuit, lost, lock, serial>> /\ lost /\ Leaves(o)
    BY <1>8, EndLeaves DEF DeleteRow, GoneIsLost
  <2>2. TokensIssued'
    <3>1. ASSUME NEW p \in Actor PROVE TokensKnown(p)'
      <4>1. CASE p # o
        BY <2>1, <4>1 DEF TokensIssued, TokensKnown, At, Leaves
      <4>2. call'[o].pc = "ended" /\ call'[o].token = None /\ call'[o].stale = None
        BY <1>8 DEF DeleteRow, End, Set, Idle, TypeOK
      <4>3. CASE p = o
        BY <2>1, <4>2, <4>3, StaleType DEF TokensKnown, At
      <4> QED BY <4>1, <4>3
    <3> QED BY <2>1, <3>1 DEF TokensIssued
  <2>3. Serialised'
    BY <2>1 DEF Serialised, Leaves
  <2>4. AuthorisesAlone'
    <3>1. ASSUME NEW p \in Actor
          PROVE  call'[p].pc \in {call[p].pc} \cup (Pc \ (UnderLock \cup {"delete", "authorize"}))
      BY <2>1 DEF Leaves
    <3> QED BY <2>1, <3>1 DEF AuthorisesAlone, UnderLock, At
  <2> QED BY <2>1, <2>2, <2>3, <2>4 DEF GoneIsLost, ReadIsCurrent, ReplyIsCurrent, RefreshTokenKept
<1>9. ASSUME NEW o \in Operator, Authorize(o) PROVE TokenInv'
  <2>1. /\ UNCHANGED <<row, lost, lock>> /\ serial' = (serial /\ Alone(o))
        /\ Issue(intuit.issued + 1)
        /\ \A p \in Actor \ {o} : call'[p] = call[p]
        /\ call'[o] = [Idle EXCEPT !.pc = "authorize", !.reply = Issued]
    BY <1>9 DEF Authorize, Set, TypeOK
  <2>2. /\ call'[o].pc = "authorize" /\ call'[o].token = None /\ call'[o].stale = None
        /\ call'[o].reply.access = intuit.issued + 1 /\ call'[o].reply.refresh = intuit'.refresh
        /\ intuit'.issued = intuit.issued + 1
    BY <2>1 DEF Idle, Issued, Issue
  <2>3. TokensIssued'
    <3>1. TokensKnown(o)'
      BY <2>2, StaleType DEF TokensKnown
    <3>2. \A p \in Actor \ {o} : TokensKnown(p)'
      BY <2>1, IssuingKeeps
    <3> QED BY <2>1, <3>1, <3>2, IssuingKeeps DEF TokensIssued
  <2>4. GoneIsLost' /\ RefreshTokenKept'
    BY <2>1, <2>2 DEF GoneIsLost, RefreshTokenKept, AboutToStore, At
  <2>5. Serialised'
    BY <2>1, <2>2 DEF Serialised, UnderLock
  <2>6. ReadIsCurrent' /\ ReplyIsCurrent' /\ AuthorisesAlone'
    <3>1. ASSUME serial', NEW p \in Actor \ {o}
          PROVE  call'[p].pc \notin {"read", "ask", "store", "authorize"}
      BY <2>1, <3>1 DEF Alone
    <3>2. ASSUME serial', NEW p \in Actor PROVE ReadCurrent(p)'
      BY <2>2, <3>1, <3>2 DEF ReadCurrent, At
    <3> QED BY <2>2, <3>1, <3>2 DEF ReadIsCurrent, ReplyIsCurrent, AuthorisesAlone, At
  <2> QED BY <2>3, <2>4, <2>5, <2>6
<1>10. ASSUME NEW o \in Operator, StoreAuthorization(o) PROVE TokenInv'
  <2> DEFINE clean == Alone(o) /\ call[o].reply.refresh = intuit.refresh
  <2>1. /\ UNCHANGED <<intuit, lock>> /\ At(o, "authorize")
        /\ serial' = (serial \/ clean) /\ lost' = (lost /\ ~ clean)
        /\ row' = [access |-> call[o].reply.access, refresh |-> call[o].reply.refresh,
                   expired |-> FALSE]
        /\ \A p \in Actor \ {o} : call'[p] = call[p]
    BY <1>10 DEF StoreAuthorization, End, Set, TypeOK
  <2>2. call'[o].pc = "ended" /\ call'[o].token = None /\ call'[o].stale = None
    BY <1>10 DEF StoreAuthorization, End, Set, Idle, TypeOK
  <2>3. row'.access \in 1 .. intuit.issued /\ row'.refresh = call[o].reply.refresh
    BY <2>1 DEF TokensIssued, TokensKnown, At
  <2>4. row' # NoRow
    BY <2>3 DEF NoRow
  <2>5. TokensIssued'
    <3>1. TokensKnown(o)'
      BY <2>1, <2>2, StaleType DEF TokensKnown
    <3>2. \A p \in Actor \ {o} : TokensKnown(p)'
      BY <2>1 DEF TokensIssued, TokensKnown, At
    <3> QED BY <2>1, <2>3, <3>1, <3>2 DEF TokensIssued
  <2>6. ASSUME serial', NEW p \in Actor
        PROVE  call'[p].pc \notin {"read", "ask", "store", "authorize"}
    BY <2>1, <2>2, <2>6 DEF Alone, AuthorisesAlone, At
  <2>7. GoneIsLost'
    BY <2>1, <2>2, <2>4 DEF GoneIsLost, Alone, At
  <2>8. Serialised'
    BY <2>1, <2>2, <2>6 DEF Serialised, Alone, UnderLock
  <2>9. ReadIsCurrent' /\ ReplyIsCurrent' /\ AuthorisesAlone'
    <3>1. \A p \in Actor : serial' => ReadCurrent(p)'
      BY <2>6 DEF ReadCurrent, At
    <3> QED BY <2>6, <3>1 DEF ReadIsCurrent, ReplyIsCurrent, AuthorisesAlone, At
  <2>10. RefreshTokenKept'
    <3>1. CASE clean
      BY <2>1, <2>3, <2>4, <3>1 DEF RefreshTokenKept, Dead
    <3>2. CASE serial /\ ~ lost
      BY <2>1, <2>3, <2>4, <3>2 DEF RefreshTokenKept, Dead, ReplyIsCurrent, At
    <3> QED BY <2>1, <3>1, <3>2 DEF RefreshTokenKept
  <2> QED BY <2>5, <2>7, <2>8, <2>9, <2>10
<1> QED
  BY <1>1, <1>2, <1>3, <1>4, <1>5, <1>6, <1>7, <1>8, <1>9, <1>10 DEF Next

\* The first pair of tokens is stored and nobody calls.
LEMMA TokenInit ==
    ASSUME Init
    PROVE  TypeOK /\ TokenInv
<1>1. TypeOK
  <2>1. Idle \in Calls
    BY DEF Calls, Idle, NoPair, Pair, Pc, Result
  <2>2. call \in [Actor -> Calls]
    BY <2>1 DEF Init
  <2>3. RestOK
    BY DEF Init, RestOK, RowOK, IntuitOK, LockOK, BudgetOK, FaultsOK
  <2>4. FlagsOK
    BY DEF Init, FlagsOK
  <2> QED
    BY <2>2, <2>3, <2>4 DEF TypeOK, RestOK, Calls, RowOK, IntuitOK, LockOK, BudgetOK, FaultsOK, FlagsOK
<1>2. /\ row.access = 1 /\ row.refresh = 1 /\ intuit.refresh = 1 /\ intuit.issued = 1
      /\ \A p \in Actor : call[p].pc = "ended" /\ call[p].token = None /\ call[p].stale = None
  BY DEF Init, Idle
<1>3. row # NoRow
  BY <1>2 DEF NoRow
<1>4. TokensIssued
  BY <1>2 DEF TokensIssued, TokensKnown, At
<1> QED BY <1>1, <1>2, <1>3, <1>4
        DEF TokenInv, Serialised, UnderLock, GoneIsLost, ReadIsCurrent, ReadCurrent, ReplyIsCurrent,
            AuthorisesAlone, RefreshTokenKept, Dead, At

\* Neither does stuttering.
LEMMA Stutter ==
    ASSUME TypeOK, TokenInv, UNCHANGED vars
    PROVE  TypeOK' /\ TokenInv'
BY DEF vars, TypeOK, TokenInv, Serialised, TokensIssued, TokensKnown, GoneIsLost, ReadIsCurrent,
       ReadCurrent, ReplyIsCurrent, AuthorisesAlone, RefreshTokenKept, AboutToStore, Dead, At

\* In every reachable state every variable has its type: no call makes more than
\* MaxAttempts attempts, and Intuit accepts only access tokens that it has issued.
THEOREM RequestTypeCorrect == Spec => []TypeOK
<1>1. Init => TypeOK
  BY TokenInit
<1>2. TypeOK /\ [Next]_vars => TypeOK'
  <2>1. TypeOK /\ UNCHANGED vars => TypeOK'
    BY DEF vars, TypeOK
  <2> QED BY <2>1, TypeStep
<1> QED BY <1>1, <1>2, PTL DEF Spec

\* The invariant of the tokens holds in every reachable state.
THEOREM TokenInvHolds == Spec => []TokenInv
<1>1. Init => TypeOK /\ TokenInv
  BY TokenInit
<1>2. TypeOK /\ TokenInv /\ [Next]_vars => TypeOK' /\ TokenInv'
  BY TypeStep, TokenStep, Stutter
<1> QED BY <1>1, <1>2, PTL DEF Spec

\* While refreshes are serialised, with each other and with authorisations, and Intuit's
\* answers are stored, the row holds the refresh token that Intuit accepts, or somebody is
\* about to store it: no refresh overwrites a later one.
THEOREM RefreshTokenIsKept == Spec => []RefreshTokenKept
<1>1. TokenInv => RefreshTokenKept
  BY DEF TokenInv
<1> QED BY <1>1, TokenInvHolds, PTL

----------------------------------------------------------------------------
(* The budget.                                                             *)

\* The calls that are counted in this month and not served yet.
Reserved == {p \in Actor : call[p].counted}

\* The inductive invariant of the budget: a counted call keeps its place until it is sent.
CapInv ==
    /\ IsFiniteSet(Reserved)
    /\ \A p \in Actor : call[p].counted => At(p, "send")
    /\ traffic.served + Cardinality(Reserved) <= meter + traffic.uncounted
    /\ traffic.served + Cardinality(Reserved) < Block + traffic.uncounted

\* p's call is not counted any more after the step.
Frees(p) ==
    /\ \A q \in Actor \ {p} : call'[q] = call[q]
    /\ ~ call'[p].counted

\* A step that frees p's place takes p from the reserved calls.
LEMMA FreesReserved ==
    ASSUME TypeOK, NEW p \in Actor, Frees(p), IsFiniteSet(Reserved)
    PROVE  /\ Reserved' = Reserved \ {p} /\ IsFiniteSet(Reserved')
           /\ Cardinality(Reserved) \in Nat /\ Cardinality(Reserved') \in Nat
           /\ Cardinality(Reserved') = Cardinality(Reserved) - IF call[p].counted THEN 1 ELSE 0
<1>1. Reserved' = Reserved \ {p}
  BY DEF Frees, Reserved
<1>2. p \in Reserved <=> call[p].counted
  BY DEF Reserved
<1> QED BY <1>1, <1>2, FS_RemoveElement, FS_CardinalityType

\* A call that ends frees its place ...
LEMMA EndFrees ==
    ASSUME TypeOK, NEW p \in Actor, NEW result, End(p, result)
    PROVE  Frees(p)
BY DEF Frees, End, Set, TypeOK, Idle

\* ... so does one that starts over ...
LEMMA FailFrees ==
    ASSUME TypeOK, NEW p \in Actor, Fail(p)
    PROVE  Frees(p)
<1>1. CASE End(p, "transient")
  BY <1>1, EndFrees
<1>2. CASE Set(p, [Idle EXCEPT !.pc = "resolve", !.attempt = call[p].attempt + 1])
  BY <1>2 DEF Frees, Set, TypeOK, Idle
<1> QED BY <1>1, <1>2 DEF Fail

\* ... and one that has none keeps none.
LEMMA GotoFrees ==
    ASSUME TypeOK, NEW p \in Actor, NEW label, Goto(p, label), ~ call[p].counted
    PROVE  Frees(p)
BY DEF Frees, Goto, TypeOK

\* Every step of a call but being counted.
LEMMA StepFrees ==
    ASSUME TypeOK, CapInv, NEW p \in Actor,
           Start(p) \/ Refresh(p) \/ Send(p) \/ Faults(p)
    PROVE  Frees(p)
<1> USE DEF CapInv, At
<1>1. CASE Start(p)
  BY <1>1 DEF Start, Frees, Set, TypeOK, Idle
<1>2. CASE Crash(p)
  BY <1>2 DEF Crash, Frees, Set, TypeOK, Idle
<1>3. CASE RefreshFails(p) \/ StoreFails(p) \/ SendFails(p) \/ LockTimesOut(p) \/ InvalidGrant(p)
  BY <1>3, FailFrees, EndFrees DEF RefreshFails, StoreFails, SendFails, LockTimesOut, InvalidGrant
<1>4. CASE CountFails(p)
  BY <1>4, GotoFrees DEF CountFails
<1>5. CASE Send(p)
  <2>1. CASE Set(p, [Idle EXCEPT !.pc = "resolve", !.attempt = call[p].attempt,
                                 !.stale = call[p].token])
    BY <2>1 DEF Set, Frees, TypeOK, Idle
  <2> QED BY <1>5, <2>1, FailFrees, EndFrees DEF Send
<1>6. ASSUME Use(p), ~ call[p].counted PROVE Frees(p)
  BY <1>6 DEF Use, Set, Frees, TypeOK
<1>7. CASE Resolve(p)
  <2>1. ~ call[p].counted
    BY <1>7 DEF Resolve
  <2> QED BY <1>7, <2>1, <1>6, EndFrees, GotoFrees DEF Resolve
<1>8. CASE AcquireLock(p)
  BY <1>8, GotoFrees DEF AcquireLock
<1>9. CASE Reread(p)
  <2>1. ~ call[p].counted
    BY <1>9 DEF Reread
  <2> QED BY <1>9, <2>1, <1>6, EndFrees, GotoFrees DEF Reread
<1>10. CASE ReadRefreshToken(p)
  <2>1. CASE Set(p, [call[p] EXCEPT !.pc = "ask", !.reply.refresh = row.refresh])
    <3>1. ~ call[p].counted
      BY <1>10 DEF ReadRefreshToken
    <3> QED BY <2>1, <3>1 DEF Set, Frees, TypeOK
  <2> QED BY <1>10, <2>1, FailFrees DEF ReadRefreshToken
<1>11. CASE AskIntuit(p)
  <2>1. ~ call[p].counted
    BY <1>11 DEF AskIntuit
  <2> QED BY <1>11, <2>1 DEF AskIntuit, Set, Frees, TypeOK
<1>12. CASE StoreTokens(p)
  <2>1. ~ call[p].counted
    BY <1>12 DEF StoreTokens
  <2>2. CASE Set(p, [call[p] EXCEPT !.pc = "readback", !.reply = NoPair])
    BY <2>1, <2>2 DEF Set, Frees, TypeOK
  <2> QED BY <1>12, <2>2, FailFrees DEF StoreTokens
<1>13. CASE ReadBack(p)
  <2>1. ~ call[p].counted
    BY <1>13 DEF ReadBack
  <2> QED BY <1>13, <2>1, <1>6, EndFrees, FailFrees DEF ReadBack
<1> QED
  BY <1>1, <1>2, <1>3, <1>4, <1>5, <1>7, <1>8, <1>9, <1>10, <1>11, <1>12, <1>13 DEF Refresh, Faults

\* No step disturbs the invariant: Count reserves only below the threshold.
LEMMA CapStep ==
    ASSUME TypeOK, CapInv, Next
    PROVE  CapInv'
<1> USE DEF tokens, budget
<1>0. /\ meter \in Nat /\ Block \in Nat \ {0} /\ meter <= Block
      /\ traffic.served \in Nat /\ traffic.uncounted \in Nat
      /\ IsFiniteSet(Reserved) /\ Cardinality(Reserved) \in Nat
  BY FS_CardinalityType DEF TypeOK, CapInv
<1>1. ASSUME NEW p \in Actor, Frees(p), meter' = meter, traffic' = traffic \/ (Serve(p) /\ At(p, "send"))
      PROVE  CapInv'
  <2>1. \A q \in Actor : call'[q].counted => call'[q].pc = "send"
    BY <1>1 DEF Frees, CapInv, At
  <2>2. IsFiniteSet(Reserved') /\ Cardinality(Reserved') \in Nat
        /\ Cardinality(Reserved') = Cardinality(Reserved) - IF call[p].counted THEN 1 ELSE 0
    BY <1>0, <1>1, FreesReserved
  <2>3. CASE traffic' = traffic
    BY <1>0, <1>1, <2>1, <2>2, <2>3 DEF CapInv, At
  <2>4. CASE Serve(p)
    <3>1. /\ traffic'.served = traffic.served + 1
          /\ traffic'.uncounted = traffic.uncounted + IF call[p].counted THEN 0 ELSE 1
      BY <2>4 DEF Serve
    <3> QED BY <1>0, <1>1, <2>1, <2>2, <3>1 DEF CapInv, At
  <2> QED BY <1>1, <2>3, <2>4
<1>2. ASSUME NEW p \in Actor, Count(p) PROVE CapInv'
  <2>1. CASE meter + 1 < Block
    <3>1. /\ meter' = meter + 1 /\ UNCHANGED traffic
          /\ \A q \in Actor \ {p} : call'[q] = call[q]
          /\ call'[p] = [call[p] EXCEPT !.pc = "send", !.counted = TRUE]
          /\ call[p].pc = "meter"
      BY <1>0, <1>2, <2>1 DEF Count, Set, TypeOK, At
    <3>2. call'[p].pc = "send" /\ call'[p].counted
      BY <3>1 DEF TypeOK
    <3>3. p \notin Reserved /\ Reserved' = Reserved \cup {p}
      BY <3>1, <3>2 DEF Reserved, CapInv, At
    <3>4. IsFiniteSet(Reserved') /\ Cardinality(Reserved') = Cardinality(Reserved) + 1
      BY <1>0, <3>3, FS_AddElement
    <3>5. \A q \in Actor : call'[q].counted => call'[q].pc = "send"
      BY <3>1, <3>2 DEF CapInv, At
    <3>6. traffic.served + Cardinality(Reserved) <= meter + traffic.uncounted
      BY DEF CapInv
    <3> QED BY <1>0, <2>1, <3>1, <3>4, <3>5, <3>6 DEF CapInv, At
  <2>2. CASE ~ (meter + 1 < Block)
    <3>1. UNCHANGED traffic /\ meter' >= meter /\ meter' \in Nat /\ End(p, "blocked")
      BY <1>0, <1>2, <2>2 DEF Count
    <3>2. Frees(p)
      BY <3>1, EndFrees
    <3>3. ~ call[p].counted
      BY <1>2 DEF Count, CapInv, At
    <3>4. IsFiniteSet(Reserved') /\ Cardinality(Reserved') = Cardinality(Reserved)
      BY <1>0, <3>2, <3>3, FreesReserved
    <3>5. \A q \in Actor : call'[q].counted => call'[q].pc = "send"
      BY <3>2 DEF Frees, CapInv, At
    <3> QED BY <1>0, <3>1, <3>4, <3>5 DEF CapInv, At
  <2> QED BY <2>1, <2>2
<1>3. ASSUME NEW p \in Actor, Start(p) \/ Refresh(p) \/ Send(p) \/ Faults(p) PROVE CapInv'
  <2>1. Frees(p)
    BY <1>3, StepFrees
  <2>2. meter' = meter
    BY <1>3 DEF Start, Refresh, Faults, Resolve, AcquireLock, LockTimesOut, Reread, ReadRefreshToken,
       AskIntuit, InvalidGrant, StoreTokens, ReadBack, Send, RefreshFails, StoreFails, CountFails,
       SendFails, Crash
  <2>3. traffic' = traffic \/ (Serve(p) /\ At(p, "send"))
    BY <1>3 DEF Start, Refresh, Faults, Resolve, AcquireLock, LockTimesOut, Reread, ReadRefreshToken,
       AskIntuit, InvalidGrant, StoreTokens, ReadBack, Send, RefreshFails, StoreFails, CountFails,
       SendFails, Crash
  <2> QED BY <1>1, <2>1, <2>2, <2>3
<1>4. CASE MonthTurns
  <2>1. /\ meter' = 0 /\ traffic'.served = 0 /\ traffic'.uncounted = 0
        /\ \A q \in Actor : ~ call'[q].counted
    BY <1>4 DEF MonthTurns, TypeOK
  <2>2. Reserved' = {}
    BY <2>1 DEF Reserved
  <2> QED BY <1>0, <2>1, <2>2, FS_EmptySet DEF CapInv
<1>5. CASE UNCHANGED <<call, meter, traffic>>
  BY <1>5 DEF CapInv, Reserved, At
<1>6. ASSUME NEW o \in Operator,
             RefreshByHand(o) \/ Revoke(o) \/ DeleteRow(o) \/ Authorize(o) \/ StoreAuthorization(o)
      PROVE  CapInv'
  <2>1. UNCHANGED <<meter, traffic>>
    BY <1>6 DEF RefreshByHand, Revoke, DeleteRow, Authorize, StoreAuthorization
  <2>2. Frees(o)
    <3>1. CASE DeleteRow(o) \/ StoreAuthorization(o)
      BY <3>1, EndFrees DEF DeleteRow, StoreAuthorization
    <3>3. CASE Authorize(o)
      BY <3>3 DEF Authorize, Set, Frees, TypeOK, Idle
    <3>2. CASE RefreshByHand(o) \/ Revoke(o)
      <4>1. ~ call[o].counted
        BY <3>2 DEF RefreshByHand, Revoke, CapInv, At
      <4> QED BY <3>2, <4>1, GotoFrees DEF RefreshByHand, Revoke
    <3> QED BY <1>6, <3>1, <3>2, <3>3
  <2> QED BY <1>1, <2>1, <2>2
<1> QED
  BY <1>2, <1>3, <1>4, <1>5, <1>6 DEF Next, Progress, TokenAges, LockDrops, TokenRefused

\* QBO serves fewer than Block calls in a month, apart from those counted in the month
\* before or not at all, however many threads count and send at the same time.
THEOREM CapIsHeld == Spec => []CapHolds
<1>1. Init => CapInv
  <2> SUFFICES ASSUME Init PROVE CapInv
    OBVIOUS
  <2>1. \A p \in Actor : ~ call[p].counted
    BY DEF Init, Idle
  <2>2. Reserved = {}
    BY <2>1 DEF Reserved
  <2> QED BY <2>1, <2>2, FS_EmptySet DEF Init, CapInv
<1>2. CapInv /\ UNCHANGED vars => CapInv'
  BY DEF vars, CapInv, Reserved, At
<1>3. TypeOK /\ CapInv /\ [Next]_vars => CapInv'
  BY <1>2, CapStep
<1>4. TypeOK /\ CapInv => CapHolds
  BY FS_CardinalityType DEF TypeOK, CapInv, CapHolds
<1> QED BY <1>1, <1>3, <1>4, RequestTypeCorrect, PTL DEF Spec

----------------------------------------------------------------------------
(* What a step may never do.                                               *)

\* A step of p leaves the other calls alone.
LEMMA OthersStay ==
    ASSUME TypeOK, NEW p \in Actor, NEW q \in Actor \ {p}, Start(p) \/ Progress(p) \/ Faults(p)
    PROVE  call'[q] = call[q]
<1>1. ASSUME NEW c, Set(p, c) PROVE call'[q] = call[q]
  BY <1>1 DEF Set, TypeOK
<1>2. ASSUME NEW label, Goto(p, label) PROVE call'[q] = call[q]
  BY <1>2 DEF Goto, TypeOK
<1>3. Fail(p) => call'[q] = call[q]
  BY <1>1 DEF Fail, End
<1>4. \A result : End(p, result) => call'[q] = call[q]
  BY <1>1 DEF End
<1>5. Use(p) => call'[q] = call[q]
  BY <1>1 DEF Use
<1>6. CASE Start(p) \/ AcquireLock(p) \/ LockTimesOut(p) \/ ReadRefreshToken(p) \/ AskIntuit(p)
           \/ InvalidGrant(p) \/ StoreTokens(p) \/ Count(p) \/ Faults(p)
  BY <1>1, <1>2, <1>3, <1>4, <1>6
  DEF Start, AcquireLock, LockTimesOut, ReadRefreshToken, AskIntuit, InvalidGrant, StoreTokens,
      Count, Faults, RefreshFails, StoreFails, CountFails, SendFails, Crash
<1>7. CASE Resolve(p) \/ Reread(p)
  BY <1>2, <1>4, <1>5, <1>7 DEF Resolve, Reread
<1>8. CASE ReadBack(p)
  BY <1>3, <1>4, <1>5, <1>8 DEF ReadBack
<1>9. CASE Send(p)
  BY <1>1, <1>3, <1>4, <1>9 DEF Send
<1> QED BY <1>6, <1>7, <1>8, <1>9 DEF Progress, Refresh

\* Only a missing row and an invalid_grant end a call with "permanent".
LEMMA PermanentCauses ==
    ASSUME TypeOK, NEW p \in Actor, Start(p) \/ Progress(p) \/ Faults(p),
           call'[p].result = "permanent", call[p].result # "permanent"
    PROVE  row = NoRow \/ InvalidGrant(p)
<1>0. ASSUME NEW c, c.result # "permanent" PROVE ~ Set(p, c)
  BY <1>0 DEF Set, TypeOK
<1>1. ASSUME NEW result, result # "permanent" PROVE ~ End(p, result)
  BY <1>1 DEF End, Set, TypeOK, Idle
<1>2. ~ Set(p, Idle)
  BY DEF Set, TypeOK, Idle
<1>3. ASSUME NEW n PROVE ~ Set(p, [Idle EXCEPT !.pc = "resolve", !.attempt = n])
  <2>1. [Idle EXCEPT !.pc = "resolve", !.attempt = n].result = "none"
    BY DEF Idle
  <2> QED BY <1>0, <2>1
<1>4. ~ Fail(p)
  BY <1>1, <1>3 DEF Fail
<1>5. \A label : ~ Goto(p, label)
  BY DEF Goto, TypeOK
<1> DEFINE Same(c) == c.result = call[p].result
<1>6. ~ Use(p)
  <2>1. Same([call[p] EXCEPT !.pc = "meter", !.token = row.access])
    BY DEF TypeOK
  <2> QED BY <1>0, <2>1 DEF Use
<1>7. ASSUME NEW n PROVE ~ Set(p, [call[p] EXCEPT !.pc = "ask", !.reply.refresh = n])
  <2>1. Same([call[p] EXCEPT !.pc = "ask", !.reply.refresh = n])
    BY DEF TypeOK
  <2> QED BY <1>0, <2>1
<1>8. ASSUME NEW label, NEW r PROVE ~ Set(p, [call[p] EXCEPT !.pc = label, !.reply = r])
  <2>1. Same([call[p] EXCEPT !.pc = label, !.reply = r])
    BY DEF TypeOK
  <2> QED BY <1>0, <2>1
<1>9. ~ Set(p, [call[p] EXCEPT !.pc = "send", !.counted = TRUE])
  <2>1. Same([call[p] EXCEPT !.pc = "send", !.counted = TRUE])
    BY DEF TypeOK
  <2> QED BY <1>0, <2>1
<1>10. ASSUME NEW n, NEW t
       PROVE  ~ Set(p, [Idle EXCEPT !.pc = "resolve", !.attempt = n, !.stale = t])
  <2>1. [Idle EXCEPT !.pc = "resolve", !.attempt = n, !.stale = t].result = "none"
    BY DEF Idle
  <2> QED BY <1>0, <2>1
<1>11. CASE Start(p) \/ AcquireLock(p) \/ LockTimesOut(p) \/ Faults(p)
  BY <1>2, <1>3, <1>4, <1>5, <1>11
  DEF Start, AcquireLock, LockTimesOut, Faults, RefreshFails, StoreFails, CountFails, SendFails, Crash
<1>12. CASE Resolve(p) \/ Reread(p)
  BY <1>5, <1>6, <1>12 DEF Resolve, Reread
<1>13. CASE ReadRefreshToken(p) \/ AskIntuit(p) \/ StoreTokens(p) \/ Count(p)
  BY <1>1, <1>4, <1>5, <1>7, <1>8, <1>9, <1>13
  DEF ReadRefreshToken, AskIntuit, StoreTokens, Count
<1>14. CASE ReadBack(p)
  BY <1>1, <1>4, <1>6, <1>14 DEF ReadBack
<1>15. CASE Send(p)
  BY <1>1, <1>4, <1>10, <1>15 DEF Send
<1> QED BY <1>11, <1>12, <1>13, <1>14, <1>15 DEF Progress, Refresh

\* While refreshes are serialised, with each other and with authorisations, a call ends
\* with "re-authorise" only if the row's refresh token is worthless and nobody is about to
\* store another: no call is told so because somebody else has just refreshed.
THEOREM PermanentMeansWorthless == Spec => PermanentIsTrue
<1>1. TypeOK /\ TokenInv /\ [Next]_vars =>
        [\A p \in Caller :
            (serial /\ call'[p].result = "permanent" /\ call[p].result # "permanent")
               => Worthless]_vars
  <2> SUFFICES ASSUME TypeOK, TokenInv, Next, NEW p \in Caller, serial,
                      call'[p].result = "permanent", call[p].result # "permanent"
               PROVE  Worthless
    OBVIOUS
  <2>1. ASSUME NEW q \in Actor, Start(q) \/ Progress(q) \/ Faults(q) PROVE Worthless
    <3>1. q = p
      BY <2>1, OthersStay
    <3>2. CASE row = NoRow
      BY <3>2 DEF Worthless
    <3>3. CASE row # NoRow /\ InvalidGrant(p)
      <4>1. Dead
        BY <3>3 DEF InvalidGrant, TokenInv, ReadIsCurrent, ReadCurrent, Dead
      <4>2. ~ AboutToStore
        BY <3>3 DEF InvalidGrant, TokenInv, Serialised, AuthorisesAlone, UnderLock, AboutToStore, At
      <4> QED BY <4>1, <4>2 DEF Worthless
    <3> QED BY <2>1, <3>1, <3>2, <3>3, PermanentCauses
  <2>2. ~ MonthTurns
    <3>1. [call[p] EXCEPT !.counted = FALSE].result = call[p].result
      BY DEF TypeOK
    <3> QED BY <3>1 DEF MonthTurns
  <2>3. call' # call
    OBVIOUS
  <2>4. ASSUME NEW o \in Operator,
               \/ RefreshByHand(o) \/ Revoke(o) \/ DeleteRow(o)
               \/ Authorize(o) \/ StoreAuthorization(o)
        PROVE  FALSE
    <3>1. o # p
      BY DEF Actor
    <3> QED
      BY <2>4, <3>1
      DEF RefreshByHand, Revoke, DeleteRow, Authorize, StoreAuthorization, Goto, End, Set, TypeOK
  <2> QED
    BY <2>1, <2>2, <2>3, <2>4 DEF Next, TokenAges, LockDrops, TokenRefused
<1> QED BY <1>1, RequestTypeCorrect, TokenInvHolds, PTL DEF Spec, PermanentIsTrue

\* While refreshes are serialised, with each other and with authorisations, Intuit issues
\* tokens only to an authorisation, or when the row's token is near its expiry or refused,
\* or its refresh token dead: of the calls that find one token expired, one refreshes it.
THEOREM OneCallRefreshes == Spec => OneRefreshPerToken
<1>1. TypeOK /\ TokenInv /\ [Next]_vars =>
        [(serial /\ intuit'.issued > intuit.issued) =>
            \/ Dead \/ row.expired \/ row.access \notin intuit.access
            \/ \E o \in Operator : Authorize(o)]_vars
  <2> SUFFICES ASSUME TypeOK, TokenInv, Next, serial, intuit'.issued > intuit.issued,
                      ~ \E o \in Operator : Authorize(o)
               PROVE  Dead \/ row.expired \/ row.access \notin intuit.access
    OBVIOUS
  <2>1. intuit' # intuit
    BY StaleType
  <2>2. ASSUME NEW p \in Actor, At(p, "ask")
        PROVE  Dead \/ row.expired \/ row.access \notin intuit.access
    <3>1. CASE row = NoRow
      BY <3>1 DEF Dead
    <3>2. CASE row # NoRow /\ ~ row.expired
      <4>1. row.access = call[p].stale
        BY <2>2, <3>2 DEF TokenInv, ReadIsCurrent, ReadCurrent, At
      <4>2. row.access # None
        BY <3>2 DEF TokenInv, TokensIssued
      <4> QED BY <4>1, <4>2 DEF TokenInv, TokensIssued, TokensKnown
    <3> QED BY <3>1, <3>2
  <2>3. CASE \E p \in Actor : AskIntuit(p) \/ RefreshFails(p)
    BY <2>1, <2>2, <2>3 DEF AskIntuit, RefreshFails
  <2>5. ASSUME NEW t \in intuit.access, TokenRefused(t) PROVE FALSE
    BY <2>5 DEF TokenRefused, TypeOK
  <2>6. ASSUME NEW o \in Operator, Revoke(o) PROVE FALSE
    BY <2>6 DEF Revoke, TypeOK
  <2> QED
    BY <2>1, <2>3, <2>5, <2>6
    DEF Next, Progress, Refresh, Faults, Start, Resolve, AcquireLock, LockTimesOut, Reread,
        ReadRefreshToken, InvalidGrant, StoreTokens, ReadBack, Count, Send, StoreFails, CountFails,
        SendFails, Crash, MonthTurns, TokenAges, LockDrops, RefreshByHand, DeleteRow, StoreAuthorization,
        tokens
<1> QED BY <1>1, RequestTypeCorrect, TokenInvHolds, PTL DEF Spec, OneRefreshPerToken
=============================================================================
