------------------------ MODULE QboOutboxRefinement ------------------------
(***************************************************************************)
(* The outbox implements the durable queue, even when the session that     *)
(* owns the lock is closed under a live worker.                            *)
(***************************************************************************)
EXTENDS QboOutboxProofs

USE ConstantsAssumption DEF Row, Actor, None, Nobody

LEMMA InitRefines == Init => Queue!Init
BY DEF Init, Queue!Init, TicketState, AbsentRow

\* The state of a ticket follows the status of its row.
LEMMA TicketStates ==
    ASSUME NEW r \in Row, outbox[r].status \in Status
    PROVE  /\ outbox[r].status = "absent" => TicketState(r) = "none"
           /\ outbox[r].status \in {"pending", "failed"} => TicketState(r) = "waiting"
           /\ outbox[r].status = "in_progress" => TicketState(r) = "taken"
           /\ outbox[r].status = "done" => TicketState(r) = "finished"
           /\ outbox[r].status = "dead_letter" => TicketState(r) = "given_up"
BY DEF TicketState, Status

(* The steps of the queue, seen from the rows.                             *)

KeepsBills == \A s \in Row : outbox'[s].bill = outbox[s].bill
Keeps(S)   == \A s \in S : TicketState(s)' = TicketState(s)

LEMMA Stutters ==
    ASSUME KeepsBills, Keeps(Row), UNCHANGED link
    PROVE  UNCHANGED Queue!vars
BY DEF Queue!vars, KeepsBills, Keeps

LEMMA Submits ==
    ASSUME NEW r \in Row, NEW b \in Bill, TicketState(r) = "none", TicketState(r)' = "waiting",
           outbox'[r].bill = b, \A s \in Row \ {r} : outbox'[s].bill = outbox[s].bill,
           Keeps(Row \ {r}), UNCHANGED link
    PROVE  Queue!Next
<1>1. Queue!Submit(r, b)
  BY DEF Queue!Submit, Keeps
<1> QED BY <1>1 DEF Queue!Next

LEMMA Takes ==
    ASSUME NEW r \in Row, TicketState(r) = "waiting", TicketState(r)' = "taken",
           KeepsBills, Keeps(Row \ {r}), UNCHANGED link
    PROVE  Queue!Next
<1>1. Queue!Take(r)
  BY DEF Queue!Take, KeepsBills, Keeps
<1> QED BY <1>1 DEF Queue!Next

LEMMA Finishes ==
    ASSUME NEW r \in Row, TicketState(r) = "taken", TicketState(r)' = "finished",
           outbox[r].bill \in Bill, link[outbox[r].bill] # None,
           KeepsBills, Keeps(Row \ {r}), UNCHANGED link
    PROVE  Queue!Next
<1>1. Queue!Finish(r)
  BY DEF Queue!Finish, KeepsBills, Keeps
<1> QED BY <1>1 DEF Queue!Next

LEMMA Revives ==
    ASSUME NEW r \in Row, TicketState(r) = "given_up", TicketState(r)' = "waiting",
           KeepsBills, Keeps(Row \ {r}), UNCHANGED link
    PROVE  Queue!Next
<1>1. Queue!Revive(r)
  BY DEF Queue!Revive, KeepsBills, Keeps
<1> QED BY <1>1 DEF Queue!Next

LEMMA Returns ==
    ASSUME NEW back \in SUBSET Row, NEW out \in SUBSET Row, back \cap out = {},
           \A r \in back : TicketState(r) = "taken" /\ TicketState(r)' = "waiting",
           \A r \in out : TicketState(r) = "taken" /\ TicketState(r)' = "given_up",
           KeepsBills, Keeps(Row \ (back \cup out)), UNCHANGED link
    PROVE  [Queue!Next]_(Queue!vars)
<1>1. \A r \in Row : TicketState(r)' = CASE r \in back -> "waiting"
                                        [] r \in out  -> "given_up"
                                        [] OTHER      -> TicketState(r)
  BY DEF Keeps
<1>2. back \cup out \subseteq Queue!Taken
  BY DEF Queue!Taken
<1>3. Queue!Return(back, out)
  BY <1>1, <1>2 DEF Queue!Return, KeepsBills
<1>4. CASE back \cup out = {}
  <2>1. Keeps(Row)
    BY <1>4
  <2> QED BY <2>1, Stutters
<1>5. ASSUME NEW r \in back \cup out PROVE Queue!Next
  <2>1. r \in Row /\ TicketState(r)' # TicketState(r)
    OBVIOUS
  <2>2. [s \in Row |-> TicketState(s)]' # [s \in Row |-> TicketState(s)]
    BY <2>1
  <2>3. back \in SUBSET Queue!Taken /\ out \in SUBSET (Queue!Taken \ back)
    BY <1>2
  <2> QED BY <1>3, <2>2, <2>3 DEF Queue!Next
<1> QED BY <1>4, <1>5

LEMMA Delivers ==
    ASSUME NEW r \in Row, NEW b \in Bill, b = outbox[r].bill, link \in [Bill -> Nat],
           link' = [link EXCEPT ![b] = r],
           KeepsBills, Keeps(Row)
    PROVE  [Queue!Next]_(Queue!vars)
<1> DEFINE delivered == {c \in Bill : link[c] # None}
<1>1. delivered' = delivered \cup {b}
  OBVIOUS
<1>2. CASE b \in delivered
  <2>1. delivered' = delivered
    BY <1>1, <1>2
  <2> QED BY <2>1 DEF Queue!vars, KeepsBills, Keeps
<1>3. CASE b \notin delivered
  <2>1. Queue!Deliver(b)
    BY <1>1 DEF Queue!Deliver, KeepsBills, Keeps
  <2> QED BY <1>3, <2>1 DEF Queue!Next
<1> QED BY <1>2, <1>3

----------------------------------------------------------------------------

\* A row whose bill and status do not change.
LEMMA SameStatus ==
    ASSUME NEW r \in Row, outbox'[r].status = outbox[r].status
    PROVE  TicketState(r)' = TicketState(r)
BY DEF TicketState

LEMMA EnqueueRefines ==
    ASSUME IInv, Next, NEW p \in Producer, Enqueue(p)
    PROVE  [Queue!Next]_(Queue!vars)
<1> USE DEF IInv, Shape, TypeOK, TableOK, table, books
<1>1. UNCHANGED link
  BY DEF Enqueue, Commit, FindPending, ExtendDebounce, CheckDeadLetter, CreateRow, ProducerCrash
<1>2. CASE UNCHANGED outbox
  BY <1>1, <1>2, Stutters, SameStatus DEF KeepsBills, Keeps
<1>3. CASE ExtendDebounce(p)
  <2>1. copy[p] \in Row /\ outbox[copy[p]] \in Columns
    BY <1>3 DEF ExtendDebounce, CopiesExist
  <2>2. CASE outbox' = [outbox EXCEPT ![copy[p]].settled = FALSE]
    <3>1. \A r \in Row : outbox'[r].status = outbox[r].status /\ outbox'[r].bill = outbox[r].bill
      BY <2>1, <2>2 DEF Columns
    <3> QED BY <1>1, <3>1, Stutters, SameStatus DEF KeepsBills, Keeps
  <2> QED BY <1>2, <1>3, <2>2 DEF ExtendDebounce
<1>4. CASE CreateRow(p)
  <2>1. lastRow + 1 \in Row /\ target[p] \in Bill /\ outbox[lastRow + 1] = AbsentRow
    BY <1>4 DEF CreateRow, CopiesExist, RowsInOrder
  <2>2. PICK r \in Row, b \in Bill : r = lastRow + 1 /\ b = target[p]
    BY <2>1
  <2>3. /\ outbox'[r].status = "pending" /\ outbox'[r].bill = b
        /\ \A s \in Row \ {r} : outbox'[s] = outbox[s]
    BY <1>4, <2>2 DEF CreateRow
  <2>4. TicketState(r) = "none"
    BY <2>1, <2>2 DEF TicketState, AbsentRow
  <2>5. TicketState(r)' = "waiting"
    BY <2>3 DEF TicketState
  <2> QED BY <1>1, <2>3, <2>4, <2>5, Submits, SameStatus DEF Keeps
<1> QED BY <1>2, <1>3, <1>4 DEF Enqueue, Commit, FindPending, CheckDeadLetter, ProducerCrash

LEMMA HandleRefines ==
    ASSUME IInv, Next, NEW w \in Worker, Handle(w)
    PROVE  [Queue!Next]_(Queue!vars)
<1> USE DEF IInv, Shape, TypeOK, table, books
<1>1. /\ UNCHANGED outbox
      /\ Handling(w)
      /\ UNCHANGED link \/ link' = [link EXCEPT ![BillOf(w)] = RequestId(w)]
  BY DEF Handle, Post, LoadBill, LoadFails, PostAccepted, PostAnswerLost, PostUnprocessed,
         PostRejected, WritesRefused, StageBill, StampBill, StoreFails, SyncAttachments,
         Handling, HandlerPc, MarkPc
<1>2. KeepsBills /\ Keeps(Row)
  BY <1>1, SameStatus DEF KeepsBills, Keeps
<1>3. CASE UNCHANGED link
  BY <1>2, <1>3, Stutters
<1>4. CASE link' = [link EXCEPT ![BillOf(w)] = RequestId(w)]
  <2>1. copy[w] \in Row /\ outbox[copy[w]].bill \in Bill
    BY <1>1 DEF CopiesExist, RowsInOrder
  <2>2. PICK r \in Row, b \in Bill : r = copy[w] /\ b = outbox[r].bill
    BY <2>1
  <2>3. link \in [Bill -> Nat] /\ link' = [link EXCEPT ![b] = r]
    BY <1>4, <2>2 DEF BillOf, RequestId, BooksOK
  <2> QED BY <1>2, <2>2, <2>3, Delivers
<1> QED BY <1>1, <1>3, <1>4

\* Only a worker whose claim is live moves its row.
LEMMA MarkRefines ==
    ASSUME IInv, Next, NEW w \in Worker, MarkRow(w)
    PROVE  [Queue!Next]_(Queue!vars)
<1> USE DEF IInv, Shape, TypeOK, TableOK
<1>1. UNCHANGED link
  BY DEF MarkRow, MarkDone, MarkParked, MarkRetryOrDead, MarkDead, MarkFails, Mark, books
<1>2. CASE UNCHANGED outbox
  BY <1>1, <1>2, Stutters, SameStatus DEF KeepsBills, Keeps
<1>3. CASE ~ UNCHANGED outbox
  <2>1. /\ w \in fresh /\ Handling(w)
        /\ \/ /\ pc[w] = "complete"
              /\ outbox' = [outbox EXCEPT ![copy[w]] = [outbox[copy[w]] EXCEPT !.status = "done"]]
           \/ outbox' = [outbox EXCEPT ![copy[w]] = Failed(outbox[copy[w]])]
           \/ outbox' = [outbox EXCEPT ![copy[w]] = Dead(outbox[copy[w]])]
    <3>1. ~ MarkFails(w)
      BY <1>3 DEF MarkFails, table
    <3> QED BY <1>3, <3>1 DEF MarkRow, MarkDone, MarkParked, MarkRetryOrDead, MarkDead, Mark,
                              Handling, MarkPc
  <2>2. PICK r \in Row : /\ r = copy[w] /\ r <= lastRow
                         /\ outbox[r] \in Columns /\ outbox[r].status = "in_progress"
    BY <2>1 DEF CopiesExist, FreshKnows, FreshClaims
  <2>3. \/ /\ pc[w] = "complete"
           /\ outbox' = [outbox EXCEPT ![r] = [outbox[r] EXCEPT !.status = "done"]]
        \/ outbox' = [outbox EXCEPT ![r] = Failed(outbox[r])]
        \/ outbox' = [outbox EXCEPT ![r] = Dead(outbox[r])]
    BY <2>1, <2>2
  <2>4. \A s \in Row \ {r} : outbox'[s] = outbox[s]
    BY <2>3
  <2>5. /\ outbox'[r].bill = outbox[r].bill
        /\ \/ pc[w] = "complete" /\ outbox'[r].status = "done"
           \/ outbox'[r].status = "failed"
           \/ outbox'[r].status = "dead_letter"
    <3>1. CASE outbox' = [outbox EXCEPT ![r] = Failed(outbox[r])]
      BY <2>2, <3>1 DEF Failed, Columns
    <3>2. CASE outbox' = [outbox EXCEPT ![r] = Dead(outbox[r])]
      BY <2>2, <3>2 DEF Dead, Columns
    <3>3. CASE /\ pc[w] = "complete"
               /\ outbox' = [outbox EXCEPT ![r] = [outbox[r] EXCEPT !.status = "done"]]
      BY <2>2, <3>3 DEF Columns
    <3> QED BY <2>3, <3>1, <3>2, <3>3
  <2>6. KeepsBills /\ Keeps(Row \ {r})
    BY <2>4, <2>5, SameStatus DEF KeepsBills, Keeps
  <2>7. TicketState(r) = "taken"
    BY <2>2 DEF TicketState
  <2>8. CASE pc[w] = "complete" /\ outbox'[r].status = "done"
    <3>1. TicketState(r)' = "finished"
      BY <2>8 DEF TicketState
    <3>2. outbox[r].bill \in Bill /\ link[outbox[r].bill] # None
      BY <2>2, <2>8 DEF RowsInOrder, BooksInv, PushProgress, LinksExist, Linked, BillOf
    <3> QED BY <1>1, <2>6, <2>7, <3>1, <3>2, Finishes
  <2>9. CASE outbox'[r].status = "failed"
    <3>1. TicketState(r)' = "waiting"
      BY <2>9 DEF TicketState
    <3>2. {r} \in SUBSET Row /\ {r} \cap {} = {} /\ Row \ ({r} \cup {}) = Row \ {r}
      OBVIOUS
    <3> QED BY <1>1, <2>6, <2>7, <3>1, <3>2, Returns
  <2>10. CASE outbox'[r].status = "dead_letter"
    <3>1. TicketState(r)' = "given_up"
      BY <2>10 DEF TicketState
    <3>2. {r} \in SUBSET Row /\ {} \cap {r} = {} /\ Row \ ({} \cup {r}) = Row \ {r}
      OBVIOUS
    <3> QED BY <1>1, <2>6, <2>7, <3>1, <3>2, Returns
  <2> QED BY <2>5, <2>8, <2>9, <2>10
<1> QED BY <1>2, <1>3

LEMMA TickRefines ==
    ASSUME IInv, Next, NEW w \in Worker,
           \/ ReadGate(w) \/ AcquireLock(w) \/ LockRefused(w) \/ Reclaim(w) \/ ReclaimFails(w)
           \/ Claim(w) \/ NothingToClaim(w) \/ ReleaseLock(w) \/ WorkerCrash(w)
           \/ LockSessionDrops(w)
    PROVE  [Queue!Next]_(Queue!vars)
<1> USE DEF IInv, Shape, TypeOK, TableOK, table, books
<1>1. UNCHANGED link
  BY DEF ReadGate, AcquireLock, LockRefused, Reclaim, ReclaimFails, Claim, NothingToClaim, ReleaseLock,
         WorkerCrash, LockSessionDrops
<1>2. CASE UNCHANGED outbox
  BY <1>1, <1>2, Stutters, SameStatus DEF KeepsBills, Keeps
<1>3. CASE Claim(w)
  <2>1. PICK r \in Row : r \in Claimable /\ outbox' = [outbox EXCEPT ![r].status = "in_progress",
                                                                     ![r].stale = FALSE]
    BY <1>3 DEF Claim, IsOldest
  <2>2. outbox[r] \in Columns
    OBVIOUS
  <2>3. /\ outbox'[r].status = "in_progress" /\ outbox'[r].bill = outbox[r].bill
        /\ \A s \in Row \ {r} : outbox'[s] = outbox[s]
    BY <2>1, <2>2 DEF Columns
  <2>4. TicketState(r) = "waiting"
    BY <2>1 DEF TicketState, Claimable, Queued
  <2>5. TicketState(r)' = "taken"
    BY <2>3 DEF TicketState
  <2> QED BY <1>1, <2>3, <2>4, <2>5, Takes, SameStatus DEF KeepsBills, Keeps
<1>4. CASE Reclaim(w)
  <2> DEFINE back == {r \in Stranded : outbox[r].attempts + 1 < MaxAttempts}
             out  == {r \in Stranded : ~ (outbox[r].attempts + 1 < MaxAttempts)}
  <2>1. \A r \in Row : outbox'[r] = IF r \in Stranded THEN Reclaimed(r) ELSE outbox[r]
    BY <1>4 DEF Reclaim
  <2>2. ASSUME NEW r \in Row
        PROVE  /\ Reclaimed(r).bill = outbox[r].bill
               /\ Reclaimed(r).status = IF outbox[r].attempts + 1 >= MaxAttempts
                                          THEN "dead_letter" ELSE "failed"
    <3>1. outbox[r] \in Columns
      OBVIOUS
    <3> QED BY <3>1 DEF Reclaimed, Columns
  <2>3. KeepsBills
    BY <2>1, <2>2 DEF KeepsBills
  <2>4. Keeps(Row \ Stranded)
    BY <2>1, SameStatus DEF Keeps
  <2>5. \A r \in Stranded : r \in Row /\ TicketState(r) = "taken"
    BY DEF Stranded, TicketState
  <2>6. \A r \in Row : outbox[r].attempts \in Nat
    BY DEF Columns
  <2>7. \A r \in back : TicketState(r)' = "waiting"
    <3>1. \A r \in back : r \in Stranded /\ outbox'[r].status = "failed"
      BY <2>1, <2>2, <2>5, <2>6
    <3> QED BY <3>1 DEF TicketState
  <2>8. \A r \in out : TicketState(r)' = "given_up"
    <3>1. \A r \in out : r \in Stranded /\ outbox'[r].status = "dead_letter"
      BY <2>1, <2>2, <2>5, <2>6
    <3> QED BY <3>1 DEF TicketState
  <2>9. back \cap out = {} /\ back \cup out = Stranded /\ back \in SUBSET Row /\ out \in SUBSET Row
    BY <2>5
  <2> HIDE DEF back, out
  <2> QED BY <1>1, <2>3, <2>4, <2>5, <2>7, <2>8, <2>9, Returns
<1> QED BY <1>2, <1>3, <1>4 DEF ReadGate, AcquireLock, LockRefused, ReclaimFails, NothingToClaim,
                                ReleaseLock, WorkerCrash, LockSessionDrops

LEMMA EnvironmentRefines ==
    ASSUME IInv, Next, Environment
    PROVE  [Queue!Next]_(Queue!vars)
<1> USE DEF IInv, Shape, TypeOK, TableOK, table, books
<1>1. UNCHANGED link
  BY DEF Environment, RetryDelayElapses, DebounceElapses, ClaimGrowsStale, Replay, BlockWrites,
         UnblockWrites
<1>2. CASE UNCHANGED outbox
  BY <1>1, <1>2, Stutters, SameStatus DEF KeepsBills, Keeps
<1>3. ASSUME NEW r \in Row, RetryDelayElapses(r) \/ DebounceElapses(r) \/ ClaimGrowsStale(r)
      PROVE  [Queue!Next]_(Queue!vars)
  <2>1. outbox[r] \in Columns
    OBVIOUS
  <2>2. \A s \in Row : outbox'[s].status = outbox[s].status /\ outbox'[s].bill = outbox[s].bill
    <3>1. CASE RetryDelayElapses(r)
      BY <2>1, <3>1 DEF RetryDelayElapses, Columns
    <3>2. CASE DebounceElapses(r)
      BY <2>1, <3>2 DEF DebounceElapses, Columns
    <3>3. CASE ClaimGrowsStale(r)
      BY <2>1, <3>3 DEF ClaimGrowsStale, Columns
    <3> QED BY <1>3, <3>1, <3>2, <3>3
  <2> QED BY <1>1, <2>2, Stutters, SameStatus DEF KeepsBills, Keeps
<1>4. ASSUME NEW r \in Row, Replay(r) PROVE [Queue!Next]_(Queue!vars)
  <2>1. outbox[r] \in Columns /\ outbox[r].status = "dead_letter"
    BY <1>4 DEF Replay
  <2>2. /\ outbox'[r].status = "pending" /\ outbox'[r].bill = outbox[r].bill
        /\ \A s \in Row \ {r} : outbox'[s] = outbox[s]
    BY <1>4, <2>1 DEF Replay, Columns
  <2>3. TicketState(r) = "given_up" /\ TicketState(r)' = "waiting"
    BY <2>1, <2>2 DEF TicketState
  <2> QED BY <1>1, <2>2, <2>3, Revives, SameStatus DEF KeepsBills, Keeps
<1> QED BY <1>2, <1>3, <1>4 DEF Environment, BlockWrites, UnblockWrites

(* The outbox is a durable at-least-once queue: a row is submitted once,   *)
(* taken only while it waits, put back or given up only by the holder of   *)
(* its claim or by the reclaim, finished only when its bill is linked, and *)
(* never taken back once it is finished.  No assumption on the lock: the   *)
(* row version alone keeps a worker that lost its claim from marking.      *)
THEOREM OutboxIsDurable == Spec => ImplementsDurableQueue
<1>1. IInv /\ [Next]_vars => [Queue!Next]_(Queue!vars)
  <2> SUFFICES ASSUME IInv, [Next]_vars PROVE [Queue!Next]_(Queue!vars)
    OBVIOUS
  <2>1. CASE UNCHANGED vars
    BY <2>1, Stutters, SameStatus DEF vars, table, books, KeepsBills, Keeps
  <2>2. CASE Next
    BY <2>2, EnqueueRefines, HandleRefines, MarkRefines, TickRefines, EnvironmentRefines
       DEF Next, Drain
  <2> QED BY <2>1, <2>2
<1> QED BY <1>1, InitRefines, IInvHolds, PTL DEF Spec, ImplementsDurableQueue, Queue!Spec
=============================================================================
