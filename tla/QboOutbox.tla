----------------------------- MODULE QboOutbox -----------------------------
(***************************************************************************)
(* The durable queue [qbo].[Outbox] and the push of a completed Bill to    *)
(* QuickBooks Online (QBO).                                                *)
(*                                                                         *)
(* Producers are the requests and completion jobs that commit a bill and   *)
(* then enqueue its push.  Workers are drain ticks, each in a process of   *)
(* its own, serialised by the SQL Server application lock                  *)
(* "qbo_outbox_drain".  Every stored procedure call is one transaction,    *)
(* hence one action; anything may happen between two of them.              *)
(*                                                                         *)
(* Abstractions.  A row's Id stands for its RequestId: both are minted by  *)
(* the INSERT and neither ever changes.  Timestamps are reduced to whether *)
(* they have passed: `due' (NextRetryAt), `settled' (ReadyAfter) and       *)
(* `stale' (StartedAt is older than the reclaim threshold).  ROWVERSION is *)
(* reduced to the set `fresh' of the actors whose remembered copy of a row *)
(* still carries the row's current version.                                *)
(***************************************************************************)
EXTENDS Integers

CONSTANTS
    Bill,                 \* local bills (dbo.Bill rows)
    Producer,             \* request threads that commit a bill and enqueue
    Worker,               \* drain ticks
    NoBill,               \* not a bill: the target of an idle producer
    MaxAttempts,          \* worker.MAX_ATTEMPTS
    MaxSend,              \* RetryPolicy.for_writes: sends of one POST
    MaxEdit,              \* bound: commits followed by an enqueue, hence rows ever inserted
    MaxBlock,             \* bound: times QBO writes become blocked
    MaxReplay,            \* bound: operator replays of a dead-lettered row
    ProducerMayCrash,     \* a producer may die between its commit and its INSERT
    LockSessionMayDrop,   \* the session that owns the lock may be closed under a live worker
    DocNumberEnforced     \* the QBO company refuses a second bill with the same number

Row   == 1 .. MaxEdit
Actor == Producer \cup Worker
None  == 0                        \* no row; no QBO identity
Nobody == "nobody"                \* the lock is free

ASSUME ConstantsAssumption ==
    /\ NoBill \notin Bill
    /\ Producer \cap Worker = {}
    /\ Nobody \notin Worker
    /\ MaxAttempts \in Nat \ {0}
    /\ MaxSend \in Nat \ {0}
    /\ MaxEdit \in Nat
    /\ MaxBlock \in Nat
    /\ MaxReplay \in Nat
    /\ ProducerMayCrash \in BOOLEAN
    /\ LockSessionMayDrop \in BOOLEAN
    /\ DocNumberEnforced \in BOOLEAN

VARIABLES
    outbox,      \* [qbo].[Outbox]: row id -> columns
    lastRow,     \* the IDENTITY counter of the table
    dirty,       \* bills committed since a handler last read them
    link,        \* dbo.Bill.QboId, None while NULL
    staged,      \* QboId of the rows of the staging table qbo.Bill
    qbo,         \* the bills that exist in QBO, each with the key it was created under
    lock,        \* owner of the applock "qbo_outbox_drain"
    pc,          \* where an actor is
    target,      \* the bill a producer is enqueueing
    copy,        \* the row an actor remembers
    fresh,       \* actors whose copy has the row's current ROWVERSION
    gate,        \* a worker's write gate decision, taken before the lock
    sends,       \* sends of the POST in progress
    writesOpen,  \* ALLOW_QBO_WRITES is on and the monthly budget is not exhausted
    blocks,      \* how often writes have become blocked
    replays,     \* how often an operator has replayed a row
    edits        \* how often a bill was committed and enqueued

table  == <<outbox, lastRow>>
books  == <<link, staged, qbo>>
bounds == <<writesOpen, blocks, replays, edits>>
vars   == <<outbox, lastRow, dirty, link, staged, qbo, lock, pc, target, copy,
            fresh, gate, sends, writesOpen, blocks, replays, edits>>

Status == {"absent", "pending", "in_progress", "failed", "done", "dead_letter"}

ProducerPc == {"idle", "find", "extend", "guard", "create"}
HandlerPc  == {"load", "post", "stage", "stamp", "attach"}      \* inside handler(row)
MarkPc     == {"complete", "park", "retry", "deadletter"}       \* about to mark the row
LockedPc   == {"reclaim", "claim", "release"} \cup HandlerPc \cup MarkPc
WorkerPc   == {"idle", "lock"} \cup LockedPc

AbsentRow == [bill |-> NoBill, status |-> "absent", attempts |-> 0,
              due |-> FALSE, settled |-> FALSE, stale |-> FALSE]

Columns == [bill : Bill \cup {NoBill}, status : Status, attempts : Nat,
            due : BOOLEAN, settled : BOOLEAN, stale : BOOLEAN]

TableOK ==
    /\ outbox \in [Row -> Columns]
    /\ lastRow \in 0 .. MaxEdit

BooksOK ==
    /\ dirty \subseteq Bill
    /\ link \in [Bill -> Nat]
    /\ staged \subseteq Nat
    /\ qbo \subseteq [key : Nat, bill : Bill]

PcOK ==
    /\ lock \in Worker \cup {Nobody}
    /\ pc \in [Actor -> ProducerPc \cup WorkerPc]
    /\ \A p \in Producer : pc[p] \in ProducerPc
    /\ \A w \in Worker : pc[w] \in WorkerPc

LocalsOK ==
    /\ target \in [Producer -> Bill \cup {NoBill}]
    /\ copy \in [Actor -> Row \cup {None}]
    /\ fresh \subseteq Actor
    /\ gate \in [Worker -> BOOLEAN]
    /\ sends \in [Worker -> 0 .. MaxSend - 1]

BoundsOK ==
    /\ writesOpen \in BOOLEAN
    /\ blocks \in 0 .. MaxBlock
    /\ replays \in 0 .. MaxReplay
    /\ edits \in 0 .. MaxEdit

TypeOK == TableOK /\ BooksOK /\ PcOK /\ LocalsOK /\ BoundsOK

Init ==
    /\ outbox = [r \in Row |-> AbsentRow]
    /\ lastRow = 0
    /\ dirty = {}
    /\ link = [b \in Bill |-> None]
    /\ staged = {}
    /\ qbo = {}
    /\ lock = Nobody
    /\ pc = [a \in Actor |-> "idle"]
    /\ target = [p \in Producer |-> NoBill]
    /\ copy = [a \in Actor |-> None]
    /\ fresh = {}
    /\ gate = [w \in Worker |-> FALSE]
    /\ sends = [w \in Worker |-> 0]
    /\ writesOpen = TRUE
    /\ blocks = 0
    /\ replays = 0
    /\ edits = 0

----------------------------------------------------------------------------
(* Rows and row versions.                                                  *)

Queued(r)   == outbox[r].status \in {"pending", "failed"}
RowsOf(b)   == {r \in Row : outbox[r].bill = b}
IsNewest(r, S) == r \in S /\ \A s \in S : s <= r
IsOldest(r, S) == r \in S /\ \A s \in S : r <= s

\* The actors whose copy survives an UPDATE of the rows in S: SQL Server gives
\* every updated row a new ROWVERSION.
StillFresh(S) == {a \in fresh : copy[a] \notin S}

\* The actor forgets the row it remembered.
Forget(a) == /\ copy' = [copy EXCEPT ![a] = None]
             /\ fresh' = fresh \ {a}

Goto(a, label) == pc' = [pc EXCEPT ![a] = label]

\* The HTTP call is over, and with it the count of its sends.
EndCall(w, label) == Goto(w, label) /\ sends' = [sends EXCEPT ![w] = 0]

\* drain_once returns: its local variables are gone.
EndTick(w) ==
    /\ Forget(w)
    /\ gate' = [gate EXCEPT ![w] = FALSE]
    /\ EndCall(w, "idle")

----------------------------------------------------------------------------
(* Producers: complete_bill commits the bill, then enqueue() runs as two   *)
(* reads and one write, each a transaction of its own.                     *)

Commit(p, b) ==
    /\ pc[p] = "idle"
    /\ edits < MaxEdit
    /\ edits' = edits + 1
    /\ dirty' = dirty \cup {b}
    /\ target' = [target EXCEPT ![p] = b]
    /\ Goto(p, "find")
    /\ UNCHANGED <<table, books, lock, copy, fresh, gate, sends, writesOpen, blocks, replays>>

\* enqueue() is over: with a row, or with an exception the caller reports.
EndEnqueue(p) ==
    /\ target' = [target EXCEPT ![p] = NoBill]
    /\ Goto(p, "idle")

\* Fault: an edit is coalesced into a row that is being drained already.
PendingOrClaimedRows(b) == {r \in RowsOf(b) : Queued(r) \/ outbox[r].status = "in_progress"}

PendingRows(b) == {r \in RowsOf(b) : Queued(r)}

\* ReadPendingQboOutboxByEntity: the newest pending or failed row of the bill.
FindPending(p) ==
    /\ pc[p] = "find"
    /\ \/ /\ PendingRows(target[p]) = {}
          /\ Goto(p, "guard")
          /\ UNCHANGED <<copy, fresh>>
       \/ \E r \in Row : /\ IsNewest(r, PendingRows(target[p]))
                         /\ Goto(p, "extend")
                         /\ copy' = [copy EXCEPT ![p] = r]
                         /\ fresh' = fresh \cup {p}
    /\ UNCHANGED <<table, dirty, books, lock, target, gate, sends, bounds>>

\* UpdateQboOutboxReadyAfter: opens a new debounce window, keyed on the row
\* version the producer read.  A row that moved on is left alone, and enqueue()
\* returns the row it found just the same.
ExtendDebounce(p) ==
    /\ pc[p] = "extend"
    /\ IF p \in fresh
       THEN /\ outbox' = [outbox EXCEPT ![copy[p]].settled = FALSE]
            /\ fresh' = StillFresh({copy[p]})
       ELSE UNCHANGED <<outbox, fresh>>
    /\ copy' = [copy EXCEPT ![p] = None]
    /\ EndEnqueue(p)
    /\ UNCHANGED <<lastRow, dirty, books, lock, gate, sends, bounds>>

\* ReadDeadLetterQboOutboxByEntity: enqueue() refuses while a dead letter exists.
CheckDeadLetter(p) ==
    /\ pc[p] = "guard"
    /\ IF \E r \in RowsOf(target[p]) : outbox[r].status = "dead_letter"
       THEN EndEnqueue(p)
       ELSE Goto(p, "create") /\ UNCHANGED target
    /\ UNCHANGED <<table, dirty, books, lock, copy, fresh, gate, sends, bounds>>

\* CreateQboOutbox: a new row, with a RequestId of its own.
CreateRow(p) ==
    /\ pc[p] = "create"
    /\ lastRow < MaxEdit
    /\ lastRow' = lastRow + 1
    /\ outbox' = [outbox EXCEPT ![lastRow + 1] =
                    [bill |-> target[p], status |-> "pending", attempts |-> 0,
                     due |-> TRUE, settled |-> FALSE, stale |-> FALSE]]
    /\ EndEnqueue(p)
    /\ UNCHANGED <<dirty, books, lock, copy, fresh, gate, sends, bounds>>

\* The process dies after the commit of the bill and before the INSERT.
ProducerCrash(p) ==
    /\ ProducerMayCrash
    /\ pc[p] # "idle"
    /\ EndEnqueue(p)
    /\ Forget(p)
    /\ UNCHANGED <<table, dirty, books, lock, gate, sends, bounds>>

----------------------------------------------------------------------------
(* Workers: drain_once.                                                    *)

\* can_worker_do_external_writes_now is consulted before the lock is requested.
ReadGate(w) ==
    /\ pc[w] = "idle"
    /\ gate' = [gate EXCEPT ![w] = writesOpen]
    /\ Goto(w, "lock")
    /\ UNCHANGED <<table, dirty, books, lock, target, copy, fresh, sends, bounds>>

\* Fault: two ticks drain at the same time.
NoLock == TRUE

LockIsFree == lock = Nobody

AcquireLock(w) ==
    /\ pc[w] = "lock"
    /\ LockIsFree
    /\ lock' = w
    /\ Goto(w, "reclaim")
    /\ UNCHANGED <<table, dirty, books, target, copy, fresh, gate, sends, bounds>>

\* sp_getapplock timed out because another tick is draining, or failed otherwise.
LockRefused(w) ==
    /\ pc[w] = "lock"
    /\ EndTick(w)
    /\ UNCHANGED <<table, dirty, books, lock, target, bounds>>

Stranded == {r \in Row : outbox[r].status = "in_progress" /\ outbox[r].stale}

\* Fault: a crash does not count as an attempt.
ReclaimedForFree(r) == [outbox[r] EXCEPT !.due = TRUE, !.status = "failed"]

Reclaimed(r) ==
    [outbox[r] EXCEPT !.attempts = @ + 1,
                      !.due      = TRUE,
                      !.status   = IF outbox[r].attempts + 1 >= MaxAttempts
                                   THEN "dead_letter" ELSE "failed"]

\* ReclaimStrandedQboOutbox, whatever the gate decided; the gate is enforced next.
Reclaim(w) ==
    /\ pc[w] = "reclaim"
    /\ outbox' = [r \in Row |-> IF r \in Stranded THEN Reclaimed(r) ELSE outbox[r]]
    /\ fresh' = StillFresh(Stranded)
    /\ Goto(w, IF gate[w] THEN "claim" ELSE "release")
    /\ UNCHANGED <<lastRow, dirty, books, lock, target, copy, gate, sends, bounds>>

\* A failing reclaim never blocks the drain.
ReclaimFails(w) ==
    /\ pc[w] = "reclaim"
    /\ Goto(w, IF gate[w] THEN "claim" ELSE "release")
    /\ UNCHANGED <<table, dirty, books, lock, target, copy, fresh, gate, sends, bounds>>

\* Fault: the claim takes dead letters, too.
ClaimableOrDead ==
    {r \in Row : outbox[r].status \in {"pending", "failed", "dead_letter"}
                 /\ outbox[r].due /\ outbox[r].settled}

Claimable == {r \in Row : Queued(r) /\ outbox[r].due /\ outbox[r].settled}

\* ClaimNextPendingQboOutbox: the oldest row that is due and past its debounce.
Claim(w) ==
    /\ pc[w] = "claim"
    /\ \E r \in Row :
       /\ IsOldest(r, Claimable)
       /\ outbox' = [outbox EXCEPT ![r].status = "in_progress", ![r].stale = FALSE]
       /\ copy' = [copy EXCEPT ![w] = r]
       /\ fresh' = StillFresh({r}) \cup {w}
    /\ Goto(w, "load")
    /\ UNCHANGED <<lastRow, dirty, books, lock, target, gate, sends, bounds>>

NothingToClaim(w) ==
    /\ pc[w] = "claim"
    /\ Claimable = {}
    /\ Goto(w, "release")
    /\ UNCHANGED <<table, dirty, books, lock, target, copy, fresh, gate, sends, bounds>>

----------------------------------------------------------------------------
(* The handler of kind sync_bill_to_qbo, then the marking of the row.      *)

BillOf(w) == outbox[copy[w]].bill

\* The idempotency key every POST of the handler carries: the row's RequestId.
RequestId(w) == copy[w]

\* Fault: the push does not look for the identity the bill already has.
LoadBillAlwaysPosts(w) ==
    /\ pc[w] = "load"
    /\ dirty' = dirty \ {BillOf(w)}
    /\ Goto(w, "post")
    /\ UNCHANGED <<table, books, lock, target, copy, fresh, gate, sends, bounds>>

\* The payload is read from the entity now, not when the row was written.  A
\* bill with an identity is not posted again; a bill that cannot be pushed
\* raises ValueError; reading it may fail transiently.
LoadBill(w) ==
    /\ pc[w] = "load"
    /\ dirty' = dirty \ {BillOf(w)}
    /\ \/ /\ link[BillOf(w)] = None
          /\ Goto(w, "post")
       \/ /\ link[BillOf(w)] # None
          /\ Goto(w, IF link[BillOf(w)] \in staged THEN "attach" ELSE "deadletter")
       \/ /\ link[BillOf(w)] = None
          /\ Goto(w, "deadletter")
    /\ UNCHANGED <<table, books, lock, target, copy, fresh, gate, sends, bounds>>

LoadFails(w) ==
    /\ pc[w] = "load"
    /\ Goto(w, "retry")
    /\ UNCHANGED <<table, dirty, books, lock, target, copy, fresh, gate, sends, bounds>>

\* The write switch is read before the first send and the budget before every one,
\* so a resend may pass while writes are blocked.
MaySend(w) == writesOpen \/ sends[w] > 0

\* QBO answers a key it has seen with the bill it made then; otherwise it makes
\* one, unless it holds another bill with the same number and minds.
Duplicate(w) ==
    /\ DocNumberEnforced
    /\ \E q \in qbo : q.bill = BillOf(w)
    /\ \A q \in qbo : q.key # RequestId(w)

QboAccepts(w) == qbo' = qbo \cup {[key |-> RequestId(w), bill |-> BillOf(w)]}

\* Fault: one send too many.
ResendOnceMore(w) ==
    \/ sends[w] < MaxSend /\ Goto(w, "post") /\ sends' = [sends EXCEPT ![w] = @ + 1]
    \/ EndCall(w, "retry")

\* execute_with_retry resends the same request until its policy, or the time the
\* policy allows, is used up.
Resend(w) ==
    \/ sends[w] + 1 < MaxSend /\ Goto(w, "post") /\ sends' = [sends EXCEPT ![w] = @ + 1]
    \/ EndCall(w, "retry")

PostAccepted(w) ==
    /\ pc[w] = "post"
    /\ MaySend(w)
    /\ ~ Duplicate(w)
    /\ QboAccepts(w)
    /\ EndCall(w, "stage")
    /\ UNCHANGED <<table, dirty, link, staged, lock, target, copy, fresh, gate, bounds>>

\* QBO has processed the request and the answer never arrives.
PostAnswerLost(w) ==
    /\ pc[w] = "post"
    /\ MaySend(w)
    /\ ~ Duplicate(w)
    /\ QboAccepts(w)
    /\ Resend(w)
    /\ UNCHANGED <<table, dirty, link, staged, lock, target, copy, fresh, gate, bounds>>

\* A transient error: QBO has done nothing.
PostUnprocessed(w) ==
    /\ pc[w] = "post"
    /\ MaySend(w)
    /\ Resend(w)
    /\ UNCHANGED <<table, dirty, books, lock, target, copy, fresh, gate, bounds>>

\* Fault: a duplicate document number is taken to mean that the push succeeded.
RejectionIsSuccess(w) ==
    /\ pc[w] = "post"
    /\ MaySend(w)
    /\ EndCall(w, "attach")
    /\ UNCHANGED <<table, dirty, books, lock, target, copy, fresh, gate, bounds>>

\* An error that no retry cures, the duplicate document number among them.
PostRejected(w) ==
    /\ pc[w] = "post"
    /\ MaySend(w)
    /\ EndCall(w, "deadletter")
    /\ UNCHANGED <<table, dirty, books, lock, target, copy, fresh, gate, bounds>>

\* The budget breaker or the write gate refuses the call inside this process.
WritesRefused(w) ==
    /\ pc[w] \in {"post", "attach"}
    /\ ~ writesOpen
    /\ EndCall(w, "park")
    /\ UNCHANGED <<table, dirty, books, lock, target, copy, fresh, gate, bounds>>

\* The staging row is committed first, the identity of the bill last.
StageBill(w) ==
    /\ pc[w] = "stage"
    /\ staged' = staged \cup {RequestId(w)}
    /\ Goto(w, "stamp")
    /\ UNCHANGED <<table, dirty, link, qbo, lock, target, copy, fresh, gate, sends, bounds>>

StampBill(w) ==
    /\ pc[w] = "stamp"
    /\ link' = [link EXCEPT ![BillOf(w)] = RequestId(w)]
    /\ Goto(w, "attach")
    /\ UNCHANGED <<table, dirty, staged, qbo, lock, target, copy, fresh, gate, sends, bounds>>

\* Fault: the push goes on after a failed commit.
StoreFailureSwallowed(w) ==
    /\ pc[w] \in {"stage", "stamp"}
    /\ Goto(w, "attach")
    /\ UNCHANGED <<table, dirty, books, lock, target, copy, fresh, gate, sends, bounds>>

\* An error before or in one of those two commits: retried, unless it is a
\* ValueError (an answer that does not parse), which is taken for permanent.
StoreFails(w) ==
    /\ pc[w] \in {"stage", "stamp"}
    /\ \E label \in {"retry", "deadletter"} : Goto(w, label)
    /\ UNCHANGED <<table, dirty, books, lock, target, copy, fresh, gate, sends, bounds>>

\* Attachments are best effort: only a refusal of the write itself escapes.
SyncAttachments(w) ==
    /\ pc[w] = "attach"
    /\ Goto(w, "complete")
    /\ UNCHANGED <<table, dirty, books, lock, target, copy, fresh, gate, sends, bounds>>

\* Fault: a mark updates its row by id, whatever its version.
MarkUnfenced(w, row) ==
    /\ outbox' = [outbox EXCEPT ![copy[w]] = row]
    /\ fresh' = StillFresh({copy[w]})
    /\ Goto(w, "release")
    /\ UNCHANGED <<lastRow, dirty, books, lock, target, copy, gate, sends, bounds>>

\* The four marks update the row only if it still has the version the worker
\* claimed, and say nothing when it has not.
Mark(w, row) ==
    /\ IF w \in fresh
       THEN /\ outbox' = [outbox EXCEPT ![copy[w]] = row]
            /\ fresh' = StillFresh({copy[w]})
       ELSE UNCHANGED <<outbox, fresh>>
    /\ Goto(w, "release")
    /\ UNCHANGED <<lastRow, dirty, books, lock, target, copy, gate, sends, bounds>>

MarkDone(w) ==
    /\ pc[w] = "complete"
    /\ Mark(w, [outbox[copy[w]] EXCEPT !.status = "done"])

Failed(row) == [row EXCEPT !.status = "failed", !.attempts = @ + 1, !.due = FALSE]
Dead(row)   == [row EXCEPT !.status = "dead_letter", !.attempts = @ + 1]

MarkParked(w) ==
    /\ pc[w] = "park"
    /\ Mark(w, Failed(outbox[copy[w]]))

MarkRetryOrDead(w) ==
    LET row == outbox[copy[w]] IN
    /\ pc[w] = "retry"
    /\ Mark(w, IF row.attempts + 2 > MaxAttempts THEN Dead(row) ELSE Failed(row))

MarkDead(w) ==
    /\ pc[w] = "deadletter"
    /\ Mark(w, Dead(outbox[copy[w]]))

\* The mark itself raises: the row stays in_progress without an owner.
MarkFails(w) ==
    /\ pc[w] \in MarkPc
    /\ Goto(w, "release")
    /\ UNCHANGED <<table, dirty, books, lock, target, copy, fresh, gate, sends, bounds>>

Unlock(w) == lock' = IF lock = w THEN Nobody ELSE lock

ReleaseLock(w) ==
    /\ pc[w] = "release"
    /\ Unlock(w)
    /\ EndTick(w)
    /\ UNCHANGED <<table, dirty, books, target, bounds>>

\* The process dies, and with it the session that owns the lock.
WorkerCrash(w) ==
    /\ pc[w] # "idle"
    /\ Unlock(w)
    /\ EndTick(w)
    /\ UNCHANGED <<table, dirty, books, target, bounds>>

\* The session that owns the lock is closed while its worker goes on.
LockSessionDrops(w) ==
    /\ LockSessionMayDrop
    /\ lock = w
    /\ lock' = Nobody
    /\ UNCHANGED <<table, dirty, books, pc, target, copy, fresh, gate, sends, bounds>>

----------------------------------------------------------------------------
(* Time, the write switch and the operator.                                *)

RetryDelayElapses(r) ==
    /\ Queued(r)
    /\ ~ outbox[r].due
    /\ outbox' = [outbox EXCEPT ![r].due = TRUE]
    /\ UNCHANGED <<lastRow, dirty, books, lock, pc, target, copy, fresh, gate, sends, bounds>>

DebounceElapses(r) ==
    /\ Queued(r)
    /\ ~ outbox[r].settled
    /\ outbox' = [outbox EXCEPT ![r].settled = TRUE]
    /\ UNCHANGED <<lastRow, dirty, books, lock, pc, target, copy, fresh, gate, sends, bounds>>

ClaimGrowsStale(r) ==
    /\ outbox[r].status = "in_progress"
    /\ ~ outbox[r].stale
    /\ outbox' = [outbox EXCEPT ![r].stale = TRUE]
    /\ UNCHANGED <<lastRow, dirty, books, lock, pc, target, copy, fresh, gate, sends, bounds>>

BlockWrites ==
    /\ writesOpen
    /\ blocks < MaxBlock
    /\ writesOpen' = FALSE
    /\ blocks' = blocks + 1
    /\ UNCHANGED <<table, dirty, books, lock, pc, target, copy, fresh, gate, sends, replays, edits>>

UnblockWrites ==
    /\ ~ writesOpen
    /\ writesOpen' = TRUE
    /\ UNCHANGED <<table, dirty, books, lock, pc, target, copy, fresh, gate, sends, blocks, replays, edits>>

\* retry_qbo_outbox_dead_letters.py: same RequestId, attempts from zero.
Replay(r) ==
    /\ replays < MaxReplay
    /\ outbox[r].status = "dead_letter"
    /\ replays' = replays + 1
    /\ outbox' = [outbox EXCEPT ![r].status = "pending", ![r].attempts = 0, ![r].due = TRUE]
    /\ fresh' = StillFresh({r})
    /\ UNCHANGED <<lastRow, dirty, books, lock, pc, target, copy, gate, sends, writesOpen, blocks, edits>>

----------------------------------------------------------------------------

Enqueue(p) ==
    \/ \E b \in Bill : Commit(p, b)
    \/ FindPending(p) \/ ExtendDebounce(p) \/ CheckDeadLetter(p) \/ CreateRow(p)
    \/ ProducerCrash(p)

Post(w) ==
    \/ PostAccepted(w) \/ PostAnswerLost(w) \/ PostUnprocessed(w) \/ PostRejected(w)
    \/ WritesRefused(w)

Handle(w) ==
    \/ LoadBill(w) \/ LoadFails(w) \/ Post(w)
    \/ StageBill(w) \/ StampBill(w) \/ StoreFails(w) \/ SyncAttachments(w)

MarkRow(w) ==
    MarkDone(w) \/ MarkParked(w) \/ MarkRetryOrDead(w) \/ MarkDead(w) \/ MarkFails(w)

Drain(w) ==
    \/ ReadGate(w) \/ AcquireLock(w) \/ LockRefused(w)
    \/ Reclaim(w) \/ ReclaimFails(w) \/ Claim(w) \/ NothingToClaim(w)
    \/ Handle(w) \/ MarkRow(w) \/ ReleaseLock(w)

Environment ==
    \/ \E r \in Row : \/ RetryDelayElapses(r) \/ DebounceElapses(r)
                      \/ ClaimGrowsStale(r) \/ Replay(r)
    \/ BlockWrites \/ UnblockWrites

Next ==
    \/ \E p \in Producer : Enqueue(p)
    \/ \E w \in Worker : Drain(w) \/ WorkerCrash(w) \/ LockSessionDrops(w)
    \/ Environment

Spec == Init /\ [][Next]_vars

----------------------------------------------------------------------------
(* Safety.                                                                 *)

Handling(w) == pc[w] \in HandlerPc \cup MarkPc

\* Reclaim never meets a live worker: the row a worker is handling stays
\* in_progress, at the version the worker claimed, until that worker marks it.
\* Neither a coalescing producer nor another tick may touch it.
LiveClaim ==
    \A w \in Worker : Handling(w) => /\ copy[w] \in Row
                                     /\ outbox[copy[w]].status = "in_progress"
                                     /\ w \in fresh

\* A row whose handler will read its bill from now on: it waits for a drain or for
\* an operator; or it is claimed, and its claimant is not between the read of the
\* bill and the mark that says the push succeeded.
WillRead(r) ==
    \/ outbox[r].status \in {"pending", "failed", "dead_letter"}
    \/ /\ outbox[r].status = "in_progress"
       /\ \A w \in fresh \cap Worker :
            copy[w] = r => pc[w] \notin (HandlerPc \ {"load"}) \cup {"complete"}

\* Coalescing loses no edit: when no enqueue of a bill is under way, a commit that
\* no handler has read is covered by a row whose handler will still read it.
EditNotLost ==
    \A b \in dirty : (\A p \in Producer : target[p] # b) => \E r \in RowsOf(b) : WillRead(r)

\* A row is done only when its bill is in QBO and carries, locally, the identity
\* of a QBO bill that the staging table knows: a crash between the POST and the
\* stamp never ends in done.
DoneIsLinked ==
    \A r \in Row : outbox[r].status = "done" =>
        LET b == outbox[r].bill IN
        /\ link[b] \in staged
        /\ [key |-> link[b], bill |-> b] \in qbo

\* Once a bill carries its QBO identity, no tick, whichever row it drains, gives it
\* another one or makes a further bill for it in QBO: the check at the start of the
\* push still holds when the push posts and when it stamps.
LinkedBillIsFinal ==
    [][\A b \in Bill : link[b] # None =>
            /\ link'[b] = link[b]
            /\ {q \in qbo' : q.bill = b} = {q \in qbo : q.bill = b}]_vars

----------------------------------------------------------------------------
(* What the outbox implements.                                             *)

TicketState(r) ==
    CASE outbox[r].status = "absent"              -> "none"
      [] outbox[r].status \in {"pending", "failed"} -> "waiting"
      [] outbox[r].status = "in_progress"         -> "taken"
      [] outbox[r].status = "done"                -> "finished"
      [] outbox[r].status = "dead_letter"         -> "given_up"

Queue == INSTANCE DurableQueue WITH
    Ticket    <- Row,
    Item      <- Bill,
    NoItem    <- NoBill,
    item      <- [r \in Row |-> outbox[r].bill],
    state     <- [r \in Row |-> TicketState(r)],
    delivered <- {b \in Bill : link[b] # None}

\* The outbox is a durable at-least-once queue: only a waiting row is claimed, only
\* a claimed row is marked, a done or dead-lettered row is never taken back by a
\* worker that lost its claim, and done means the bill is linked.
ImplementsDurableQueue == Queue!Spec

----------------------------------------------------------------------------
(* Liveness.  Ticks recur, a crash loop lets some tick through in the end,  *)
(* time passes and blocked writes are unblocked.                           *)

Fairness ==
    /\ \A w \in Worker :
        /\ WF_vars(ReadGate(w))
        /\ SF_vars(AcquireLock(w))
        /\ SF_vars(Reclaim(w))
        /\ SF_vars(Claim(w))
        /\ WF_vars(NothingToClaim(w))
        /\ WF_vars(Handle(w))
        /\ WF_vars(MarkRow(w))
        /\ WF_vars(ReleaseLock(w))
    /\ \A p \in Producer : WF_vars(ExtendDebounce(p))
    /\ \A r \in Row : /\ WF_vars(RetryDelayElapses(r))
                      /\ WF_vars(DebounceElapses(r))
                      /\ WF_vars(ClaimGrowsStale(r))
    /\ WF_vars(UnblockWrites)

FairSpec == Spec /\ Fairness

\* Every row comes to rest: it is done or dead-lettered in the end, however many
\* workers die on it.  A row that kills its worker every time is dead-lettered
\* by the reclaim, and a stranded row is never left behind.
RowSettles ==
    \A r \in Row : outbox[r].status = "pending" ~> outbox[r].status \in {"done", "dead_letter"}
=============================================================================
