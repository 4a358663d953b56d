-------------------------- MODULE QboOutboxProofs --------------------------
(***************************************************************************)
(* Proofs about QboOutbox, for every number of bills, producers, workers,  *)
(* attempts and edits.                                                     *)
(***************************************************************************)
EXTENDS QboOutbox, TLAPS

(* The inductive invariant, in parts.                                      *)

\* Rows are inserted in order: the rows up to lastRow have a bill, the others
\* do not exist yet.
RowsInOrder ==
    \A r \in Row :
        /\ r <= lastRow => outbox[r].bill \in Bill /\ outbox[r].status # "absent"
        /\ r > lastRow  => outbox[r] = AbsentRow

\* What an actor remembers exists.
CopiesExist ==
    /\ \A a \in Actor : copy[a] <= lastRow
    /\ \A p \in Producer : pc[p] # "idle" => target[p] \in Bill
    /\ \A p \in Producer : pc[p] = "extend" => copy[p] \in Row
    /\ \A w \in Worker : Handling(w) => copy[w] \in Row

Shape == TypeOK /\ RowsInOrder /\ CopiesExist

\* An actor whose copy is fresh knows the status of its row.
FreshFinds  == \A p \in Producer \cap fresh : copy[p] \in Row /\ Queued(copy[p])
FreshClaims == \A w \in Worker \cap fresh :
                  Handling(w) => outbox[copy[w]].status = "in_progress"
FreshKnows  == FreshFinds /\ FreshClaims

\* How far a push has come, as the books show it.
InQbo(b, key)  == [key |-> key, bill |-> b] \in qbo
Linked(b)      == link[b] \in staged /\ InQbo(b, link[b])
LinksExist     == /\ None \notin staged
                  /\ \A b \in Bill : link[b] # None => InQbo(b, link[b])
PushProgress   == \A w \in Worker :
    /\ pc[w] \in {"stage", "stamp"}     => InQbo(BillOf(w), RequestId(w))
    /\ pc[w] = "stamp"                  => RequestId(w) \in staged
    /\ pc[w] \in {"attach", "complete"} => Linked(BillOf(w))

BooksInv == LinksExist /\ PushProgress /\ DoneIsLinked

IInv == Shape /\ FreshKnows /\ BooksInv

\* As long as no lock session drops: the lock is held by the one tick that is past it, its
\* claim is live, and the bill it is about to post has no identity.
LockHeld    == \A w \in Worker : pc[w] \in LockedPc <=> lock = w
PostsUnlinked == \A w \in Worker : pc[w] \in {"post", "stage", "stamp"} => link[BillOf(w)] = None

LockedInv == LockHeld /\ LiveClaim /\ PostsUnlinked

USE ConstantsAssumption DEF Row, Actor, None, Nobody

(* Updating one row.                                                       *)

\* Every UPDATE of a row leaves a well-formed row of the same bill.
LEMMA RowUpdates ==
    ASSUME NEW row \in Columns,
           NEW new \in {[row EXCEPT !.settled = FALSE], [row EXCEPT !.settled = TRUE],
                        [row EXCEPT !.due = TRUE], [row EXCEPT !.stale = TRUE],
                        [row EXCEPT !.status = "in_progress", !.stale = FALSE],
                        [row EXCEPT !.status = "done"], Failed(row), Dead(row),
                        [row EXCEPT !.status = "pending", !.attempts = 0, !.due = TRUE]}
    PROVE  /\ new \in Columns
           /\ new.bill = row.bill
           /\ new.status \in {row.status} \cup (Status \ {"absent"})
<1> USE DEF Columns, Failed, Dead
<1>1. new \in Columns
  <2>1. row.attempts + 1 \in Nat
    OBVIOUS
  <2>2. CASE new = Failed(row)
    BY <2>1, <2>2 DEF Status
  <2>3. CASE new = Dead(row)
    BY <2>1, <2>3 DEF Status
  <2>4. CASE new \in {[row EXCEPT !.settled = FALSE], [row EXCEPT !.settled = TRUE],
                      [row EXCEPT !.due = TRUE], [row EXCEPT !.stale = TRUE]}
    BY <2>4
  <2>5. CASE new = [row EXCEPT !.status = "in_progress", !.stale = FALSE]
    BY <2>5 DEF Status
  <2>6. CASE new = [row EXCEPT !.status = "done"]
    BY <2>6 DEF Status
  <2>7. CASE new = [row EXCEPT !.status = "pending", !.attempts = 0, !.due = TRUE]
    BY <2>7 DEF Status
  <2> QED BY <2>2, <2>3, <2>4, <2>5, <2>6, <2>7
<1>2. new.bill = row.bill
  OBVIOUS
<1>3. new.status \in {row.status, "in_progress", "done", "failed", "dead_letter", "pending"}
  OBVIOUS
<1> QED BY <1>1, <1>2, <1>3 DEF Status

LEMMA UpdateOneRow ==
    ASSUME TableOK, RowsInOrder, UNCHANGED lastRow,
           NEW r \in Row, r <= lastRow, NEW row \in Columns,
           row.bill = outbox[r].bill,
           row.status \in {outbox[r].status} \cup (Status \ {"absent"}),
           outbox' = [outbox EXCEPT ![r] = row]
    PROVE  TableOK' /\ RowsInOrder'
<1>1. TableOK'
  BY DEF TableOK
<1>2. \A s \in Row : outbox'[s] = IF s = r THEN row ELSE outbox[s]
  BY DEF TableOK
<1>3. row.bill \in Bill /\ row.status # "absent"
  BY DEF RowsInOrder
<1>4. RowsInOrder'
  BY <1>2, <1>3 DEF RowsInOrder, TableOK
<1> QED BY <1>1, <1>4

\* A row that is not absent has been inserted.
LEMMA Inserted ==
    ASSUME TableOK, RowsInOrder, NEW r \in Row, outbox[r].status # "absent"
    PROVE  r <= lastRow
BY DEF TableOK, RowsInOrder, AbsentRow

(* A step of each action keeps the shape of the state.                     *)

LEMMA InitShape == Init => Shape
<1> SUFFICES ASSUME Init PROVE Shape OBVIOUS
<1> USE DEF Init
<1>1. TableOK BY DEF TableOK, Columns, AbsentRow, Status
<1>2. BooksOK BY DEF BooksOK
<1>3. PcOK BY DEF PcOK, ProducerPc, WorkerPc
<1>4. LocalsOK BY DEF LocalsOK
<1>5. BoundsOK BY DEF BoundsOK
<1>6. RowsInOrder BY DEF RowsInOrder
<1>7. CopiesExist BY DEF CopiesExist, Handling, HandlerPc, MarkPc
<1> QED BY <1>1, <1>2, <1>3, <1>4, <1>5, <1>6, <1>7 DEF Shape, TypeOK

LEMMA EnqueueShape ==
    ASSUME Shape, NEW p \in Producer, Enqueue(p)
    PROVE  Shape'
<1> USE DEF EndEnqueue, Goto, table, books, bounds, Shape, TypeOK
<1>1. TableOK' /\ RowsInOrder'
  <2>1. CASE UNCHANGED table
    BY <2>1 DEF TableOK, RowsInOrder
  <2>2. CASE ExtendDebounce(p)
    <3>1. copy[p] \in Row
      BY <2>2 DEF CopiesExist, ExtendDebounce
    <3>2. copy[p] <= lastRow /\ UNCHANGED lastRow /\ outbox[copy[p]] \in Columns
      BY <2>2, <3>1 DEF TableOK, CopiesExist, ExtendDebounce
    <3>3. CASE p \in fresh
      <4>1. outbox' = [outbox EXCEPT ![copy[p]] = [outbox[copy[p]] EXCEPT !.settled = FALSE]]
        BY <2>2, <3>1, <3>3 DEF TableOK, ExtendDebounce
      <4> QED BY <3>1, <3>2, <4>1, RowUpdates, UpdateOneRow
    <3> QED BY <2>1, <2>2, <3>2, <3>3 DEF ExtendDebounce
  <2>3. CASE CreateRow(p)
    <3>1. target[p] \in Bill /\ lastRow + 1 \in Row
      BY <2>3 DEF CopiesExist, TableOK, CreateRow
    <3>2. TableOK'
      BY <2>3, <3>1 DEF TableOK, Columns, Status, CreateRow
    <3>3. RowsInOrder'
      BY <2>3, <3>1 DEF RowsInOrder, TableOK, CreateRow
    <3> QED BY <3>2, <3>3
  <2> QED BY <2>1, <2>2, <2>3 DEF Enqueue, Commit, FindPending, CheckDeadLetter, ProducerCrash
<1>2. CopiesExist'
  <2> USE DEF CopiesExist, RowsInOrder, TableOK, LocalsOK, PcOK, Handling
  <2>1. ASSUME NEW b \in Bill, Commit(p, b) PROVE CopiesExist'
    BY <2>1 DEF Commit, ProducerPc, HandlerPc, MarkPc
  <2>2. CASE FindPending(p)
    <3>1. UNCHANGED <<lastRow, target>>
      BY <2>2 DEF FindPending
    <3>2. CASE UNCHANGED copy
      BY <2>2, <3>1, <3>2 DEF FindPending, HandlerPc, MarkPc
    <3>3. CASE \E r \in Row : /\ IsNewest(r, PendingRows(target[p]))
                             /\ copy' = [copy EXCEPT ![p] = r]
      <4>1. PICK r \in Row : r \in PendingRows(target[p]) /\ copy' = [copy EXCEPT ![p] = r]
        BY <3>3 DEF IsNewest
      <4>2. r <= lastRow
        BY <4>1, Inserted DEF PendingRows, RowsOf, Queued
      <4>3. pc[p] = "find" /\ pc' = [pc EXCEPT ![p] = "extend"]
        BY <2>2, <3>3 DEF FindPending, IsNewest
      <4> QED BY <3>1, <4>1, <4>2, <4>3 DEF HandlerPc, MarkPc
    <3> QED BY <2>2, <3>2, <3>3 DEF FindPending
  <2>3. CASE ExtendDebounce(p)
    BY <2>3 DEF ExtendDebounce
  <2>4. CASE CheckDeadLetter(p)
    <3>1. /\ UNCHANGED <<lastRow, copy>>
          /\ pc[p] # "idle"
          /\ \/ pc' = [pc EXCEPT ![p] = "idle"] /\ target' = [target EXCEPT ![p] = NoBill]
             \/ pc' = [pc EXCEPT ![p] = "create"] /\ UNCHANGED target
      BY <2>4 DEF CheckDeadLetter
    <3> QED BY <3>1
  <2>5. CASE CreateRow(p)
    <3>1. /\ lastRow' = lastRow + 1
          /\ UNCHANGED copy
          /\ pc' = [pc EXCEPT ![p] = "idle"]
          /\ target' = [target EXCEPT ![p] = NoBill]
      BY <2>5 DEF CreateRow
    <3>2. \A a \in Actor : copy'[a] <= lastRow'
      BY <3>1
    <3>3. \A q \in Producer : /\ pc'[q] # "idle" => target'[q] \in Bill
                              /\ pc'[q] = "extend" => copy'[q] \in Row
      BY <3>1
    <3>4. \A w \in Worker : Handling(w)' => copy'[w] \in Row
      BY <3>1
    <3> QED BY <3>2, <3>3, <3>4
  <2>6. CASE ProducerCrash(p)
    BY <2>6 DEF ProducerCrash, Forget
  <2> QED BY <2>1, <2>2, <2>3, <2>4, <2>5, <2>6 DEF Enqueue
<1> USE DEF Enqueue, Commit, FindPending, ExtendDebounce, CheckDeadLetter, CreateRow, ProducerCrash
<1>3. BooksOK'
  BY DEF BooksOK
<1>4. PcOK'
  BY DEF PcOK, ProducerPc
<1>5. LocalsOK'
  BY DEF LocalsOK, StillFresh, Forget
<1>6. BoundsOK'
  BY DEF BoundsOK
<1> QED BY <1>1, <1>2, <1>3, <1>4, <1>5, <1>6

LEMMA HandleShape ==
    ASSUME Shape, NEW w \in Worker, Handle(w)
    PROVE  Shape'
<1> USE DEF Handle, Post, LoadBill, LoadFails, PostAccepted, PostAnswerLost, PostUnprocessed,
            PostRejected, WritesRefused, StageBill, StampBill, StoreFails, SyncAttachments,
            Goto, EndCall, Resend, QboAccepts, table, books, bounds, Shape, TypeOK
<1>1. /\ UNCHANGED <<outbox, lastRow, target, copy, fresh>>
      /\ BillOf(w) \in Bill
      /\ RequestId(w) \in Nat
      /\ Handling(w)
  BY DEF BillOf, RequestId, RowsInOrder, CopiesExist, Handling, HandlerPc, MarkPc
<1>2. TableOK' /\ RowsInOrder'
  BY <1>1 DEF TableOK, RowsInOrder
<1>3. BooksOK'
  <2>1. dirty' \subseteq Bill
    BY <1>1 DEF BooksOK
  <2>2. link' \in [Bill -> Nat]
    BY <1>1 DEF BooksOK
  <2>3. staged' \subseteq Nat
    BY <1>1 DEF BooksOK
  <2>4. qbo' = qbo \/ qbo' = qbo \cup {[key |-> RequestId(w), bill |-> BillOf(w)]}
    OBVIOUS
  <2>5. qbo' \subseteq [key : Nat, bill : Bill]
    BY <1>1, <2>4 DEF BooksOK
  <2> QED BY <2>1, <2>2, <2>3, <2>5 DEF BooksOK
<1>4. PcOK'
  BY DEF PcOK, WorkerPc, LockedPc, HandlerPc, MarkPc
<1>5. LocalsOK'
  BY DEF LocalsOK
<1>6. BoundsOK'
  BY DEF BoundsOK
<1>7. CopiesExist'
  BY <1>1 DEF CopiesExist, PcOK, Handling
<1> QED BY <1>2, <1>3, <1>4, <1>5, <1>6, <1>7

LEMMA MarkShape ==
    ASSUME Shape, NEW w \in Worker, MarkRow(w)
    PROVE  Shape'
<1> USE DEF MarkRow, MarkDone, MarkParked, MarkRetryOrDead, MarkDead, MarkFails, Mark, Failed, Dead,
            Goto, table, books, bounds, Shape, TypeOK
<1>1. copy[w] \in Row
  BY DEF CopiesExist, Handling, MarkPc
<1>2. UNCHANGED lastRow /\ copy' = copy
  OBVIOUS
<1>3. outbox[copy[w]] \in Columns /\ copy[w] <= lastRow
  BY <1>1 DEF TableOK, CopiesExist
<1>4. \/ UNCHANGED outbox
      \/ \E row \in {[outbox[copy[w]] EXCEPT !.status = "done"], Failed(outbox[copy[w]]),
                     Dead(outbox[copy[w]])} :
            outbox' = [outbox EXCEPT ![copy[w]] = row]
  BY <1>1
<1>5. TableOK' /\ RowsInOrder'
  <2>1. CASE UNCHANGED outbox
    BY <1>2, <2>1 DEF TableOK, RowsInOrder
  <2> QED BY <1>1, <1>2, <1>3, <1>4, <2>1, RowUpdates, UpdateOneRow
<1>7. CopiesExist'
  BY <1>2 DEF CopiesExist, PcOK, Handling, HandlerPc, MarkPc
<1>8. BooksOK'
  BY DEF BooksOK
<1>9. PcOK'
  BY DEF PcOK, WorkerPc, LockedPc
<1>10. LocalsOK'
  BY DEF LocalsOK, StillFresh
<1>11. BoundsOK'
  BY DEF BoundsOK
<1> QED BY <1>5, <1>7, <1>8, <1>9, <1>10, <1>11

LEMMA TickShape ==
    ASSUME Shape, NEW w \in Worker,
           \/ ReadGate(w) \/ AcquireLock(w) \/ LockRefused(w) \/ Reclaim(w) \/ ReclaimFails(w)
           \/ Claim(w) \/ NothingToClaim(w) \/ ReleaseLock(w) \/ WorkerCrash(w)
           \/ LockSessionDrops(w)
    PROVE  Shape'
<1> USE DEF EndTick, EndCall, Goto, Unlock, Forget, table, books, bounds, Shape, TypeOK
<1>1. TableOK' /\ RowsInOrder' /\ CopiesExist'
  <2> USE DEF PcOK, LocalsOK, CopiesExist, Handling
  <2>1. CASE Reclaim(w)
    <3> USE <2>1 DEF Reclaim
    <3>1. ASSUME NEW r \in Row
          PROVE  /\ outbox[r] \in Columns
                 /\ Reclaimed(r) \in Columns
                 /\ Reclaimed(r).bill = outbox[r].bill
                 /\ Reclaimed(r).status \in {"failed", "dead_letter"}
      <4>1. outbox[r] \in Columns
        BY DEF TableOK
      <4>2. \E s \in {"failed", "dead_letter"} :
               Reclaimed(r) = [outbox[r] EXCEPT !.attempts = @ + 1, !.due = TRUE, !.status = s]
        BY DEF Reclaimed
      <4>3. outbox[r].attempts + 1 \in Nat
        BY <4>1 DEF Columns
      <4> QED BY <4>1, <4>2, <4>3 DEF Columns, Status
    <3>2. TableOK'
      BY <3>1 DEF TableOK
    <3>3. \A r \in Row : outbox'[r] = IF r \in Stranded THEN Reclaimed(r) ELSE outbox[r]
      OBVIOUS
    <3>4. \A r \in Stranded : r \in Row /\ r <= lastRow
      BY Inserted DEF Stranded
    <3>5. RowsInOrder'
      <4>1. UNCHANGED lastRow
        OBVIOUS
      <4>2. ASSUME NEW r \in Row PROVE outbox'[r].bill = outbox[r].bill
        BY <3>1, <3>3
      <4>3. ASSUME NEW r \in Row, r <= lastRow PROVE outbox'[r].status # "absent"
        BY <3>1, <3>3, <4>3 DEF RowsInOrder
      <4>4. ASSUME NEW r \in Row, r > lastRow PROVE outbox'[r] = outbox[r]
        BY <3>3, <3>4, <4>4 DEF TableOK
      <4> QED BY <4>1, <4>2, <4>3, <4>4 DEF RowsInOrder, TableOK
    <3>6. CopiesExist'
      BY DEF HandlerPc, MarkPc
    <3> QED BY <3>2, <3>5, <3>6
  <2>2. CASE Claim(w)
    <3>1. PICK r \in Row : /\ r \in Claimable
                           /\ outbox' = [outbox EXCEPT ![r].status = "in_progress", ![r].stale = FALSE]
                           /\ copy' = [copy EXCEPT ![w] = r]
      BY <2>2 DEF Claim, IsOldest
    <3>2. r <= lastRow /\ UNCHANGED lastRow /\ outbox[r] \in Columns
      BY <2>2, <3>1, Inserted DEF Claim, Claimable, Queued, TableOK
    <3>3. outbox' = [outbox EXCEPT ![r] = [outbox[r] EXCEPT !.status = "in_progress", !.stale = FALSE]]
      BY <3>1 DEF TableOK
    <3>4. TableOK' /\ RowsInOrder'
      BY <3>2, <3>3, RowUpdates, UpdateOneRow
    <3>5. CopiesExist'
      BY <2>2, <3>1, <3>2 DEF Claim, TableOK
    <3> QED BY <3>4, <3>5
  <2>3. CASE UNCHANGED table
    <3>1. TableOK' /\ RowsInOrder'
      BY <2>3 DEF TableOK, RowsInOrder
    <3>2. CASE ReadGate(w) \/ AcquireLock(w) \/ ReclaimFails(w) \/ NothingToClaim(w)
      BY <2>3, <3>1, <3>2 DEF ReadGate, AcquireLock, ReclaimFails, NothingToClaim, HandlerPc, MarkPc
    <3>3. CASE LockRefused(w) \/ ReleaseLock(w) \/ WorkerCrash(w)
      <4>1. /\ UNCHANGED <<lastRow, target>>
            /\ copy' = [copy EXCEPT ![w] = None]
            /\ pc' = [pc EXCEPT ![w] = "idle"]
        BY <2>3, <3>3 DEF LockRefused, ReleaseLock, WorkerCrash
      <4> QED BY <3>1, <4>1 DEF TableOK, HandlerPc, MarkPc
    <3>4. CASE LockSessionDrops(w)
      BY <2>3, <3>1, <3>4 DEF LockSessionDrops
    <3> QED BY <2>1, <2>2, <2>3, <3>2, <3>3, <3>4
  <2> QED BY <2>1, <2>2, <2>3 DEF ReadGate, AcquireLock, LockRefused, ReclaimFails, NothingToClaim,
                                  ReleaseLock, WorkerCrash, LockSessionDrops
<1> USE DEF ReadGate, AcquireLock, LockRefused, Reclaim, ReclaimFails, Claim, NothingToClaim,
            ReleaseLock, WorkerCrash, LockSessionDrops
<1>2. BooksOK'
  BY DEF BooksOK
<1>3. PcOK'
  BY DEF PcOK, WorkerPc, LockedPc, HandlerPc
<1>4. LocalsOK'
  <2>1. CASE Claim(w)
    BY <2>1 DEF LocalsOK, StillFresh
  <2>2. CASE LockRefused(w) \/ ReleaseLock(w) \/ WorkerCrash(w)
    <3>1. /\ UNCHANGED target
          /\ copy' = [copy EXCEPT ![w] = None]
          /\ fresh' = fresh \ {w}
          /\ gate' = [gate EXCEPT ![w] = FALSE]
          /\ sends' = [sends EXCEPT ![w] = 0]
      BY <2>2
    <3> QED BY <3>1 DEF LocalsOK
  <2>3. CASE ReadGate(w)
    BY <2>3 DEF LocalsOK, BoundsOK
  <2>4. CASE AcquireLock(w) \/ Reclaim(w) \/ ReclaimFails(w) \/ NothingToClaim(w)
             \/ LockSessionDrops(w)
    <3>1. UNCHANGED <<target, copy, gate, sends>> /\ fresh' \subseteq fresh
      BY <2>4 DEF StillFresh
    <3> QED BY <3>1 DEF LocalsOK
  <2> QED BY <2>1, <2>2, <2>3, <2>4
<1>5. BoundsOK'
  BY DEF BoundsOK
<1> QED BY <1>1, <1>2, <1>3, <1>4, <1>5

LEMMA EnvironmentShape ==
    ASSUME Shape, Environment
    PROVE  Shape'
<1> USE DEF table, books, bounds, Shape, TypeOK
<1>1. TableOK' /\ RowsInOrder'
  <2>1. ASSUME NEW r \in Row,
               RetryDelayElapses(r) \/ DebounceElapses(r) \/ ClaimGrowsStale(r) \/ Replay(r)
        PROVE  TableOK' /\ RowsInOrder'
    <3> USE <2>1 DEF RetryDelayElapses, DebounceElapses, ClaimGrowsStale, Replay
    <3>1. r <= lastRow /\ UNCHANGED lastRow /\ outbox[r] \in Columns
      BY Inserted DEF Queued, TableOK
    <3>2. \E row \in {[outbox[r] EXCEPT !.due = TRUE], [outbox[r] EXCEPT !.settled = TRUE],
                      [outbox[r] EXCEPT !.stale = TRUE],
                      [outbox[r] EXCEPT !.status = "pending", !.attempts = 0, !.due = TRUE]} :
             outbox' = [outbox EXCEPT ![r] = row]
      BY DEF TableOK
    <3>3. PICK row \in Columns : /\ row.bill = outbox[r].bill
                                 /\ row.status \in {outbox[r].status} \cup (Status \ {"absent"})
                                 /\ outbox' = [outbox EXCEPT ![r] = row]
      BY <3>1, <3>2, RowUpdates
    <3> QED BY <3>1, <3>3, UpdateOneRow
  <2>2. CASE BlockWrites \/ UnblockWrites
    BY <2>2 DEF BlockWrites, UnblockWrites, TableOK, RowsInOrder
  <2> QED BY <2>1, <2>2 DEF Environment
<1>2. BoundsOK'
  <2>1. \/ UNCHANGED bounds
        \/ UNCHANGED <<blocks, replays, edits>> /\ writesOpen' = TRUE
        \/ UNCHANGED <<replays, edits>> /\ writesOpen' = FALSE /\ blocks < MaxBlock /\ blocks' = blocks + 1
        \/ UNCHANGED <<writesOpen, blocks, edits>> /\ replays < MaxReplay /\ replays' = replays + 1
    BY DEF Environment, RetryDelayElapses, DebounceElapses, ClaimGrowsStale, Replay, BlockWrites,
           UnblockWrites
  <2>2. BoundsOK
    OBVIOUS
  <2>3. writesOpen' \in BOOLEAN
    BY <2>1, <2>2 DEF BoundsOK
  <2>4. blocks' \in 0 .. MaxBlock /\ replays' \in 0 .. MaxReplay /\ edits' \in 0 .. MaxEdit
    BY <2>1, <2>2 DEF BoundsOK
  <2> QED BY <2>3, <2>4 DEF BoundsOK
<1> USE DEF Environment, RetryDelayElapses, DebounceElapses, ClaimGrowsStale, Replay, BlockWrites,
            UnblockWrites
<1>3. CopiesExist'
  BY DEF CopiesExist, Handling
<1>4. BooksOK'
  BY DEF BooksOK
<1>5. PcOK'
  BY DEF PcOK
<1>6. LocalsOK'
  BY DEF LocalsOK, StillFresh
<1> QED BY <1>1, <1>2, <1>3, <1>4, <1>5, <1>6

LEMMA ShapeStep == Shape /\ [Next]_vars => Shape'
<1> SUFFICES ASSUME Shape, [Next]_vars PROVE Shape'
  OBVIOUS
<1>1. CASE UNCHANGED vars
  BY <1>1 DEF vars, table, books, bounds, Shape, TypeOK, TableOK, BooksOK, PcOK, LocalsOK, BoundsOK,
              RowsInOrder, CopiesExist, Handling
<1>2. CASE Next
  BY <1>2, EnqueueShape, HandleShape, MarkShape, TickShape, EnvironmentShape DEF Next, Drain
<1> QED BY <1>1, <1>2

(* In every reachable state every variable has its type: row ids stay      *)
(* within the table, the counters within their bounds, and every actor is  *)
(* at a point of its own procedure.                                        *)
THEOREM TypeCorrect == Spec => []TypeOK
<1>1. Spec => []Shape
  BY InitShape, ShapeStep, PTL DEF Spec
<1>2. Shape => TypeOK
  BY DEF Shape
<1> QED BY <1>1, <1>2, PTL

----------------------------------------------------------------------------
(* What a step may do to the rows.                                         *)

\* A row keeps its bill, and becomes done only at the hands of a worker that has
\* completed its push and still holds the version it claimed.
LEMMA RowLife ==
    ASSUME Shape, Next, NEW r \in Row
    PROVE  /\ r <= lastRow => outbox'[r].bill = outbox[r].bill
           /\ outbox'[r].status = "done" =>
                \/ outbox[r].status = "done"
                \/ \E w \in Worker \cap fresh : pc[w] = "complete" /\ copy[w] = r
<1> DEFINE Kept == /\ r <= lastRow => outbox'[r].bill = outbox[r].bill
                   /\ outbox'[r].status = "done" =>
                        \/ outbox[r].status = "done"
                        \/ \E w \in Worker \cap fresh : pc[w] = "complete" /\ copy[w] = r
<1> USE DEF Shape, TypeOK, TableOK, table
<1>1. outbox[r] \in Columns
  OBVIOUS
<1>2. CASE UNCHANGED outbox
  BY <1>2
<1>3. ASSUME NEW p \in Producer, Enqueue(p) PROVE Kept
  <2>1. CASE ExtendDebounce(p)
    <3>1. CASE outbox' = [outbox EXCEPT ![copy[p]].settled = FALSE]
      BY <1>1, <3>1 DEF Columns
    <3> QED BY <1>2, <2>1, <3>1 DEF ExtendDebounce
  <2>2. CASE CreateRow(p)
    BY <2>2 DEF CreateRow
  <2> QED BY <1>2, <1>3, <2>1, <2>2 DEF Enqueue, Commit, FindPending, CheckDeadLetter, ProducerCrash
<1>4. ASSUME NEW w \in Worker, Drain(w) PROVE Kept
  <2>1. CASE Reclaim(w)
    BY <1>1, <2>1 DEF Reclaim, Reclaimed, Columns
  <2>2. CASE Claim(w)
    BY <1>1, <2>2 DEF Claim, Columns
  <2>3. CASE MarkRow(w)
    <3>1. CASE copy[w] = r /\ w \in fresh
      <4>1. \/ UNCHANGED outbox
            \/ /\ pc[w] = "complete"
               /\ outbox' = [outbox EXCEPT ![r] = [outbox[r] EXCEPT !.status = "done"]]
            \/ outbox' = [outbox EXCEPT ![r] = Failed(outbox[r])]
            \/ outbox' = [outbox EXCEPT ![r] = Dead(outbox[r])]
        BY <2>3, <3>1 DEF MarkRow, MarkDone, MarkParked, MarkRetryOrDead, MarkDead, MarkFails, Mark
      <4>2. /\ Failed(outbox[r]).bill = outbox[r].bill /\ Failed(outbox[r]).status = "failed"
            /\ Dead(outbox[r]).bill = outbox[r].bill /\ Dead(outbox[r]).status = "dead_letter"
        BY <1>1 DEF Failed, Dead, Columns
      <4>3. CASE outbox' = [outbox EXCEPT ![r] = [outbox[r] EXCEPT !.status = "done"]]
        BY <1>1, <1>2, <3>1, <4>1, <4>2, <4>3 DEF Columns
      <4>4. CASE outbox' = [outbox EXCEPT ![r] = Failed(outbox[r])]
        BY <4>2, <4>4
      <4>5. CASE outbox' = [outbox EXCEPT ![r] = Dead(outbox[r])]
        BY <4>2, <4>5
      <4> QED BY <1>2, <4>1, <4>3, <4>4, <4>5
    <3>2. CASE ~ (copy[w] = r /\ w \in fresh)
      BY <2>3, <3>2 DEF MarkRow, MarkDone, MarkParked, MarkRetryOrDead, MarkDead, MarkFails, Mark
    <3> QED BY <3>1, <3>2
  <2>4. CASE Handle(w)
    BY <1>2, <2>4 DEF Handle, Post, LoadBill, LoadFails, PostAccepted, PostAnswerLost,
                      PostUnprocessed, PostRejected, WritesRefused, StageBill, StampBill, StoreFails,
                      SyncAttachments
  <2> QED BY <1>2, <1>4, <2>1, <2>2, <2>3, <2>4 DEF Drain, ReadGate, AcquireLock, LockRefused,
                      ReclaimFails, NothingToClaim, ReleaseLock
<1>5. ASSUME NEW w \in Worker, WorkerCrash(w) \/ LockSessionDrops(w) PROVE Kept
  BY <1>2, <1>5 DEF WorkerCrash, LockSessionDrops
<1>6. CASE Environment
  <2>1. ASSUME NEW s \in Row,
               RetryDelayElapses(s) \/ DebounceElapses(s) \/ ClaimGrowsStale(s) \/ Replay(s)
        PROVE  Kept
    <3>1. CASE RetryDelayElapses(s)
      BY <1>1, <3>1 DEF RetryDelayElapses, Columns
    <3>2. CASE DebounceElapses(s)
      BY <1>1, <3>2 DEF DebounceElapses, Columns
    <3>3. CASE ClaimGrowsStale(s)
      BY <1>1, <3>3 DEF ClaimGrowsStale, Columns
    <3>4. CASE Replay(s)
      BY <1>1, <3>4 DEF Replay, Columns
    <3> QED BY <2>1, <3>1, <3>2, <3>3, <3>4
  <2> QED BY <1>2, <1>6, <2>1 DEF Environment, BlockWrites, UnblockWrites
<1> QED BY <1>3, <1>4, <1>5, <1>6 DEF Next

(* Fresh copies.                                                           *)

\* Whoever stays fresh through a step remembers the same row with the same status.
LEMMA StaysFresh ==
    ASSUME Shape, FreshKnows, fresh' \subseteq fresh,
           \A a \in fresh' : /\ copy'[a] = copy[a]
                             /\ copy[a] \in Row => outbox'[copy[a]].status = outbox[copy[a]].status,
           \A w \in Worker : Handling(w)' => Handling(w)
    PROVE  FreshKnows'
<1>1. FreshFinds'
  BY DEF FreshKnows, FreshFinds, Queued
<1>2. FreshClaims'
  BY DEF FreshKnows, FreshClaims, Shape, CopiesExist
<1> QED BY <1>1, <1>2 DEF FreshKnows

LEMMA FreshStep ==
    ASSUME Shape, FreshKnows, Next
    PROVE  FreshKnows'
<1> USE DEF Shape, TypeOK, table, Goto
<1>1. ASSUME NEW p \in Producer, Enqueue(p) PROVE FreshKnows'
  <2>1. \A w \in Worker : pc'[w] = pc[w] /\ copy'[w] = copy[w]
    BY <1>1 DEF Enqueue, Commit, FindPending, ExtendDebounce, CheckDeadLetter, CreateRow,
                ProducerCrash, EndEnqueue, Forget, PcOK, LocalsOK
  <2>2. \A w \in Worker : Handling(w)' => Handling(w)
    BY <2>1 DEF Handling
  <2>3. CASE FindPending(p)
    <3>1. CASE UNCHANGED <<copy, fresh>>
      BY <2>2, <2>3, <3>1, StaysFresh DEF FindPending
    <3>2. CASE ~ UNCHANGED <<copy, fresh>>
      <4>1. PICK r \in Row : /\ r \in PendingRows(target[p])
                             /\ copy' = [copy EXCEPT ![p] = r]
                             /\ fresh' = fresh \cup {p}
        BY <2>3, <3>2 DEF FindPending, IsNewest
      <4>2. UNCHANGED outbox
        BY <2>3 DEF FindPending
      <4>3. FreshFinds'
        BY <4>1, <4>2 DEF FreshKnows, FreshFinds, PendingRows, Queued, LocalsOK
      <4>4. FreshClaims'
        BY <2>1, <2>2, <4>1, <4>2 DEF FreshKnows, FreshClaims
      <4> QED BY <4>3, <4>4 DEF FreshKnows
    <3> QED BY <3>1, <3>2
  <2>4. CASE ExtendDebounce(p)
    <3>1. copy[p] \in Row /\ outbox[copy[p]] \in Columns
      BY <2>4 DEF CopiesExist, TableOK, ExtendDebounce
    <3>2. \A r \in Row : outbox'[r].status = outbox[r].status
      <4>1. CASE outbox' = [outbox EXCEPT ![copy[p]].settled = FALSE]
        BY <3>1, <4>1 DEF TableOK, Columns
      <4> QED BY <2>4, <4>1 DEF ExtendDebounce
    <3>3. fresh' \subseteq fresh /\ p \notin fresh' /\ copy' = [copy EXCEPT ![p] = None]
      BY <2>4 DEF ExtendDebounce, StillFresh
    <3> QED BY <2>2, <3>2, <3>3, StaysFresh DEF LocalsOK
  <2>5. CASE CreateRow(p)
    <3>1. \A a \in Actor : copy[a] # lastRow + 1
      BY DEF CopiesExist, LocalsOK, TableOK
    <3>2. UNCHANGED <<copy, fresh>>
      BY <2>5 DEF CreateRow
    <3>3. \A a \in Actor : copy[a] \in Row => outbox'[copy[a]].status = outbox[copy[a]].status
      BY <2>5, <3>1 DEF CreateRow, TableOK
    <3> QED BY <2>2, <3>2, <3>3, StaysFresh DEF LocalsOK
  <2>6. CASE ProducerCrash(p)
    <3>1. fresh' = fresh \ {p} /\ copy' = [copy EXCEPT ![p] = None] /\ UNCHANGED outbox
      BY <2>6 DEF ProducerCrash, Forget
    <3> QED BY <2>2, <3>1, StaysFresh DEF LocalsOK
  <2>7. CASE UNCHANGED <<outbox, copy, fresh>>
    BY <2>2, <2>7, StaysFresh
  <2> QED BY <1>1, <2>3, <2>4, <2>5, <2>6, <2>7 DEF Enqueue, Commit, CheckDeadLetter
<1>2. ASSUME NEW w \in Worker, Drain(w) \/ WorkerCrash(w) \/ LockSessionDrops(w)
      PROVE  FreshKnows'
  <2>1. CASE Claim(w)
    <3>1. PICK r \in Row : /\ r \in Claimable
                           /\ outbox' = [outbox EXCEPT ![r].status = "in_progress", ![r].stale = FALSE]
                           /\ copy' = [copy EXCEPT ![w] = r]
                           /\ fresh' = StillFresh({r}) \cup {w}
      BY <2>1 DEF Claim, IsOldest
    <3>2. outbox'[r].status = "in_progress" /\ \A s \in Row \ {r} : outbox'[s] = outbox[s]
      BY <3>1 DEF TableOK, Columns
    <3>3. \A v \in Worker \ {w} : Handling(v)' => Handling(v)
      BY <2>1 DEF Claim, Handling, PcOK
    <3>4. FreshFinds'
      <4>1. \A p \in Producer \cap fresh' : p \in fresh /\ copy[p] # r /\ copy'[p] = copy[p]
        BY <3>1 DEF StillFresh, LocalsOK
      <4> QED BY <3>2, <4>1 DEF FreshKnows, FreshFinds, Queued
    <3>5. FreshClaims'
      BY <3>1, <3>2, <3>3 DEF FreshKnows, FreshClaims, StillFresh, LocalsOK, CopiesExist
    <3> QED BY <3>4, <3>5 DEF FreshKnows
  <2>2. CASE Reclaim(w)
    <3>1. \A r \in Row \ Stranded : outbox'[r] = outbox[r]
      BY <2>1, <2>2 DEF Reclaim
    <3>2. fresh' = StillFresh(Stranded) /\ UNCHANGED copy
      BY <2>2 DEF Reclaim
    <3>3. \A v \in Worker : Handling(v)' => Handling(v)
      BY <2>2 DEF Reclaim, Handling, PcOK, HandlerPc, MarkPc
    <3> QED BY <3>1, <3>2, <3>3, StaysFresh DEF StillFresh
  <2>3. CASE MarkRow(w)
    <3>1. /\ UNCHANGED copy
          /\ \/ UNCHANGED <<outbox, fresh>>
             \/ /\ fresh' = StillFresh({copy[w]})
                /\ \A r \in Row \ {copy[w]} : outbox'[r] = outbox[r]
      BY <2>3 DEF MarkRow, MarkDone, MarkParked, MarkRetryOrDead, MarkDead, MarkFails, Mark, TableOK
    <3>2. \A v \in Worker : Handling(v)' => Handling(v)
      BY <2>3 DEF MarkRow, MarkDone, MarkParked, MarkRetryOrDead, MarkDead, MarkFails, Mark,
                  Handling, PcOK, HandlerPc, MarkPc
    <3> QED BY <3>1, <3>2, StaysFresh DEF StillFresh
  <2>4. CASE Handle(w)
    <3>1. UNCHANGED <<outbox, copy, fresh>> /\ Handling(w)
      BY <2>4 DEF Handle, Post, LoadBill, LoadFails, PostAccepted, PostAnswerLost, PostUnprocessed,
                  PostRejected, WritesRefused, StageBill, StampBill, StoreFails, SyncAttachments,
                  Handling, HandlerPc, MarkPc
    <3>2. \A v \in Worker \ {w} : pc'[v] = pc[v]
      BY <2>4 DEF Handle, Post, LoadBill, LoadFails, PostAccepted, PostAnswerLost, PostUnprocessed,
                  PostRejected, WritesRefused, StageBill, StampBill, StoreFails, SyncAttachments,
                  PcOK, EndCall, Resend
    <3>3. \A v \in Worker : Handling(v)' => Handling(v)
      BY <3>1, <3>2 DEF Handling
    <3> QED BY <3>1, <3>3, StaysFresh
  <2>5. CASE LockRefused(w) \/ ReleaseLock(w) \/ WorkerCrash(w)
    <3>1. /\ fresh' = fresh \ {w}
          /\ copy' = [copy EXCEPT ![w] = None]
          /\ pc' = [pc EXCEPT ![w] = "idle"]
          /\ UNCHANGED outbox
      BY <2>5 DEF LockRefused, ReleaseLock, WorkerCrash, EndTick, EndCall, Forget
    <3>2. \A v \in Worker : Handling(v)' => Handling(v)
      BY <3>1 DEF Handling, PcOK, HandlerPc, MarkPc
    <3> QED BY <3>1, <3>2, StaysFresh DEF LocalsOK
  <2>6. CASE ReadGate(w) \/ AcquireLock(w) \/ ReclaimFails(w) \/ NothingToClaim(w) \/ LockSessionDrops(w)
    <3>1. UNCHANGED <<outbox, copy, fresh>>
      BY <2>6 DEF ReadGate, AcquireLock, ReclaimFails, NothingToClaim, LockSessionDrops
    <3>2. \A v \in Worker : Handling(v)' => Handling(v)
      BY <2>6 DEF ReadGate, AcquireLock, ReclaimFails, NothingToClaim, LockSessionDrops, Handling,
                  PcOK, HandlerPc, MarkPc
    <3> QED BY <3>1, <3>2, StaysFresh
  <2> QED BY <1>2, <2>1, <2>2, <2>3, <2>4, <2>5, <2>6 DEF Drain
<1>3. CASE Environment
  <2>1. UNCHANGED <<copy, pc>>
    BY <1>3 DEF Environment, RetryDelayElapses, DebounceElapses, ClaimGrowsStale, Replay, BlockWrites,
                UnblockWrites
  <2>2. \A w \in Worker : Handling(w)' => Handling(w)
    BY <2>1 DEF Handling
  <2>3. ASSUME NEW r \in Row, RetryDelayElapses(r) \/ DebounceElapses(r) \/ ClaimGrowsStale(r)
        PROVE  FreshKnows'
    <3>1. UNCHANGED fresh /\ \A s \in Row : outbox'[s].status = outbox[s].status
      <4>1. outbox[r] \in Columns
        BY DEF TableOK
      <4>2. CASE RetryDelayElapses(r)
        BY <4>1, <4>2 DEF RetryDelayElapses, TableOK, Columns
      <4>3. CASE DebounceElapses(r)
        BY <4>1, <4>3 DEF DebounceElapses, TableOK, Columns
      <4>4. CASE ClaimGrowsStale(r)
        BY <4>1, <4>4 DEF ClaimGrowsStale, TableOK, Columns
      <4> QED BY <2>3, <4>2, <4>3, <4>4
    <3> QED BY <2>1, <2>2, <3>1, StaysFresh
  <2>4. ASSUME NEW r \in Row, Replay(r) PROVE FreshKnows'
    <3>1. fresh' = StillFresh({r}) /\ \A s \in Row \ {r} : outbox'[s] = outbox[s]
      BY <2>4 DEF Replay, TableOK
    <3> QED BY <2>1, <2>2, <3>1, StaysFresh DEF StillFresh
  <2>5. CASE UNCHANGED <<outbox, fresh>>
    BY <2>1, <2>2, <2>5, StaysFresh
  <2> QED BY <1>3, <2>3, <2>4, <2>5 DEF Environment, BlockWrites, UnblockWrites
<1> QED BY <1>1, <1>2, <1>3 DEF Next

(* The books: what QBO, the staging table and the bills say of each other. *)

\* Who is not in a handler leaves the books alone, and does not enter a push
\* anywhere but at its first step.
LEMMA OutsideHandlers ==
    ASSUME Shape, Next, \A w \in Worker : ~ Handle(w)
    PROVE  /\ UNCHANGED books
           /\ \A w \in Worker :
                pc'[w] \in HandlerPc \cup {"complete"} =>
                    \/ pc'[w] = "load"
                    \/ pc'[w] = pc[w] /\ copy'[w] = copy[w]
<1> DEFINE Outside == /\ UNCHANGED books
                      /\ \A w \in Worker :
                            pc'[w] \in HandlerPc \cup {"complete"} =>
                                \/ pc'[w] = "load"
                                \/ pc'[w] = pc[w] /\ copy'[w] = copy[w]
<1> USE DEF Shape, TypeOK, PcOK, LocalsOK, HandlerPc, Goto, table
<1>1. ASSUME NEW p \in Producer, Enqueue(p) PROVE Outside
  BY <1>1 DEF Enqueue, Commit, FindPending, ExtendDebounce, CheckDeadLetter, CreateRow,
              ProducerCrash, EndEnqueue, Forget
<1>2. ASSUME NEW w \in Worker, Drain(w) \/ WorkerCrash(w) \/ LockSessionDrops(w)
      PROVE  Outside
  <2>1. CASE Claim(w)
    BY <2>1 DEF Claim
  <2>2. CASE MarkRow(w)
    BY <2>2 DEF MarkRow, MarkDone, MarkParked, MarkRetryOrDead, MarkDead, MarkFails, Mark
  <2>3. CASE LockRefused(w) \/ ReleaseLock(w) \/ WorkerCrash(w)
    BY <2>3 DEF LockRefused, ReleaseLock, WorkerCrash, EndTick, EndCall, Forget
  <2>4. CASE \/ ReadGate(w) \/ AcquireLock(w) \/ ReclaimFails(w) \/ NothingToClaim(w)
             \/ LockSessionDrops(w) \/ Reclaim(w)
    BY <2>4 DEF ReadGate, AcquireLock, ReclaimFails, NothingToClaim, LockSessionDrops, Reclaim
  <2> QED BY <1>2, <2>1, <2>2, <2>3, <2>4 DEF Drain
<1>3. CASE Environment
  BY <1>3 DEF Environment, RetryDelayElapses, DebounceElapses, ClaimGrowsStale, Replay, BlockWrites,
              UnblockWrites
<1> QED BY <1>1, <1>2, <1>3 DEF Next

LEMMA BooksStep ==
    ASSUME Shape, BooksInv, Next
    PROVE  BooksInv'
<1> USE DEF Shape, TypeOK, BooksInv
<1>1. ASSUME NEW w \in Worker, Handle(w) PROVE BooksInv'
  <2> USE DEF Goto, table, books, bounds
  <2>1. /\ UNCHANGED <<outbox, copy>>
        /\ copy[w] \in Row
        /\ BillOf(w) \in Bill
        /\ \A v \in Worker \ {w} : pc'[v] = pc[v]
    BY <1>1 DEF Handle, Post, LoadBill, LoadFails, PostAccepted, PostAnswerLost, PostUnprocessed,
                PostRejected, WritesRefused, StageBill, StampBill, StoreFails, SyncAttachments,
                BillOf, RowsInOrder, CopiesExist, Handling, HandlerPc, MarkPc, PcOK, EndCall, Resend
  <2>2. \A v \in Worker : BillOf(v)' = BillOf(v) /\ RequestId(v)' = RequestId(v)
    BY <2>1 DEF BillOf, RequestId
  <2>3. /\ qbo \subseteq qbo' /\ staged \subseteq staged'
        /\ staged' \subseteq staged \cup {RequestId(w)}
        /\ \/ UNCHANGED link
           \/ /\ StampBill(w)
              /\ link' = [link EXCEPT ![BillOf(w)] = RequestId(w)]
              /\ UNCHANGED <<qbo, staged>>
    BY <1>1 DEF Handle, Post, LoadBill, LoadFails, PostAccepted, PostAnswerLost, PostUnprocessed,
                PostRejected, WritesRefused, StageBill, StampBill, StoreFails, SyncAttachments,
                QboAccepts
  <2>4. LinksExist'
    <3>1. None \notin staged'
      BY <2>1, <2>3 DEF LinksExist, RequestId
    <3>2. ASSUME NEW b \in Bill, link'[b] # None PROVE InQbo(b, link[b])'
      <4>1. CASE link'[b] = link[b]
        BY <2>3, <3>2, <4>1 DEF LinksExist, InQbo
      <4>2. CASE link'[b] # link[b]
        <5>1. StampBill(w) /\ b = BillOf(w) /\ link'[b] = RequestId(w)
          BY <2>1, <2>3, <4>2 DEF BooksOK
        <5> QED BY <2>3, <5>1 DEF StampBill, PushProgress, InQbo
      <4> QED BY <4>1, <4>2
    <3> QED BY <3>1, <3>2 DEF LinksExist
  <2>5. ASSUME NEW b \in Bill, Linked(b) PROVE Linked(b)'
    <3>1. CASE link'[b] = link[b]
      BY <2>3, <2>5, <3>1 DEF Linked, InQbo
    <3>2. CASE link'[b] # link[b]
      <4>1. StampBill(w) /\ b = BillOf(w) /\ link'[b] = RequestId(w)
        BY <2>1, <2>3, <3>2 DEF BooksOK
      <4> QED BY <2>3, <4>1 DEF StampBill, PushProgress, Linked, InQbo
    <3> QED BY <3>1, <3>2
  <2>6. PushProgress'
    <3>1. ASSUME NEW v \in Worker \ {w}
          PROVE  /\ pc'[v] \in {"stage", "stamp"}     => InQbo(BillOf(v), RequestId(v))'
                 /\ pc'[v] = "stamp"                  => RequestId(v)' \in staged'
                 /\ pc'[v] \in {"attach", "complete"} => Linked(BillOf(v))'
      <4>1. pc'[v] \in {"attach", "complete"} => BillOf(v) \in Bill
        BY <2>1 DEF BillOf, CopiesExist, Handling, HandlerPc, MarkPc, RowsInOrder
      <4> QED BY <2>1, <2>2, <2>3, <2>5, <4>1 DEF PushProgress, InQbo, Linked
    <3>2. pc'[w] = "stage" => InQbo(BillOf(w), RequestId(w))'
      BY <1>1, <2>2, <2>3 DEF Handle, Post, LoadBill, LoadFails, PostAccepted, PostAnswerLost,
              PostUnprocessed, PostRejected, WritesRefused, StageBill, StampBill, StoreFails,
              SyncAttachments, EndCall, Resend, QboAccepts, InQbo, PcOK
    <3>3. pc'[w] = "stamp" => InQbo(BillOf(w), RequestId(w))' /\ RequestId(w)' \in staged'
      <4>1. pc'[w] = "stamp" => StageBill(w)
        BY <1>1 DEF Handle, Post, LoadBill, LoadFails, PostAccepted, PostAnswerLost,
              PostUnprocessed, PostRejected, WritesRefused, StageBill, StampBill, StoreFails,
              SyncAttachments, EndCall, Resend, PcOK
      <4> QED BY <2>2, <2>3, <4>1 DEF StageBill, PushProgress, InQbo
    <3>4. pc'[w] \in {"attach", "complete"} => Linked(BillOf(w))'
      <4>1. pc'[w] \in {"attach", "complete"} =>
               \/ LoadBill(w) /\ link[BillOf(w)] # None /\ link[BillOf(w)] \in staged
               \/ StampBill(w)
               \/ SyncAttachments(w)
        BY <1>1 DEF Handle, Post, LoadBill, LoadFails, PostAccepted, PostAnswerLost,
              PostUnprocessed, PostRejected, WritesRefused, StageBill, StampBill, StoreFails,
              SyncAttachments, EndCall, Resend, PcOK
      <4>2. CASE StampBill(w)
        <5>1. /\ RequestId(w) \in staged' /\ qbo \subseteq qbo'
              /\ InQbo(BillOf(w), RequestId(w)) /\ BillOf(w) \in Bill
          BY <2>1, <2>3, <4>2 DEF StampBill, PushProgress
        <5>2. link'[BillOf(w)] = RequestId(w)
          BY <4>2, <5>1 DEF StampBill, BooksOK
        <5> QED BY <2>2, <5>1, <5>2 DEF Linked, InQbo
      <4>3. CASE LoadBill(w) /\ link[BillOf(w)] # None /\ link[BillOf(w)] \in staged
        BY <2>1, <2>2, <2>5, <4>3 DEF LinksExist, Linked
      <4>4. CASE SyncAttachments(w)
        BY <2>1, <2>2, <2>5, <4>4 DEF SyncAttachments, PushProgress
      <4> QED BY <4>1, <4>2, <4>3, <4>4
    <3> QED BY <3>1, <3>2, <3>3, <3>4 DEF PushProgress
  <2>7. DoneIsLinked'
    <3>1. ASSUME NEW r \in Row, outbox[r].status = "done" PROVE outbox[r].bill \in Bill
      BY <3>1, Inserted DEF RowsInOrder
    <3> QED BY <2>1, <2>5, <3>1 DEF DoneIsLinked, Linked, InQbo
  <2> QED BY <2>4, <2>6, <2>7
<1>2. CASE \A w \in Worker : ~ Handle(w)
  <2>1. UNCHANGED <<link, staged, qbo>>
    BY <1>2, OutsideHandlers DEF books
  <2>2. LinksExist'
    BY <2>1 DEF LinksExist, InQbo
  <2>3. PushProgress'
    <3>1. ASSUME NEW w \in Worker, pc'[w] \in {"stage", "stamp", "attach", "complete"}
          PROVE  /\ pc'[w] = pc[w]
                 /\ copy'[w] = copy[w]
                 /\ BillOf(w)' = BillOf(w)
      <4>1. pc'[w] = pc[w] /\ copy'[w] = copy[w]
        BY <1>2, <3>1, OutsideHandlers DEF HandlerPc
      <4>2. copy[w] \in Row /\ copy[w] <= lastRow
        BY <3>1, <4>1 DEF CopiesExist, Handling, HandlerPc, MarkPc
      <4> QED BY <4>1, <4>2, RowLife DEF BillOf
    <3> QED BY <2>1, <3>1 DEF PushProgress, Linked, InQbo, RequestId
  <2>4. DoneIsLinked'
    <3>1. ASSUME NEW r \in Row, outbox'[r].status = "done"
          PROVE  /\ outbox'[r].bill = outbox[r].bill
                 /\ Linked(outbox[r].bill)
      <4>1. CASE outbox[r].status = "done"
        BY <4>1, Inserted, RowLife DEF DoneIsLinked, Linked, InQbo
      <4>2. CASE outbox[r].status # "done"
        <5>1. PICK w \in Worker : pc[w] = "complete" /\ copy[w] = r
          BY <3>1, <4>2, RowLife
        <5>2. r <= lastRow
          BY <5>1 DEF CopiesExist
        <5> QED BY <5>1, <5>2, RowLife DEF PushProgress, BillOf
      <4> QED BY <4>1, <4>2
    <3> QED BY <2>1, <3>1 DEF DoneIsLinked, Linked, InQbo
  <2> QED BY <2>2, <2>3, <2>4
<1> QED BY <1>1, <1>2

----------------------------------------------------------------------------

LEMMA InitIInv == Init => IInv
<1> SUFFICES ASSUME Init PROVE IInv
  OBVIOUS
<1>1. FreshKnows
  BY DEF Init, FreshKnows, FreshFinds, FreshClaims
<1>2. LinksExist
  BY DEF Init, LinksExist
<1>3. PushProgress
  BY DEF Init, PushProgress
<1>4. DoneIsLinked
  BY DEF Init, DoneIsLinked, AbsentRow
<1> QED BY InitShape, <1>1, <1>2, <1>3, <1>4 DEF IInv, BooksInv

LEMMA StutterIInv == IInv /\ UNCHANGED vars => IInv'
<1> SUFFICES ASSUME IInv, UNCHANGED vars PROVE IInv'
  OBVIOUS
<1> USE DEF IInv, vars, table, books, bounds
<1>1. Shape'
  BY ShapeStep
<1>2. FreshKnows'
  BY DEF FreshKnows, FreshFinds, FreshClaims, Queued, Handling
<1>3. BooksInv'
  BY DEF BooksInv, LinksExist, PushProgress, DoneIsLinked, InQbo, Linked, BillOf, RequestId
<1> QED BY <1>1, <1>2, <1>3

LEMMA IInvStep == IInv /\ [Next]_vars => IInv'
<1> SUFFICES ASSUME IInv, [Next]_vars PROVE IInv'
  OBVIOUS
<1>1. CASE UNCHANGED vars
  BY <1>1, StutterIInv
<1>2. CASE Next
  BY <1>2, ShapeStep, FreshStep, BooksStep DEF IInv
<1> QED BY <1>1, <1>2

LEMMA IInvHolds == Spec => []IInv
BY InitIInv, IInvStep, PTL DEF Spec

(* A row is marked done only when its bill is in QBO and the database      *)
(* knows it, whatever crashes, lost answers and lost lock sessions come    *)
(* between the POST and the mark.                                          *)
THEOREM DoneRowsAreLinked == Spec => []DoneIsLinked
<1>1. IInv => DoneIsLinked
  BY DEF IInv, BooksInv
<1> QED BY <1>1, IInvHolds, PTL

----------------------------------------------------------------------------
(* As long as no lock session drops.                                       *)

LEMMA InitLockedInv == Init => LockedInv
BY DEF Init, LockedInv, LockHeld, LiveClaim, PostsUnlinked, Handling, LockedPc, HandlerPc, MarkPc

LEMMA LockHeldStep ==
    ASSUME ~ LockSessionMayDrop, Shape, LockHeld, Next
    PROVE  LockHeld'
<1> USE DEF Shape, TypeOK, PcOK, Goto
<1>1. CASE UNCHANGED <<lock, pc>>
  BY <1>1 DEF LockHeld
<1>2. ASSUME NEW p \in Producer, Enqueue(p) PROVE LockHeld'
  <2>1. UNCHANGED lock /\ \A w \in Worker : pc'[w] = pc[w]
    BY <1>2 DEF Enqueue, Commit, FindPending, ExtendDebounce, CheckDeadLetter, CreateRow,
                ProducerCrash, EndEnqueue
  <2> QED BY <2>1 DEF LockHeld
<1>3. ASSUME NEW w \in Worker, Drain(w) \/ WorkerCrash(w) \/ LockSessionDrops(w)
      PROVE  LockHeld'
  <2>1. CASE AcquireLock(w)
    BY <2>1 DEF AcquireLock, LockIsFree, LockHeld, LockedPc
  <2>2. CASE ReleaseLock(w) \/ WorkerCrash(w)
    <3>1. pc' = [pc EXCEPT ![w] = "idle"] /\ lock' = IF lock = w THEN Nobody ELSE lock
      BY <2>2 DEF ReleaseLock, WorkerCrash, Unlock, EndTick, EndCall
    <3> QED BY <3>1 DEF LockHeld, LockedPc, HandlerPc, MarkPc
  <2>3. CASE ReadGate(w) \/ LockRefused(w)
    <3>1. /\ UNCHANGED lock /\ pc[w] \in {"idle", "lock"}
          /\ \E l \in {"idle", "lock"} : pc' = [pc EXCEPT ![w] = l]
      BY <2>3 DEF ReadGate, LockRefused, EndTick, EndCall
    <3> QED BY <3>1 DEF LockHeld, LockedPc, HandlerPc, MarkPc
  <2>4. CASE Handle(w) \/ MarkRow(w) \/ Reclaim(w) \/ ReclaimFails(w) \/ Claim(w) \/ NothingToClaim(w)
    <3>1. UNCHANGED lock /\ pc[w] \in LockedPc /\ \E l \in LockedPc : pc' = [pc EXCEPT ![w] = l]
      <4> USE DEF LockedPc, HandlerPc, MarkPc
      <4>1. CASE Handle(w)
        BY <4>1 DEF Handle, Post, LoadBill, LoadFails, PostAccepted, PostAnswerLost, PostUnprocessed,
                PostRejected, WritesRefused, StageBill, StampBill, StoreFails, SyncAttachments,
                EndCall, Resend
      <4>2. CASE MarkRow(w)
        BY <4>2 DEF MarkRow, MarkDone, MarkParked, MarkRetryOrDead, MarkDead, MarkFails, Mark
      <4>3. CASE Reclaim(w) \/ ReclaimFails(w) \/ Claim(w) \/ NothingToClaim(w)
        BY <4>3 DEF Reclaim, ReclaimFails, Claim, NothingToClaim
      <4> QED BY <2>4, <4>1, <4>2, <4>3
    <3> QED BY <3>1 DEF LockHeld
  <2> QED BY <1>3, <2>1, <2>2, <2>3, <2>4 DEF Drain, LockSessionDrops
<1>4. CASE Environment
  BY <1>1, <1>4 DEF Environment, RetryDelayElapses, DebounceElapses, ClaimGrowsStale, Replay,
              BlockWrites, UnblockWrites
<1> QED BY <1>2, <1>3, <1>4 DEF Next

\* Only the tick that holds the lock moves past a claim, so only its own mark ends it.
LEMMA LiveClaimStep ==
    ASSUME ~ LockSessionMayDrop, Shape, FreshKnows, LockHeld, LiveClaim, Next
    PROVE  LiveClaim'
<1> USE DEF Shape, TypeOK, PcOK, Goto, table
<1>0. FreshKnows' /\ Shape'
  BY FreshStep, ShapeStep
<1>1. SUFFICES ASSUME NEW v \in Worker, Handling(v)' PROVE v \in fresh'
  BY <1>0, <1>1 DEF LiveClaim, FreshKnows, FreshClaims, CopiesExist
<1>2. CASE Handling(v) /\ fresh \subseteq fresh'
  BY <1>2 DEF LiveClaim
<1>3. ASSUME NEW p \in Producer, Enqueue(p) PROVE v \in fresh'
  <2>1. pc'[v] = pc[v] /\ v # p
    BY <1>3 DEF Enqueue, Commit, FindPending, ExtendDebounce, CheckDeadLetter, CreateRow,
                ProducerCrash, EndEnqueue
  <2>2. v \in fresh /\ outbox[copy[v]].status = "in_progress"
    BY <1>1, <2>1 DEF LiveClaim, Handling
  <2>3. CASE ExtendDebounce(p)
    BY <2>1, <2>2, <2>3 DEF ExtendDebounce, StillFresh, FreshKnows, FreshFinds, Queued
  <2> QED BY <1>3, <2>1, <2>2, <2>3 DEF Enqueue, Commit, FindPending, CheckDeadLetter, CreateRow,
                ProducerCrash, Forget
<1>4. ASSUME NEW w \in Worker, Drain(w) \/ WorkerCrash(w) \/ LockSessionDrops(w)
      PROVE  v \in fresh'
  <2>1. CASE v # w
    <3>1. pc'[v] = pc[v]
      BY <1>4, <2>1 DEF Drain, Handle, Post, LoadBill, LoadFails, PostAccepted, PostAnswerLost,
                PostUnprocessed, PostRejected, WritesRefused, StageBill, StampBill, StoreFails,
                SyncAttachments, EndCall, Resend, MarkRow, MarkDone, MarkParked, MarkRetryOrDead,
                MarkDead, MarkFails, Mark, ReadGate, AcquireLock, LockRefused, Reclaim, ReclaimFails,
                Claim, NothingToClaim, ReleaseLock, WorkerCrash, LockSessionDrops, EndTick
    <3>2. v \in fresh /\ lock = v
      BY <1>1, <3>1 DEF LiveClaim, Handling, LockHeld, LockedPc
    <3>3. pc[w] \notin LockedPc
      BY <2>1, <3>2 DEF LockHeld
    <3>4. CASE ReadGate(w) \/ AcquireLock(w)
      BY <3>2, <3>4 DEF ReadGate, AcquireLock
    <3>5. CASE LockRefused(w) \/ WorkerCrash(w) \/ ReleaseLock(w)
      BY <2>1, <3>2, <3>5 DEF LockRefused, WorkerCrash, ReleaseLock, EndTick, Forget
    <3>6. ~ (Handle(w) \/ MarkRow(w) \/ Reclaim(w) \/ ReclaimFails(w) \/ Claim(w) \/ NothingToClaim(w)
             \/ LockSessionDrops(w))
      BY <3>3 DEF Handle, Post, LoadBill, LoadFails, PostAccepted, PostAnswerLost, PostUnprocessed,
                PostRejected, WritesRefused, StageBill, StampBill, StoreFails, SyncAttachments,
                MarkRow, MarkDone, MarkParked, MarkRetryOrDead, MarkDead, MarkFails, Reclaim,
                ReclaimFails, Claim, NothingToClaim, LockSessionDrops, LockedPc, HandlerPc, MarkPc
    <3> QED BY <1>4, <3>4, <3>5, <3>6 DEF Drain
  <2>2. CASE v = w
    <3>1. CASE Handle(w)
      <4>1. UNCHANGED fresh /\ Handling(w)
        BY <3>1 DEF Handle, Post, LoadBill, LoadFails, PostAccepted, PostAnswerLost, PostUnprocessed,
                PostRejected, WritesRefused, StageBill, StampBill, StoreFails, SyncAttachments,
                Handling, HandlerPc, MarkPc
      <4> QED BY <1>2, <2>2, <4>1
    <3>2. CASE Claim(w)
      BY <2>2, <3>2 DEF Claim
    <3>3. ~ (MarkRow(w) \/ LockRefused(w) \/ ReleaseLock(w) \/ WorkerCrash(w) \/ ReadGate(w)
             \/ AcquireLock(w) \/ ReclaimFails(w) \/ NothingToClaim(w) \/ Reclaim(w)
             \/ LockSessionDrops(w))
      BY <1>1, <2>2 DEF MarkRow, MarkDone, MarkParked, MarkRetryOrDead, MarkDead, MarkFails, Mark,
                LockRefused, ReleaseLock, WorkerCrash, ReadGate, AcquireLock, ReclaimFails,
                NothingToClaim, Reclaim, LockSessionDrops, EndTick, EndCall, Handling, HandlerPc,
                MarkPc
    <3> QED BY <1>4, <3>1, <3>2, <3>3 DEF Drain
  <2> QED BY <2>1, <2>2
<1>5. CASE Environment
  <2>1. Handling(v) /\ UNCHANGED pc
    BY <1>1, <1>5 DEF Environment, RetryDelayElapses, DebounceElapses, ClaimGrowsStale, Replay,
              BlockWrites, UnblockWrites, Handling
  <2>2. copy[v] \in Row /\ outbox[copy[v]].status = "in_progress" /\ v \in fresh
    BY <2>1 DEF LiveClaim
  <2>3. ASSUME NEW r \in Row, Replay(r) PROVE v \in fresh'
    BY <2>2, <2>3 DEF Replay, StillFresh
  <2> QED BY <1>5, <2>2, <2>3 DEF Environment, RetryDelayElapses, DebounceElapses, ClaimGrowsStale,
              BlockWrites, UnblockWrites
<1> QED BY <1>3, <1>4, <1>5 DEF Next

\* Two ticks are never past the lock at the same time.
LEMMA OneDrains ==
    ASSUME LockHeld, NEW v \in Worker, NEW w \in Worker, pc[v] \in LockedPc, pc[w] \in LockedPc
    PROVE  v = w
BY DEF LockHeld

LEMMA PostsUnlinkedStep ==
    ASSUME ~ LockSessionMayDrop, Shape, LockHeld, PostsUnlinked, Next
    PROVE  PostsUnlinked'
<1> USE DEF Shape, TypeOK
<1>1. SUFFICES ASSUME NEW v \in Worker, pc'[v] \in {"post", "stage", "stamp"}
               PROVE  link'[BillOf(v)'] = None
  BY DEF PostsUnlinked
<1>2. ASSUME NEW w \in Worker, Handle(w) PROVE link'[BillOf(v)'] = None
  <2> USE DEF Goto, table, books, bounds
  <2>1. UNCHANGED <<outbox, copy>> /\ pc[w] \in LockedPc /\ \A u \in Worker \ {w} : pc'[u] = pc[u]
    BY <1>2 DEF Handle, Post, LoadBill, LoadFails, PostAccepted, PostAnswerLost, PostUnprocessed,
                PostRejected, WritesRefused, StageBill, StampBill, StoreFails, SyncAttachments,
                LockedPc, HandlerPc, MarkPc, PcOK, EndCall, Resend
  <2>2. v = w
    BY <1>1, <2>1, OneDrains DEF LockedPc, HandlerPc
  <2>3. UNCHANGED link /\ (LoadBill(w) \/ pc[w] \in {"post", "stage", "stamp"})
    <3>1. ~ (StampBill(w) \/ SyncAttachments(w) \/ LoadFails(w))
      BY <1>1, <2>2 DEF StampBill, SyncAttachments, LoadFails, PcOK
    <3>2. CASE LoadBill(w) \/ StageBill(w) \/ StoreFails(w)
      BY <3>2 DEF LoadBill, StageBill, StoreFails
    <3>3. CASE Post(w)
      <4>1. UNCHANGED link
        BY <3>3 DEF Post, PostAccepted, PostAnswerLost, PostUnprocessed, PostRejected, WritesRefused
      <4>2. ~ WritesRefused(w)
        BY <1>1, <2>2 DEF WritesRefused, EndCall, PcOK
      <4> QED BY <3>3, <4>1, <4>2 DEF Post, PostAccepted, PostAnswerLost, PostUnprocessed, PostRejected
    <3> QED BY <1>2, <3>1, <3>2, <3>3 DEF Handle
  <2>4. link[BillOf(v)] = None
    BY <1>1, <2>2, <2>3 DEF LoadBill, PostsUnlinked, PcOK
  <2> QED BY <2>1, <2>3, <2>4 DEF BillOf
<1>3. CASE \A w \in Worker : ~ Handle(w)
  <2>1. UNCHANGED link /\ pc'[v] = pc[v] /\ copy'[v] = copy[v]
    BY <1>1, <1>3, OutsideHandlers DEF books, HandlerPc
  <2>2. copy[v] \in Row /\ copy[v] <= lastRow
    BY <1>1, <2>1 DEF CopiesExist, Handling, HandlerPc
  <2>3. BillOf(v)' = BillOf(v)
    BY <2>1, <2>2, RowLife DEF BillOf
  <2> QED BY <1>1, <2>1, <2>3 DEF PostsUnlinked
<1> QED BY <1>2, <1>3

LEMMA LockedInvHolds ==
    ASSUME ~ LockSessionMayDrop
    PROVE  Spec => []LockedInv
<1>1. IInv /\ LockedInv /\ [Next]_vars => LockedInv'
  <2> SUFFICES ASSUME IInv, LockedInv, [Next]_vars PROVE LockedInv'
    OBVIOUS
  <2>1. CASE UNCHANGED vars
    BY <2>1 DEF LockedInv, LockHeld, LiveClaim, PostsUnlinked, Handling, BillOf, vars, table, books
  <2>2. CASE Next
    BY <2>2, LockHeldStep, LiveClaimStep, PostsUnlinkedStep DEF IInv, LockedInv
  <2> QED BY <2>1, <2>2
<1> QED BY <1>1, InitLockedInv, IInvHolds, PTL DEF Spec

(* No row is reclaimed, coalesced into or replayed under the worker that   *)
(* is handling it, as long as the lock stays with its session.             *)
THEOREM ClaimsAreLive ==
    ASSUME ~ LockSessionMayDrop
    PROVE  Spec => []LiveClaim
<1>1. LockedInv => LiveClaim
  BY DEF LockedInv
<1> QED BY <1>1, LockedInvHolds, PTL

(* A bill that has a QBO identity keeps it and is never posted again, as   *)
(* long as the lock stays with its session.                                *)
THEOREM LinkedBillsAreFinal ==
    ASSUME ~ LockSessionMayDrop
    PROVE  Spec => LinkedBillIsFinal
<1> DEFINE Final == \A b \in Bill : link[b] # None =>
                        /\ link'[b] = link[b]
                        /\ {q \in qbo' : q.bill = b} = {q \in qbo : q.bill = b}
<1>1. IInv /\ LockedInv /\ [Next]_vars => [Final]_vars
  <2> SUFFICES ASSUME IInv, LockedInv, Next, NEW b \in Bill, link[b] # None
               PROVE  /\ link'[b] = link[b]
                      /\ {q \in qbo' : q.bill = b} = {q \in qbo : q.bill = b}
    OBVIOUS
  <2> USE DEF IInv, Shape, TypeOK
  <2>1. CASE UNCHANGED <<link, qbo>>
    BY <2>1
  <2>2. ASSUME NEW w \in Worker, Handle(w)
        PROVE  /\ link'[b] = link[b]
               /\ {q \in qbo' : q.bill = b} = {q \in qbo : q.bill = b}
    <3>1. \/ UNCHANGED <<link, qbo>>
          \/ /\ pc[w] = "post"
             /\ UNCHANGED link
             /\ qbo' = qbo \cup {[key |-> RequestId(w), bill |-> BillOf(w)]}
          \/ /\ pc[w] = "stamp"
             /\ UNCHANGED qbo
             /\ link' = [link EXCEPT ![BillOf(w)] = RequestId(w)]
      BY <2>2 DEF Handle, Post, LoadBill, LoadFails, PostAccepted, PostAnswerLost, PostUnprocessed,
                PostRejected, WritesRefused, StageBill, StampBill, StoreFails, SyncAttachments,
                QboAccepts, books
    <3>2. pc[w] \in {"post", "stamp"} => BillOf(w) # b
      BY DEF LockedInv, PostsUnlinked
    <3> QED BY <3>1, <3>2 DEF BooksOK
  <2> QED BY <2>1, <2>2, OutsideHandlers DEF books
<1> QED BY <1>1, IInvHolds, LockedInvHolds, PTL DEF Spec, LinkedBillIsFinal
----------------------------------------------------------------------------
(* No edit is lost as long as every producer lives to the end of its       *)
(* enqueue.  Nothing is asked of the lock: this is the work of the row     *)
(* versions alone.                                                         *)

\* An edit that no handler has read has a row that will read it, or its producer
\* has not come to the row yet.
Covered(b)  == \E r \in RowsOf(b) : WillRead(r)
OnTheWay(b) == \E p \in Producer : target[p] = b /\ pc[p] \in {"find", "guard", "create"}
EditInv     == \A b \in dirty : Covered(b) \/ OnTheWay(b)

\* Where a handler has read its bill and has not failed.
HasRead == (HandlerPc \ {"load"}) \cup {"complete"}

\* A worker comes to have read its bill by LoadBill only, and wins no row on the way.
LEMMA ReadsByLoad ==
    ASSUME Shape, Next, NEW w \in Worker, pc'[w] \in HasRead
    PROVE  /\ copy'[w] = copy[w]
           /\ w \in fresh' => w \in fresh
           /\ pc[w] \in HasRead \/ LoadBill(w)
<1> DEFINE Reads == /\ copy'[w] = copy[w]
                    /\ w \in fresh' => w \in fresh
                    /\ pc[w] \in HasRead \/ LoadBill(w)
<1> USE DEF Shape, TypeOK, PcOK, LocalsOK, HasRead, HandlerPc, Goto, table
<1>1. ASSUME NEW p \in Producer, Enqueue(p) PROVE Reads
  BY <1>1 DEF Enqueue, Commit, FindPending, ExtendDebounce, CheckDeadLetter, CreateRow,
              ProducerCrash, EndEnqueue, Forget, StillFresh
<1>2. ASSUME NEW v \in Worker, Handle(v) PROVE Reads
  BY <1>2 DEF Handle, Post, LoadBill, LoadFails, PostAccepted, PostAnswerLost, PostUnprocessed,
              PostRejected, WritesRefused, StageBill, StampBill, StoreFails, SyncAttachments,
              EndCall, Resend
<1>3. ASSUME NEW v \in Worker, MarkRow(v) PROVE Reads
  BY <1>3 DEF MarkRow, MarkDone, MarkParked, MarkRetryOrDead, MarkDead, MarkFails, Mark, StillFresh
<1>4. ASSUME NEW v \in Worker,
             \/ ReadGate(v) \/ AcquireLock(v) \/ LockRefused(v) \/ Reclaim(v) \/ ReclaimFails(v)
             \/ Claim(v) \/ NothingToClaim(v) \/ ReleaseLock(v) \/ WorkerCrash(v)
             \/ LockSessionDrops(v)
      PROVE  Reads
  <2>1. CASE ReadGate(v) \/ AcquireLock(v) \/ LockRefused(v) \/ Reclaim(v) \/ ReclaimFails(v)
    BY <2>1 DEF ReadGate, AcquireLock, LockRefused, Reclaim, ReclaimFails, EndTick, EndCall,
                Forget, StillFresh
  <2>2. CASE Claim(v) \/ NothingToClaim(v)
    BY <2>2 DEF Claim, NothingToClaim, EndTick, EndCall, Forget, StillFresh
  <2>3. CASE ReleaseLock(v) \/ WorkerCrash(v) \/ LockSessionDrops(v)
    BY <2>3 DEF ReleaseLock, WorkerCrash, LockSessionDrops, EndTick, EndCall, Forget, StillFresh
  <2> QED BY <1>4, <2>1, <2>2, <2>3
<1>5. CASE Environment
  BY <1>5 DEF Environment, RetryDelayElapses, DebounceElapses, ClaimGrowsStale, Replay,
              BlockWrites, UnblockWrites, StillFresh
<1> QED BY <1>1, <1>2, <1>3, <1>4, <1>5 DEF Next, Drain

\* A row that will read its bill goes on to do so, until its own handler has read it.
LEMMA StillReads ==
    ASSUME Shape, FreshKnows, Next, NEW r \in Row, WillRead(r),
           \A w \in Worker : LoadBill(w) => copy[w] # r
    PROVE  WillRead(r)' /\ r <= lastRow /\ outbox'[r].bill = outbox[r].bill
<1> USE DEF Shape
<1>1. r <= lastRow
  BY Inserted DEF WillRead, TypeOK
<1>2. outbox'[r].bill = outbox[r].bill
  BY <1>1, RowLife
<1>3. outbox'[r].status # "done"
  <2>1. ASSUME outbox[r].status # "done", NEW w \in Worker \cap fresh, pc[w] = "complete", copy[w] = r
        PROVE  FALSE
    <3>1. outbox[r].status = "in_progress"
      BY <2>1 DEF FreshKnows, FreshClaims, Handling, MarkPc
    <3> QED BY <2>1, <3>1 DEF WillRead
  <2>2. outbox[r].status # "done"
    BY DEF WillRead
  <2> QED BY <2>1, <2>2, RowLife
<1>4. outbox'[r].status # "absent"
  <2>1. outbox[r].bill \in Bill
    BY <1>1 DEF RowsInOrder
  <2>2. outbox'[r] # AbsentRow
    BY <1>2, <2>1 DEF AbsentRow
  <2>3. Shape'
    BY ShapeStep
  <2> QED BY <2>2, <2>3 DEF RowsInOrder, TypeOK, TableOK
<1>5. outbox'[r].status \in Status
  BY ShapeStep DEF TypeOK, TableOK, Columns
<1>6. ASSUME NEW w \in Worker, w \in fresh', copy'[w] = r, pc'[w] \in HasRead PROVE FALSE
  <2>1. w \in fresh /\ copy[w] = r /\ pc[w] \in HasRead
    BY <1>6, ReadsByLoad
  <2>2. outbox[r].status = "in_progress"
    BY <2>1 DEF FreshKnows, FreshClaims, Handling, HasRead, HandlerPc, MarkPc
  <2> QED BY <2>1, <2>2 DEF WillRead, HasRead
<1>7. WillRead(r)'
  BY <1>3, <1>4, <1>5, <1>6 DEF WillRead, HasRead, Status
<1> QED BY <1>1, <1>2, <1>7

\* A producer under way stays under way or leaves a row that will read the bill.
LEMMA StaysOnTheWay ==
    ASSUME ~ ProducerMayCrash, Shape, Next, NEW b \in Bill, OnTheWay(b)
    PROVE  Covered(b)' \/ OnTheWay(b)'
<1> USE DEF Shape, TypeOK, PcOK, LocalsOK
<1>1. PICK p \in Producer : target[p] = b /\ pc[p] \in {"find", "guard", "create"}
  BY DEF OnTheWay
<1>2. CASE target'[p] = target[p] /\ pc'[p] \in {"find", "guard", "create"}
  BY <1>1, <1>2 DEF OnTheWay
<1>3. CASE UNCHANGED outbox /\ \E r \in RowsOf(b) : outbox[r].status \in {"pending", "failed", "dead_letter"}
  BY <1>3 DEF Covered, RowsOf, WillRead
<1>4. CASE CreateRow(p)
  <2>1. lastRow + 1 \in Row
    BY <1>4 DEF CreateRow, TableOK
  <2>2. outbox'[lastRow + 1].bill = b /\ outbox'[lastRow + 1].status = "pending"
    BY <1>1, <1>4, <2>1 DEF CreateRow, TableOK
  <2> QED BY <2>1, <2>2 DEF Covered, RowsOf, WillRead
<1>5. CASE FindPending(p)
  <2>1. UNCHANGED <<outbox, target>>
    BY <1>5 DEF FindPending, table
  <2>2. CASE pc' = [pc EXCEPT ![p] = "guard"]
    BY <1>2, <2>1, <2>2
  <2>3. CASE \E r \in Row : r \in PendingRows(b)
    BY <1>3, <2>1, <2>3 DEF PendingRows, Queued
  <2> QED BY <1>1, <1>5, <2>2, <2>3 DEF FindPending, IsNewest, Goto
<1>6. CASE CheckDeadLetter(p)
  <2>1. UNCHANGED outbox
    BY <1>6 DEF CheckDeadLetter, table
  <2>2. CASE Goto(p, "create") /\ UNCHANGED target
    BY <1>2, <2>2 DEF Goto
  <2> QED BY <1>1, <1>3, <1>6, <2>1, <2>2 DEF CheckDeadLetter
<1>7. ~ (ExtendDebounce(p) \/ ProducerCrash(p) \/ \E c \in Bill : Commit(p, c))
  BY <1>1 DEF ExtendDebounce, ProducerCrash, Commit
<1>8. ASSUME NEW q \in Producer \ {p}, Enqueue(q) PROVE target'[p] = target[p] /\ pc'[p] = pc[p]
  BY <1>8 DEF Enqueue, Commit, FindPending, ExtendDebounce, CheckDeadLetter, CreateRow,
              ProducerCrash, EndEnqueue, Goto
<1>9. ASSUME NEW w \in Worker, Drain(w) \/ WorkerCrash(w) \/ LockSessionDrops(w)
      PROVE  target'[p] = target[p] /\ pc'[p] = pc[p]
  <2> USE DEF Goto
  <2>1. w # p
    OBVIOUS
  <2>2. CASE Handle(w)
    BY <2>1, <2>2 DEF Handle, Post, LoadBill, LoadFails, PostAccepted, PostAnswerLost, PostUnprocessed,
                PostRejected, WritesRefused, StageBill, StampBill, StoreFails, SyncAttachments,
                EndCall, Resend
  <2>3. CASE MarkRow(w)
    BY <2>1, <2>3 DEF MarkRow, MarkDone, MarkParked, MarkRetryOrDead, MarkDead, MarkFails, Mark
  <2> QED BY <1>9, <2>1, <2>2, <2>3 DEF Drain, ReadGate, AcquireLock, LockRefused, Reclaim,
                ReclaimFails, Claim, NothingToClaim, ReleaseLock, WorkerCrash, LockSessionDrops,
                EndTick, EndCall
<1>10. CASE Environment
  <2>1. target'[p] = target[p] /\ pc'[p] = pc[p]
    BY <1>10 DEF Environment, RetryDelayElapses, DebounceElapses, ClaimGrowsStale, Replay,
              BlockWrites, UnblockWrites
  <2> QED BY <1>1, <1>2, <2>1
<1>11. CASE \E q \in Producer : Enqueue(q)
  BY <1>1, <1>2, <1>4, <1>5, <1>6, <1>7, <1>8, <1>11 DEF Enqueue
<1> QED BY <1>1, <1>2, <1>9, <1>10, <1>11 DEF Next

\* Only a commit makes a bill dirty, and its producer goes on to enqueue.
LEMMA CommitsEnqueue ==
    ASSUME Shape, Next, NEW b \in dirty', b \notin dirty
    PROVE  OnTheWay(b)'
<1> USE DEF Shape, TypeOK, PcOK, LocalsOK
<1>1. ASSUME NEW w \in Worker, Drain(w) \/ WorkerCrash(w) \/ LockSessionDrops(w)
      PROVE  dirty' \subseteq dirty
  <2>1. CASE Handle(w)
    BY <2>1 DEF Handle, Post, LoadBill, LoadFails, PostAccepted, PostAnswerLost, PostUnprocessed,
                PostRejected, WritesRefused, StageBill, StampBill, StoreFails, SyncAttachments
  <2> QED BY <1>1, <2>1 DEF Drain, ReadGate, AcquireLock, LockRefused, Reclaim, ReclaimFails, Claim,
                NothingToClaim, ReleaseLock, WorkerCrash, LockSessionDrops, MarkRow, MarkDone,
                MarkParked, MarkRetryOrDead, MarkDead, MarkFails, Mark
<1>2. ASSUME Environment PROVE dirty' \subseteq dirty
  BY <1>2 DEF table, Environment, RetryDelayElapses, DebounceElapses, ClaimGrowsStale, Replay,
              BlockWrites, UnblockWrites
<1>3. PICK p \in Producer : Enqueue(p)
  BY <1>1, <1>2 DEF Next
<1>4. PICK c \in Bill : Commit(p, c)
  BY <1>3 DEF Enqueue, FindPending, ExtendDebounce, CheckDeadLetter, CreateRow, ProducerCrash
<1>5. c = b
  BY <1>4 DEF Commit
<1>6. target'[p] = b /\ pc'[p] = "find"
  BY <1>4, <1>5 DEF Commit, Goto
<1> QED BY <1>6 DEF OnTheWay

LEMMA EditInvStep ==
    ASSUME ~ ProducerMayCrash, IInv, EditInv, [Next]_vars
    PROVE  EditInv'
<1> USE DEF IInv
<1>1. CASE UNCHANGED vars
  BY <1>1 DEF vars, table, books, bounds, EditInv, Covered, OnTheWay, RowsOf, WillRead
<1>2. SUFFICES ASSUME Next, NEW b \in dirty' PROVE Covered(b)' \/ OnTheWay(b)'
  BY <1>1 DEF EditInv
<1>3. CASE b \notin dirty
  BY <1>2, <1>3, CommitsEnqueue
<1>4. CASE b \in dirty /\ OnTheWay(b)
  <2>1. b \in Bill
    BY <1>4 DEF Shape, TypeOK, BooksOK
  <2> QED BY <1>2, <1>4, <2>1, StaysOnTheWay
<1>5. CASE b \in dirty /\ Covered(b)
  <2>1. PICK r \in Row : outbox[r].bill = b /\ WillRead(r)
    BY <1>5 DEF Covered, RowsOf
  <2>2. ASSUME NEW w \in Worker, LoadBill(w) PROVE copy[w] # r
    BY <1>2, <2>1, <2>2 DEF LoadBill, BillOf
  <2>3. WillRead(r)' /\ outbox'[r].bill = b
    BY <1>2, <2>1, <2>2, StillReads
  <2> QED BY <2>3 DEF Covered, RowsOf
<1> QED BY <1>3, <1>4, <1>5 DEF EditInv

(* Coalescing loses no edit, as long as no producer dies between its       *)
(* commit and its row: when no enqueue of a bill is under way, a commit    *)
(* that no handler has read is covered by a row whose handler will still   *)
(* read it, whatever happens to the lock.                                  *)
THEOREM EditsAreNotLost ==
    ASSUME ~ ProducerMayCrash
    PROVE  Spec => []EditNotLost
<1>1. Init => EditInv
  BY DEF Init, EditInv
<1>2. IInv /\ EditInv /\ [Next]_vars => EditInv'
  BY EditInvStep
<1>3. EditInv => EditNotLost
  BY DEF EditInv, EditNotLost, Covered, OnTheWay
<1> QED BY <1>1, <1>2, <1>3, IInvHolds, PTL DEF Spec
=============================================================================
