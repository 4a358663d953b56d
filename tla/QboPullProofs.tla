---------------------------- MODULE QboPullProofs ----------------------------
(***************************************************************************)
(* Proofs about QboPull, for every set of bills, every skew of the clocks  *)
(* below the overlap, every bound of the hold, and any number of changes,  *)
(* failures and crashes.                                                   *)
(***************************************************************************)
EXTENDS QboPull, TLAPS

(* The inductive invariant, in parts.                                      *)

Lists == UNION {[B -> Rev] : B \in SUBSET Bill}

RunType == [pc : Pc, start : 0 .. MaxTime, last : Time, hold : Time, list : Lists,
            todo : SUBSET Bill, synced : SUBSET Bill, failed : SUBSET Bill,
            cur : Bill \cup {Nobill}]

DocType == [rev : Rev, at : Time, gone : BOOLEAN]

\* Every revision of a bill but the first is an edit.
WorldOK ==
    /\ now \in 0 .. MaxTime
    /\ doc \in [Bill -> DocType]
    /\ edits \in 0 .. MaxEdit
    /\ troubles \in 0 .. MaxTrouble
    /\ \A b \in Bill : doc[b].rev <= edits + 1

TablesOK ==
    /\ wm \in [last : Time, hold : Time]
    /\ staging \in [Bill -> Rev]
    /\ header \in [Bill -> Rev]
    /\ reported \subseteq Bill /\ silent \subseteq Bill
    /\ linked \in [Bill -> BOOLEAN]
    /\ push \in [Bill -> {"none", "waiting", "posted", "stored", "done"}]
    /\ buried \subseteq Bill /\ partial \subseteq buried
    /\ streak \in Time

Fetched    == run.pc \notin {"ended", "fetch"}
AtRecord   == run.pc \in {"hit", "miss", "stamp"}
Projecting == AtRecord \/ run.pc \in {"project", "write"}

\* What a run works through comes from the list it fetched; what it deletes is gone in QBO.
RunShape ==
    /\ ~ Fetched => run.synced = {} /\ run.failed = {}
    /\ Fetched => /\ \A b \in DOMAIN run.list : run.list[b] # NoRev
                  /\ run.synced \subseteq DOMAIN run.list
                  /\ run.failed \subseteq DOMAIN run.list
    /\ At("stage") \/ Projecting => run.todo \subseteq DOMAIN run.list
    /\ AtRecord => run.cur \in run.todo
    /\ At("write") => run.todo = {}
    /\ At("reconcile") => \A b \in run.todo : doc[b].gone

Typed == WorldOK /\ TablesOK /\ run \in RunType /\ RunShape

\* QBO's clock is Lag behind, and the watermark Overlap behind the start of the run
\* that wrote it.
ClockOrder ==
    /\ \A b \in Bill : doc[b].at <= now - Lag
    /\ wm.last <= now - Overlap

\* A run knows the row it will write: the sync lock keeps the others out.
RunOwnsRow ==
    ~ At("ended") => /\ run.start <= now
                     /\ run.last = wm.last
                     /\ run.hold = wm.hold

\* The marker on the row is never older than the streak of holds.
StreakInv ==
    /\ wm.hold # Unset => streak # Unset /\ streak <= wm.hold
    /\ streak <= now
    /\ ~ At("ended") => streak <= run.start

ClockInv == Typed /\ ClockOrder /\ RunOwnsRow /\ StreakInv

\* What was fetched is newer than the watermark, as long as it is in QBO.
FetchedIsNewer ==
    \A b \in DOMAIN run.list : Fetched /\ ~ doc[b].gone => doc[b].at > run.last

\* A revision that the watermark of this run will leave behind.
Due(b) ==
    /\ doc[b].rev # NoRev /\ ~ doc[b].gone
    /\ doc[b].at > run.last /\ doc[b].at <= Mark

\* A due revision has been fetched, as the last one of its bill.
DueIsFetched ==
    \A b \in Bill : Fetched /\ Due(b) => b \in DOMAIN run.list /\ run.list[b] = doc[b].rev

\* What is still to be projected.
InWork(b) ==
    \/ At("stage") /\ b \in run.todo \cup run.synced
    \/ At("reconcile") /\ b \in run.synced
    \/ Projecting /\ b \in run.todo

\* How far the current record is.
RecordInHand ==
    /\ At("hit") => linked[run.cur]
    /\ At("stamp") => header[run.cur] = run.list[run.cur]

Noted == reported \cup silent

Settled(b) == Current(b) \/ b \in Noted

\* What is due is in the books or noted, has failed, or is still to be projected.
DueIsServed ==
    \A b \in Bill : Fetched /\ Due(b) => b \in run.failed \/ InWork(b) \/ Settled(b)

SlipInv == /\ FetchedIsNewer /\ DueIsFetched
           /\ RecordInHand /\ DueIsServed /\ NothingSlips

\* A bill that waits for its push shows what was entered here and has no identity, so
\* no pull creates it or buries it.
PushComesFirst ==
    \A b \in Bill : push[b] \notin {"none", "done"} => header[b] # NoRev /\ ~ linked[b]

StampIsOurs == At("stamp") => push[run.cur] \in {"none", "done"}

\* A buried bill is gone from QBO and has no push under way.
GoneHasNoRev == \A b \in Bill : doc[b].gone => doc[b].rev = NoRev

BuriedIsGone == \A b \in buried : doc[b].gone /\ push[b] \in {"none", "done"}

\* One that was deleted with its staging row, and has an amount, has no record left that a
\* run could make a bill of.
Clean == buried \ (partial \cup Zero)

CleanIsBare ==
    \A b \in Clean : /\ header[b] = NoRev /\ staging[b] = NoRev
                     /\ ~ (At("stage") /\ b \in run.todo)
                     /\ ~ (AtRecord /\ b = run.cur)

BuriedInv == PushComesFirst /\ StampIsOurs /\ GoneHasNoRev /\ BuriedIsGone /\ CleanIsBare

----------------------------------------------------------------------------
LEMMA Constants ==
    /\ MaxTime \in Nat /\ Overlap \in Nat /\ Lag \in Nat /\ MaxEdit \in Nat /\ MaxTrouble \in Nat
    /\ HoldBound \in Nat \ {0} /\ Lag < Overlap
    /\ Unset \in Int /\ Unset = -1 - Lag - Overlap
    /\ Nobill \notin Bill /\ Local \subseteq Bill
BY ConstantsAssumption DEF Unset

USE DEF NoRev, notes, graves

----------------------------------------------------------------------------
(* What the steps change.                                                  *)

\* The steps of the clock, of QBO's users and of the outbox.
Outside == Tick \/ \E b \in Bill : EditInQbo(b) \/ DeleteInQbo(b) \/ PushStep(b) \/ PushFails(b)

\* The steps of a run between its fetch and its end.
Work == \/ EndStage \/ EndReconcile \/ \E b \in Bill : Stage(b) \/ Reconcile(b) \/ Pick(b) \/ Defer(b)
        \/ Hit \/ Miss \/ Stamp \/ StartHold

LEMMA Steps == Next <=> Outside \/ Open \/ Fetch \/ Work \/ Hold \/ Write \/ Crash
BY DEF Next, RunStep, Outside, Work

LEMMA OutsideFrame ==
    ASSUME Outside
    PROVE  /\ UNCHANGED <<wm, header, run, buried, partial, streak>>
           /\ reported' \subseteq reported /\ silent' \subseteq silent
BY DEF Outside, Tick, EditInQbo, DeleteInQbo, PushStep, PushPost, PushStore, PushStamp, PushFails,
    NewRevision, books

LEMMA RunFrame ==
    ASSUME Open \/ Fetch \/ Work \/ Hold \/ Write \/ Crash
    PROVE  UNCHANGED <<now, doc, push, edits>>
BY DEF Open, Fetch, Work, Stage, EndStage, Reconcile, EndReconcile, Pick, Defer, Hit, Miss, Stamp,
    StartHold, Hold, Write, Crash

\* A run never takes back that a revision was let go: at most it is known in another way.
LEMMA RunNotes ==
    ASSUME Open \/ Fetch \/ Work \/ Hold \/ Write \/ Crash
    PROVE  Noted \subseteq Noted'
<1> USE DEF Noted
<1>1. CASE UNCHANGED <<reported, silent>>
  BY <1>1
<1>2. ASSUME NEW b \in Bill, Defer(b) PROVE Noted \subseteq Noted'
  BY <1>2 DEF Defer
<1>3. CASE Miss
  BY <1>3 DEF Miss
<1>4. CASE Write
  <2>1. PICK lost \in SUBSET Known(run.failed) :
           /\ reported' = (reported \cup Known(run.failed)) \ lost
           /\ silent' = (silent \ Known(run.failed)) \cup lost
    BY <1>4 DEF Write
  <2> QED BY <2>1
<1>5. CASE Open \/ Fetch \/ Hold \/ Crash
  BY <1>1, <1>5 DEF Open, Fetch, Hold, Crash
<1>6. CASE Work /\ ~ Miss /\ ~ (\E b \in Bill : Defer(b))
  BY <1>1, <1>6 DEF Work, Stage, EndStage, Reconcile, EndReconcile, Pick, Hit, Stamp, StartHold
<1> QED BY <1>2, <1>3, <1>4, <1>5, <1>6

LEMMA IsList ==
    ASSUME NEW L
    PROVE  L \in Lists <=> /\ DOMAIN L \subseteq Bill
                           /\ L = [b \in DOMAIN L |-> L[b]]
                           /\ \A b \in DOMAIN L : L[b] \in Rev
<1>1. ASSUME L \in Lists
      PROVE  /\ DOMAIN L \subseteq Bill
             /\ L = [b \in DOMAIN L |-> L[b]]
             /\ \A b \in DOMAIN L : L[b] \in Rev
  <2>1. PICK B \in SUBSET Bill : L \in [B -> Rev]
    BY <1>1 DEF Lists
  <2> QED BY <2>1
<1>2. ASSUME DOMAIN L \subseteq Bill, L = [b \in DOMAIN L |-> L[b]],
             \A b \in DOMAIN L : L[b] \in Rev
      PROVE  L \in Lists
  <2>1. L \in [DOMAIN L -> Rev]
    BY <1>2
  <2> QED BY <1>2, <2>1 DEF Lists
<1> QED BY <1>1, <1>2

LEMMA EndedIsRun == Ended \in RunType
<1>1. <<>> \in [{} -> Rev]
  OBVIOUS
<1>2. <<>> \in Lists
  BY <1>1 DEF Lists
<1>3. 0 \in 0 .. MaxTime /\ Unset \in Time
  BY Constants DEF Time
<1> QED BY <1>2, <1>3 DEF Ended, RunType, Pc

----------------------------------------------------------------------------
(* Types.                                                                  *)

LEMMA TypedIsTypeOK == Typed => TypeOK
<1> SUFFICES ASSUME Typed PROVE TypeOK
  OBVIOUS
<1>1. {staging, header} \subseteq [Bill -> Rev]
  BY DEF Typed, TablesOK
<1>2. run \in [pc : Pc, start : 0 .. MaxTime, last : Time, hold : Time,
               list : UNION {[B -> Rev] : B \in SUBSET Bill},
               todo : SUBSET Bill, synced : SUBSET Bill, failed : SUBSET Bill,
               cur : Bill \cup {Nobill}]
  BY DEF Typed, RunType, Lists
<1> QED BY <1>1, <1>2 DEF TypeOK, Typed, WorldOK, TablesOK, DocType

LEMMA InitTyped == Init => Typed
<1> SUFFICES ASSUME Init PROVE Typed
  OBVIOUS
<1>0. /\ 0 \in Rev /\ 1 \in Rev
      /\ Unset \in Time /\ 0 - Lag \in Time
  BY Constants DEF Rev, Time, MaxRev
<1>1. WorldOK
  <2>1. ASSUME NEW b \in Bill PROVE doc[b] \in DocType /\ doc[b].rev <= 1
    <3>1. CASE b \in Local
      <4>1. doc[b] = [rev |-> 0, at |-> Unset, gone |-> FALSE]
        BY <3>1 DEF Init
      <4> QED BY <1>0, <4>1 DEF DocType
    <3>2. CASE b \notin Local
      <4>1. doc[b] = [rev |-> 1, at |-> 0 - Lag, gone |-> FALSE]
        BY <3>2 DEF Init
      <4> QED BY <1>0, <4>1 DEF DocType
    <3> QED BY <3>1, <3>2
  <2>2. doc \in [Bill -> DocType]
    BY <2>1 DEF Init
  <2> QED BY <2>1, <2>2, Constants DEF Init, WorldOK, DocType, Rev
<1>2. TablesOK
  BY <1>0 DEF Init, TablesOK
<1>3. run \in RunType
  BY EndedIsRun DEF Init
<1>4. RunShape
  BY DEF Init, RunShape, Ended, Fetched, AtRecord, Projecting, At
<1> QED BY <1>1, <1>2, <1>3, <1>4 DEF Typed

LEMMA WorldStep ==
    ASSUME Typed, Next
    PROVE  WorldOK'
<1> USE Constants DEF Typed, WorldOK
<1>1. troubles' \in 0 .. MaxTrouble
  <2>1. troubles' = troubles \/ (troubles < MaxTrouble /\ troubles' = troubles + 1)
    BY Steps DEF Outside, Tick, EditInQbo, DeleteInQbo, PushStep, PushPost, PushStore, PushStamp,
        PushFails,
          Open, Fetch, Work, Stage, EndStage, Reconcile, EndReconcile, Pick, Defer, Hit, Miss,
          Stamp, StartHold, Hold, Write, Crash, Trouble, NoTrouble, Fails
  <2> QED BY <2>1
<1>2. CASE UNCHANGED <<now, doc, edits>>
  BY <1>1, <1>2
<1>3. CASE Tick
  BY <1>1, <1>3 DEF Tick
<1>4. ASSUME NEW b \in Bill, EditInQbo(b) \/ PushPost(b) PROVE WorldOK'
  <2>1. \/ UNCHANGED <<now, doc, edits>>
        \/ /\ NewRevision(b) /\ UNCHANGED now
           /\ Change \/ (UNCHANGED edits /\ doc[b].rev = NoRev)
    BY <1>4 DEF EditInQbo, PushPost
  <2>2. CASE NewRevision(b) /\ UNCHANGED now /\ (Change \/ (UNCHANGED edits /\ doc[b].rev = NoRev))
    <3>0. doc[b] \in DocType /\ doc[b].rev \in Nat /\ edits \in Nat
      BY DEF DocType, Rev
    <3>1. /\ now' = now /\ edits' \in 0 .. MaxEdit
          /\ edits' = edits + 1 \/ (edits' = edits /\ doc[b].rev = NoRev)
      BY <2>2 DEF Change
    <3>2. doc[b].rev + 1 \in Rev /\ doc[b].rev + 1 <= edits' + 1
      BY <3>0, <3>1 DEF Rev, MaxRev
    <3>3. now - Lag \in Time
      BY DEF Time
    <3>4. \A c \in Bill :
             doc'[c] = IF c = b THEN [doc[b] EXCEPT !.rev = @ + 1, !.at = now - Lag] ELSE doc[c]
      BY <2>2 DEF NewRevision
    <3>5. [doc[b] EXCEPT !.rev = @ + 1, !.at = now - Lag] \in DocType
      BY <3>0, <3>2, <3>3 DEF DocType
    <3>6. doc' \in [Bill -> DocType]
      BY <2>2, <3>4, <3>5 DEF NewRevision
    <3>7. \A c \in Bill : doc'[c].rev <= edits' + 1
      <4>1. TAKE c \in Bill
      <4>2. CASE c = b
        BY <3>0, <3>2, <3>4, <4>2 DEF DocType
      <4>3. CASE c # b
        BY <3>1, <3>4, <4>3 DEF DocType, Rev
      <4> QED BY <4>2, <4>3
    <3> QED BY <1>1, <3>1, <3>6, <3>7
  <2> QED BY <1>2, <2>1, <2>2
<1>5. ASSUME NEW b \in Bill, DeleteInQbo(b) PROVE WorldOK'
  <2>1. [rev |-> NoRev, at |-> Unset, gone |-> TRUE] \in DocType
    BY DEF DocType, Rev, Time, MaxRev
  <2>2. doc' \in [Bill -> DocType]
    BY <1>5, <2>1 DEF DeleteInQbo
  <2>3. \A c \in Bill : doc'[c].rev <= doc[c].rev /\ doc[c].rev \in Nat /\ doc'[c].rev \in Nat
    BY <1>5, <2>2 DEF DeleteInQbo, DocType, Rev
  <2>4. edits' = edits + 1 /\ edits < MaxEdit /\ now' = now
    BY <1>5 DEF DeleteInQbo, Change
  <2> QED BY <1>1, <2>2, <2>3, <2>4
<1>6. ASSUME NEW b \in Bill, PushStore(b) \/ PushStamp(b) \/ PushFails(b) PROVE WorldOK'
  BY <1>2, <1>6 DEF PushStore, PushStamp, PushFails
<1> QED BY <1>2, <1>3, <1>4, <1>5, <1>6, Steps, RunFrame DEF Outside, PushStep

LEMMA TablesStep ==
    ASSUME Typed, Next
    PROVE  TablesOK'
<1> USE DEF Typed, TablesOK, books
<1>0. /\ 0 \in Rev /\ 1 \in Rev /\ Unset \in Time
      /\ run.start - Overlap \in Time /\ run.start \in Time /\ run.last \in Time /\ wm.hold \in Time
      /\ \A b \in DOMAIN run.list : b \in Bill /\ run.list[b] \in Rev
      /\ AtRecord => run.cur \in DOMAIN run.list
  <2>1. run.start \in 0 .. MaxTime /\ run.last \in Time /\ run.list \in Lists /\ wm.hold \in Time
    BY DEF RunType
  <2>2. AtRecord => run.cur \in DOMAIN run.list
    BY DEF RunShape, Projecting
  <2> QED BY <2>1, <2>2, Constants, IsList DEF Rev, Time, MaxRev
<1>1. CASE Outside
  <2>0. reported' \subseteq Bill /\ silent' \subseteq Bill
    BY <1>1, OutsideFrame
  <2>1. ASSUME NEW b \in Bill, PushStore(b) PROVE TablesOK'
    BY <1>0, <2>1 DEF PushStore
  <2>2. ASSUME NEW b \in Bill, PushPost(b) \/ PushFails(b) PROVE TablesOK'
    BY <2>0, <2>2 DEF PushPost, PushFails
  <2>3. ASSUME NEW b \in Bill, PushStamp(b) PROVE TablesOK'
    BY <2>3 DEF PushStamp
  <2>4. ASSUME NEW b \in Bill, EditInQbo(b) \/ DeleteInQbo(b) PROVE TablesOK'
    BY <2>0, <2>4 DEF EditInQbo, DeleteInQbo
  <2>5. CASE Tick
    BY <2>5 DEF Tick
  <2> QED BY <1>1, <2>1, <2>2, <2>3, <2>4, <2>5 DEF Outside, PushStep
<1>2. CASE UNCHANGED <<wm, staging, header, linked, push, notes, graves, streak>>
  BY <1>2
<1>3. ASSUME NEW b \in Bill, Stage(b) PROVE TablesOK'
  <2>1. run.list[b] \in Rev
    BY <1>0, <1>3 DEF Stage, RunShape
  <2> QED BY <1>3, <2>1 DEF Stage
<1>4. ASSUME NEW b \in Bill, Reconcile(b) PROVE TablesOK'
  <2>1. header' = header \/ header' = [header EXCEPT ![b] = NoRev]
    BY <1>4 DEF Reconcile
  <2>2. linked' = linked \/ linked' = [linked EXCEPT ![b] = FALSE]
    BY <1>4 DEF Reconcile
  <2>3. staging' = staging \/ staging' = [staging EXCEPT ![b] = NoRev]
    BY <1>4 DEF Reconcile
  <2>4. buried' \subseteq buried \cup {b} /\ partial' \subseteq buried'
    BY <1>4 DEF Reconcile
  <2>5. UNCHANGED <<wm, reported, silent, push, streak>>
    BY <1>4 DEF Reconcile
  <2>6. header' \in [Bill -> Rev] /\ staging' \in [Bill -> Rev]
    BY <1>0, <2>1, <2>3
  <2>7. linked' \in [Bill -> BOOLEAN]
    BY <2>2
  <2> QED BY <2>4, <2>5, <2>6, <2>7
<1>5. CASE Hit \/ Miss \/ Stamp
  <2>1. run.cur \in Bill /\ run.list[run.cur] \in Rev
    BY <1>0, <1>5 DEF Hit, Miss, Stamp, At, AtRecord
  <2>2. CASE Hit
    BY <2>1, <2>2 DEF Hit
  <2>3. CASE Miss
    <3>1. header' = header \/ header' = [header EXCEPT ![run.cur] = run.list[run.cur]]
      BY <2>3 DEF Miss
    <3>2. reported' \subseteq reported \cup {run.cur} /\ silent' \subseteq silent
      BY <2>3 DEF Miss, Known
    <3> QED BY <2>1, <2>3, <3>1, <3>2 DEF Miss
  <2>4. CASE Stamp
    <3>1. header' = header \/ header' = [header EXCEPT ![run.cur] = NoRev]
      BY <2>4 DEF Stamp
    <3>2. linked' = linked \/ linked' = [linked EXCEPT ![run.cur] = TRUE]
      BY <2>4 DEF Stamp
    <3>3. UNCHANGED <<wm, staging, push, notes, graves, streak>>
      BY <2>4 DEF Stamp
    <3>4. header' \in [Bill -> Rev]
      BY <1>0, <3>1
    <3>5. linked' \in [Bill -> BOOLEAN]
      BY <3>2
    <3> QED BY <3>3, <3>4, <3>5
  <2> QED BY <1>5, <2>2, <2>3, <2>4
<1>6. CASE StartHold
  BY <1>0, <1>6 DEF StartHold
<1>7. CASE Write
  <2>1. Moved \in [last : Time, hold : Time]
    BY <1>0 DEF Moved, Mark
  <2>2. run.failed \subseteq DOMAIN run.list
    BY DEF RunShape
  <2>3. reported' \subseteq Bill /\ silent' \subseteq Bill
    <3>1. Known(run.failed) \subseteq Bill
      BY <1>0, <2>2 DEF Known
    <3> QED BY <1>7, <3>1 DEF Write
  <2> QED BY <1>0, <1>7, <2>1, <2>3 DEF Write
<1>8. CASE Open \/ Fetch \/ EndStage \/ EndReconcile \/ Hold \/ Crash
  BY <1>2, <1>8 DEF Open, Fetch, EndStage, EndReconcile, Hold, Crash
<1>9. ASSUME NEW b \in Bill, Pick(b) PROVE TablesOK'
  BY <1>2, <1>9 DEF Pick
<1>10. ASSUME NEW b \in Bill, Defer(b) PROVE TablesOK'
  <2>1. Known({b}) \subseteq Bill
    BY DEF Known
  <2> QED BY <1>10, <2>1 DEF Defer
<1> QED BY <1>1, <1>3, <1>4, <1>5, <1>6, <1>7, <1>8, <1>9, <1>10, Steps DEF Work

\* QBO gives no bill back.
LEMMA GoneStays ==
    ASSUME Typed, Next, NEW b \in Bill, doc[b].gone
    PROVE  doc'[b].gone
<1> USE DEF Typed, WorldOK
<1>0. doc[b] \in DocType
  OBVIOUS
<1>1. CASE UNCHANGED doc
  BY <1>1
<1>2. ASSUME NEW c \in Bill, NewRevision(c) PROVE doc'[b].gone
  <2>1. CASE c = b
    <3>1. doc'[b] = [doc[b] EXCEPT !.rev = @ + 1, !.at = now - Lag]
      BY <1>2, <2>1 DEF NewRevision
    <3> QED BY <1>0, <3>1 DEF DocType
  <2>2. CASE c # b
    BY <1>2, <2>2 DEF NewRevision
  <2> QED BY <2>1, <2>2
<1>3. ASSUME NEW c \in Bill, DeleteInQbo(c) PROVE doc'[b].gone
  <2>1. c # b
    BY <1>3 DEF DeleteInQbo
  <2> QED BY <1>3, <2>1 DEF DeleteInQbo
<1>4. CASE Outside
  <2>1. ASSUME NEW c \in Bill, PushStep(c) \/ PushFails(c) \/ EditInQbo(c)
        PROVE  NewRevision(c) \/ UNCHANGED doc
    BY <2>1 DEF PushStep, PushPost, PushStore, PushStamp, PushFails, EditInQbo
  <2> QED BY <1>1, <1>2, <1>3, <1>4, <2>1 DEF Outside, Tick
<1> QED BY <1>1, <1>4, Steps, RunFrame

\* What a run is when it is done with its current record, or fails or retries it.
LEMMA RecordEnds ==
    ASSUME run \in RunType, run.cur \in Bill
    PROVE  /\ \A f \in {NextRecord(run), Failed(run), Retried(run)} :
                /\ f \in RunType
                /\ f.pc = "project" /\ f.list = run.list /\ f.synced = run.synced
                /\ f.start = run.start /\ f.last = run.last /\ f.hold = run.hold
                /\ f.todo \subseteq run.todo /\ f.failed \subseteq run.failed \cup {run.cur}
           /\ NextRecord(run).todo = run.todo \ {run.cur} /\ NextRecord(run).failed = run.failed
           /\ Failed(run).todo = run.todo \ {run.cur}
           /\ Failed(run).failed = run.failed \cup {run.cur}
           /\ Retried(run).todo = run.todo /\ Retried(run).failed = run.failed
<1>1. NextRecord(run) = [run EXCEPT !.pc = "project", !.todo = @ \ {run.cur}, !.cur = Nobill]
  BY DEF NextRecord
<1>2. Failed(run) = [NextRecord(run) EXCEPT !.failed = @ \cup {run.cur}]
  BY DEF Failed
<1>3. Retried(run) = [run EXCEPT !.pc = "project", !.cur = Nobill]
  BY DEF Retried
<1>4. ASSUME NEW f \in {NextRecord(run), Failed(run), Retried(run)}
      PROVE  /\ f \in RunType
             /\ f.pc = "project" /\ f.list = run.list /\ f.synced = run.synced
             /\ f.start = run.start /\ f.last = run.last /\ f.hold = run.hold
             /\ f.todo \subseteq run.todo /\ f.failed \subseteq run.failed \cup {run.cur}
  <2>1. CASE f = NextRecord(run)
    <3>1. f = [run EXCEPT !.pc = "project", !.todo = run.todo \ {run.cur}, !.cur = Nobill]
      BY <1>1, <2>1
    <3>2. run.todo \ {run.cur} \in SUBSET Bill /\ run.todo \ {run.cur} \subseteq run.todo
      BY DEF RunType
    <3> QED BY <3>1, <3>2 DEF RunType, Pc
  <2>2. CASE f = Failed(run)
    <3>1. f = [run EXCEPT !.pc = "project", !.todo = run.todo \ {run.cur},
                          !.failed = run.failed \cup {run.cur}, !.cur = Nobill]
      BY <1>1, <1>2, <2>2 DEF RunType
    <3>2. run.todo \ {run.cur} \in SUBSET Bill /\ run.todo \ {run.cur} \subseteq run.todo
      BY DEF RunType
    <3>3. run.failed \cup {run.cur} \in SUBSET Bill
      BY DEF RunType
    <3> QED BY <3>1, <3>2, <3>3 DEF RunType, Pc
  <2>3. CASE f = Retried(run)
    BY <1>3, <2>3 DEF RunType, Pc
  <2> QED BY <2>1, <2>2, <2>3
<1>5. NextRecord(run).todo = run.todo \ {run.cur} /\ NextRecord(run).failed = run.failed
  BY <1>1 DEF RunType
<1>6. Failed(run).todo = run.todo \ {run.cur} /\ Failed(run).failed = run.failed \cup {run.cur}
  BY <1>1, <1>2 DEF RunType
<1>7. Retried(run).todo = run.todo /\ Retried(run).failed = run.failed
  BY <1>3 DEF RunType
<1> QED BY <1>4, <1>5, <1>6, <1>7

LEMMA RunTypeStep ==
    ASSUME Typed, Next
    PROVE  (run \in RunType)' /\ RunShape'
<1> USE DEF Typed, At
<1> DEFINE Goal == (run \in RunType)' /\ RunShape'
<1>0. run \in RunType /\ RunShape
  OBVIOUS
<1>1. CASE UNCHANGED run
  <2>1. run.todo \subseteq Bill
    BY DEF RunType
  <2> QED BY <1>0, <1>1, <2>1, GoneStays DEF RunShape, Fetched, AtRecord, Projecting
<1>2. CASE run' = Ended
  <2>1. RunShape'
    BY <1>2 DEF RunShape, Ended, Fetched, AtRecord, Projecting
  <2> QED BY <1>2, <2>1, EndedIsRun
<1>3. CASE Open
  <2>1. /\ now \in 0 .. MaxTime /\ wm.last \in Time /\ wm.hold \in Time
    BY DEF WorldOK, TablesOK
  <2>2. run' \in RunType
    BY <1>3, <2>1, EndedIsRun DEF Open, RunType, Pc
  <2>3. run'.pc = "fetch" /\ run'.synced = {} /\ run'.failed = {}
    BY <1>3 DEF Open, Ended
  <2>4. RunShape'
    BY <2>3 DEF RunShape, Fetched, AtRecord, Projecting
  <2> QED BY <2>2, <2>4
<1>4. CASE Fetch
  <2> DEFINE found == {b \in Bill : doc[b].rev # NoRev /\ doc[b].at > run.last}
  <2> DEFINE L == [b \in found |-> doc[b].rev]
  <2>1. L \in Lists
    <3>1. \A b \in Bill : doc[b].rev \in Rev
      BY DEF WorldOK, DocType
    <3>2. L \in [found -> Rev] /\ found \in SUBSET Bill
      BY <3>1
    <3> QED BY <3>2 DEF Lists
  <2>2. DOMAIN L = found /\ \A b \in found : L[b] # NoRev
    OBVIOUS
  <2>3. run' = [run EXCEPT !.todo = found, !.pc = "stage", !.list = L]
    BY <1>4 DEF Fetch
  <2>4. found \subseteq Bill
    OBVIOUS
  <2>5. run.synced = {} /\ run.failed = {}
    BY <1>4 DEF Fetch, RunShape, Fetched
  <2> HIDE DEF found, L
  <2>6. run' \in RunType
    BY <2>1, <2>3, <2>4 DEF RunType, Pc
  <2>7. /\ run'.pc = "stage" /\ run'.list = L /\ run'.todo = found
        /\ run'.synced = {} /\ run'.failed = {}
    BY <2>3, <2>5 DEF RunType
  <2>8. RunShape'
    BY <2>2, <2>7 DEF RunShape, Fetched, AtRecord, Projecting
  <2> QED BY <2>6, <2>8
<1>5. CASE Work
  <2> USE DEF RunType, RunShape, Fetched, AtRecord, Projecting
  <2>1. ASSUME NEW b \in Bill, Stage(b) PROVE Goal
    <3>1. \/ run' = [run EXCEPT !.todo = @ \ {b}, !.synced = @ \cup {b}]
          \/ run' = [run EXCEPT !.todo = @ \ {b}, !.failed = @ \cup {b}]
      BY <2>1 DEF Stage
    <3>2. run.pc = "stage" /\ b \in run.todo
      BY <2>1 DEF Stage
    <3>3. run' \in RunType
      <4>1. CASE run' = [run EXCEPT !.todo = @ \ {b}, !.synced = @ \cup {b}]
        BY <4>1
      <4>2. CASE run' = [run EXCEPT !.todo = @ \ {b}, !.failed = @ \cup {b}]
        BY <4>2
      <4> QED BY <3>1, <4>1, <4>2
    <3>4. /\ run'.pc = run.pc /\ run'.list = run.list /\ run'.todo = run.todo \ {b}
          /\ run'.synced \subseteq run.synced \cup {b} /\ run'.failed \subseteq run.failed \cup {b}
      BY <3>1
    <3>5. RunShape'
      BY <3>2, <3>4
    <3> QED BY <3>3, <3>5
  <2>2. ASSUME NEW b \in Bill, Reconcile(b) PROVE Goal
    <3>1. run' = [run EXCEPT !.todo = @ \ {b}] /\ run.pc = "reconcile" /\ UNCHANGED doc
      BY <2>2 DEF Reconcile
    <3> QED BY <3>1 DEF Pc
  <2>3. ASSUME NEW b \in Bill, Pick(b) PROVE Goal
    BY <2>3 DEF Pick, Pc
  <2>10. ASSUME NEW b \in Bill, Defer(b) PROVE Goal
    <3>1. run' = [run EXCEPT !.todo = @ \ {b}] /\ run.pc = "project"
      BY <2>10 DEF Defer
    <3> QED BY <3>1 DEF Pc
  <2>4. CASE EndStage
    <3>1. PICK confirmed \in SUBSET {b \in Bill : staging[b] # NoRev /\ doc[b].gone} :
             run' = IF confirmed = {}
                    THEN [run EXCEPT !.pc = "project", !.todo = run.synced, !.synced = {}]
                    ELSE [run EXCEPT !.pc = "reconcile", !.todo = confirmed]
      BY <2>4 DEF EndStage
    <3>2. run.pc = "stage" /\ UNCHANGED doc
      BY <2>4 DEF EndStage
    <3>3. CASE run' = [run EXCEPT !.pc = "project", !.todo = run.synced, !.synced = {}]
      BY <3>2, <3>3 DEF Pc
    <3>4. CASE run' = [run EXCEPT !.pc = "reconcile", !.todo = confirmed]
      BY <3>2, <3>4 DEF Pc
    <3> QED BY <3>1, <3>3, <3>4
  <2>5. CASE EndReconcile
    BY <2>5 DEF EndReconcile, Pc
  <2>6. ASSUME AtRecord, run' \in {NextRecord(run), Failed(run), Retried(run)} PROVE Goal
    <3>1. /\ run' \in RunType
          /\ run'.pc = "project" /\ run'.list = run.list /\ run'.todo \subseteq run.todo
          /\ run'.synced = run.synced /\ run'.failed \subseteq run.failed \cup {run.cur}
      <4>1. run.cur \in Bill
        BY <2>6
      <4> QED BY <2>6, <4>1, RecordEnds
    <3> QED BY <2>6, <3>1
  <2>7. CASE Hit \/ Stamp
    BY <2>6, <2>7 DEF Hit, Stamp
  <2>8. CASE Miss
    <3>1. CASE run' = [run EXCEPT !.pc = "hit"] \/ run' = [run EXCEPT !.pc = "stamp"]
      <4>1. run' \in RunType
        BY <3>1 DEF Pc
      <4>2. run'.pc \in {"hit", "stamp"} /\ \E l \in {"hit", "stamp"} : run' = [run EXCEPT !.pc = l]
        BY <3>1
      <4> QED BY <2>8, <4>1, <4>2 DEF Miss
    <3> QED BY <2>6, <2>8, <3>1 DEF Miss
  <2>9. CASE StartHold
    <3>1. run.pc = "project" /\ run.todo = {}
      BY <2>9 DEF StartHold, AtCommit
    <3>2. \/ run' = [run EXCEPT !.hold = run.start, !.pc = "write"]
          \/ run' = [run EXCEPT !.pc = "write"]
      BY <2>9 DEF StartHold
    <3>3. run.start \in Time
      BY Constants DEF Time
    <3>4. run' \in RunType
      <4>1. CASE run' = [run EXCEPT !.hold = run.start, !.pc = "write"]
        BY <3>3, <4>1 DEF Pc
      <4>2. CASE run' = [run EXCEPT !.pc = "write"]
        BY <4>2 DEF Pc
      <4> QED BY <3>2, <4>1, <4>2
    <3>5. /\ run'.pc = "write" /\ run'.list = run.list /\ run'.todo = {}
          /\ run'.synced = run.synced /\ run'.failed = run.failed
      BY <3>1, <3>2
    <3> QED BY <3>1, <3>4, <3>5
  <2> QED BY <1>5, <2>1, <2>2, <2>3, <2>4, <2>5, <2>7, <2>8, <2>9, <2>10 DEF Work
<1>6. CASE Hold \/ Write \/ Crash
  BY <1>2, <1>6 DEF Hold, Write, Crash
<1> QED BY <1>1, <1>3, <1>4, <1>5, <1>6, Steps, OutsideFrame

LEMMA TypedHolds == Spec => []Typed
<1>1. ASSUME Typed, [Next]_vars PROVE Typed'
  <2>1. CASE UNCHANGED vars
    BY <1>1, <2>1 DEF vars, books, Typed, WorldOK, TablesOK, RunShape, Fetched, AtRecord,
        Projecting, At
  <2> QED BY <1>1, <2>1, WorldStep, TablesStep, RunTypeStep DEF Typed
<1> QED BY <1>1, InitTyped, PTL DEF Spec

(* In every reachable state every variable has its type: revisions, clocks *)
(* and markers stay within their ranges, and what a run holds are bills of *)
(* the realm.                                                              *)
THEOREM PullTypeCorrect == Spec => []TypeOK
BY TypedHolds, TypedIsTypeOK, PTL

----------------------------------------------------------------------------
(* The clocks, and what a step changes of the run and of QBO.              *)

\* Outside a run's own steps, a bill of QBO stays, gets a newer revision, or goes.
LEMMA DocStep ==
    ASSUME Typed, Outside, NEW c \in Bill
    PROVE  /\ now' \in Int /\ now <= now'
           /\ \/ doc'[c] = doc[c]
              \/ /\ ~ doc[c].gone /\ ~ doc'[c].gone
                 /\ doc'[c].rev # NoRev /\ doc'[c].at = now - Lag /\ now' = now
              \/ doc'[c].gone /\ doc'[c].rev = NoRev /\ doc'[c].at = Unset /\ now' = now
<1> USE DEF Typed, WorldOK
<1>0. now \in Int /\ doc[c] \in DocType /\ doc[c].rev \in Nat
  BY Constants DEF DocType, Rev
<1>1. CASE UNCHANGED <<now, doc>>
  BY <1>0, <1>1
<1>2. CASE Tick
  BY <1>0, <1>2 DEF Tick
<1>3. ASSUME NEW b \in Bill, EditInQbo(b) \/ PushPost(b), NewRevision(b)
      PROVE  \/ doc'[c] = doc[c]
             \/ /\ ~ doc[c].gone /\ ~ doc'[c].gone
                /\ doc'[c].rev # NoRev /\ doc'[c].at = now - Lag
  <2>1. CASE c # b
    BY <1>3, <2>1 DEF NewRevision
  <2>2. CASE c = b
    <3>1. doc'[c] = [doc[c] EXCEPT !.rev = @ + 1, !.at = now - Lag]
      BY <1>3, <2>2 DEF NewRevision
    <3>2. ~ doc[c].gone \/ UNCHANGED doc
      BY <1>3, <2>2 DEF EditInQbo, PushPost
    <3> QED BY <1>0, <3>1, <3>2 DEF DocType
  <2> QED BY <2>1, <2>2
<1>4. ASSUME NEW b \in Bill, EditInQbo(b) \/ PushPost(b)
      PROVE  now' = now /\ (UNCHANGED doc \/ NewRevision(b))
  BY <1>4 DEF EditInQbo, PushPost
<1>5. ASSUME NEW b \in Bill, DeleteInQbo(b)
      PROVE  /\ now' = now
             /\ \/ doc'[c] = doc[c]
                \/ doc'[c] = [rev |-> NoRev, at |-> Unset, gone |-> TRUE]
  BY <1>5 DEF DeleteInQbo
<1>6. ASSUME NEW b \in Bill, PushStore(b) \/ PushStamp(b) \/ PushFails(b)
      PROVE  UNCHANGED <<now, doc>>
  BY <1>6 DEF PushStore, PushStamp, PushFails
<1> QED BY <1>0, <1>1, <1>2, <1>3, <1>4, <1>5, <1>6 DEF Outside, PushStep

\* A run at work keeps its start, its watermark and its list.
LEMMA WorkRun ==
    ASSUME Typed, Work
    PROVE  /\ run'.start = run.start /\ run'.last = run.last /\ run'.list = run.list
           /\ Fetched /\ Fetched' /\ run.failed \subseteq run'.failed
           /\ wm'.last = wm.last
<1> DEFINE Same(r) == /\ r.start = run.start /\ r.last = run.last /\ r.list = run.list
                      /\ r.pc \notin {"ended", "fetch"} /\ run.failed \subseteq r.failed
<1> USE DEF Typed, RunType, At
<1>1. ASSUME NEW b \in Bill, Stage(b) \/ Reconcile(b) \/ Pick(b) \/ Defer(b)
      PROVE  Fetched /\ Same(run') /\ UNCHANGED wm
  <2>1. CASE Stage(b)
    BY <2>1 DEF Stage, Fetched
  <2>2. CASE Reconcile(b)
    BY <2>2 DEF Reconcile, Fetched
  <2>3. CASE Pick(b)
    BY <2>3 DEF Pick, Fetched
  <2>4. CASE Defer(b)
    BY <2>4 DEF Defer, Fetched
  <2> QED BY <1>1, <2>1, <2>2, <2>3, <2>4
<1>2. ASSUME EndStage \/ EndReconcile PROVE Fetched /\ Same(run') /\ UNCHANGED wm
  <2>1. Fetched /\ UNCHANGED wm
    BY <1>2 DEF EndStage, EndReconcile, Fetched
  <2>2. \/ run' = [run EXCEPT !.pc = "project", !.todo = run.synced, !.synced = {}]
        \/ \E todo \in SUBSET Bill : run' = [run EXCEPT !.pc = "reconcile", !.todo = todo]
    BY <1>2 DEF EndStage, EndReconcile
  <2>3. CASE run' = [run EXCEPT !.pc = "project", !.todo = run.synced, !.synced = {}]
    BY <2>1, <2>3
  <2>4. CASE \E todo \in SUBSET Bill : run' = [run EXCEPT !.pc = "reconcile", !.todo = todo]
    BY <2>1, <2>4
  <2> QED BY <2>2, <2>3, <2>4
<1>3. ASSUME Hit \/ Miss \/ Stamp PROVE Fetched /\ Same(run') /\ UNCHANGED wm
  <2>1. Fetched /\ AtRecord /\ UNCHANGED wm
    BY <1>3 DEF Hit, Miss, Stamp, Fetched, AtRecord
  <2>2. run.cur \in Bill
    BY <2>1 DEF RunShape, Projecting
  <2>3. CASE run' \in {NextRecord(run), Failed(run), Retried(run)}
    <3>1. run.failed \subseteq run'.failed
      BY <2>2, <2>3, RecordEnds
    <3> QED BY <2>1, <2>2, <2>3, <3>1, RecordEnds
  <2>4. CASE run' = [run EXCEPT !.pc = "hit"] \/ run' = [run EXCEPT !.pc = "stamp"]
    BY <2>1, <2>4
  <2> QED BY <1>3, <2>3, <2>4 DEF Hit, Miss, Stamp
<1>4. ASSUME StartHold PROVE Fetched /\ Same(run') /\ wm'.last = wm.last
  BY <1>4 DEF StartHold, AtCommit, Fetched, TablesOK
<1> QED BY <1>1, <1>2, <1>3, <1>4 DEF Work, Fetched

\* ... and its marker, but for the step that starts a hold.
LEMMA WorkHold ==
    ASSUME Typed, Work, ~ StartHold
    PROVE  run'.hold = run.hold /\ UNCHANGED <<wm, streak>>
<1> USE DEF Typed, RunType, At
<1>1. ASSUME NEW b \in Bill, Stage(b) \/ Reconcile(b) \/ Pick(b) \/ Defer(b)
      PROVE  run'.hold = run.hold /\ UNCHANGED <<wm, streak>>
  BY <1>1 DEF Stage, Reconcile, Pick, Defer
<1>2. ASSUME EndStage \/ EndReconcile PROVE run'.hold = run.hold /\ UNCHANGED <<wm, streak>>
  BY <1>2 DEF EndStage, EndReconcile
<1>3. ASSUME Hit \/ Miss \/ Stamp PROVE run'.hold = run.hold /\ UNCHANGED <<wm, streak>>
  <2>1. AtRecord /\ UNCHANGED <<wm, streak>>
    BY <1>3 DEF Hit, Miss, Stamp, AtRecord
  <2>2. run.cur \in Bill
    BY <2>1 DEF RunShape, Projecting
  <2>3. CASE run' \in {NextRecord(run), Failed(run), Retried(run)}
    BY <2>1, <2>2, <2>3, RecordEnds
  <2>4. CASE run' = [run EXCEPT !.pc = "hit"] \/ run' = [run EXCEPT !.pc = "stamp"]
    BY <2>1, <2>4
  <2> QED BY <1>3, <2>3, <2>4 DEF Hit, Miss, Stamp
<1> QED BY <1>1, <1>2, <1>3 DEF Work

\* The numbers the proofs compute with.
LEMMA Numbers ==
    ASSUME Typed
    PROVE  /\ now \in Int /\ streak \in Int /\ 0 <= now /\ Unset <= streak
           /\ wm.last \in Int /\ wm.hold \in Int
           /\ run.start \in Int /\ run.last \in Int /\ run.hold \in Int /\ 0 <= run.start
           /\ \A b \in Bill : doc[b].at \in Int /\ doc[b].rev \in Nat
BY Constants DEF Typed, WorldOK, TablesOK, RunType, DocType, Time, Rev

LEMMA ClockStep ==
    ASSUME Typed, ClockOrder, RunOwnsRow, Next
    PROVE  ClockOrder' /\ RunOwnsRow'
<1> USE Constants, Numbers DEF ClockOrder, RunOwnsRow, At
<1>1. CASE Outside
  <2>1. now <= now' /\ now' \in Int
    BY <1>1, WorldStep DEF Typed, WorldOK, Outside, Tick, EditInQbo, DeleteInQbo, PushStep,
        PushPost,
                           PushStore, PushStamp, PushFails
  <2>2. ASSUME NEW b \in Bill PROVE doc'[b].at <= now' - Lag
    BY <1>1, <2>2, DocStep
  <2>3. UNCHANGED <<wm, run>>
    BY <1>1, OutsideFrame
  <2> QED BY <2>1, <2>2, <2>3
<1>2. CASE Open
  <2>1. run'.start = now /\ run'.last = wm.last /\ run'.hold = wm.hold
    BY <1>2 DEF Open, Ended
  <2>2. UNCHANGED <<now, doc, wm>>
    BY <1>2 DEF Open
  <2> QED BY <2>1, <2>2
<1>3. CASE Fetch
  <2>1. run'.start = run.start /\ run'.last = run.last /\ run'.hold = run.hold /\ run.pc = "fetch"
    BY <1>3 DEF Fetch, Typed, RunType
  <2>2. UNCHANGED <<now, doc, wm>>
    BY <1>3 DEF Fetch
  <2> QED BY <2>1, <2>2
<1>4. CASE Work /\ ~ StartHold
  <2>1. run'.start = run.start /\ run'.last = run.last /\ run'.hold = run.hold /\ run.pc # "ended"
    BY <1>4, WorkRun, WorkHold DEF Fetched
  <2>2. UNCHANGED <<now, doc, wm>>
    BY <1>4, WorkHold, RunFrame
  <2> QED BY <2>1, <2>2
<1>5. CASE StartHold
  <2>1. run'.start = run.start /\ run'.last = run.last /\ wm'.last = wm.last /\ run.pc # "ended"
    BY <1>5, WorkRun DEF Fetched, Work
  <2>2. run'.hold = wm'.hold
    BY <1>5, <2>1 DEF StartHold, Typed, RunType, TablesOK
  <2>3. UNCHANGED <<now, doc>>
    BY <1>5 DEF StartHold
  <2> QED BY <2>1, <2>2, <2>3
<1>6. CASE Hold \/ Crash
  <2>1. run'.pc = "ended" /\ UNCHANGED <<now, doc, wm>>
    BY <1>6 DEF Hold, Crash, Ended
  <2> QED BY <2>1
<1>7. CASE Write
  <2>1. run'.pc = "ended" /\ UNCHANGED <<now, doc>> /\ run.pc # "ended"
    BY <1>7 DEF Write, Ended, Decided, AtCommit
  <2>2. wm'.last = run.last \/ wm'.last = run.start - Overlap
    BY <1>7 DEF Write, Moved, Mark
  <2> QED BY <2>1, <2>2
<1> QED BY <1>1, <1>2, <1>3, <1>4, <1>5, <1>6, <1>7, Steps DEF Work

----------------------------------------------------------------------------
(* The hold.                                                               *)

LEMMA StreakStep ==
    ASSUME Typed, ClockOrder, RunOwnsRow, StreakInv, Next
    PROVE  StreakInv'
<1> USE Constants, Numbers DEF StreakInv, RunOwnsRow, At
<1>1. CASE Outside
  <2>1. now <= now' /\ now' \in Int
    BY <1>1, WorldStep DEF Typed, WorldOK, Outside, Tick, EditInQbo, DeleteInQbo, PushStep,
        PushPost,
                           PushStore, PushStamp, PushFails
  <2>2. UNCHANGED <<wm, run, streak>>
    BY <1>1, OutsideFrame
  <2> QED BY <2>1, <2>2
<1>2. CASE Open
  <2>1. run'.start = now /\ UNCHANGED <<now, wm, streak>>
    BY <1>2 DEF Open, Ended
  <2> QED BY <2>1
<1>3. CASE Fetch
  <2>1. run'.start = run.start /\ run.pc = "fetch" /\ UNCHANGED <<now, wm, streak>>
    BY <1>3 DEF Fetch, Typed, RunType
  <2> QED BY <2>1
<1>4. CASE Work /\ ~ StartHold
  <2>1. run'.start = run.start /\ run.pc # "ended" /\ UNCHANGED <<now, wm, streak>>
    BY <1>4, WorkRun, WorkHold, RunFrame DEF Fetched
  <2> QED BY <2>1
<1>5. CASE StartHold
  <2>1. run'.start = run.start /\ run.pc # "ended" /\ UNCHANGED now
    BY <1>5, WorkRun, RunFrame DEF Fetched, Work
  <2>2. streak' = (IF streak = Unset THEN run.start ELSE streak)
    BY <1>5 DEF StartHold
  <2>3. wm'.hold = run.start \/ (wm'.hold = run.hold /\ run.hold = Unset)
    BY <1>5, <2>1 DEF StartHold, Typed, TablesOK
  <2> QED BY <2>1, <2>2, <2>3
<1>6. CASE Hold \/ Crash
  <2>1. run'.pc = "ended" /\ UNCHANGED <<now, wm, streak>>
    BY <1>6 DEF Hold, Crash, Ended
  <2> QED BY <2>1
<1>7. CASE Write
  <2>1. run'.pc = "ended" /\ UNCHANGED now /\ streak' = Unset /\ wm'.hold = Unset
    BY <1>7 DEF Write, Ended, Moved
  <2> QED BY <2>1
<1> QED BY <1>1, <1>2, <1>3, <1>4, <1>5, <1>6, <1>7, Steps DEF Work

LEMMA ClockInvHolds == Spec => []ClockInv
<1>1. Init => ClockInv
  <2> SUFFICES ASSUME Init PROVE ClockInv
    OBVIOUS
  <2>1. ClockOrder
    <3>1. ASSUME NEW b \in Bill PROVE doc[b].at = Unset \/ doc[b].at = 0 - Lag
      BY DEF Init
    <3> QED BY <3>1, Constants DEF Init, ClockOrder
  <2> QED BY <2>1, InitTyped, Constants DEF ClockInv, Init, RunOwnsRow, StreakInv, Ended, At
<1>2. ClockInv /\ [Next]_vars => ClockInv'
  <2> SUFFICES ASSUME ClockInv, [Next]_vars PROVE ClockInv'
    OBVIOUS
  <2>1. CASE UNCHANGED vars
    BY <2>1 DEF vars, books, ClockInv, Typed, WorldOK, TablesOK, RunShape, Fetched, AtRecord,
        Projecting,
                At, ClockOrder, RunOwnsRow, StreakInv
  <2>2. CASE Next
    BY <2>2, WorldStep, TablesStep, RunTypeStep, ClockStep, StreakStep DEF ClockInv, Typed
  <2> QED BY <2>1, <2>2
<1> QED BY <1>1, <1>2, PTL DEF Spec

(* Records are forced past the watermark only after the runs have held it  *)
(* without a break for HoldBound: the marker on the row is never older     *)
(* than the first hold of the streak it belongs to.                        *)
THEOREM ForcingIsEarned == Spec => ForcedIsEarned
<1> DEFINE Earned == ForcedPast => streak # Unset /\ run.start - streak >= HoldBound
<1>1. ClockInv /\ [Next]_vars => [Earned]_vars
  <2> SUFFICES ASSUME ClockInv, Next, ForcedPast
               PROVE  streak # Unset /\ run.start - streak >= HoldBound
    OBVIOUS
  <2> USE Constants, Numbers DEF ClockInv
  <2>1. run.failed # {} /\ run.pc # "ended" /\ run'.pc = "ended" /\ wm'.last > wm.last
    BY DEF ForcedPast, Decided, AtCommit, At
  <2>2. Write
    <3>1. CASE Outside
      BY <2>1, <3>1, OutsideFrame
    <3>2. CASE Work
      BY <2>1, <3>2, WorkRun DEF Fetched
    <3>3. CASE Open \/ Fetch
      BY <2>1, <3>3 DEF Open, Fetch, At, Ended, Typed, RunType
    <3>4. CASE Hold \/ Crash
      <4>1. wm' = wm
        BY <3>4 DEF Hold, Crash
      <4> QED BY <2>1, <4>1
    <3> QED BY <3>1, <3>2, <3>3, <3>4, Steps
  <2>3. run.hold # Unset /\ run.start - run.hold >= HoldBound
    BY <2>1, <2>2 DEF Write, HeldTooLong
  <2> QED BY <2>1, <2>3 DEF StreakInv, RunOwnsRow, At
<1> QED BY <1>1, ClockInvHolds, PTL DEF Spec, ForcedIsEarned

----------------------------------------------------------------------------
(* The watermark and the books.                                            *)

\* Outside a run, identities are only given, and only a new revision undoes a note.
LEMMA OutsideGives ==
    ASSUME Typed, Outside, NEW c \in Bill
    PROVE  /\ linked[c] => linked'[c]
           /\ doc'[c] = doc[c] /\ ~ doc[c].gone /\ c \in Noted => c \in Noted'
<1> USE DEF Typed, TablesOK, WorldOK, books
<1> DEFINE Kept == doc'[c] = doc[c] /\ ~ doc[c].gone /\ c \in Noted => c \in Noted'
<1>0. doc[c] \in DocType /\ doc[c].rev \in Nat
  BY Constants DEF DocType, Rev
<1>1. ASSUME NEW b \in Bill, PushStamp(b) PROVE linked[c] => linked'[c]
  BY <1>1 DEF PushStamp
<1>2. linked[c] => linked'[c]
  BY <1>1 DEF Outside, PushStep, Tick, EditInQbo, DeleteInQbo, PushPost, PushStore, PushFails
<1>3. ASSUME NEW b \in Bill, NewRevision(b) PROVE Kept
  <2>1. CASE b = c
    <3>1. doc'[c] = [doc[c] EXCEPT !.rev = @ + 1, !.at = now - Lag]
      BY <1>3, <2>1 DEF NewRevision
    <3>2. doc'[c].rev = doc[c].rev + 1
      BY <1>0, <3>1 DEF DocType
    <3> QED BY <1>0, <3>2
  <2>2. CASE b # c
    BY <1>3, <2>2 DEF NewRevision, Noted
  <2> QED BY <2>1, <2>2
<1>4. ASSUME NEW b \in Bill, DeleteInQbo(b) PROVE Kept
  <2>1. CASE b = c
    BY <1>0, <1>4, <2>1 DEF DeleteInQbo
  <2>2. CASE b # c
    BY <1>4, <2>2 DEF DeleteInQbo, Noted
  <2> QED BY <2>1, <2>2
<1>5. ASSUME UNCHANGED <<reported, silent>> PROVE Kept
  BY <1>5 DEF Noted
<1>6. ASSUME NEW b \in Bill, PushStep(b) \/ PushFails(b) \/ EditInQbo(b)
      PROVE  NewRevision(b) \/ UNCHANGED <<reported, silent>>
  BY <1>6 DEF PushStep, PushPost, PushStore, PushStamp, PushFails, EditInQbo
<1>7. Kept
  BY <1>3, <1>4, <1>5, <1>6 DEF Outside, Tick
<1> QED BY <1>2, <1>7

\* What anybody does outside a run slips nothing behind the watermark: QBO's clock
\* runs Lag behind, which the overlap covers.
LEMMA SlipOutside ==
    ASSUME ClockInv, SlipInv, Outside
    PROVE  SlipInv'
<1> USE Constants, Numbers, OutsideFrame DEF ClockInv, ClockOrder, RunOwnsRow, At, Fetched, Mark
<1>1. ASSUME NEW b \in Bill, ~ doc'[b].gone, doc'[b].rev # NoRev,
             doc'[b].at <= wm.last \/ (Fetched /\ doc'[b].at <= Mark)
      PROVE  doc'[b] = doc[b]
  <2>1. doc'[b] = doc[b] \/ doc'[b].at = now - Lag
    BY <1>1, DocStep
  <2> QED BY <1>1, <2>1
<1>2. FetchedIsNewer'
  <2>1. ASSUME NEW b \in DOMAIN run.list, Fetched, ~ doc'[b].gone PROVE doc'[b].at > run.last
    <3>1. b \in Bill
      BY IsList DEF Typed, RunType
    <3>2. CASE doc'[b] = doc[b]
      BY <2>1, <3>1, <3>2 DEF SlipInv, FetchedIsNewer
    <3>3. CASE doc'[b].at = now - Lag
      BY <2>1, <3>3
    <3> QED BY <2>1, <3>1, <3>2, <3>3, DocStep
  <2> QED BY <2>1 DEF FetchedIsNewer
<1>3. ASSUME NEW b \in Bill, Fetched, Due(b)' PROVE doc'[b] = doc[b] /\ Due(b)
  <2>1. doc'[b] = doc[b]
    BY <1>1, <1>3 DEF Due
  <2> QED BY <1>3, <2>1 DEF Due
<1>4. DueIsFetched'
  BY <1>3 DEF SlipInv, DueIsFetched
<1>6. RecordInHand'
  <2>1. AtRecord => run.cur \in Bill
    BY DEF Typed, RunShape, RunType, Projecting
  <2> QED BY <2>1, OutsideGives DEF SlipInv, RecordInHand, AtRecord
<1>7. DueIsServed'
  <2>1. ASSUME NEW b \in Bill, Fetched, Due(b)'
        PROVE  b \in run.failed \/ InWork(b) \/ Settled(b)'
    <3>1. doc'[b] = doc[b] /\ Due(b)
      BY <1>3, <2>1
    <3>2. Settled(b) => Settled(b)'
      BY <3>1, OutsideGives DEF Settled, Current, Due
    <3> QED BY <2>1, <3>1, <3>2 DEF SlipInv, DueIsServed
  <2> QED BY <2>1 DEF DueIsServed, InWork, Projecting, AtRecord
<1>8. NothingSlips'
  <2>1. ASSUME NEW b \in Bill, Behind(b)' PROVE Settled(b)'
    <3>1. doc'[b] = doc[b] /\ Behind(b)
      BY <1>1, <2>1 DEF Behind
    <3>2. Settled(b)
      BY <3>1 DEF SlipInv, NothingSlips, Settled, Noted
    <3> QED BY <3>1, <3>2, OutsideGives DEF Settled, Current, Behind
  <2> QED BY <2>1 DEF NothingSlips, Settled, Noted
<1> QED BY <1>2, <1>4, <1>6, <1>7, <1>8 DEF SlipInv

\* A run at work touches the bill of its current record, and bills that QBO deleted.
LEMMA WorkTouches ==
    ASSUME Typed, Work, NEW b \in Bill, ~ doc[b].gone, ~ (AtRecord /\ b = run.cur)
    PROVE  header'[b] = header[b] /\ linked'[b] = linked[b]
<1> DEFINE Same == header'[b] = header[b] /\ linked'[b] = linked[b]
<1> USE DEF Typed, TablesOK, books, At, AtRecord
<1>1. ASSUME NEW c \in Bill, Reconcile(c) PROVE Same
  <2>1. c # b
    BY <1>1 DEF Reconcile, RunShape
  <2> QED BY <1>1, <2>1 DEF Reconcile
<1>2. ASSUME NEW c \in Bill, Stage(c) \/ Pick(c) \/ Defer(c) PROVE Same
  BY <1>2 DEF Stage, Pick, Defer
<1>3. CASE EndStage \/ EndReconcile \/ StartHold
  BY <1>3 DEF EndStage, EndReconcile, StartHold
<1>4. CASE Hit
  BY <1>4 DEF Hit
<1>5. CASE Miss
  BY <1>5 DEF Miss
<1>6. CASE Stamp
  BY <1>6 DEF Stamp
<1> QED BY <1>1, <1>2, <1>3, <1>4, <1>5, <1>6 DEF Work

\* A bill stays in work until it has failed or is settled.
LEMMA WorkServes ==
    ASSUME Typed, SlipInv, Work, NEW b \in Bill, Due(b), InWork(b)
    PROVE  b \in run'.failed \/ InWork(b)' \/ Settled(b)'
<1> DEFINE Served == b \in run'.failed \/ InWork(b)' \/ Settled(b)'
<1> USE DEF Typed, At, AtRecord, Projecting, InWork
<1>0. /\ ~ doc[b].gone /\ doc' = doc /\ run \in RunType
      /\ b \in DOMAIN run.list /\ run.list[b] = doc[b].rev /\ doc[b].rev \in Nat
  BY WorkRun, RunFrame, Numbers DEF Due, SlipInv, DueIsFetched
<1>1. ASSUME NEW c \in Bill, Stage(c) PROVE Served
  <2>1. \/ run' = [run EXCEPT !.todo = @ \ {c}, !.synced = @ \cup {c}]
        \/ run' = [run EXCEPT !.todo = @ \ {c}, !.failed = @ \cup {c}]
    BY <1>1 DEF Stage
  <2>2. run.pc = "stage"
    BY <1>1 DEF Stage
  <2>3. CASE run' = [run EXCEPT !.todo = @ \ {c}, !.synced = @ \cup {c}]
    <3>1. run'.pc = "stage" /\ run'.todo = run.todo \ {c} /\ run'.synced = run.synced \cup {c}
      BY <1>0, <2>2, <2>3 DEF RunType
    <3> QED BY <2>2, <3>1
  <2>4. CASE run' = [run EXCEPT !.todo = @ \ {c}, !.failed = @ \cup {c}]
    <3>1. /\ run'.pc = "stage" /\ run'.todo = run.todo \ {c} /\ run'.synced = run.synced
          /\ run'.failed = run.failed \cup {c}
      BY <1>0, <2>2, <2>4 DEF RunType
    <3> QED BY <2>2, <3>1
  <2> QED BY <2>1, <2>3, <2>4
<1>2. ASSUME NEW c \in Bill, Reconcile(c) PROVE Served
  BY <1>0, <1>2 DEF Reconcile, RunType
<1>3. ASSUME NEW c \in Bill, Pick(c) PROVE Served
  <2>1. run.pc = "project" /\ b \in run.todo
    BY <1>3 DEF Pick
  <2>2. \E l \in {"hit", "miss"} : run' = [run EXCEPT !.cur = c, !.pc = l]
    BY <1>3 DEF Pick
  <2> QED BY <1>0, <2>1, <2>2 DEF RunType
<1>8. ASSUME NEW c \in Bill, Defer(c) PROVE Served
  <2>1. run.pc = "project" /\ b \in run.todo /\ run' = [run EXCEPT !.todo = @ \ {c}]
    BY <1>8 DEF Defer
  <2>2. CASE c # b
    BY <1>0, <2>1, <2>2 DEF RunType
  <2>3. CASE c = b
    <3>1. b \in Known({b})
      BY <1>0 DEF Known
    <3> QED BY <1>8, <2>3, <3>1 DEF Defer, Settled, Noted
  <2> QED BY <2>2, <2>3
<1>4. CASE EndStage
  <2>1. run.pc = "stage" /\ run.todo = {}
    BY <1>4 DEF EndStage
  <2>2. b \in run.synced
    BY <2>1
  <2>3. \/ run' = [run EXCEPT !.pc = "project", !.todo = run.synced, !.synced = {}]
        \/ \E todo \in SUBSET Bill : run' = [run EXCEPT !.pc = "reconcile", !.todo = todo]
    BY <1>4 DEF EndStage
  <2> QED BY <1>0, <2>2, <2>3 DEF RunType
<1>5. CASE EndReconcile
  BY <1>0, <1>5 DEF EndReconcile, RunType
<1>6. CASE Hit \/ Miss \/ Stamp
  <2>0. AtRecord /\ run.cur \in Bill /\ b \in run.todo
    <3>1. run.pc \in {"hit", "miss", "stamp"}
      BY <1>6 DEF Hit, Miss, Stamp
    <3> QED BY <3>1 DEF RunShape, RunType
  <2>1. CASE b # run.cur
    <3>1. b \in run'.todo /\ run'.pc \in {"project", "hit", "stamp"}
      <4>1. CASE run' \in {NextRecord(run), Failed(run), Retried(run)}
        BY <1>0, <2>0, <2>1, <4>1, RecordEnds
      <4>2. CASE run' = [run EXCEPT !.pc = "hit"] \/ run' = [run EXCEPT !.pc = "stamp"]
        BY <1>0, <2>0, <4>2 DEF RunType
      <4> QED BY <1>6, <4>1, <4>2 DEF Hit, Miss, Stamp
    <3> QED BY <3>1
  <2>2. CASE b = run.cur
    <3>1. CASE run' = Failed(run)
      BY <1>0, <2>0, <2>2, <3>1, RecordEnds
    <3>2. CASE run' = Retried(run)
      BY <1>0, <2>0, <3>2, RecordEnds
    <3>3. CASE Hit /\ header' = [header EXCEPT ![b] = run.list[b]]
      BY <1>0, <2>2, <3>3 DEF Hit, SlipInv, RecordInHand, Settled, Current, TablesOK
    <3>4. CASE Miss /\ reported' = reported \cup Known({b})
      <4>1. b \in Known({b})
        BY <1>0 DEF Known
      <4> QED BY <3>4, <4>1 DEF Settled, Noted
    <3>5. CASE Miss /\ (run' = [run EXCEPT !.pc = "hit"] \/ run' = [run EXCEPT !.pc = "stamp"])
      BY <1>0, <2>0, <3>5 DEF RunType
    <3>6. CASE Stamp /\ linked' = [linked EXCEPT ![b] = TRUE] /\ UNCHANGED header
      BY <1>0, <2>2, <3>6 DEF Stamp, SlipInv, RecordInHand, Settled, Current, TablesOK
    <3> QED BY <1>6, <2>2, <3>1, <3>2, <3>3, <3>4, <3>5, <3>6 DEF Hit, Miss, Stamp
  <2> QED BY <2>1, <2>2
<1>7. CASE StartHold
  BY <1>7 DEF StartHold, AtCommit
<1> QED BY <1>1, <1>2, <1>3, <1>4, <1>5, <1>6, <1>7, <1>8 DEF Work

\* A record is taken up with the identity it was found by, and stamped as it was created.
LEMMA WorkHasRecord ==
    ASSUME Typed, SlipInv, Work
    PROVE  RecordInHand'
<1> USE DEF Typed, At, AtRecord, RecordInHand, SlipInv
<1>0. run \in RunType
  OBVIOUS
<1>1. ASSUME NEW c \in Bill, Pick(c) PROVE RecordInHand'
  <2>1. UNCHANGED linked /\ run' = [run EXCEPT !.cur = c, !.pc = IF linked[c] THEN "hit" ELSE "miss"]
    BY <1>1 DEF Pick, books
  <2>2. run'.cur = c /\ run'.pc = IF linked[c] THEN "hit" ELSE "miss"
    BY <1>0, <2>1 DEF RunType
  <2> QED BY <2>1, <2>2
<1>2. CASE run'.pc \notin {"hit", "stamp"}
  BY <1>2
<1>3. ASSUME NEW c \in Bill, Stage(c) \/ Reconcile(c) \/ Defer(c)
      PROVE  run'.pc \notin {"hit", "stamp"}
  <2>1. run'.pc = run.pc /\ run.pc \in {"stage", "reconcile", "project"}
    BY <1>0, <1>3 DEF Stage, Reconcile, Defer, RunType
  <2> QED BY <2>1
<1>4. ASSUME EndStage \/ EndReconcile \/ StartHold
      PROVE  run'.pc \in {"reconcile", "project", "write"}
  BY <1>0, <1>4 DEF EndStage, EndReconcile, StartHold, RunType
<1>5. CASE Hit \/ Miss \/ Stamp
  <2>0. AtRecord /\ run.cur \in Bill
    BY <1>5 DEF Hit, Miss, Stamp, RunShape, RunType, Projecting
  <2>1. CASE run' \in {NextRecord(run), Failed(run), Retried(run)}
    <3>1. run'.pc = "project"
      BY <1>0, <2>0, <2>1, RecordEnds
    <3> QED BY <3>1
  <2>2. CASE Miss /\ linked[run.cur] /\ run' = [run EXCEPT !.pc = "hit"]
    <3>1. run'.pc = "hit" /\ run'.cur = run.cur /\ UNCHANGED linked
      BY <1>0, <2>2 DEF Miss, RunType
    <3> QED BY <2>2, <3>1
  <2>3. CASE /\ Miss /\ run' = [run EXCEPT !.pc = "stamp"]
             /\ header' = [header EXCEPT ![run.cur] = run.list[run.cur]]
    <3>1. run'.pc = "stamp" /\ run'.cur = run.cur /\ run'.list = run.list
      BY <1>0, <2>3 DEF RunType
    <3>2. header'[run.cur] = run.list[run.cur]
      BY <2>0, <2>3 DEF TablesOK
    <3> QED BY <3>1, <3>2
  <2> QED BY <1>5, <2>1, <2>2, <2>3 DEF Hit, Miss, Stamp
<1> QED BY <1>1, <1>2, <1>3, <1>4, <1>5 DEF Work

LEMMA SlipWork ==
    ASSUME ClockInv, SlipInv, Work
    PROVE  SlipInv'
<1> USE Constants, Numbers DEF ClockInv, RunOwnsRow, At, Fetched, Mark
<1>1. /\ doc' = doc /\ wm'.last = wm.last /\ run'.last = run.last /\ run'.start = run.start
      /\ run'.list = run.list /\ run.failed \subseteq run'.failed /\ Fetched /\ Fetched'
      /\ run.last = wm.last
  BY WorkRun, RunFrame
<1>2. FetchedIsNewer'
  BY <1>1 DEF SlipInv, FetchedIsNewer
<1>3. ASSUME NEW b \in Bill PROVE Due(b)' <=> Due(b)
  BY <1>1 DEF Due
<1>4. DueIsFetched'
  BY <1>1, <1>3 DEF SlipInv, DueIsFetched
<1>5. DueIsServed'
  <2>1. ASSUME NEW b \in Bill, Due(b) PROVE b \in run'.failed \/ InWork(b)' \/ Settled(b)'
    <3>1. b \in run.failed \/ InWork(b) \/ Settled(b)
      BY <1>1, <2>1 DEF SlipInv, DueIsServed
    <3>2. CASE InWork(b)
      BY <2>1, <3>2, WorkServes
    <3>3. CASE Settled(b) /\ ~ InWork(b)
      <4>1. ~ (AtRecord /\ b = run.cur)
        BY <3>3 DEF Typed, RunShape, InWork, Projecting
      <4>2. ~ doc[b].gone
        BY <2>1 DEF Due
      <4>3. header'[b] = header[b] /\ linked'[b] = linked[b]
        BY <4>1, <4>2, WorkTouches
      <4> QED BY <1>1, <3>3, <4>3, RunNotes DEF Settled, Current
    <3> QED BY <1>1, <3>1, <3>2, <3>3
  <2> QED BY <1>3, <2>1 DEF DueIsServed
<1>6. NothingSlips'
  <2>1. ASSUME NEW b \in Bill, Behind(b)' PROVE Settled(b)'
    <3>1. Behind(b)
      BY <1>1, <2>1 DEF Behind
    <3>2. b \notin DOMAIN run.list
      BY <1>1, <3>1 DEF SlipInv, FetchedIsNewer, Behind
    <3>3. ~ (AtRecord /\ b = run.cur)
      BY <3>2 DEF Typed, RunShape, Projecting
    <3>4. header'[b] = header[b] /\ linked'[b] = linked[b]
      BY <3>1, <3>3, WorkTouches DEF Behind
    <3>5. Settled(b)
      BY <3>1 DEF SlipInv, NothingSlips, Settled, Noted
    <3> QED BY <1>1, <3>4, <3>5, RunNotes DEF Settled, Current
  <2> QED BY <2>1 DEF NothingSlips, Settled, Noted
<1> QED BY <1>2, <1>4, <1>5, <1>6, WorkHasRecord DEF SlipInv

\* Where the watermark moves to, everything at or before it has been fetched and served.
LEMMA SlipWrite ==
    ASSUME ClockInv, SlipInv, Write
    PROVE  NothingSlips'
<1> USE Constants, Numbers DEF ClockInv, RunOwnsRow, At, Fetched, Mark
<1>1. /\ Fetched /\ run.todo = {} /\ run.pc \in {"project", "write"}
      /\ doc' = doc /\ header' = header /\ linked' = linked
      /\ wm'.last = (IF run.last >= Mark THEN run.last ELSE Mark)
      /\ run.last = wm.last
  BY DEF Write, Decided, AtCommit, Typed, RunShape, Moved, books
<1>2. SUFFICES ASSUME NEW b \in Bill, Behind(b)' PROVE Settled(b)'
  BY DEF NothingSlips, Settled, Noted
<1>3. Settled(b) => Settled(b)'
  BY <1>1, RunNotes DEF Settled, Current
<1>4. CASE doc[b].at <= run.last
  <2>1. Behind(b)
    BY <1>1, <1>2, <1>4 DEF Behind
  <2>2. Settled(b)
    BY <2>1 DEF SlipInv, NothingSlips, Settled, Noted
  <2> QED BY <1>3, <2>2
<1>5. CASE doc[b].at > run.last
  <2>1. Due(b)
    BY <1>1, <1>2, <1>5 DEF Behind, Due
  <2>2. run.list[b] = doc[b].rev
    BY <1>1, <2>1 DEF SlipInv, DueIsFetched
  <2>3. b \in run.failed \/ Settled(b)
    BY <1>1, <2>1 DEF SlipInv, DueIsServed, InWork
  <2>4. CASE b \in run.failed
    <3>1. b \in Known(run.failed)
      BY <2>2, <2>4 DEF Known
    <3>2. PICK lost \in SUBSET Known(run.failed) :
             /\ reported' = (reported \cup Known(run.failed)) \ lost
             /\ silent' = (silent \ Known(run.failed)) \cup lost
      BY DEF Write
    <3>3. b \in Noted'
      BY <3>1, <3>2 DEF Noted
    <3> QED BY <3>3 DEF Settled
  <2> QED BY <1>3, <2>3, <2>4
<1> QED BY <1>4, <1>5

LEMMA SlipStep ==
    ASSUME ClockInv, SlipInv, Next
    PROVE  SlipInv'
<1>1. CASE Outside
  BY <1>1, SlipOutside
<1>2. CASE Work
  BY <1>2, SlipWork
<1>3. CASE Open \/ Hold \/ Write \/ Crash
  <2>1. run'.pc \in {"ended", "fetch"}
    <3>1. CASE Open
      BY <3>1 DEF Open, Ended
    <3> QED BY <1>3, <3>1 DEF Hold, Write, Crash, Ended
  <2>2. /\ FetchedIsNewer' /\ DueIsFetched' /\ RecordInHand' /\ DueIsServed'
    BY <2>1 DEF FetchedIsNewer, DueIsFetched, RecordInHand, DueIsServed, Fetched, InWork,
                Projecting, AtRecord, At
  <2>3. NothingSlips'
    <3>1. CASE Write
      BY <3>1, SlipWrite
    <3>2. CASE Open \/ Hold \/ Crash
      BY <3>2 DEF Open, Hold, Crash, books, SlipInv, NothingSlips, Behind, Current
    <3> QED BY <1>3, <3>1, <3>2
  <2> QED BY <2>2, <2>3 DEF SlipInv
<1>4. CASE Fetch
  <2> DEFINE found == {b \in Bill : doc[b].rev # NoRev /\ doc[b].at > run.last}
  <2>1. /\ run.pc = "fetch" /\ run.synced = {}
        /\ UNCHANGED <<doc, wm, header, linked, reported, silent>>
    BY <1>4 DEF Fetch, books, ClockInv, Typed, RunShape, Fetched, At
  <2>2. /\ run'.pc = "stage" /\ run'.todo = found /\ run'.synced = {} /\ run'.last = run.last
        /\ run'.list = [b \in found |-> doc[b].rev]
    BY <1>4, <2>1 DEF Fetch, ClockInv, Typed, RunType
  <2>3. FetchedIsNewer'
    BY <2>1, <2>2 DEF FetchedIsNewer
  <2>4. DueIsFetched' /\ DueIsServed'
    <3>1. ASSUME NEW b \in Bill, Due(b)' PROVE b \in found
      BY <2>1, <2>2, <3>1 DEF Due
    <3> QED BY <2>1, <2>2, <3>1 DEF DueIsFetched, DueIsServed, InWork, At
  <2>5. RecordInHand'
    BY <2>1, <2>2 DEF RecordInHand, At
  <2>6. NothingSlips'
    BY <2>1 DEF SlipInv, NothingSlips, Behind, Current
  <2> QED BY <2>3, <2>4, <2>5, <2>6 DEF SlipInv
<1> QED BY <1>1, <1>2, <1>3, <1>4, Steps

(* No change of QBO slips behind the watermark, where no later run asks    *)
(* for it, unless it is in the local bill, or a run skipped it or was      *)
(* forced past it and said so, or one let it go with a line in the log:    *)
(* its lines never came, or its issue could not be written.  There is no   *)
(* other way past, for every skew of QBO's clock below the overlap, and    *)
(* whatever fails, crashes or is pushed meanwhile.                         *)
THEOREM NothingSlipsBehind == Spec => []NothingSlips
<1>1. ASSUME Init PROVE SlipInv
  <2>1. run.pc = "ended"
    BY <1>1 DEF Init, Ended
  <2>2. NothingSlips
    <3>1. ASSUME NEW b \in Bill
          PROVE  (doc[b].at = Unset /\ doc[b].rev = NoRev) \/ doc[b].at = 0 - Lag
      BY <1>1 DEF Init
    <3> QED BY <1>1, <3>1, Constants DEF Init, NothingSlips, Behind
  <2> QED BY <2>1, <2>2 DEF SlipInv, FetchedIsNewer, DueIsFetched, RecordInHand, DueIsServed,
                            Fetched, InWork, Projecting, AtRecord, At
<1>2. ClockInv /\ SlipInv /\ [Next]_vars => SlipInv'
  <2> SUFFICES ASSUME ClockInv, SlipInv, [Next]_vars PROVE SlipInv'
    OBVIOUS
  <2>1. CASE UNCHANGED vars
    BY <2>1 DEF vars, books, SlipInv, FetchedIsNewer, DueIsFetched, RecordInHand, DueIsServed,
                NothingSlips, Fetched, InWork, Projecting, AtRecord, At, Due, Mark,
                Settled, Noted, Behind, Current
  <2> QED BY <2>1, SlipStep
<1>3. SlipInv => NothingSlips
  BY DEF SlipInv
<1> QED BY <1>1, <1>2, <1>3, ClockInvHolds, PTL DEF Spec

----------------------------------------------------------------------------
(* The bills that were deleted here.                                       *)

LEMMA BuriedOutside ==
    ASSUME Typed, BuriedInv, Outside
    PROVE  BuriedInv'
<1> USE DEF Typed, BuriedInv, TablesOK
<1>0. UNCHANGED <<header, run, buried, partial>>
  BY OutsideFrame
<1>1. ASSUME NEW b \in Bill
      PROVE  /\ push[b] \in {"none", "done"} =>
                   push'[b] = push[b] /\ linked'[b] = linked[b] /\ staging'[b] = staging[b]
             /\ push'[b] \notin {"none", "done"} =>
                   push[b] \notin {"none", "done"} /\ linked'[b] = linked[b]
  <2> DEFINE Goal == /\ push[b] \in {"none", "done"} =>
                            push'[b] = push[b] /\ linked'[b] = linked[b] /\ staging'[b] = staging[b]
                     /\ push'[b] \notin {"none", "done"} =>
                            push[b] \notin {"none", "done"} /\ linked'[b] = linked[b]
  <2>1. ASSUME NEW c \in Bill, PushPost(c) PROVE Goal
    BY <2>1 DEF PushPost, books
  <2>2. ASSUME NEW c \in Bill, PushStore(c) PROVE Goal
    BY <2>2 DEF PushStore, books
  <2>3. ASSUME NEW c \in Bill, PushStamp(c) PROVE Goal
    BY <2>3 DEF PushStamp
  <2>4. ASSUME NEW c \in Bill, PushFails(c) PROVE Goal
    BY <2>4 DEF PushFails, books
  <2>5. CASE UNCHANGED <<push, linked, staging>>
    BY <2>5
  <2> QED BY <2>1, <2>2, <2>3, <2>4, <2>5 DEF Outside, PushStep, Tick, EditInQbo, DeleteInQbo, books
<1>2. PushComesFirst'
  BY <1>0, <1>1 DEF PushComesFirst
<1>3. StampIsOurs'
  <2>1. At("stamp") => run.cur \in Bill
    BY DEF RunShape, RunType, Projecting, AtRecord, At
  <2> QED BY <1>0, <1>1, <2>1 DEF StampIsOurs, At
<1>4. GoneHasNoRev'
  BY DocStep DEF GoneHasNoRev
<1>5. BuriedIsGone'
  <2>1. ASSUME NEW b \in buried PROVE doc'[b].gone
    BY <2>1, DocStep DEF BuriedIsGone
  <2> QED BY <1>0, <1>1, <2>1 DEF BuriedIsGone
<1>6. CleanIsBare'
  <2>1. ASSUME NEW b \in Clean PROVE b \in Bill /\ staging'[b] = staging[b]
    BY <1>1, <2>1 DEF BuriedIsGone, Clean
  <2> QED BY <1>0, <2>1 DEF CleanIsBare, Clean, AtRecord, At
<1> QED BY <1>2, <1>3, <1>4, <1>5, <1>6

\* A run makes a bill only of the record in hand, and takes up only staged records.
LEMMA BuriedWork ==
    ASSUME Typed, BuriedInv, Work
    PROVE  BuriedInv'
<1> USE DEF Typed, BuriedInv, TablesOK, At, AtRecord
<1> DEFINE Kept == PushComesFirst' /\ StampIsOurs' /\ BuriedIsGone' /\ CleanIsBare'
<1>0. doc' = doc /\ push' = push /\ run \in RunType
  BY RunFrame
<1>7. ASSUME UNCHANGED buried PROVE BuriedIsGone'
  BY <1>0, <1>7 DEF BuriedIsGone
<1>1. ASSUME NEW c \in Bill, Stage(c) PROVE Kept
  <2>1. /\ run.pc = "stage" /\ c \in run.todo /\ UNCHANGED <<header, linked, buried, partial>>
        /\ staging' = staging \/ staging' = [staging EXCEPT ![c] = run.list[c]]
    BY <1>1 DEF Stage, books
  <2>2. run'.pc = "stage" /\ run'.todo \subseteq run.todo
    <3>1. \/ run' = [run EXCEPT !.todo = @ \ {c}, !.synced = @ \cup {c}]
          \/ run' = [run EXCEPT !.todo = @ \ {c}, !.failed = @ \cup {c}]
      BY <1>1 DEF Stage
    <3>2. CASE run' = [run EXCEPT !.todo = @ \ {c}, !.synced = @ \cup {c}]
      BY <1>0, <2>1, <3>2 DEF RunType
    <3>3. CASE run' = [run EXCEPT !.todo = @ \ {c}, !.failed = @ \cup {c}]
      BY <1>0, <2>1, <3>3 DEF RunType
    <3> QED BY <3>1, <3>2, <3>3
  <2>3. c \notin Clean
    BY <2>1 DEF CleanIsBare
  <2>4. CleanIsBare'
    BY <1>0, <2>1, <2>2, <2>3 DEF CleanIsBare, Clean
  <2> QED BY <1>0, <1>7, <2>1, <2>2, <2>4 DEF PushComesFirst, StampIsOurs
<1>2. ASSUME NEW c \in Bill, Reconcile(c) PROVE Kept
  <2>1. run.pc = "reconcile" /\ run'.pc = "reconcile" /\ doc[c].gone
    BY <1>0, <1>2 DEF Reconcile, RunType, RunShape
  <2>2. /\ header' = [header EXCEPT ![c] = IF linked[c] THEN NoRev ELSE @]
        /\ linked' = [linked EXCEPT ![c] = FALSE]
        /\ buried' = IF linked[c] THEN buried \cup {c} ELSE buried
    BY <1>2 DEF Reconcile
  <2>3. \/ /\ staging' = [staging EXCEPT ![c] = NoRev]
           /\ partial' = IF header'[c] = NoRev THEN partial \ {c} ELSE partial
        \/ /\ UNCHANGED staging
           /\ partial' = IF linked[c] THEN partial \cup {c} ELSE partial
    BY <1>2 DEF Reconcile
  <2>4. PushComesFirst'
    BY <1>0, <2>2 DEF PushComesFirst
  <2>5. BuriedIsGone'
    <3>1. linked[c] => push[c] \in {"none", "done"}
      BY DEF PushComesFirst
    <3> QED BY <1>0, <2>1, <2>2, <3>1 DEF BuriedIsGone
  <2>6. ASSUME NEW b \in Clean' PROVE header'[b] = NoRev /\ staging'[b] = NoRev
    <3>1. CASE b # c
      <4>1. b \in Clean
        BY <2>2, <2>3, <2>6, <3>1 DEF Clean
      <4>2. header[b] = NoRev /\ staging[b] = NoRev /\ b \in Bill
        BY <4>1 DEF CleanIsBare, Clean
      <4> QED BY <2>2, <2>3, <3>1, <4>2
    <3>2. CASE b = c /\ b \in Clean
      <4>1. header[b] = NoRev /\ staging[b] = NoRev
        BY <3>2 DEF CleanIsBare
      <4> QED BY <2>2, <2>3, <3>2, <4>1
    <3>3. CASE b = c /\ b \notin Clean
      <4>1. c \notin partial' /\ c \in buried' /\ (c \in partial \/ c \notin buried)
        BY <2>6, <3>3 DEF Clean
      <4>2. CASE linked[c]
        <5>1. staging' = [staging EXCEPT ![c] = NoRev]
          BY <2>3, <4>1, <4>2
        <5> QED BY <2>2, <3>3, <4>2, <5>1
      <4>3. CASE ~ linked[c]
        <5>1. c \in partial
          BY <2>2, <4>1, <4>3
        <5>2. staging' = [staging EXCEPT ![c] = NoRev] /\ header'[c] = NoRev
          BY <2>3, <4>1, <4>3, <5>1
        <5> QED BY <3>3, <5>2
      <4> QED BY <4>2, <4>3
    <3> QED BY <3>1, <3>2, <3>3
  <2>7. CleanIsBare'
    BY <2>1, <2>6 DEF CleanIsBare
  <2> QED BY <1>0, <2>1, <2>4, <2>5, <2>7 DEF StampIsOurs
<1>3. ASSUME NEW c \in Bill, Pick(c) PROVE Kept
  <2>1. UNCHANGED <<header, linked, staging, buried, partial>>
    BY <1>3 DEF Pick, books
  <2>2. run'.pc \in {"hit", "miss"} /\ run'.cur = c /\ (c \in Zero \/ staging[c] # NoRev)
    BY <1>0, <1>3 DEF Pick, RunType, Projectable
  <2>3. c \notin Clean
    BY <2>2 DEF CleanIsBare, Clean
  <2>4. CleanIsBare'
    BY <1>0, <2>1, <2>2, <2>3 DEF CleanIsBare, Clean
  <2> QED BY <1>0, <1>7, <2>1, <2>2, <2>4 DEF PushComesFirst, StampIsOurs
<1>8. ASSUME NEW c \in Bill, Defer(c) PROVE Kept
  <2>1. UNCHANGED <<header, linked, staging, buried, partial>> /\ run'.pc = "project"
    BY <1>0, <1>8 DEF Defer, RunType, books
  <2> QED BY <1>0, <1>7, <2>1 DEF PushComesFirst, StampIsOurs, CleanIsBare, Clean
<1>4. ASSUME EndStage \/ EndReconcile \/ StartHold PROVE Kept
  <2>1. /\ UNCHANGED <<header, linked, staging, buried, partial>>
        /\ run'.pc \in {"reconcile", "project", "write"}
    BY <1>0, <1>4 DEF EndStage, EndReconcile, StartHold, RunType, books
  <2> QED BY <1>0, <1>7, <2>1 DEF PushComesFirst, StampIsOurs, CleanIsBare, Clean
<1>5. ASSUME Hit \/ Miss \/ Stamp PROVE Kept
  <2>1. /\ run.pc \in {"hit", "miss", "stamp"}
        /\ UNCHANGED <<staging, buried, partial>>
    BY <1>5 DEF Hit, Miss, Stamp
  <2>2. run.cur \in Bill /\ run.cur \notin Clean
    BY <2>1 DEF RunShape, RunType, Projecting, CleanIsBare
  <2>3. ASSUME NEW b \in Bill, b # run.cur PROVE header'[b] = header[b] /\ linked'[b] = linked[b]
    BY <1>5, <2>2, <2>3 DEF Hit, Miss, Stamp
  <2>4. run'.pc = "project" \/ (run'.pc \in {"hit", "stamp"} /\ run'.cur = run.cur)
    <3>1. CASE run' \in {NextRecord(run), Failed(run), Retried(run)}
      BY <1>0, <2>2, <3>1, RecordEnds
    <3>2. CASE run' = [run EXCEPT !.pc = "hit"] \/ run' = [run EXCEPT !.pc = "stamp"]
      BY <1>0, <3>2 DEF RunType
    <3> QED BY <1>5, <3>1, <3>2 DEF Hit, Miss, Stamp
  <2>5. CleanIsBare'
    <3>1. Clean \subseteq Bill /\ Clean' = Clean
      BY <2>1 DEF Clean
    <3> QED BY <1>0, <2>1, <2>2, <2>3, <2>4, <3>1 DEF CleanIsBare
  <2>6. ASSUME push[run.cur] \notin {"none", "done"}
        PROVE  header'[run.cur] # NoRev /\ ~ linked'[run.cur] /\ run'.pc # "stamp"
    <3>0. header[run.cur] # NoRev /\ ~ linked[run.cur] /\ run.pc # "stamp"
      BY <2>2, <2>6 DEF PushComesFirst, StampIsOurs
    <3>1. run.list[run.cur] # NoRev
      BY <2>1, <2>2 DEF RunShape, Projecting, Fetched
    <3>2. CASE Hit
      <4>1. header' = header \/ header' = [header EXCEPT ![run.cur] = run.list[run.cur]]
        BY <3>2 DEF Hit
      <4>2. UNCHANGED linked /\ run' \in {NextRecord(run), Failed(run)}
        BY <3>2 DEF Hit
      <4> QED BY <1>0, <2>2, <3>0, <3>1, <4>1, <4>2, RecordEnds
    <3>3. CASE Miss
      <4>1. UNCHANGED <<header, linked>> /\ run' = NextRecord(run)
        BY <3>0, <3>3 DEF Miss
      <4> QED BY <1>0, <2>2, <3>0, <4>1, RecordEnds
    <3>4. ~ Stamp
      BY <3>0 DEF Stamp
    <3> QED BY <1>5, <3>2, <3>3, <3>4
  <2>7. PushComesFirst'
    BY <1>0, <2>3, <2>6 DEF PushComesFirst
  <2>8. StampIsOurs'
    BY <1>0, <2>4, <2>6 DEF StampIsOurs
  <2> QED BY <1>7, <2>1, <2>5, <2>7, <2>8
<1>6. GoneHasNoRev'
  BY <1>0 DEF GoneHasNoRev
<1> QED BY <1>1, <1>2, <1>3, <1>4, <1>5, <1>6, <1>8 DEF Work

LEMMA BuriedStep ==
    ASSUME Typed, BuriedInv, Next
    PROVE  BuriedInv'
<1> USE DEF BuriedInv, At, AtRecord
<1>1. CASE Outside
  BY <1>1, BuriedOutside
<1>2. CASE Work
  BY <1>2, BuriedWork
<1>3. CASE Open \/ Hold \/ Write \/ Crash
  <2>1. run'.pc \in {"ended", "fetch"}
    <3>1. CASE Open
      BY <3>1 DEF Open, Ended
    <3> QED BY <1>3, <3>1 DEF Hold, Write, Crash, Ended
  <2>2. UNCHANGED <<doc, push, header, linked, staging, graves>>
    BY <1>3 DEF Open, Hold, Write, Crash, books
  <2> QED BY <2>1, <2>2 DEF PushComesFirst, StampIsOurs, GoneHasNoRev, BuriedIsGone, CleanIsBare,
                            Clean
<1>4. CASE Fetch
  <2>1. UNCHANGED <<doc, push, header, linked, staging, graves>>
    BY <1>4 DEF Fetch, books
  <2>2. run'.pc = "stage" /\ \A b \in run'.todo : doc[b].rev # NoRev
    BY <1>4 DEF Fetch, Typed, RunType
  <2>3. buried \subseteq Bill
    BY DEF Typed, TablesOK
  <2> QED BY <2>1, <2>2, <2>3 DEF PushComesFirst, StampIsOurs, GoneHasNoRev, BuriedIsGone,
                                  CleanIsBare, Clean
<1> QED BY <1>1, <1>2, <1>3, <1>4, Steps

(* A bill that was deleted here, together with its staging row, because    *)
(* QBO deleted it does not come back if it has an amount: not from a       *)
(* record fetched before the deletion, not from a push still under way,    *)
(* and not from the record of a run that was cut off.                      *)
THEOREM BuriedStaysBuried == Spec => []Buried
<1>1. ASSUME Init PROVE BuriedInv
  <2>1. ASSUME NEW b \in Bill
        PROVE  ~ doc[b].gone /\ (push[b] # "none" => header[b] = 1) /\ ~ linked[b]
    BY <1>1 DEF Init
  <2> QED BY <1>1, <2>1 DEF Init, BuriedInv, PushComesFirst, StampIsOurs, GoneHasNoRev,
                            BuriedIsGone, CleanIsBare, Clean, Ended, At
<1>2. Typed /\ BuriedInv /\ [Next]_vars => BuriedInv'
  <2> SUFFICES ASSUME Typed, BuriedInv, [Next]_vars PROVE BuriedInv'
    OBVIOUS
  <2>1. CASE UNCHANGED vars
    BY <2>1 DEF vars, books, BuriedInv, PushComesFirst, StampIsOurs, GoneHasNoRev, BuriedIsGone,
                CleanIsBare, Clean, AtRecord, At
  <2> QED BY <2>1, BuriedStep
<1>3. BuriedInv => Buried
  BY DEF BuriedInv, CleanIsBare, Clean, Buried
<1> QED BY <1>1, <1>2, <1>3, TypedHolds, PTL DEF Spec
=============================================================================
