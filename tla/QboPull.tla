------------------------------ MODULE QboPull ------------------------------
(***************************************************************************)
(* The pull of bills from QBO: a run reads the watermark, fetches what QBO *)
(* changed since, stages every record, projects each onto a local bill by  *)
(* its QBO identity, and moves the watermark, or holds it when a record    *)
(* failed, for HoldBound at most.  Meanwhile QBO's users create, edit and  *)
(* delete bills, and the outbox pushes local bills: it creates the bill in *)
(* QBO first and stamps the identity on the local one later.               *)
(***************************************************************************)
EXTENDS Integers

CONSTANTS
    Bill,          \* bills of the realm, by the QBO id they have or will have
    Local,         \* those entered locally and completed: the outbox pushes them
    Zero,          \* those with a total of zero: they are projected with or without lines
    MaxTime,       \* bound of the host's clock; records fail only before it
    Overlap,       \* QBO_SYNC_WATERMARK_OVERLAP_SECONDS
    Lag,           \* how far QBO's clock is behind the host's
    HoldBound,     \* QBO_WATERMARK_HOLD_BOUND_SECONDS
    MaxEdit,       \* bound: creations, edits and deletions by QBO's users
    MaxTrouble     \* bound: crashes, failed pushes, lost writes

Unset == -1 - Lag - Overlap       \* no datetime: before every other one
NoRev == 0                        \* no such record
Nobill == "none"
MaxRev == MaxEdit + 1             \* the push creates a bill, every other revision is an edit

ASSUME ConstantsAssumption ==
    /\ Local \subseteq Bill /\ Zero \subseteq Bill /\ Nobill \notin Bill
    /\ {MaxTime, Overlap, Lag, MaxEdit, MaxTrouble} \subseteq Nat
    /\ HoldBound \in Nat \ {0}
    /\ Lag < Overlap              \* the overlap covers the skew of the clocks

VARIABLES
    now,       \* the host's clock
    doc,       \* QBO: revision of each bill, LastUpdatedTime, deleted or not
    wm,        \* dbo.Sync row of the bill pull: LastSyncDatetime, HoldStartedDatetime
    staging,   \* qbo.Bill: the revision staged
    header,    \* dbo.Bill of that vendor, number and date: the revision it shows
    linked,    \* dbo.Bill carries the QboId
    push,      \* where the outbox is with the local bill
    run,       \* the local variables of the run: the sync lock admits one
    reported,  \* bills whose revision in QBO a run skipped or was forced past, and said so
    silent,    \* those whose revision it let go with a line in the log and nothing else
    buried,    \* bills deleted here because QBO had deleted them
    partial,   \* those of them whose staging row could not be deleted
    streak,    \* start of the first run that held since the last one that did not
    edits,     \* changes by QBO's users so far
    troubles   \* faults so far

books   == <<header, linked>>
notes   == <<reported, silent>>
graves  == <<buried, partial>>
vars    == <<now, doc, wm, staging, header, linked, push, run, reported, silent, buried,
             partial, streak, edits, troubles>>

Time == Unset .. MaxTime
Rev  == 0 .. MaxRev
Pc   == {"ended", "fetch", "stage", "reconcile", "project", "hit", "miss", "stamp", "write"}

Ended == [pc |-> "ended", start |-> 0, last |-> Unset, hold |-> Unset,
          list |-> <<>>, todo |-> {}, synced |-> {},
          failed |-> {}, cur |-> Nobill]

TypeOK ==
    /\ now \in 0 .. MaxTime
    /\ doc \in [Bill -> [rev : Rev, at : Time, gone : BOOLEAN]]
    /\ wm \in [last : Time, hold : Time]
    /\ {staging, header} \subseteq [Bill -> Rev]
    /\ linked \in [Bill -> BOOLEAN]
    /\ push \in [Bill -> {"none", "waiting", "posted", "stored", "done"}]
    /\ run \in [pc : Pc, start : 0 .. MaxTime, last : Time, hold : Time,
                list : UNION {[B -> Rev] : B \in SUBSET Bill},
                todo : SUBSET Bill, synced : SUBSET Bill, failed : SUBSET Bill,
                cur : Bill \cup {Nobill}]
    /\ reported \subseteq Bill /\ silent \subseteq Bill
    /\ buried \subseteq Bill /\ partial \subseteq buried
    /\ streak \in Time
    /\ edits \in 0 .. MaxEdit
    /\ troubles \in 0 .. MaxTrouble

\* Completed local bills wait for their push; the others are in QBO already.
Init ==
    /\ now = 0
    /\ doc = [b \in Bill |-> IF b \in Local THEN [rev |-> NoRev, at |-> Unset, gone |-> FALSE]
                             ELSE [rev |-> 1, at |-> 0 - Lag, gone |-> FALSE]]
    /\ wm = [last |-> Unset, hold |-> Unset]
    /\ staging = [b \in Bill |-> NoRev]
    /\ header = [b \in Bill |-> IF b \in Local THEN 1 ELSE NoRev]
    /\ linked = [b \in Bill |-> FALSE]
    /\ push = [b \in Bill |-> IF b \in Local THEN "waiting" ELSE "none"]
    /\ run = Ended
    /\ reported = {}
    /\ silent = {}
    /\ buried = {}
    /\ partial = {}
    /\ streak = Unset
    /\ edits = 0
    /\ troubles = 0

Trouble   == troubles < MaxTrouble /\ troubles' = troubles + 1
NoTrouble == UNCHANGED troubles

\* Bound: records fail as often as they like before MaxTime, and then no more.
Fails == now < MaxTime /\ NoTrouble

At(label) == run.pc = label

-----------------------------------------------------------------------------
(* Time, QBO's users, and the outbox.                                      *)

Tick ==
    /\ now < MaxTime
    /\ now' = now + 1
    /\ UNCHANGED <<doc, wm, staging, books, push, run, notes, graves, streak, edits,
                   troubles>>

\* What was noted was about the revision before.
NewRevision(b) ==
    /\ doc' = [doc EXCEPT ![b].rev = @ + 1, ![b].at = now - Lag]
    /\ reported' = reported \ {b}
    /\ silent' = silent \ {b}

Change == edits < MaxEdit /\ edits' = edits + 1

\* A bill entered in QBO, or edited there.
EditInQbo(b) ==
    /\ ~doc[b].gone
    /\ doc[b].rev = NoRev => b \notin Local
    /\ NewRevision(b)
    /\ Change
    /\ UNCHANGED <<now, wm, staging, books, push, run, graves, streak, troubles>>

DeleteInQbo(b) ==
    /\ doc[b].rev # NoRev /\ ~doc[b].gone
    /\ doc' = [doc EXCEPT ![b] = [rev |-> NoRev, at |-> Unset, gone |-> TRUE]]
    /\ reported' = reported \ {b}
    /\ silent' = silent \ {b}
    /\ Change
    /\ UNCHANGED <<now, wm, staging, books, push, run, graves, streak, troubles>>

\* Fault: every attempt of the push has a request id of its own.
PostAnew(b) ==
    /\ push[b] = "waiting"
    /\ ~linked[b]
    /\ NewRevision(b)
    /\ push' = [push EXCEPT ![b] = "posted"]
    /\ UNCHANGED <<now, wm, staging, books, run, graves, streak, edits, troubles>>

\* The POST of the push; a repetition under the same request id changes nothing in QBO.
PushPost(b) ==
    /\ push[b] = "waiting"
    /\ ~linked[b]
    /\ IF doc[b].rev = NoRev /\ ~doc[b].gone THEN NewRevision(b)
       ELSE UNCHANGED <<doc, notes>>
    /\ push' = [push EXCEPT ![b] = "posted"]
    /\ UNCHANGED <<now, wm, staging, books, run, graves, streak, edits, troubles>>

\* The staging row of the created bill, unless a pull has staged it already.
PushStore(b) ==
    /\ push[b] = "posted"
    /\ staging' = [staging EXCEPT ![b] = IF @ = NoRev THEN 1 ELSE @]
    /\ push' = [push EXCEPT ![b] = "stored"]
    /\ UNCHANGED <<now, doc, wm, books, run, notes, graves, streak, edits, troubles>>

PushStamp(b) ==
    /\ push[b] = "stored"
    /\ linked' = [linked EXCEPT ![b] = TRUE]
    /\ push' = [push EXCEPT ![b] = "done"]
    /\ UNCHANGED <<now, doc, wm, staging, header, run, notes, graves, streak, edits, troubles>>

\* The push fails on its way and is tried again later.
PushFails(b) ==
    /\ push[b] \in {"posted", "stored"}
    /\ Trouble
    /\ push' = [push EXCEPT ![b] = "waiting"]
    /\ UNCHANGED <<now, doc, wm, staging, books, run, notes, graves, streak, edits>>

-----------------------------------------------------------------------------
(* A pull run: open, fetch, stage, reconcile the deletions.                *)

\* The run's start is taken before anything is read.
Open ==
    /\ At("ended")
    /\ run' = [Ended EXCEPT !.pc = "fetch", !.start = now, !.last = wm.last, !.hold = wm.hold]
    /\ NoTrouble
    /\ UNCHANGED <<now, doc, wm, staging, books, push, notes, graves, streak, edits>>

\* The query: Metadata.LastUpdatedTime > the watermark.
Fetch ==
    LET found == {b \in Bill : doc[b].rev # NoRev /\ doc[b].at > run.last}
    IN  /\ At("fetch")
        /\ run' = [run EXCEPT !.todo = found, !.pc = "stage",
                        !.list = [b \in found |-> doc[b].rev]]
        /\ NoTrouble
        /\ UNCHANGED <<now, doc, wm, staging, books, push, notes, graves, streak, edits>>

Stage(b) ==
    /\ At("stage") /\ b \in run.todo
    /\ \/ /\ staging' = [staging EXCEPT ![b] = run.list[b]]
          /\ run' = [run EXCEPT !.todo = @ \ {b}, !.synced = @ \cup {b}]
          /\ NoTrouble
       \/ /\ Fails
          /\ run' = [run EXCEPT !.todo = @ \ {b}, !.failed = @ \cup {b}]
          /\ UNCHANGED staging
    /\ UNCHANGED <<now, doc, wm, books, push, notes, graves, streak, edits>>

FullSync == run.last = Unset /\ DOMAIN run.list # {}

\* Only a full run that found something looks for deletions, among the records staged: those
\* missing from QBO's ids and refused by a GET.  Any doubt leaves a record out.
EndStage ==
    /\ At("stage") /\ run.todo = {}
    /\ \E confirmed \in SUBSET {b \in Bill : staging[b] # NoRev /\ doc[b].gone} :
          /\ FullSync \/ confirmed = {}
          /\ run' = IF confirmed = {}
                    THEN [run EXCEPT !.pc = "project", !.todo = run.synced, !.synced = {}]
                    ELSE [run EXCEPT !.pc = "reconcile", !.todo = confirmed]
    /\ NoTrouble
    /\ UNCHANGED <<now, doc, wm, staging, books, push, notes, graves, streak, edits>>

\* Deleted in QBO, so deleted here: the bill that carries its id, then the staging row, and
\* the second step may fail.  (When the first does, it is as if nothing had been confirmed.)
Reconcile(b) ==
    /\ At("reconcile") /\ b \in run.todo
    /\ run' = [run EXCEPT !.todo = @ \ {b}]
    /\ header' = [header EXCEPT ![b] = IF linked[b] THEN NoRev ELSE @]
    /\ linked' = [linked EXCEPT ![b] = FALSE]
    /\ buried' = IF linked[b] THEN buried \cup {b} ELSE buried
    /\ \/ /\ staging' = [staging EXCEPT ![b] = NoRev]
          /\ partial' = IF header'[b] = NoRev THEN partial \ {b} ELSE partial
          /\ NoTrouble
       \/ /\ partial' = IF linked[b] THEN partial \cup {b} ELSE partial
          /\ Trouble
          /\ UNCHANGED staging
    /\ UNCHANGED <<now, doc, wm, push, notes, streak, edits>>

EndReconcile ==
    /\ At("reconcile") /\ run.todo = {}
    /\ run' = [run EXCEPT !.pc = "project", !.todo = run.synced, !.synced = {}]
    /\ NoTrouble
    /\ UNCHANGED <<now, doc, wm, staging, books, push, notes, graves, streak, edits>>

-----------------------------------------------------------------------------
(* The projection of one staged record onto the local bill.                *)

\* Those of which QBO still has the revision that the run fetched.
Known(B) == {b \in B : run.list[b] = doc[b].rev}

\* Fault: a record that is done is tried again.
AgainRecord(f) == [f EXCEPT !.pc = "project", !.cur = Nobill]

\* The run is done with its current record: it was projected, skipped or deferred.
NextRecord(f) == [f EXCEPT !.pc = "project", !.todo = @ \ {run.cur}, !.cur = Nobill]
Failed(f) == [NextRecord(f) EXCEPT !.failed = @ \cup {run.cur}]
Retried(f) == [f EXCEPT !.pc = "project", !.cur = Nobill]

\* Fault: the lines of the fetched record are taken as present.
LinesAssumed(b) == b \in Bill

\* Only a staged record can have lines, and only one without an amount goes on without any.
Projectable(b) == b \in Zero \/ staging[b] # NoRev

Pick(b) ==
    /\ At("project") /\ b \in run.todo
    /\ Projectable(b)
    /\ run' = [run EXCEPT !.cur = b, !.pc = IF linked[b] THEN "hit" ELSE "miss"]
    /\ NoTrouble
    /\ UNCHANGED <<now, doc, wm, staging, books, push, notes, graves, streak, edits>>

\* The lines of a record with an amount are not there, not even after the re-reads, whether
\* the record is still staged or not: it is let go, with a warning, and holds nothing.
Defer(b) ==
    /\ At("project") /\ b \in run.todo
    /\ b \notin Zero
    /\ run' = [run EXCEPT !.todo = @ \ {b}]
    /\ reported' = reported \ Known({b})
    /\ silent' = silent \cup Known({b})
    /\ NoTrouble
    /\ UNCHANGED <<now, doc, wm, staging, books, push, graves, streak, edits>>

\* A hit: the fields are written.  A row that changed since it was read fails the record, and
\* so does an error before or after the write.
Hit ==
    LET b == run.cur IN
    /\ At("hit")
    /\ \/ /\ header' = [header EXCEPT ![b] = run.list[b]]
          /\ run' = NextRecord(run)
          /\ NoTrouble
       \/ /\ Fails
          /\ run' = Failed(run)
          /\ header' \in {header, [header EXCEPT ![b] = run.list[b]]}
    /\ UNCHANGED <<now, doc, wm, staging, linked, push, notes, graves, streak, edits>>

\* No bill has the id: under the create lock the run looks again, and creates the bill.
\* A bill of that vendor, number and date exists already: a ValueError, so a skip.
Miss ==
    LET b == run.cur IN
    /\ At("miss")
    /\ \/ /\ linked[b]
          /\ run' = [run EXCEPT !.pc = "hit"]
          /\ UNCHANGED <<header, notes>>
       \/ /\ ~linked[b] /\ header[b] = NoRev
          /\ header' = [header EXCEPT ![b] = run.list[b]]
          /\ run' = [run EXCEPT !.pc = "stamp"]
          /\ UNCHANGED notes
       \/ /\ ~linked[b] /\ header[b] # NoRev
          /\ reported' = reported \cup Known({b})
          /\ silent' = silent \ Known({b})
          /\ run' = NextRecord(run)
          /\ UNCHANGED header
    /\ NoTrouble
    /\ UNCHANGED <<now, doc, wm, staging, linked, push, graves, streak, edits>>

\* The new bill gets the identity and its lines.  If that fails the bill is deleted again,
\* when the database lets it, and the record is tried once more or fails.
Stamp ==
    LET b == run.cur IN
    /\ At("stamp")
    /\ \/ /\ linked' = [linked EXCEPT ![b] = TRUE]
          /\ run' = NextRecord(run)
          /\ UNCHANGED header /\ NoTrouble
       \/ /\ Fails
          /\ \/ header' = [header EXCEPT ![b] = NoRev] /\ UNCHANGED linked
             \/ linked' \in {linked, [linked EXCEPT ![b] = TRUE]} /\ UNCHANGED header
          /\ run' \in {Retried(run), Failed(run)}
    /\ UNCHANGED <<now, doc, wm, staging, push, notes, graves, streak, edits>>

-----------------------------------------------------------------------------
(* WatermarkRun.commit.                                                    *)

AtCommit == At("project") /\ run.todo = {}

\* A record failed and the row carries no hold: the hold starts with this run.  The marker
\* is written at best effort.
StartHold ==
    /\ AtCommit
    /\ run.failed # {} /\ run.hold = Unset
    /\ streak' = IF streak = Unset THEN run.start ELSE streak
    /\ \/ /\ wm' = [wm EXCEPT !.hold = run.start]
          /\ run' = [run EXCEPT !.hold = run.start, !.pc = "write"]
          /\ NoTrouble
       \/ Trouble /\ run' = [run EXCEPT !.pc = "write"] /\ UNCHANGED wm
    /\ UNCHANGED <<now, doc, staging, books, push, notes, graves, edits>>

\* What the watermark does is decided after that.
Decided ==
    \/ At("write")
    \/ AtCommit /\ (run.failed = {} \/ run.hold # Unset)

HeldTooLong == run.hold # Unset /\ run.start - run.hold >= HoldBound

\* Records failed and the bound is not reached: the watermark stays where it is.
Hold ==
    /\ Decided
    /\ run.failed # {} /\ ~HeldTooLong
    /\ run' = Ended
    /\ NoTrouble
    /\ UNCHANGED <<now, doc, wm, staging, books, push, notes, graves, streak, edits>>

\* Fault: the watermark is the run's start, without the overlap.
MarkStart == run.start

\* The value a run writes: its start less the overlap.
Mark == run.start - Overlap

\* Fault: the row is written without clearing its hold.
MovedHeld == [last |-> IF run.last >= Mark THEN run.last ELSE Mark, hold |-> wm.hold]

\* The row after _write: never moved back, and the hold is over.  (When there is nothing to
\* move the marker is cleared at best effort; it is taken as cleared.)
Moved == [last |-> IF run.last >= Mark THEN run.last ELSE Mark, hold |-> Unset]

\* Everything fetched is in, or the hold has lasted long enough: the watermark moves.  The
\* records it is forced past are written down as issues, one by one and at best effort.
Write ==
    /\ Decided
    /\ run.failed = {} \/ HeldTooLong
    /\ wm' = Moved
    /\ \E lost \in SUBSET Known(run.failed) :
          /\ reported' = (reported \cup Known(run.failed)) \ lost
          /\ silent' = (silent \ Known(run.failed)) \cup lost
          /\ IF lost = {} THEN NoTrouble ELSE Trouble
    /\ run' = Ended
    /\ streak' = Unset
    /\ UNCHANGED <<now, doc, staging, books, push, graves, edits>>

\* QBO does not answer the query, the row cannot be written, or the process dies.
Crash ==
    /\ ~At("ended")
    /\ Trouble
    /\ run' = Ended
    /\ UNCHANGED <<now, doc, wm, staging, books, push, notes, graves, streak, edits>>

RunStep ==
    \/ Fetch \/ EndStage \/ EndReconcile
    \/ \E b \in Bill : Stage(b) \/ Reconcile(b) \/ Pick(b) \/ Defer(b)
    \/ Hit \/ Miss \/ Stamp
    \/ StartHold \/ Hold \/ Write

PushStep(b) == PushPost(b) \/ PushStore(b) \/ PushStamp(b)

Next ==
    \/ Tick
    \/ \E b \in Bill : EditInQbo(b) \/ DeleteInQbo(b) \/ PushStep(b) \/ PushFails(b)
    \/ Open \/ RunStep \/ Crash

Spec == Init /\ [][Next]_vars

\* The scheduler keeps starting runs and a started run goes on.  Of the push nothing is asked.
Fairness ==
    /\ WF_vars(Tick)
    /\ WF_vars(Open \/ RunStep)

FairSpec == Spec /\ Fairness

-----------------------------------------------------------------------------
(* Properties.                                                             *)

Current(b)  == linked[b] /\ header[b] = doc[b].rev
Behind(b)   == doc[b].rev # NoRev /\ ~doc[b].gone /\ doc[b].at <= wm.last

\* No change of QBO slips behind the watermark, where no later run asks for it, unless it is
\* in the local bill or a run reported it as skipped or forced past.  Two ways past it leave
\* nothing but a log: a record with an amount whose lines never came, and one forced past
\* whose issue could not be written.  No failure, crash, edit or push adds a third.
NothingSlips == \A b \in Bill : Behind(b) => Current(b) \/ b \in reported \cup silent

\* A bill that was deleted here because QBO deleted it does not come back, not even from the
\* record the same run fetched before: its lines went with its staging row.  Where that row
\* could not be deleted, or the bill has no amount and needs no lines, it may.
Buried == \A b \in buried \ (partial \cup Zero) : header[b] = NoRev

\* Records are forced past only after the runs have held without a break for HoldBound: no
\* marker of an earlier hold cuts the wait short.
ForcedPast == run.failed # {} /\ Decided /\ At("ended")' /\ wm'.last > wm.last

ForcedIsEarned ==
    [][ForcedPast => streak # Unset /\ run.start - streak >= HoldBound]_vars

\* Every change of QBO gets into the local bill, or is reported, or let go for its lines or
\* with its issue: when the changes stop, and records no longer fail, the books catch up,
\* whatever failed, crashed or was pushed meanwhile.
BooksCatchUp ==
    []<>(\A b \in Bill : doc[b].rev # NoRev => Current(b) \/ b \in reported \cup silent)

\* "Permanent data gaps will not self-resolve on retry" (should_hold): what a run skips, no
\* later run could have projected.
SkipsArePermanent ==
    \A b \in reported : Behind(b) /\ linked[b] => Current(b)
=============================================================================
