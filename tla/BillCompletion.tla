--------------------------- MODULE BillCompletion ---------------------------
(***************************************************************************)
(* Completing a bill: the durable dbo.CompletionJob row, the background    *)
(* task that runs complete_bill, and the watchdog that re-drives a job     *)
(* whose task died.  This is the upstream of the outbox: its last step     *)
(* enqueues the push of the bill to QuickBooks Online.                     *)
(*                                                                         *)
(* A run is one execution of _run_complete_bill, by the background task of *)
(* a request or by a watchdog tick.  Bills and jobs are rows; every stored *)
(* procedure call is one action, and a process may die between any two.    *)
(*                                                                         *)
(* Abstractions.  `stale' stands for ClaimedAt being older than the        *)
(* reclaim threshold.  An enqueue is reduced to the fact that the outbox   *)
(* holds a row for the bill (QboOutbox says what becomes of it).  The      *)
(* checks before the flip and the fan-outs after it are reduced to how     *)
(* they end.                                                               *)
(***************************************************************************)
EXTENDS Integers

CONSTANTS
    Bill,                 \* dbo.Bill rows
    NoBill,               \* not a bill
    Request,              \* threads serving POST /complete/bill and their background tasks
    Tick,                 \* watchdog ticks
    MaxAttempts,          \* max_attempts of claim_next_stuck and mark_failure
    MaxJob,               \* bound: jobs ever inserted
    EnqueueMayFail,       \* the enqueue of the push may raise, or find no QBO auth record
    RunMayOutliveClaim    \* a run may take longer than reclaim_after_seconds

Run == Request \cup Tick
Job == 1 .. MaxJob
NoJob == 0

ASSUME CompletionAssumption ==
    /\ NoBill \notin Bill
    /\ Request \cap Tick = {}
    /\ MaxAttempts \in Nat \ {0}
    /\ MaxJob \in Nat
    /\ EnqueueMayFail \in BOOLEAN
    /\ RunMayOutliveClaim \in BOOLEAN

VARIABLES
    draft,      \* bills with IsDraft = 1
    queued,     \* bills the outbox holds a row for
    job,        \* dbo.CompletionJob: job id -> columns
    lastJob,    \* the IDENTITY counter of the table
    pc,         \* where a run is
    bill,       \* the bill a run works on
    mine,       \* the job a run will mark
    force,      \* runs started by the watchdog
    orphans     \* history: jobs whose last permitted run died before it could mark them

rows == <<draft, queued, job, lastJob>>
vars == <<draft, queued, job, lastJob, pc, bill, mine, force, orphans>>

RunningPc == {"start", "finalize", "push", "record", "succeed", "fail", "refuse"}

AbsentJob == [bill |-> NoBill, status |-> "absent", attempts |-> 0, stale |-> FALSE]

Columns == [bill : Bill \cup {NoBill},
            status : {"absent", "processing", "completed", "failed"},
            attempts : 0 .. MaxAttempts,
            stale : BOOLEAN]

TypeOK ==
    /\ draft \subseteq Bill
    /\ queued \subseteq Bill
    /\ job \in [Job -> Columns]
    /\ lastJob \in 0 .. MaxJob
    /\ pc \in [Run -> RunningPc \cup {"idle", "submit"}]
    /\ bill \in [Run -> Bill \cup {NoBill}]
    /\ mine \in [Run -> Job \cup {NoJob}]
    /\ force \subseteq Tick
    /\ orphans \subseteq Job

Init ==
    /\ draft = Bill
    /\ queued = {}
    /\ job = [j \in Job |-> AbsentJob]
    /\ lastJob = 0
    /\ pc = [r \in Run |-> "idle"]
    /\ bill = [r \in Run |-> NoBill]
    /\ mine = [r \in Run |-> NoJob]
    /\ force = {}
    /\ orphans = {}

----------------------------------------------------------------------------

Active(j)  == job[j].status = "processing"
Running(r) == pc[r] \in RunningPc
Goto(r, label) == pc' = [pc EXCEPT ![r] = label]

\* The request or the watchdog iteration is over.
End(r) ==
    /\ Goto(r, "idle")
    /\ bill' = [bill EXCEPT ![r] = NoBill]
    /\ mine' = [mine EXCEPT ![r] = NoJob]
    /\ force' = force \ {r}

----------------------------------------------------------------------------
(* The request.                                                            *)

\* The route refuses a bill that is not a draft, then consults its gates.
AskCompletion(r, b) ==
    /\ pc[r] = "idle"
    /\ b \in draft
    /\ bill' = [bill EXCEPT ![r] = b]
    /\ Goto(r, "submit")
    /\ UNCHANGED <<rows, mine, force, orphans>>

Insert(r) ==
    /\ lastJob < MaxJob
    /\ lastJob' = lastJob + 1
    /\ job' = [job EXCEPT ![lastJob + 1] =
                 [bill |-> bill[r], status |-> "processing", attempts |-> 1, stale |-> FALSE]]
    /\ mine' = [mine EXCEPT ![r] = lastJob + 1]
    /\ Goto(r, "start")
    /\ UNCHANGED <<draft, queued, bill, force, orphans>>

\* Fault: a background task is scheduled for a coalesced job as well.
CoalescedRuns(r, j) ==
    /\ mine' = [mine EXCEPT ![r] = j]
    /\ Goto(r, "start")
    /\ UNCHANGED <<rows, bill, force, orphans>>

\* The request joins the job in flight: it schedules no task of its own.
Coalesce(r, j) ==
    /\ End(r)
    /\ UNCHANGED <<rows, orphans>>

\* CreateCompletionJob: the filtered unique index admits one processing job a bill.
CreateJob(r) ==
    /\ pc[r] = "submit"
    /\ \/ /\ \A j \in Job : Active(j) => job[j].bill # bill[r]
          /\ Insert(r)
       \/ \E j \in Job : Active(j) /\ job[j].bill = bill[r] /\ Coalesce(r, j)

----------------------------------------------------------------------------
(* The watchdog.                                                           *)

\* Fault: the last attempt is never made.
StuckButOne == {j \in Job : Active(j) /\ job[j].stale /\ job[j].attempts < MaxAttempts - 1}

\* Fault: attempts have no ceiling.
StuckForever == {j \in Job : Active(j) /\ job[j].stale}

Stuck == {j \in Job : Active(j) /\ job[j].stale /\ job[j].attempts < MaxAttempts}

\* ClaimNextStuckCompletionJob: the oldest stuck job, claimed for another attempt.
ClaimStuck(t) ==
    /\ pc[t] = "idle"
    /\ \E j \in Stuck :
       /\ \A k \in Stuck : j <= k
       /\ job' = [job EXCEPT ![j].attempts = @ + 1, ![j].stale = FALSE]
       /\ bill' = [bill EXCEPT ![t] = job[j].bill]
       /\ mine' = [mine EXCEPT ![t] = j]
    /\ force' = force \cup {t}
    /\ Goto(t, "start")
    /\ UNCHANGED <<draft, queued, lastJob, orphans>>

----------------------------------------------------------------------------
(* _run_complete_bill and complete_bill.                                   *)

\* The bill is completed already; only the watchdog insists.
SkipCompleted(r) ==
    /\ pc[r] = "start"
    /\ r \notin force
    /\ bill[r] \notin draft
    /\ Goto(r, "succeed")
    /\ UNCHANGED <<rows, bill, mine, force, orphans>>

StartCompletion(r) ==
    /\ pc[r] = "start"
    /\ r \in force \/ bill[r] \in draft
    /\ Goto(r, "finalize")
    /\ UNCHANGED <<rows, bill, mine, force, orphans>>

\* A missing vendor, a deleted bill, a database error: complete_bill returns
\* before the flip.
EarlyReturn(r) ==
    /\ pc[r] = "finalize"
    /\ Goto(r, "fail")
    /\ UNCHANGED <<rows, bill, mine, force, orphans>>

\* CompletionRefused: the lines of the bill do not allow it to be completed.
RefuseCompletion(r) ==
    /\ pc[r] = "finalize"
    /\ Goto(r, "refuse")
    /\ UNCHANGED <<rows, bill, mine, force, orphans>>

\* FinalizeBillById flips IsDraft once and accepts a bill that is flipped.
Finalize(r) ==
    /\ pc[r] = "finalize"
    /\ draft' = draft \ {bill[r]}
    /\ Goto(r, "push")
    /\ UNCHANGED <<queued, job, lastJob, bill, mine, force, orphans>>

\* Step 5, after the lines and the other fan-outs: the push is enqueued.
EnqueuePush(r) ==
    /\ pc[r] = "push"
    /\ queued' = queued \cup {bill[r]}
    /\ Goto(r, "record")
    /\ UNCHANGED <<draft, job, lastJob, bill, mine, force, orphans>>

\* _enqueue_qbo_sync turns every failure into an entry of the result, and a
\* result with errors is a partial success.
EnqueueSwallowed(r) ==
    /\ EnqueueMayFail
    /\ pc[r] = "push"
    /\ Goto(r, "record")
    /\ UNCHANGED <<rows, bill, mine, force, orphans>>

\* set_completion_result; the run has passed the flip, so it counts as a success.
RecordResult(r) ==
    /\ pc[r] = "record"
    /\ Goto(r, "succeed")
    /\ UNCHANGED <<rows, bill, mine, force, orphans>>

\* A bill that is gone, an exception that no step of complete_bill handles, or one
\* that the mark raises.
Raises(r) ==
    /\ pc[r] \in {"start", "push", "record", "succeed"}
    /\ Goto(r, "fail")
    /\ UNCHANGED <<rows, bill, mine, force, orphans>>

\* MarkCompletionJobSuccess, for a job that is still processing.
MarkSuccess(r) ==
    /\ pc[r] = "succeed"
    /\ job' = IF Active(mine[r]) THEN [job EXCEPT ![mine[r]].status = "completed"] ELSE job
    /\ End(r)
    /\ UNCHANGED <<draft, queued, lastJob, orphans>>

\* Fault: a job is given up one attempt later than the watchdog stops claiming it.
FailedJobLater(j, limit) ==
    [job[j] EXCEPT !.stale = FALSE,
                   !.status = IF job[j].attempts > limit THEN "failed" ELSE "processing"]

FailedJob(j, limit) ==
    [job[j] EXCEPT !.stale = FALSE,
                   !.status = IF job[j].attempts >= limit THEN "failed" ELSE "processing"]

\* Fault: the mark does not ask whether the job is still processing.
MarkFailureUnguarded(r) ==
    /\ pc[r] \in {"fail", "refuse"}
    /\ job' = [job EXCEPT ![mine[r]] =
                 FailedJob(mine[r], IF pc[r] = "refuse" THEN 1 ELSE MaxAttempts)]
    /\ End(r)
    /\ UNCHANGED <<draft, queued, lastJob, orphans>>

\* MarkCompletionJobFailure: opens a new claim period, or gives the job up.  A
\* refusal is given up at once.
MarkFailure(r) ==
    /\ pc[r] \in {"fail", "refuse"}
    /\ job' = IF Active(mine[r])
              THEN [job EXCEPT ![mine[r]] =
                      FailedJob(mine[r], IF pc[r] = "refuse" THEN 1 ELSE MaxAttempts)]
              ELSE job
    /\ End(r)
    /\ UNCHANGED <<draft, queued, lastJob, orphans>>

Spent(j) == Active(j) /\ job[j].attempts = MaxAttempts

\* The process dies, or the mark raises and nobody is left to catch it.  A job that
\* has spent its attempts is left processing: nothing claims it or fails it.
Stop(r) ==
    /\ pc[r] # "idle"
    /\ End(r)
    /\ orphans' = orphans \cup {j \in Job : Spent(j) /\ mine[r] = j}
    /\ UNCHANGED rows

\* reclaim_after_seconds have passed since the job was claimed.
GrowStale(j) ==
    /\ Active(j)
    /\ ~ job[j].stale
    /\ RunMayOutliveClaim \/ \A r \in Run : mine[r] # j
    /\ job' = [job EXCEPT ![j].stale = TRUE]
    /\ UNCHANGED <<draft, queued, lastJob, pc, bill, mine, force, orphans>>

----------------------------------------------------------------------------

Complete(r) ==
    \/ SkipCompleted(r) \/ StartCompletion(r) \/ EarlyReturn(r) \/ RefuseCompletion(r)
    \/ Finalize(r) \/ EnqueuePush(r) \/ EnqueueSwallowed(r) \/ RecordResult(r)
    \/ Raises(r) \/ MarkSuccess(r) \/ MarkFailure(r)

Next ==
    \/ \E r \in Request : (\E b \in Bill : AskCompletion(r, b)) \/ CreateJob(r)
    \/ \E t \in Tick : ClaimStuck(t)
    \/ \E r \in Run : Complete(r) \/ Stop(r)
    \/ \E j \in Job : GrowStale(j)

Spec == Init /\ [][Next]_vars

----------------------------------------------------------------------------
(* Safety.                                                                 *)

\* The job row is a lease: as long as no run outlives its claim, no two runs work
\* on one bill, whichever requests, tasks and watchdog ticks meet.
NoOverlap ==
    \A r, s \in Run : Running(r) /\ Running(s) /\ bill[r] = bill[s] => r = s

\* A run works on the job, or the watchdog will claim it once it is stale.
Driven(j) == Active(j) /\ (~ Spent(j) \/ \E r \in Run : mine[r] = j)

\* A completed bill never falls between the flip and the enqueue: its push is in
\* the outbox, or about to be put there, or a job that is driven owes it, or a failed
\* job shows it to an operator.  The one exception is a job whose last permitted run
\* died before it could mark it: the watchdog skips it, and it is never failed.
FinalizedIsOwned ==
    \A b \in Bill \ draft :
        \/ b \in queued
        \/ \E r \in Run : pc[r] = "push" /\ bill[r] = b
        \/ \E j \in Job : /\ job[j].bill = b
                          /\ Driven(j) \/ job[j].status = "failed" \/ j \in orphans

\* A late run, whose claim has passed to another one, does not change the outcome
\* of a job that is over: a completed or failed job stays as it is.
FinishedJobIsFinal ==
    [][\A j \in Job : job[j].status \in {"completed", "failed"} => job'[j] = job[j]]_vars

----------------------------------------------------------------------------
(* Liveness.  The watchdog ticks every two minutes, runs make progress unless    *)
(* they stop, and time passes.                                                   *)

Fairness ==
    /\ \A t \in Tick : WF_vars(ClaimStuck(t))
    /\ \A r \in Run : WF_vars(Complete(r))
    /\ \A j \in Job : WF_vars(GrowStale(j))

FairSpec == Spec /\ Fairness

\* However its runs end, a job is over or has spent its attempts in the end.
JobIsDrivenUntilSpent ==
    \A j \in Job : Active(j) ~> ~ Active(j) \/ job[j].attempts = MaxAttempts
=============================================================================
