------------------------ MODULE BillCompletionProofs ------------------------
(***************************************************************************)
(* Proofs about BillCompletion, for any number of bills, requests, ticks,  *)
(* jobs and attempts.                                                      *)
(***************************************************************************)
EXTENDS BillCompletion, TLAPS

\* What a run remembers fits the job it works for.
RunsOK ==
    \A r \in Run :
        /\ pc[r] = "submit" => bill[r] \in Bill
        /\ Running(r) => /\ mine[r] \in 1 .. lastJob
                         /\ job[mine[r]].bill = bill[r]
        /\ ~ Running(r) => mine[r] = NoJob

\* The table is filled in the order of its ids.
RowsOK ==
    \A j \in Job : /\ j > lastJob => job[j] = AbsentJob
                   /\ j <= lastJob => job[j].bill \in Bill /\ job[j].status # "absent"

\* The filtered unique index UQ_CompletionJob_Active.
OneActive ==
    \A j, k \in Job : Active(j) /\ Active(k) /\ job[j].bill = job[k].bill => j = k

Shape == TypeOK /\ RunsOK /\ RowsOK /\ OneActive

\* A run holds its job until it marks it.
Held == \A r \in Run : Running(r) => Active(mine[r]) /\ ~ job[mine[r]].stale

\* No job is held twice.
Exclusive == \A r, s \in Run : Running(r) /\ Running(s) /\ mine[r] = mine[s] => r = s

Lease == Held /\ Exclusive

\* The bills that need no further run.
Served == queued \cup {b \in Bill : \E j \in Job : job[j].bill = b /\ job[j].status = "failed"}

\* The bills a run or a job still owes an enqueue.
Pushed   == {b \in Bill : \E r \in Run : pc[r] = "push" /\ bill[r] = b}
InFlight == {b \in Bill : \E j \in Job : job[j].bill = b /\ Active(j)}

\* The first run of a job finds its bill a draft or served, and a run that is about
\* to report success leaves its bill served.
RunsServe ==
    \A r \in Run :
        /\ pc[r] = "start" /\ r \notin force => bill[r] \in draft \cup Served
        /\ pc[r] \in {"record", "succeed"} => bill[r] \in Served

Ownership == Bill \subseteq draft \cup Served \cup Pushed \cup InFlight /\ RunsServe

\* A job that has spent its attempts is in the hands of a run, or its last run died.
SpentAreKnown ==
    \A j \in Job : Spent(j) => j \in orphans \/ \E r \in Run : mine[r] = j

----------------------------------------------------------------------------
(* Types and the shape of the table.                                       *)

\* Nothing runs and the table is empty.
LEMMA ShapeInit == Init => Shape
  BY CompletionAssumption
  DEF Init, Shape, TypeOK, RunsOK, RowsOK, OneActive, Columns, AbsentJob, Run, Job, NoJob,
      Running, RunningPc, Active

\* No step disturbs the shape.
LEMMA ShapeStep ==
  ASSUME Shape, [Next]_vars
  PROVE  Shape'
<1> USE CompletionAssumption DEF Shape, TypeOK, Run, Job, NoJob, RunningPc, rows
<1>1. ASSUME NEW r \in Request, NEW b \in Bill, AskCompletion(r, b)
      PROVE  Shape'
  BY <1>1 DEF AskCompletion, Goto, RunsOK, RowsOK, OneActive, Running, Active
<1>2. ASSUME NEW r \in Request, CreateJob(r)
      PROVE  Shape'
  <2>1. CASE \A j \in Job : Active(j) => job[j].bill # bill[r]
    <3>1. CASE Insert(r)
      <4>1. /\ pc[r] = "submit" /\ bill[r] \in Bill
            /\ lastJob + 1 \in Job
            /\ job[lastJob + 1] = AbsentJob
        BY <1>2, <3>1 DEF CreateJob, Insert, RunsOK, RowsOK
      <4>2. TypeOK'
        BY <3>1, <4>1 DEF Insert, Goto, Columns
      <4>3. RunsOK'
        BY <3>1, <4>1 DEF Insert, Goto, Columns, RunsOK, Running
      <4>4. RowsOK'
        BY <3>1, <4>1 DEF Insert, Columns, RowsOK
      <4>5. OneActive'
        BY <2>1, <3>1, <4>1 DEF Insert, Columns, OneActive, Active
      <4>6. QED  BY <4>2, <4>3, <4>4, <4>5
    <3>2. CASE \E j \in Job : Coalesce(r, j)
      BY <3>2 DEF Coalesce, End, Goto, RunsOK, RowsOK, OneActive, Running, Active
    <3>3. QED  BY <1>2, <3>1, <3>2 DEF CreateJob
  <2>2. CASE \E j \in Job : Coalesce(r, j)
    BY <2>2 DEF Coalesce, End, Goto, RunsOK, RowsOK, OneActive, Running, Active
  <2>3. QED  BY <1>2, <2>1, <2>2 DEF CreateJob
<1>3. ASSUME NEW t \in Tick, ClaimStuck(t)
      PROVE  Shape'
  <2>1. PICK j \in Stuck :
          /\ job' = [job EXCEPT ![j].attempts = @ + 1, ![j].stale = FALSE]
          /\ bill' = [bill EXCEPT ![t] = job[j].bill]
          /\ mine' = [mine EXCEPT ![t] = j]
    BY <1>3 DEF ClaimStuck
  <2>2. /\ j \in 1 .. lastJob /\ job[j].bill \in Bill
        /\ job[j].attempts + 1 \in 0 .. MaxAttempts
    BY DEF Stuck, Active, RowsOK, Columns, AbsentJob
  <2> DEFINE row == [job[j] EXCEPT !.attempts = @ + 1, !.stale = FALSE]
  <2>8. j \in Job /\ job[j] \in Columns
    BY DEF Stuck
  <2>9. row \in Columns
    BY <2>2, <2>8 DEF Columns
  <2>10. job' = [job EXCEPT ![j] = row]
    BY <2>1, <2>8 DEF Columns
  <2> HIDE DEF row
  <2>11. job' \in [Job -> Columns]
    BY <2>8, <2>9, <2>10
  <2>3. TypeOK'
    BY <1>3, <2>1, <2>2, <2>11 DEF ClaimStuck, Goto
  <2>4. RunsOK'
    BY <1>3, <2>1, <2>2 DEF ClaimStuck, Goto, RunsOK, Running, Columns
  <2>5. RowsOK'
    BY <1>3, <2>1, <2>2 DEF ClaimStuck, RowsOK, Columns
  <2>6. OneActive'
    BY <1>3, <2>1, <2>2 DEF ClaimStuck, OneActive, Active, Columns
  <2>7. QED  BY <2>3, <2>4, <2>5, <2>6
<1>4. ASSUME NEW r \in Run,
             \/ SkipCompleted(r) \/ StartCompletion(r) \/ EarlyReturn(r) \/ RefuseCompletion(r)
             \/ Finalize(r) \/ EnqueuePush(r) \/ EnqueueSwallowed(r) \/ RecordResult(r)
             \/ Raises(r)
      PROVE  Shape'
  <2>1. /\ draft' \subseteq draft
        /\ queued' = queued \/ (pc[r] = "push" /\ queued' = queued \cup {bill[r]})
        /\ UNCHANGED <<force, orphans>>
    BY <1>4 DEF SkipCompleted, StartCompletion, EarlyReturn, RefuseCompletion, Finalize,
                EnqueuePush, EnqueueSwallowed, RecordResult, Raises
  <2>2. Running(r) /\ pc' = [pc EXCEPT ![r] = pc'[r]] /\ pc'[r] \in RunningPc
    BY <1>4 DEF SkipCompleted, StartCompletion, EarlyReturn, RefuseCompletion, Finalize,
                EnqueuePush, EnqueueSwallowed, RecordResult, Raises, Goto, Running
  <2>3. UNCHANGED <<job, lastJob, bill, mine>>
    BY <1>4 DEF SkipCompleted, StartCompletion, EarlyReturn, RefuseCompletion, Finalize,
                EnqueuePush, EnqueueSwallowed, RecordResult, Raises
  <2>4. queued' \subseteq Bill
    BY <2>1, <2>2 DEF RunsOK, RowsOK
  <2>5. TypeOK'
    BY <2>1, <2>2, <2>3, <2>4
  <2>6. QED  BY <2>2, <2>3, <2>5 DEF RunsOK, RowsOK, OneActive, Running, Active
<1>5. ASSUME NEW r \in Run, MarkSuccess(r) \/ MarkFailure(r)
      PROVE  Shape'
  <2>1. mine[r] \in 1 .. lastJob /\ Running(r)
    BY <1>5 DEF MarkSuccess, MarkFailure, RunsOK, Running
  <2>2. PICK row \in Columns :
          /\ job' = [job EXCEPT ![mine[r]] = row]
          /\ row.bill = job[mine[r]].bill
          /\ row.status # "absent"
          /\ row.status = "processing" => Active(mine[r])
    <3>1. mine[r] \in Job /\ job[mine[r]] \in Columns /\ job[mine[r]].status # "absent"
      BY <2>1 DEF RowsOK
    <3>2. CASE ~ Active(mine[r])
      <4>1. job' = [job EXCEPT ![mine[r]] = job[mine[r]]]
        BY <1>5, <3>1, <3>2 DEF MarkSuccess, MarkFailure
      <4>2. QED  BY <3>1, <3>2, <4>1 DEF Active
    <3>3. CASE MarkSuccess(r) /\ Active(mine[r])
      <4> DEFINE row == [job[mine[r]] EXCEPT !.status = "completed"]
      <4>1. job' = [job EXCEPT ![mine[r]] = row]
        BY <3>1, <3>3 DEF MarkSuccess
      <4>2. row \in Columns /\ row.bill = job[mine[r]].bill /\ row.status = "completed"
        BY <3>1 DEF Columns
      <4> HIDE DEF row
      <4>3. QED  BY <4>1, <4>2
    <3>4. CASE MarkFailure(r) /\ Active(mine[r])
      <4> DEFINE row == FailedJob(mine[r], IF pc[r] = "refuse" THEN 1 ELSE MaxAttempts)
      <4>1. job' = [job EXCEPT ![mine[r]] = row]
        BY <3>1, <3>4 DEF MarkFailure
      <4>2. /\ row \in Columns /\ row.bill = job[mine[r]].bill
            /\ row.status \in {"failed", "processing"}
        BY <3>1 DEF FailedJob, Columns
      <4> HIDE DEF row
      <4>3. QED  BY <3>4, <4>1, <4>2
    <3>5. QED  BY <1>5, <3>2, <3>3, <3>4
  <2>3. TypeOK'
    BY <1>5, <2>1, <2>2 DEF MarkSuccess, MarkFailure, End, Goto
  <2>8. /\ lastJob' = lastJob /\ pc' = [pc EXCEPT ![r] = "idle"]
        /\ bill' = [bill EXCEPT ![r] = NoBill] /\ mine' = [mine EXCEPT ![r] = NoJob]
    BY <1>5 DEF MarkSuccess, MarkFailure, End, Goto
  <2>9. \A j \in 1 .. lastJob : job'[j].bill = job[j].bill
    BY <2>1, <2>2
  <2>4. RunsOK'
    <3>1. ASSUME NEW q \in Run \ {r}
          PROVE  /\ pc'[q] = "submit" => bill'[q] \in Bill
                 /\ Running(q)' => mine'[q] \in 1 .. lastJob' /\ job'[mine'[q]].bill = bill'[q]
                 /\ ~ Running(q)' => mine'[q] = NoJob
      BY <2>8, <2>9 DEF RunsOK, Running
    <3>2. pc'[r] = "idle" /\ mine'[r] = NoJob
      BY <2>8
    <3>3. QED  BY <3>1, <3>2 DEF RunsOK, Running
  <2>5. RowsOK'
    BY <1>5, <2>1, <2>2 DEF MarkSuccess, MarkFailure, RowsOK
  <2>6. OneActive'
    BY <1>5, <2>1, <2>2 DEF MarkSuccess, MarkFailure, OneActive, Active, Columns
  <2>7. QED  BY <2>3, <2>4, <2>5, <2>6
<1>6. ASSUME NEW r \in Run, Stop(r)
      PROVE  Shape'
  BY <1>6 DEF Stop, End, Goto, RunsOK, RowsOK, OneActive, Running, Active
<1>7. ASSUME NEW j \in Job, GrowStale(j)
      PROVE  Shape'
  <2>1. TypeOK'
    <3> DEFINE row == [job[j] EXCEPT !.stale = TRUE]
    <3>1. row \in Columns
      <4>1. job[j] \in Columns
        OBVIOUS
      <4>2. QED  BY <4>1 DEF Columns
    <3>2. job' = [job EXCEPT ![j] = row]
      BY <1>7 DEF GrowStale
    <3> HIDE DEF row
    <3>3. job' \in [Job -> Columns]
      BY <3>1, <3>2
    <3>4. QED  BY <1>7, <3>3 DEF GrowStale
  <2>2. RunsOK' /\ OneActive'
    BY <1>7 DEF GrowStale, Columns, RunsOK, OneActive, Running, Active
  <2>3. RowsOK'
    <3>1. j <= lastJob
      BY <1>7 DEF GrowStale, RowsOK, Active, AbsentJob
    <3>2. /\ lastJob' = lastJob
          /\ \A k \in Job : k # j => job'[k] = job[k]
          /\ job'[j].bill = job[j].bill /\ job'[j].status = job[j].status
      BY <1>7 DEF GrowStale, Columns
    <3>3. QED  BY <3>1, <3>2 DEF RowsOK
  <2>4. QED  BY <2>1, <2>2, <2>3
<1>8. CASE UNCHANGED vars
  BY <1>8 DEF vars, RunsOK, RowsOK, OneActive, Running, Active
<1>9. QED  BY <1>1, <1>2, <1>3, <1>4, <1>5, <1>6, <1>7, <1>8 DEF Next, Complete

\* Every reachable state has the types of TypeOK: attempts never exceed
\* MaxAttempts, and a run always has a job to mark.
THEOREM CompletionTypeCorrect == Spec => []TypeOK
<1>1. Init => Shape
  BY ShapeInit
<1>2. Shape /\ [Next]_vars => Shape'
  BY ShapeStep
<1>3. Shape => TypeOK
  BY DEF Shape
<1>4. QED  BY <1>1, <1>2, <1>3, PTL DEF Spec

\* A job that is over stays as it is, also when a late run marks it or time passes.
THEOREM FinishedJobsAreFinal == Spec => FinishedJobIsFinal
<1>1. ASSUME Shape, Next,
             NEW j \in Job, job[j].status \in {"completed", "failed"}
      PROVE  job'[j] = job[j]
  <2> USE <1>1, CompletionAssumption DEF Shape, TypeOK, Job, Active
  <2>1. CASE \E r \in Request : (\E b \in Bill : AskCompletion(r, b)) \/ CreateJob(r)
    BY <2>1 DEF AskCompletion, CreateJob, Insert, Coalesce, End, rows, RowsOK, AbsentJob, Columns
  <2>2. CASE \E t \in Tick : ClaimStuck(t)
    BY <2>2 DEF ClaimStuck, Stuck
  <2>3. CASE \E r \in Run : Complete(r) \/ Stop(r)
    <3>1. PICK r \in Run : Complete(r) \/ Stop(r)
      BY <2>3
    <3>2. CASE MarkSuccess(r)
      BY <3>2 DEF MarkSuccess
    <3>3. CASE MarkFailure(r)
      BY <3>3 DEF MarkFailure
    <3>4. QED
      BY <3>1, <3>2, <3>3
      DEF Complete, SkipCompleted, StartCompletion, EarlyReturn, RefuseCompletion, Finalize,
          EnqueuePush, EnqueueSwallowed, RecordResult, Raises, Stop, rows
  <2>4. CASE \E k \in Job : GrowStale(k)
    BY <2>4 DEF GrowStale
  <2>5. QED  BY <2>1, <2>2, <2>3, <2>4 DEF Next
<1>2. Shape /\ [Next]_vars
        => [\A j \in Job : job[j].status \in {"completed", "failed"} => job'[j] = job[j]]_vars
  BY <1>1
<1>3. Init => Shape
  BY ShapeInit
<1>4. Shape /\ [Next]_vars => Shape'
  BY ShapeStep
<1>5. QED  BY <1>2, <1>3, <1>4, PTL DEF Spec, FinishedJobIsFinal

----------------------------------------------------------------------------
(* The job row as a lease.                                                 *)

\* Exclusive jobs and one active job a bill leave no two runs on a bill.
LEMMA LeaseExcludes == Shape /\ Lease => NoOverlap
<1> SUFFICES ASSUME Shape, Lease,
                    NEW r \in Run, NEW s \in Run,
                    Running(r), Running(s), bill[r] = bill[s]
             PROVE  r = s
  BY DEF NoOverlap
<1>1. /\ mine[r] \in Job /\ job[mine[r]].bill = bill[r]
      /\ mine[s] \in Job /\ job[mine[s]].bill = bill[s]
  BY CompletionAssumption DEF Shape, RunsOK, TypeOK, Job
<1>2. Active(mine[r]) /\ Active(mine[s])
  BY DEF Lease, Held
<1>3. mine[r] = mine[s]
  BY <1>1, <1>2 DEF Shape, OneActive
<1>4. QED  BY <1>3 DEF Lease, Exclusive

\* A run takes a job nobody holds, and a held job does not grow stale.
LEMMA LeaseStep ==
  ASSUME ~ RunMayOutliveClaim, Shape, Shape', Lease, [Next]_vars
  PROVE  Lease'
<1> USE CompletionAssumption DEF Shape, TypeOK, Lease, Held, Exclusive, Run, Job, NoJob,
        RunningPc, rows
<1>1. ASSUME NEW r \in Request, NEW b \in Bill, AskCompletion(r, b)
      PROVE  Lease'
  BY <1>1 DEF AskCompletion, Goto, Running, Active
<1>2. ASSUME NEW r \in Request, CreateJob(r)
      PROVE  Lease'
  <2>1. CASE Insert(r)
    <3>1. \A s \in Run : Running(s) => mine[s] # lastJob + 1 /\ mine[s] \in Job
      BY DEF RunsOK
    <3>2. lastJob + 1 \in Job /\ pc[r] = "submit"
      BY <1>2, <2>1 DEF CreateJob, Insert
    <3>3. \A s \in Run : s # r => (Running(s)' <=> Running(s)) /\ mine'[s] = mine[s]
      BY <2>1 DEF Insert, Goto, Running
    <3>4. /\ mine'[r] = lastJob + 1
          /\ job'[lastJob + 1].status = "processing" /\ job'[lastJob + 1].stale = FALSE
          /\ \A j \in Job : j # lastJob + 1 => job'[j] = job[j]
      <4> HIDE DEF Job
      <4>1. QED  BY <2>1, <3>2 DEF Insert
    <3>5. Held'
      <4>1. ASSUME NEW s \in Run, Running(s)', s # r
            PROVE  Active(mine[s])' /\ ~ job'[mine'[s]].stale
        BY <3>1, <3>3, <3>4, <4>1 DEF Active
      <4>2. QED  BY <3>4, <4>1 DEF Active
    <3>6. Exclusive'
      BY <3>1, <3>3, <3>4
    <3>7. QED  BY <3>5, <3>6
  <2>2. CASE \E j \in Job : Coalesce(r, j)
    BY <2>2 DEF Coalesce, End, Goto, Running, Active
  <2>3. QED  BY <1>2, <2>1, <2>2 DEF CreateJob
<1>3. ASSUME NEW t \in Tick, ClaimStuck(t)
      PROVE  Lease'
  <2>1. PICK j \in Stuck :
          /\ job' = [job EXCEPT ![j].attempts = @ + 1, ![j].stale = FALSE]
          /\ mine' = [mine EXCEPT ![t] = j]
    BY <1>3 DEF ClaimStuck
  <2>2. j \in Job /\ Active(j) /\ job[j].stale
    BY DEF Stuck
  <2>3. \A s \in Run : Running(s) => mine[s] # j /\ mine[s] \in Job
    BY <2>2 DEF RunsOK
  <2>4. \A s \in Run : s # t => (Running(s)' <=> Running(s)) /\ mine'[s] = mine[s]
    BY <1>3, <2>1 DEF ClaimStuck, Goto, Running
  <2>5. /\ mine'[t] = j
        /\ job'[j].status = "processing" /\ job'[j].stale = FALSE
        /\ \A k \in Job : k # j => job'[k] = job[k]
    BY <2>1, <2>2 DEF Active, Columns
  <2>6. Held'
    <3>1. ASSUME NEW s \in Run, Running(s)', s # t
          PROVE  Active(mine[s])' /\ ~ job'[mine'[s]].stale
      BY <2>3, <2>4, <2>5, <3>1 DEF Active
    <3>2. QED  BY <2>5, <3>1 DEF Active
  <2>7. Exclusive'
    BY <2>3, <2>4, <2>5
  <2>8. QED  BY <2>6, <2>7
<1>4. ASSUME NEW r \in Run,
             \/ SkipCompleted(r) \/ StartCompletion(r) \/ EarlyReturn(r) \/ RefuseCompletion(r)
             \/ Finalize(r) \/ EnqueuePush(r) \/ EnqueueSwallowed(r) \/ RecordResult(r)
             \/ Raises(r)
      PROVE  Lease'
  <2>1. Running(r) /\ pc' = [pc EXCEPT ![r] = pc'[r]] /\ pc'[r] \in RunningPc
    BY <1>4 DEF SkipCompleted, StartCompletion, EarlyReturn, RefuseCompletion, Finalize,
                EnqueuePush, EnqueueSwallowed, RecordResult, Raises, Goto, Running
  <2>2. UNCHANGED <<job, mine>>
    BY <1>4 DEF SkipCompleted, StartCompletion, EarlyReturn, RefuseCompletion, Finalize,
                EnqueuePush, EnqueueSwallowed, RecordResult, Raises
  <2>3. QED  BY <2>1, <2>2 DEF Running, Active
<1>5. ASSUME NEW r \in Run, MarkSuccess(r) \/ MarkFailure(r)
      PROVE  Lease'
  <2>1. mine[r] \in Job /\ Running(r)
    BY <1>5 DEF MarkSuccess, MarkFailure, RunsOK, Running
  <2>2. \A s \in Run : Running(s)' => s # r /\ Running(s) /\ mine'[s] = mine[s]
    BY <1>5 DEF MarkSuccess, MarkFailure, End, Goto, Running
  <2>3. \A k \in Job : k # mine[r] => job'[k] = job[k]
    BY <1>5, <2>1 DEF MarkSuccess, MarkFailure
  <2>4. \A s \in Run : Running(s)' => mine[s] # mine[r] /\ mine[s] \in Job
    BY <2>1, <2>2 DEF RunsOK
  <2>5. QED  BY <2>2, <2>3, <2>4 DEF Active
<1>6. ASSUME NEW r \in Run, Stop(r)
      PROVE  Lease'
  BY <1>6 DEF Stop, End, Goto, Running, Active
<1>7. ASSUME NEW j \in Job, GrowStale(j)
      PROVE  Lease'
  BY <1>7 DEF GrowStale, Running, Active, Columns
<1>8. CASE UNCHANGED vars
  BY <1>8 DEF vars, Running, Active
<1>9. QED  BY <1>1, <1>2, <1>3, <1>4, <1>5, <1>6, <1>7, <1>8 DEF Next, Complete

\* As long as no run outlives its claim, no two runs work on one bill.
THEOREM RunsDoNotOverlap ==
  ASSUME ~ RunMayOutliveClaim
  PROVE  Spec => []NoOverlap
<1>1. Init => Shape /\ Lease
  BY ShapeInit DEF Init, Lease, Held, Exclusive, Running, RunningPc, Run
<1>2. Shape /\ Lease /\ [Next]_vars => Shape' /\ Lease'
  BY ShapeStep, LeaseStep
<1>3. Shape /\ Lease => NoOverlap
  BY LeaseExcludes
<1>4. QED  BY <1>1, <1>2, <1>3, PTL DEF Spec

----------------------------------------------------------------------------
(* Who owes the push of a completed bill.                                  *)

\* Ownership and the fate of spent jobs are what FinalizedIsOwned says, and more.
LEMMA OwnershipSuffices == Ownership /\ SpentAreKnown => FinalizedIsOwned
<1> SUFFICES ASSUME Ownership, SpentAreKnown, NEW b \in Bill \ draft
             PROVE  \/ b \in queued
                    \/ \E r \in Run : pc[r] = "push" /\ bill[r] = b
                    \/ \E j \in Job : /\ job[j].bill = b
                                      /\ Driven(j) \/ job[j].status = "failed" \/ j \in orphans
  BY DEF FinalizedIsOwned
<1>1. CASE b \in queued
  BY <1>1
<1>2. CASE b \in Pushed
  BY <1>2 DEF Pushed
<1>3. ASSUME NEW j \in Job, job[j].bill = b, job[j].status = "failed" \/ Active(j)
      PROVE  Driven(j) \/ job[j].status = "failed" \/ j \in orphans
  BY <1>3 DEF Driven, SpentAreKnown
<1>4. CASE b \in Served \cup InFlight /\ b \notin queued
  BY <1>3, <1>4 DEF Served, InFlight
<1>5. QED  BY <1>1, <1>2, <1>4 DEF Ownership

\* A run leaves a spent job only by marking it, which closes it, or by dying.
LEMMA SpentStep ==
  ASSUME Shape, Shape', SpentAreKnown, [Next]_vars
  PROVE  SpentAreKnown'
<1> USE CompletionAssumption DEF Shape, TypeOK, Job, Run, NoJob, rows
<1>1. ASSUME orphans' = orphans,
             \A r \in Run : mine'[r] = mine[r] \/ mine[r] = NoJob,
             \A j \in Job : Spent(j)' => Spent(j) \/ \E r \in Run : mine'[r] = j
      PROVE  SpentAreKnown'
  BY <1>1 DEF SpentAreKnown
<1>2. ASSUME NEW r \in Request, CreateJob(r)
      PROVE  SpentAreKnown'
  <2>1. mine[r] = NoJob
    BY <1>2 DEF CreateJob, RunsOK, Running, RunningPc
  <2>2. CASE Insert(r)
    BY <1>1, <2>1, <2>2 DEF Insert, Spent, Active
  <2>3. CASE \E j \in Job : Coalesce(r, j)
    BY <1>1, <2>1, <2>3 DEF Coalesce, End, Spent, Active
  <2>4. QED  BY <1>2, <2>2, <2>3 DEF CreateJob
<1>3. ASSUME NEW t \in Tick, ClaimStuck(t)
      PROVE  SpentAreKnown'
  <2>1. mine[t] = NoJob
    BY <1>3 DEF ClaimStuck, RunsOK, Running, RunningPc
  <2>2. PICK j \in Stuck :
          /\ job' = [job EXCEPT ![j].attempts = @ + 1, ![j].stale = FALSE]
          /\ mine' = [mine EXCEPT ![t] = j]
    BY <1>3 DEF ClaimStuck
  <2>3. mine'[t] = j /\ \A k \in Job : k # j => job'[k] = job[k]
    BY <2>2
  <2>4. orphans' = orphans
    BY <1>3 DEF ClaimStuck
  <2>5. QED  BY <1>1, <2>1, <2>2, <2>3, <2>4 DEF Spent, Active
<1>4. ASSUME NEW r \in Run, MarkSuccess(r) \/ MarkFailure(r)
      PROVE  SpentAreKnown'
  <2>1. PICK m \in Job : m = mine[r]
    BY <1>4 DEF MarkSuccess, MarkFailure, RunsOK, Running, RunningPc
  <2>2. ~ Spent(m)'
    <3>1. CASE ~ Active(m)
      BY <1>4, <2>1, <3>1 DEF MarkSuccess, MarkFailure, Spent, Active
    <3>2. CASE MarkSuccess(r) /\ Active(m)
      BY <2>1, <3>2 DEF MarkSuccess, Spent, Active, Columns
    <3>3. CASE MarkFailure(r) /\ Active(m)
      <4> DEFINE limit == IF pc[r] = "refuse" THEN 1 ELSE MaxAttempts
      <4>1. job'[m] = FailedJob(m, limit)
        BY <2>1, <3>3 DEF MarkFailure
      <4>2. limit \in Nat /\ limit <= MaxAttempts
        OBVIOUS
      <4>3. job[m] \in Columns
        OBVIOUS
      <4> HIDE DEF limit
      <4>4. job'[m].attempts = MaxAttempts => job'[m].status = "failed"
        BY <4>1, <4>2, <4>3 DEF FailedJob, Columns
      <4>5. QED  BY <4>4 DEF Spent, Active
    <3>4. QED  BY <1>4, <3>1, <3>2, <3>3
  <2>3. orphans' = orphans /\ mine' = [mine EXCEPT ![r] = NoJob]
    BY <1>4 DEF MarkSuccess, MarkFailure, End
  <2>4. \A k \in Job : k # m => job'[k] = job[k]
    BY <1>4, <2>1 DEF MarkSuccess, MarkFailure
  <2>5. \A k \in Job : Spent(k)' => k # m /\ Spent(k)
    BY <2>2, <2>4 DEF Spent, Active
  <2>6. \A s \in Run : mine[s] # m => mine'[s] = mine[s]
    BY <2>1, <2>3
  <2>7. QED  BY <2>3, <2>5, <2>6 DEF SpentAreKnown
<1>5. ASSUME NEW r \in Run, Stop(r)
      PROVE  SpentAreKnown'
  <2>1. /\ job' = job
        /\ \A s \in Run : s # r => mine'[s] = mine[s]
        /\ \A j \in Job : j \in orphans' <=> j \in orphans \/ (Spent(j) /\ mine[r] = j)
    BY <1>5 DEF Stop, End
  <2>2. QED  BY <2>1 DEF SpentAreKnown, Spent, Active
<1>6. ASSUME NEW j \in Job, GrowStale(j)
      PROVE  SpentAreKnown'
  BY <1>1, <1>6 DEF GrowStale, Spent, Active, Columns
<1>7. CASE UNCHANGED <<job, mine, orphans>>
  BY <1>1, <1>7 DEF Spent, Active
<1>8. QED
  BY <1>2, <1>3, <1>4, <1>5, <1>6, <1>7
  DEF Next, vars, Complete, AskCompletion, SkipCompleted, StartCompletion, EarlyReturn,
      RefuseCompletion, Finalize, EnqueuePush, EnqueueSwallowed, RecordResult, Raises

\* A bill a run works on is in flight.
LEMMA RunsAreInFlight ==
  ASSUME Shape, Lease, NEW r \in Run, Running(r)
  PROVE  /\ mine[r] \in Job /\ job[mine[r]].bill = bill[r] /\ Active(mine[r])
         /\ bill[r] \in Bill /\ bill[r] \in InFlight
  BY CompletionAssumption
  DEF Shape, TypeOK, RunsOK, RowsOK, Lease, Held, InFlight, Job, Active

\* A step that changes neither the bill nor the status of any job, and starts or
\* ends no enqueue, owes what was owed.
LEMMA SameJobs ==
  ASSUME \A j \in Job : job'[j].bill = job[j].bill /\ job'[j].status = job[j].status,
         queued' = queued
  PROVE  Served' = Served /\ InFlight' = InFlight
  BY DEF Served, InFlight, Active

\* Every step keeps a completed bill owned.
LEMMA OwnershipStep ==
  ASSUME ~ EnqueueMayFail, Shape, Shape', Lease, Ownership, [Next]_vars
  PROVE  Ownership'
<1> USE CompletionAssumption DEF Shape, TypeOK, Run, NoJob, rows
<1>1. NoOverlap
  BY LeaseExcludes
<1>2. Pushed \subseteq InFlight
  BY RunsAreInFlight DEF Pushed, Running, RunningPc
<1>3. Bill \subseteq draft \cup Served \cup InFlight /\ RunsServe
  BY <1>2 DEF Ownership
<1>5. ASSUME NEW r \in Request, NEW b \in Bill, AskCompletion(r, b)
      PROVE  Ownership'
  <2>1. Served' = Served /\ InFlight' = InFlight /\ UNCHANGED <<draft, force>>
    BY <1>5, SameJobs DEF AskCompletion
  <2>2. \A s \in Run : pc'[s] \in RunningPc => pc'[s] = pc[s] /\ bill'[s] = bill[s]
    BY <1>5 DEF AskCompletion, Goto, RunningPc
  <2>3. QED  BY <1>3, <2>1, <2>2 DEF Ownership, RunsServe, RunningPc
<1>6. ASSUME NEW r \in Request, CreateJob(r)
      PROVE  Ownership'
  <2>1. CASE \E j \in Job : Coalesce(r, j)
    <3>1. Served' = Served /\ InFlight' = InFlight /\ UNCHANGED draft
      BY <2>1, SameJobs DEF Coalesce
    <3>2. \A s \in Run : pc'[s] \in RunningPc =>
             pc'[s] = pc[s] /\ bill'[s] = bill[s] /\ (s \notin force' => s \notin force)
      BY <2>1 DEF Coalesce, End, Goto, RunningPc
    <3>3. QED  BY <1>3, <3>1, <3>2 DEF Ownership, RunsServe, RunningPc
  <2>2. CASE /\ \A j \in Job : Active(j) => job[j].bill # bill[r]
             /\ Insert(r)
    <3>1. /\ lastJob + 1 \in Job /\ pc[r] = "submit" /\ bill[r] \in Bill
          /\ job[lastJob + 1] = AbsentJob
      BY <1>6, <2>2 DEF CreateJob, Insert, RunsOK, RowsOK, Job
    <3>2. /\ UNCHANGED <<draft, queued, bill, force>>
          /\ \A j \in Job : j # lastJob + 1 => job'[j] = job[j]
          /\ \A s \in Run : s # r => pc'[s] = pc[s]
          /\ pc'[r] = "start"
      BY <2>2, <3>1 DEF Insert, Goto
    <3>3. \A j \in Job : job[j].status \in {"failed", "processing"} => job'[j] = job[j]
      BY <3>1, <3>2 DEF AbsentJob
    <3>4. Served \subseteq Served' /\ InFlight \subseteq InFlight'
      BY <3>2, <3>3 DEF Served, InFlight, Active
    <3>5. bill[r] \in draft \cup Served
      BY <1>3, <2>2, <3>1 DEF InFlight
    <3>6. RunsServe'
      BY <1>3, <3>2, <3>4, <3>5 DEF RunsServe
    <3>7. QED  BY <1>3, <3>2, <3>4, <3>6 DEF Ownership
  <2>3. QED  BY <1>6, <2>1, <2>2 DEF CreateJob
<1>7. ASSUME NEW t \in Tick, ClaimStuck(t)
      PROVE  Ownership'
  <2>1. PICK j \in Stuck : job' = [job EXCEPT ![j].attempts = @ + 1, ![j].stale = FALSE]
    BY <1>7 DEF ClaimStuck
  <2>2. \A k \in Job : job'[k].bill = job[k].bill /\ job'[k].status = job[k].status
    BY <2>1 DEF Stuck, Columns
  <2>3. /\ UNCHANGED <<draft, queued>>
        /\ force' = force \cup {t} /\ pc'[t] = "start"
        /\ \A s \in Run : s # t => pc'[s] = pc[s] /\ bill'[s] = bill[s]
    BY <1>7 DEF ClaimStuck, Goto
  <2>4. Served' = Served /\ InFlight' = InFlight
    BY <2>2, <2>3, SameJobs
  <2>5. RunsServe'
    BY <1>3, <2>3, <2>4 DEF RunsServe
  <2>6. QED  BY <1>3, <2>3, <2>4, <2>5 DEF Ownership
<1>8. ASSUME NEW r \in Run,
             \/ SkipCompleted(r) \/ StartCompletion(r) \/ EarlyReturn(r) \/ RefuseCompletion(r)
             \/ Finalize(r) \/ EnqueuePush(r) \/ RecordResult(r) \/ Raises(r)
      PROVE  Ownership'
  <2>1. Running(r)
    BY <1>8 DEF SkipCompleted, StartCompletion, EarlyReturn, RefuseCompletion, Finalize,
                EnqueuePush, RecordResult, Raises, Running, RunningPc
  <2>2. /\ UNCHANGED <<job, bill, force>>
        /\ \A s \in Run : s # r => pc'[s] = pc[s]
        /\ queued \subseteq queued'
        /\ draft \ {bill[r]} \subseteq draft'
    BY <1>8 DEF SkipCompleted, StartCompletion, EarlyReturn, RefuseCompletion, Finalize,
                EnqueuePush, RecordResult, Raises, Goto
  <2>3. Served \subseteq Served' /\ InFlight' = InFlight
    BY <2>2 DEF Served, InFlight, Active
  <2>4. bill[r] \in InFlight
    BY <2>1, RunsAreInFlight
  <2>5. \A s \in Run : s # r /\ Running(s) => bill[s] # bill[r]
    BY <1>1, <2>1 DEF NoOverlap
  <2>6. pc'[r] # "start" /\ (pc'[r] \in {"record", "succeed"} => bill[r] \in Served')
    <3>1. CASE SkipCompleted(r)
      BY <1>3, <2>3, <3>1 DEF SkipCompleted, Goto, RunsServe
    <3>2. CASE EnqueuePush(r)
      BY <3>2 DEF EnqueuePush, Goto, Served
    <3>3. CASE RecordResult(r)
      BY <1>3, <2>3, <3>3 DEF RecordResult, Goto, RunsServe
    <3>4. QED
      BY <1>8, <3>1, <3>2, <3>3
      DEF StartCompletion, EarlyReturn, RefuseCompletion, Finalize, Raises, Goto
  <2>7. RunsServe'
    <3>1. \A s \in Run : s # r /\ pc'[s] = "start" /\ s \notin force'
                            => bill'[s] \in draft' \cup Served'
      BY <1>3, <2>2, <2>3, <2>5 DEF RunsServe, Running, RunningPc
    <3>2. \A s \in Run : s # r /\ pc'[s] \in {"record", "succeed"} => bill'[s] \in Served'
      BY <1>3, <2>2, <2>3 DEF RunsServe
    <3>3. QED  BY <2>2, <2>6, <3>1, <3>2 DEF RunsServe
  <2>8. QED  BY <1>3, <2>2, <2>3, <2>4, <2>7 DEF Ownership
<1>9. ASSUME NEW r \in Run, MarkSuccess(r) \/ MarkFailure(r)
      PROVE  Ownership'
  <2>1. Running(r) /\ (MarkSuccess(r) => bill[r] \in Served)
    BY <1>3, <1>9 DEF MarkSuccess, MarkFailure, Running, RunningPc, RunsServe
  <2>2. mine[r] \in Job /\ job[mine[r]].bill = bill[r] /\ Active(mine[r]) /\ bill[r] \in Bill
    BY <2>1, RunsAreInFlight
  <2>3. /\ UNCHANGED <<draft, queued>>
        /\ \A k \in Job : k # mine[r] => job'[k] = job[k]
        /\ \A s \in Run : s # r =>
              pc'[s] = pc[s] /\ bill'[s] = bill[s] /\ (s \in force' <=> s \in force)
        /\ pc'[r] = "idle"
    BY <1>9 DEF MarkSuccess, MarkFailure, End, Goto
  <2>4. Served \subseteq Served'
    BY <2>2, <2>3 DEF Served, Active
  <2>5. InFlight \ {bill[r]} \subseteq InFlight'
    BY <2>2, <2>3 DEF InFlight, Active
  <2>6. bill[r] \in Served' \cup InFlight'
    <3>1. CASE MarkSuccess(r)
      BY <2>1, <2>4, <3>1
    <3>2. CASE MarkFailure(r)
      <4>1. job[mine[r]] \in Columns
        BY <2>2
      <4>2. /\ job'[mine[r]].bill = bill[r]
            /\ job'[mine[r]].status \in {"failed", "processing"}
        BY <2>2, <3>2, <4>1 DEF MarkFailure, FailedJob, Columns
      <4>3. QED  BY <2>2, <4>2 DEF Served, InFlight, Active
    <3>3. QED  BY <1>9, <3>1, <3>2
  <2>7. RunsServe'
    BY <1>3, <2>3, <2>4 DEF RunsServe
  <2>8. QED  BY <1>3, <2>3, <2>4, <2>5, <2>6, <2>7 DEF Ownership
<1>10. ASSUME NEW r \in Run, Stop(r)
       PROVE  Ownership'
  <2>1. Served' = Served /\ InFlight' = InFlight /\ UNCHANGED draft
    BY <1>10, SameJobs DEF Stop
  <2>2. /\ \A s \in Run : s # r =>
              pc'[s] = pc[s] /\ bill'[s] = bill[s] /\ (s \in force' <=> s \in force)
        /\ pc'[r] = "idle"
    BY <1>10 DEF Stop, End, Goto
  <2>3. RunsServe'
    BY <1>3, <2>1, <2>2 DEF RunsServe
  <2>4. QED  BY <1>3, <2>1, <2>3 DEF Ownership
<1>11. ASSUME NEW j \in Job, GrowStale(j)
       PROVE  Ownership'
  <2>1. /\ UNCHANGED <<draft, queued, pc, bill, force>>
        /\ \A k \in Job : job'[k].bill = job[k].bill /\ job'[k].status = job[k].status
    BY <1>11 DEF GrowStale, Columns
  <2>2. Served' = Served /\ InFlight' = InFlight
    BY <2>1, SameJobs
  <2>3. QED  BY <1>3, <2>1, <2>2 DEF Ownership, RunsServe
<1>12. CASE UNCHANGED vars
  <2>1. Served' = Served /\ InFlight' = InFlight
    BY <1>12, SameJobs DEF vars
  <2>2. QED  BY <1>3, <1>12, <2>1 DEF vars, Ownership, RunsServe
<1>13. \A r \in Run : ~ EnqueueSwallowed(r)
  BY DEF EnqueueSwallowed
<1>14. QED
  BY <1>5, <1>6, <1>7, <1>8, <1>9, <1>10, <1>11, <1>12, <1>13 DEF Next, Complete

\* As long as no run outlives its claim and no enqueue fails, a completed bill is in
\* the outbox or about to be, or a job that is driven owes it, or a failed job shows
\* it: all but the bills of jobs whose last permitted run died.
THEOREM FinalizedBillsAreOwned ==
  ASSUME ~ RunMayOutliveClaim, ~ EnqueueMayFail
  PROVE  Spec => []FinalizedIsOwned
<1> DEFINE Owed == Shape /\ Lease /\ Ownership /\ SpentAreKnown
<1>1. Init => Owed
  <2>1. Init => Shape
    BY ShapeInit
  <2>2. Init => Lease
    BY DEF Init, Lease, Held, Exclusive, Running, RunningPc, Run
  <2>3. Init => Ownership
    BY DEF Init, Ownership, RunsServe, Run
  <2>4. Init => SpentAreKnown
    BY DEF Init, SpentAreKnown, Spent, Active, AbsentJob
  <2>5. QED  BY <2>1, <2>2, <2>3, <2>4
<1>2. Owed /\ [Next]_vars => Owed'
  BY ShapeStep, LeaseStep, OwnershipStep, SpentStep
<1>3. Owed => FinalizedIsOwned
  BY OwnershipSuffices
<1>4. QED  BY <1>1, <1>2, <1>3, PTL DEF Spec

=============================================================================
