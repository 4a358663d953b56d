-------------------------- MODULE BoxOutboxProofs --------------------------
(***************************************************************************)
(* Proofs about BoxOutbox, for any documents, folders, lines, invoices and *)
(* workers and any bounds, in three parts: the types, with what a worker   *)
(* knows of the file it writes (Typed, FolderInv); the worksheet and its   *)
(* cache (BookInv); and, when no two attachments share a name, what a done *)
(* upload has filed (FiledInv).                                            *)
(***************************************************************************)
EXTENDS BoxOutbox, SequenceTheorems, TLAPS

USE BoxAssumption

-----------------------------------------------------------------------------
(* The invariants *)

Statuses  == {"pending", "in_progress", "failed", "done", "dead"}
Ats       == {"idle", "guard", "post", "version", "register", "plan", "hold", "meta", "take",
              "edit", "put", "note", "unlock", "record", "settle"}
UploadAts == {"guard", "post", "version", "register"}
ExcelAts  == {"plan", "hold", "meta", "take", "edit", "put", "note", "unlock", "record"}
Endings   == {"done", "fail", "dead"}

\* An upload is of an attachment into a folder; a workbook edit is of no attachment.
Jobs == {job \in Job : IF job.kind = "upload" THEN job.doc \in Doc /\ job.folder \in Folder
                                              ELSE job.doc = None}
RowType == [job : Jobs, by : Worker \cup {None}, attempts : 0 .. MaxAttempts, status : Statuses]
Book    == [rows : [Line -> Nat], tag : [Line -> Invoice \cup {None}], human : Nat]
Works   == [at : Ats, row : Nat, job : Jobs \cup {None}, plan : SUBSET Line, current : BOOLEAN,
            bytes : Book \cup {None}, whole : BOOLEAN, end : Endings \cup {None}]

RowsOK  == /\ rows \in Seq(RowType) /\ Len(rows) <= MaxRow
           /\ \A r \in DOMAIN rows : Open(r) => rows[r].attempts < MaxAttempts
AskedOK == asked # None => /\ asked \in [row : Nat, current : BOOLEAN, job : Jobs]
                           /\ asked.row \in DOMAIN rows /\ asked.job.kind = "upload"
FilesOK == files \in [Folder \X Name -> File \cup {None}]
SheetOK == sheet \in [rows : [Line -> Nat], tag : [Line -> Invoice \cup {None}], human : Nat,
                      lock : {None, "ours", "person"}]
CacheOK == cache \in [Invoice \cup {None} -> [kind : Kind, lines : SUBSET Line] \cup {None}]
LinkOK  == link \in [Line -> Invoice \cup {None}] /\ paper \in [Line -> Invoice \cup {None}]
LocksOK == drain \in Worker \cup {None} /\ hold \in Worker \cup {None}
CountOK == moves \in 0 .. MaxMove /\ touches \in 0 .. MaxTouch /\ trouble \in 0 .. MaxTrouble

\* What a worker does fits the row it has claimed.
Fits(me) ==
    me.at # "idle" =>
        /\ me.row \in DOMAIN rows /\ me.job \in Jobs
        /\ me.at \in UploadAts => me.job.kind = "upload"
        /\ me.at \in ExcelAts => me.job.kind # "upload"
        /\ me.at = "put" => me.bytes \in Book
        /\ me.at \in {"unlock", "record", "settle"} => me.end \in Endings
WorkOK == work \in [Worker -> Works] /\ \A w \in Worker : Fits(work[w])

Typed == /\ RowsOK /\ AskedOK /\ FilesOK /\ SheetOK /\ CacheOK /\ LinkOK /\ LocksOK /\ CountOK
         /\ WorkOK

\* A line has one row or none.
Single(r) == r \in [Line -> 0 .. 1]

\* What is to be put is built on what the workbook holds, if the etag still does; what was
\* found whole is in the worksheet from the put on.
EditOK(me) ==
    /\ me.at = "put" =>
          /\ Single(me.bytes.rows)
          /\ me.current => /\ me.bytes.human = sheet.human
                           /\ Present(sheet) \subseteq Present(me.bytes)
          /\ me.whole => me.plan \subseteq Present(me.bytes)
    /\ me.at \in {"note", "record"} \/ (me.at = "unlock" /\ me.end = "done") =>
          (me.whole => me.plan \subseteq Present(sheet))

BookInv == /\ Single(sheet.rows)
           /\ \A w \in Worker : EditOK(work[w])
           /\ CacheIsEarned

\* A worker gives a new version to a registered file only, and registers a written one.
UploadOK(me) ==
    /\ me.at = "version" => /\ files[Slot(me.job)] # None
                            /\ files[Slot(me.job)].registered # None
    /\ me.at = "register" => /\ files[Slot(me.job)] # None
                             /\ files[Slot(me.job)].content # None

FolderInv == /\ \A s \in DOMAIN files :
                   files[s] # None /\ files[s].registered # None => files[s].content # None
             /\ \A w \in Worker : UploadOK(work[w])

\* The document is in its folder, and registered.
Filed(job) == files[Slot(job)] = [content |-> job.doc, registered |-> job.doc]

\* What a worker has written, or found done, is filed; the row it owns asks for its job.
FiledOK(me, w) ==
    /\ me.at = "register" => files[Slot(me.job)].content = me.job.doc
    /\ me.at = "settle" /\ me.end = "done" /\ me.job.kind = "upload" => Filed(me.job)
    /\ me.at # "idle" /\ Owns(w, me.row) => rows[me.row].job = me.job

\* No two attachments are filed under one name.
NamesOwn == \A c, d \in Doc : NameOf[c] = NameOf[d] => c = d

\* A file has the name of the documents it was given.
Named(s) == files[s] # None =>
               /\ files[s].content # None => NameOf[files[s].content] = s[2]
               /\ files[s].registered # None => NameOf[files[s].registered] = s[2]

FiledInv == /\ \A s \in DOMAIN files : Named(s)
            /\ \A w \in Worker : FiledOK(work[w], w)
            /\ asked # None /\ asked.current => Open(asked.row)
            /\ DoneIsFiled

-----------------------------------------------------------------------------
(* Rows *)

\* Typed is the type invariant of the model, and more.
LEMMA TypedIsTypeOK == Typed => TypeOK
<1> SUFFICES ASSUME Typed PROVE TypeOK
  OBVIOUS
<1> DEFINE T == [job : Job, by : Worker \cup {None}, attempts : 0 .. MaxAttempts,
                 status : {"pending", "in_progress", "failed", "done", "dead"}]
<1>1. rows \in Seq(T)
  <2>1. RowType \subseteq T
    BY DEF RowType, Jobs, Statuses
  <2>2. rows \in Seq(RowType)
    BY DEF Typed, RowsOK
  <2> HIDE DEF T
  <2> QED BY <2>1, <2>2, SeqMonotonic
<1>2. asked = None \/ asked.job \in Job
  BY DEF Typed, AskedOK, Jobs
<1> QED BY <1>1, <1>2
    DEF Typed, TypeOK, RowsOK, FilesOK, SheetOK, LinkOK, LocksOK, CountOK

\* The rows are numbered from 1 and are of their type.
LEMMA RowsAre ==
    ASSUME RowsOK
    PROVE  /\ Len(rows) \in Nat /\ DOMAIN rows = 1 .. Len(rows)
           /\ \A r \in DOMAIN rows : rows[r] \in RowType
<1>1. rows \in Seq(RowType)
  BY DEF RowsOK
<1>2. Len(rows) \in Nat /\ DOMAIN rows = 1 .. Len(rows)
  BY <1>1, LenProperties
<1> QED BY <1>1, <1>2, ElementOfSeq

\* A new row changes no other.
LEMMA AppendRow ==
    ASSUME RowsOK, NEW job \in Jobs, Append1(job)
    PROVE  /\ RowsOK' /\ DOMAIN rows \subseteq DOMAIN rows'
           /\ \A r \in DOMAIN rows : rows'[r] = rows[r]
           /\ \A r \in DOMAIN rows' : r \in DOMAIN rows \/ rows'[r] = Row(job)
<1>1. Row(job) \in RowType /\ Row(job).attempts < MaxAttempts
  BY DEF Row, RowType, Statuses
<1>2. rows \in Seq(RowType) /\ rows' = Append(rows, Row(job)) /\ Len(rows) < MaxRow
  BY DEF RowsOK, Append1
<1> HIDE DEF Row
<1>3. /\ rows' \in Seq(RowType) /\ Len(rows') = Len(rows) + 1
      /\ \A r \in 1 .. Len(rows) : rows'[r] = rows[r]
      /\ rows'[Len(rows) + 1] = Row(job)
  BY <1>1, <1>2, AppendProperties
<1>4. Len(rows) \in Nat /\ DOMAIN rows = 1 .. Len(rows)
  BY RowsAre
<1>5. DOMAIN rows' = 1 .. Len(rows) + 1
  BY <1>3, LenProperties
<1>6. \A r \in DOMAIN rows' : r \in DOMAIN rows \/ rows'[r] = Row(job)
  BY <1>3, <1>4, <1>5
<1>7. \A r \in DOMAIN rows' : Open(r)' => rows'[r].attempts < MaxAttempts
  BY <1>1, <1>3, <1>4, <1>5, <1>6 DEF RowsOK, Open
<1> QED BY <1>2, <1>3, <1>4, <1>5, <1>6, <1>7 DEF RowsOK

\* A row that takes another value of its type changes no other.
LEMMA ChangeRow ==
    ASSUME RowsOK, NEW r \in DOMAIN rows, NEW row \in RowType, rows' = [rows EXCEPT ![r] = row],
           row.status \in {"pending", "failed"} => row.attempts < MaxAttempts
    PROVE  /\ RowsOK' /\ DOMAIN rows' = DOMAIN rows /\ rows'[r] = row
           /\ \A q \in DOMAIN rows : q # r => rows'[q] = rows[q]
<1>1. rows \in Seq(RowType) /\ Len(rows) \in Nat /\ DOMAIN rows = 1 .. Len(rows)
  BY RowsAre DEF RowsOK
<1>2. /\ rows' \in Seq(RowType) /\ Len(rows') = Len(rows)
      /\ \A q \in 1 .. Len(rows) : rows'[q] = IF q = r THEN row ELSE rows[q]
  BY <1>1, ExceptSeq
<1>3. DOMAIN rows' = 1 .. Len(rows)
  BY <1>2, LenProperties
<1>4. \A q \in DOMAIN rows' : Open(q)' => rows'[q].attempts < MaxAttempts
  BY <1>1, <1>2, <1>3 DEF RowsOK, Open
<1> QED BY <1>1, <1>2, <1>3, <1>4 DEF RowsOK

\* What completion may ask for.
LEMMA JobTypes ==
    /\ \A d \in Doc, f \in Folder : Upload(d, f) \in Jobs /\ Upload(d, f).kind = "upload"
    /\ Excel("insert", None, {}) \in Jobs
    /\ \A i \in Invoice, ls \in SUBSET Line, k \in {"stamp", "clear"} : Excel(k, i, ls) \in Jobs
BY DEF Upload, Excel, Jobs, Job, Kind

\* A claimed row is of its type: an open row has an attempt left.
LEMMA ClaimRowType ==
    ASSUME RowsOK, NEW r \in DOMAIN rows, NEW w \in Worker, Open(r)
    PROVE  [rows[r] EXCEPT !.status = "in_progress", !.by = w, !.attempts = @ + 1] \in RowType
<1>1. rows[r] \in RowType /\ rows[r].attempts < MaxAttempts /\ rows[r].attempts \in 0 .. MaxAttempts
  BY RowsAre DEF RowsOK, RowType
<1>2. rows[r].attempts + 1 \in 0 .. MaxAttempts
  BY <1>1
<1> QED BY <1>1, <1>2 DEF RowType, Statuses

\* A settled row is of its type, and is retried only if an attempt is left.
LEMMA SettledRowType ==
    ASSUME RowsOK, NEW r \in DOMAIN rows, NEW end
    PROVE  /\ [rows[r] EXCEPT !.status = Verdict(r, end), !.by = None] \in RowType
           /\ Verdict(r, end) \in {"done", "dead", "failed"}
           /\ Verdict(r, end) = "failed" => rows[r].attempts < MaxAttempts
           /\ Verdict(r, end) = "done" => end = "done"
<1>1. rows[r] \in RowType /\ rows[r].attempts \in 0 .. MaxAttempts
  BY RowsAre DEF RowType
<1>2. Verdict(r, end) \in {"done", "dead", "failed"}
  BY DEF Verdict
<1>3. Verdict(r, end) = "failed" => rows[r].attempts < MaxAttempts
  BY <1>1 DEF Verdict, Exhausted
<1>4. Verdict(r, end) = "done" => end = "done"
  BY DEF Verdict
<1> QED BY <1>1, <1>2, <1>3, <1>4 DEF RowType, Statuses

\* So is a row with another target.
LEMMA MovedRowType ==
    ASSUME RowsOK, NEW r \in DOMAIN rows, NEW job \in Jobs
    PROVE  /\ [rows[r] EXCEPT !.job = job] \in RowType
           /\ [rows[r] EXCEPT !.job = job].status = rows[r].status
           /\ [rows[r] EXCEPT !.job = job].attempts = rows[r].attempts
BY RowsAre DEF RowType

\* What a step of a worker may change, apart from its own work.
LEMMA WorkerFrame ==
    ASSUME NEW w \in Worker, Step(w) \/ Outage(w) \/ Crash(w) \/ LoseLocks(w) \/ Claim(w)
    PROVE  /\ rows' = rows \/ Settle(w) \/ Claim(w)
           /\ asked' = asked \/ Claim(w)
           /\ files' = files \/ Post(w) \/ Version(w) \/ Register(w)
           /\ sheet' = sheet \/ Take(w) \/ Put(w) \/ Unlock(w)
           /\ cache' = cache \/ Record(w)
           /\ link' = link /\ paper' = paper /\ moves' = moves /\ touches' = touches
           /\ drain' \in {drain, w, None} /\ hold' \in {hold, w, None}
<1>1. CASE Guard(w)
  BY <1>1 DEF Guard
<1>2. CASE Post(w)
  BY <1>2 DEF Post, Answered
<1>3. CASE Conflict(w)
  BY <1>3 DEF Conflict
<1>4. CASE Version(w)
  BY <1>4 DEF Version, Answered
<1>5. CASE Register(w)
  BY <1>5 DEF Register
<1>6. CASE Plan(w)
  BY <1>6 DEF Plan
<1>7. CASE Hold(w)
  BY <1>7 DEF Hold
<1>8. CASE Meta(w)
  BY <1>8 DEF Meta, LeaveHold
<1>9. CASE Take(w)
  BY <1>9 DEF Take, LeaveHold
<1>10. CASE Edit(w)
  BY <1>10 DEF Edit
<1>11. CASE Put(w)
  BY <1>11 DEF Put
<1>12. CASE Note(w)
  BY <1>12 DEF Note
<1>13. CASE Unlock(w)
  BY <1>13 DEF Unlock, LeaveHold
<1>14. CASE Record(w)
  BY <1>14 DEF Record
<1>15. CASE Settle(w)
  BY <1>15 DEF Settle
<1>16. CASE Outage(w)
  BY <1>16 DEF Outage, LeaveHold
<1>17. CASE Crash(w)
  BY <1>17 DEF Crash, LeaveHold
<1>18. CASE LoseLocks(w)
  BY <1>18 DEF LoseLocks
<1>19. CASE Claim(w)
  BY <1>19 DEF Claim
<1> QED BY <1>1, <1>2, <1>3, <1>4, <1>5, <1>6, <1>7, <1>8, <1>9, <1>10,
          <1>11, <1>12, <1>13, <1>14, <1>15, <1>16, <1>17, <1>18, <1>19 DEF Step

\* The rows stay of their type, and none disappears.
LEMMA RowsStep ==
    ASSUME Typed, Next
    PROVE  RowsOK' /\ DOMAIN rows \subseteq DOMAIN rows'
<1>1. RowsOK /\ AskedOK /\ DOMAIN rows = 1 .. Len(rows)
  BY RowsAre DEF Typed
<1>2. \A job \in Jobs : Append1(job) => RowsOK' /\ DOMAIN rows \subseteq DOMAIN rows'
  BY <1>1, AppendRow
<1>3. CASE rows' = rows
  BY <1>1, <1>3 DEF RowsOK, Open
<1>4. ASSUME NEW t \in Targets, AskUpload(t[1], t[2])
      PROVE  RowsOK' /\ DOMAIN rows \subseteq DOMAIN rows'
  <2>1. t[1] \in Doc /\ t[2] \in Folder
    OBVIOUS
  <2>2. Upload(t[1], t[2]) \in Jobs
    BY <2>1, JobTypes
  <2> QED BY <1>2, <1>3, <1>4, <2>2 DEF AskUpload
<1>5. CASE CoalesceUpload
  <2>1. asked # None
    BY <1>5 DEF CoalesceUpload
  <2>2. asked.row \in DOMAIN rows /\ asked.job \in Jobs
    BY <1>1, <2>1 DEF AskedOK
  <2>3. CASE rows' = [rows EXCEPT ![asked.row].job = asked.job]
    <3> DEFINE row == [rows[asked.row] EXCEPT !.job = asked.job]
    <3>1. rows' = [rows EXCEPT ![asked.row] = row]
      BY <2>3
    <3>2. row \in RowType /\ row.status = rows[asked.row].status
          /\ row.attempts = rows[asked.row].attempts
      BY <1>1, <2>2, MovedRowType
    <3>3. row.status \in {"pending", "failed"} => row.attempts < MaxAttempts
      BY <1>1, <2>2, <3>2 DEF RowsOK, Open
    <3> HIDE DEF row
    <3> QED BY <1>1, <2>2, <3>1, <3>2, <3>3, ChangeRow
  <2> QED BY <1>3, <1>5, <2>3 DEF CoalesceUpload
<1>6. CASE AskInsert
  BY <1>2, <1>6, JobTypes DEF AskInsert
<1>7. ASSUME NEW i \in Invoice, AskStamp(i) \/ AskClear(i)
      PROVE  RowsOK' /\ DOMAIN rows \subseteq DOMAIN rows'
  <2>1. Append1(Excel("stamp", i, {})) \/ \E ls \in SUBSET Line : Append1(Excel("clear", i, ls))
    BY <1>7 DEF AskStamp, AskClear
  <2>2. ASSUME NEW ls \in SUBSET Line, NEW k \in {"stamp", "clear"}, Append1(Excel(k, i, ls))
        PROVE  RowsOK' /\ DOMAIN rows \subseteq DOMAIN rows'
    <3>1. Excel(k, i, ls) \in Jobs
      BY JobTypes
    <3> QED BY <1>2, <2>2, <3>1
  <2> QED BY <2>1, <2>2
<1>8. ASSUME NEW w \in Worker, Claim(w) PROVE RowsOK' /\ DOMAIN rows \subseteq DOMAIN rows'
  <2>1. PICK r \in DOMAIN rows :
           /\ Open(r)
           /\ rows' = [rows EXCEPT ![r].status = "in_progress", ![r].by = w, ![r].attempts = @ + 1]
    BY <1>8 DEF Claim
  <2> DEFINE row == [rows[r] EXCEPT !.status = "in_progress", !.by = w, !.attempts = @ + 1]
  <2>2. rows' = [rows EXCEPT ![r] = row] /\ row \in RowType /\ row.status = "in_progress"
    BY <1>1, <2>1, ClaimRowType, RowsAre DEF RowType
  <2> HIDE DEF row
  <2> QED BY <1>1, <2>2, ChangeRow
<1>9. ASSUME NEW r \in DOMAIN rows, NEW end,
             rows' = [rows EXCEPT ![r].status = Verdict(r, end), ![r].by = None]
      PROVE  RowsOK' /\ DOMAIN rows \subseteq DOMAIN rows'
  <2> DEFINE row == [rows[r] EXCEPT !.status = Verdict(r, end), !.by = None]
  <2>1. rows' = [rows EXCEPT ![r] = row]
    BY <1>9
  <2>2. row \in RowType /\ row.status = Verdict(r, end) /\ row.attempts = rows[r].attempts
    BY <1>1, SettledRowType, RowsAre DEF RowType
  <2>3. row.status \in {"pending", "failed"} => row.attempts < MaxAttempts
    BY <1>1, <2>2, SettledRowType
  <2> HIDE DEF row
  <2> QED BY <1>1, <2>1, <2>2, <2>3, ChangeRow
<1>10. ASSUME NEW w \in Worker, Settle(w) PROVE RowsOK' /\ DOMAIN rows \subseteq DOMAIN rows'
  <2>1. work[w].row \in DOMAIN rows
    BY <1>10 DEF Typed, WorkOK, Fits, Settle
  <2> QED BY <1>3, <1>9, <1>10, <2>1 DEF Settle, Mark
<1>11. CASE ReclaimSome
  BY <1>9, <1>11 DEF ReclaimSome, Reclaim
<1>12. ASSUME NEW w \in Worker, Step(w) \/ Outage(w) \/ Crash(w) \/ LoseLocks(w)
       PROVE  Settle(w) \/ Claim(w) \/ rows' = rows
  BY <1>12, WorkerFrame
<1>13. PersonOpens \/ PersonSaves \/ LockEnds => rows' = rows
  BY DEF PersonOpens, PersonSaves, LockEnds
<1>14. (\E s \in DOMAIN files : PersonFiles(s))
       \/ (\E l \in Line, i \in Invoice \cup {None} : Relink(l, i)) => rows' = rows
  BY DEF PersonFiles, Relink
<1> QED BY <1>3, <1>4, <1>5, <1>6, <1>7, <1>8, <1>10, <1>11, <1>12, <1>13, <1>14
    DEF Next, ClaimSome

-----------------------------------------------------------------------------
(* What a worker does next *)

\* A step gives w other work; the etags the others know may have become stale.
Moves(w, me) ==
    /\ work'[w] = me
    /\ work' = [x \in Worker |-> work'[x]]
    /\ \A x \in Worker : x # w =>
          work'[x] = work[x] \/ work'[x] = [work[x] EXCEPT !.current = FALSE]

\* The work of w at another stage, ended, or given up on the way back.
At(w, at)       == [work[w] EXCEPT !.at = at]
AtEnd(w, end)   == [work[w] EXCEPT !.at = "settle", !.end = end]
Back(w, end)    == [work[w] EXCEPT !.at = "unlock", !.end = end, !.bytes = None]
Current(me, c)  == [me EXCEPT !.current = c]

\* A step that gives w the work me, and touches nobody else's ...
LEMMA WorkSet ==
    ASSUME WorkOK, NEW w \in Worker, NEW me, work' = [work EXCEPT ![w] = me]
    PROVE  Moves(w, me)
BY DEF WorkOK, Moves

\* ... and one that moves the etag as well.
LEMMA WorkBumped ==
    ASSUME WorkOK, NEW w \in Worker, NEW me, NEW v \in {w, None},
           work' = Bumped(v, [work EXCEPT ![w] = me])
    PROVE  Moves(w, Current(me, v = w))
<1>1. work \in [Worker -> Works]
  BY DEF WorkOK
<1>2. work' = [x \in Worker |-> [[work EXCEPT ![w] = me][x] EXCEPT !.current = (x = v)]]
  BY DEF Bumped
<1>3. work'[w] = Current(me, v = w)
  BY <1>1, <1>2 DEF Current
<1>4. work' = [x \in Worker |-> work'[x]]
  BY <1>2
<1>5. ASSUME NEW x \in Worker, x # w PROVE work'[x] = [work[x] EXCEPT !.current = FALSE]
  <2>1. (x = v) = FALSE
    BY <1>5
  <2> QED BY <1>1, <1>2, <1>5, <2>1
<1> QED BY <1>3, <1>4, <1>5 DEF Moves

\* Where the steps of an upload lead ...
LEMMA UploadMoves ==
    ASSUME WorkOK, NEW w \in Worker
    PROVE  /\ Guard(w) => \/ Moves(w, At(w, "post")) \/ Moves(w, AtEnd(w, "done"))
                          \/ Moves(w, AtEnd(w, "dead"))
           /\ Post(w) => Moves(w, At(w, "register")) \/ Moves(w, AtEnd(w, "fail"))
           /\ Conflict(w) => Moves(w, At(w, "version")) \/ Moves(w, AtEnd(w, "dead"))
           /\ Version(w) => Moves(w, At(w, "register")) \/ Moves(w, AtEnd(w, "fail"))
           /\ Register(w) => Moves(w, AtEnd(w, "done")) \/ Moves(w, AtEnd(w, "dead"))
<1>1. \A at : To(w, at) => Moves(w, At(w, at))
  BY WorkSet DEF To, At, WorkOK
<1>2. \A end : Ends(w, end) => Moves(w, AtEnd(w, end))
  BY WorkSet DEF Ends, AtEnd, WorkOK
<1> QED BY <1>1, <1>2 DEF Guard, Post, Conflict, Version, Register, Answered

\* What the stages of an edit make of the work of w.
Planned(w)   == [work[w] EXCEPT !.at = "hold", !.plan = PlanOf(work[w].job)]
EditOf(w)    == Edited(work[w].job, work[w].plan, Bytes)
EditDone(w)  == [work[w] EXCEPT !.whole = Whole(work[w].job, work[w].plan, Bytes),
                                !.bytes = None, !.at = "unlock", !.end = "done"]
EditBegun(w) == [work[w] EXCEPT !.whole = Whole(work[w].job, work[w].plan, Bytes),
                                !.bytes = EditOf(w), !.at = "put", !.end = None]
PutDone(w)   == [work[w] EXCEPT !.at = "note", !.bytes = None]
Left(w)      == At(w, IF work[w].end = "done" THEN "record" ELSE "settle")

\* ... those of an edit of the workbook ...
LEMMA EditMoves ==
    ASSUME WorkOK, NEW w \in Worker
    PROVE  /\ Plan(w) => Moves(w, AtEnd(w, "done")) \/ Moves(w, Planned(w))
           /\ Hold(w) => Moves(w, At(w, "meta")) \/ Moves(w, AtEnd(w, "fail"))
           /\ Meta(w) => Moves(w, AtEnd(w, "fail")) \/ Moves(w, Current(At(w, "take"), TRUE))
           /\ Take(w) => \/ Moves(w, Current(At(w, "edit"), TRUE))
                         \/ /\ sheet' = sheet
                            /\ Moves(w, AtEnd(w, "dead")) \/ Moves(w, AtEnd(w, "fail"))
           /\ Edit(w) => \/ EditOf(w) = Bytes /\ Moves(w, EditDone(w))
                         \/ EditOf(w) # Bytes /\ Moves(w, EditBegun(w))
           /\ Put(w) => \/ /\ work[w].current
                           /\ sheet' = [sheet EXCEPT !.rows = work[w].bytes.rows,
                                                     !.tag = work[w].bytes.tag,
                                                     !.human = work[w].bytes.human]
                           /\ \A x \in Worker : x # w => ~ work'[x].current
                           /\ \/ Moves(w, Current(PutDone(w), TRUE))
                              \/ Moves(w, Current(Back(w, "fail"), TRUE))
                        \/ /\ sheet' = sheet
                           /\ Moves(w, Back(w, "dead")) \/ Moves(w, Back(w, "fail"))
           /\ Note(w) => Moves(w, Back(w, "done")) \/ Moves(w, Back(w, "dead"))
           /\ Unlock(w) => Moves(w, Left(w)) \/ Moves(w, Current(Left(w), FALSE))
           /\ Record(w) => Moves(w, At(w, "settle"))
<1>1. \A at : To(w, at) => Moves(w, At(w, at))
  BY WorkSet DEF To, At, WorkOK
<1>2. \A end : Ends(w, end) => Moves(w, AtEnd(w, end))
  BY WorkSet DEF Ends, AtEnd, WorkOK
<1>3. Plan(w) => Moves(w, AtEnd(w, "done")) \/ Moves(w, Planned(w))
  <2>1. work' = [work EXCEPT ![w].at = "hold", ![w].plan = PlanOf(work[w].job)]
           => Moves(w, Planned(w))
    BY WorkSet DEF Planned, WorkOK
  <2> QED BY <1>2, <2>1 DEF Plan
<1>4. Hold(w) => Moves(w, At(w, "meta")) \/ Moves(w, AtEnd(w, "fail"))
  BY <1>1, <1>2 DEF Hold
<1>5. Meta(w) => Moves(w, AtEnd(w, "fail")) \/ Moves(w, Current(At(w, "take"), TRUE))
  <2>1. work' = [work EXCEPT ![w].at = "take", ![w].current = TRUE]
           => Moves(w, Current(At(w, "take"), TRUE))
    BY WorkSet DEF Current, At, WorkOK
  <2> QED BY <1>2, <2>1 DEF Meta
<1>6. None # w
  OBVIOUS
<1>7. Take(w) => \/ Moves(w, Current(At(w, "edit"), TRUE))
                 \/ /\ sheet' = sheet
                    /\ Moves(w, AtEnd(w, "dead")) \/ Moves(w, AtEnd(w, "fail"))
  <2>1. work' = Bumped(w, [work EXCEPT ![w].at = "edit"]) => Moves(w, Current(At(w, "edit"), TRUE))
    <3>1. [work EXCEPT ![w].at = "edit"] = [work EXCEPT ![w] = At(w, "edit")]
      BY DEF At, WorkOK
    <3>2. work' = Bumped(w, [work EXCEPT ![w] = At(w, "edit")])
             => Moves(w, Current(At(w, "edit"), w = w))
      BY WorkBumped
    <3> QED BY <3>1, <3>2
  <2> QED BY <1>2, <2>1 DEF Take
<1>8. Edit(w) => \/ EditOf(w) = Bytes /\ Moves(w, EditDone(w))
                 \/ EditOf(w) # Bytes /\ Moves(w, EditBegun(w))
  <2>1. SUFFICES ASSUME Edit(w)
                 PROVE  \/ EditOf(w) = Bytes /\ Moves(w, EditDone(w))
                        \/ EditOf(w) # Bytes /\ Moves(w, EditBegun(w))
    OBVIOUS
  <2>2. CASE EditOf(w) = Bytes
    BY <2>1, <2>2, WorkSet DEF Edit, EditDone, EditOf
  <2>3. CASE EditOf(w) # Bytes
    BY <2>1, <2>3, WorkSet DEF Edit, EditBegun, EditOf
  <2> QED BY <2>2, <2>3
<1>9. \A end : work' = Unlocks(w, end) => Moves(w, Back(w, end))
  BY WorkSet DEF Unlocks, Back, WorkOK
<1>10. \A me : work' = Bumped(w, [work EXCEPT ![w] = me])
                 => /\ Moves(w, Current(me, TRUE))
                    /\ \A x \in Worker : x # w => ~ work'[x].current
  <2>1. SUFFICES ASSUME NEW me, work' = Bumped(w, [work EXCEPT ![w] = me])
                 PROVE  /\ Moves(w, Current(me, TRUE))
                        /\ \A x \in Worker : x # w => ~ work'[x].current
    OBVIOUS
  <2>2. Moves(w, Current(me, w = w))
    BY <2>1, WorkBumped
  <2>3. ASSUME NEW x \in Worker, x # w PROVE ~ work'[x].current
    <3>1. work'[x] = [work[x] EXCEPT !.current = (x = w)] /\ work[x] \in Works
      BY <2>1, <2>3 DEF Bumped, WorkOK
    <3> QED BY <2>3, <3>1 DEF Works
  <2> QED BY <2>2, <2>3
<1>11. Put(w) => \/ /\ work[w].current
                    /\ sheet' = [sheet EXCEPT !.rows = work[w].bytes.rows,
                                              !.tag = work[w].bytes.tag,
                                              !.human = work[w].bytes.human]
                    /\ \A x \in Worker : x # w => ~ work'[x].current
                    /\ \/ Moves(w, Current(PutDone(w), TRUE))
                       \/ Moves(w, Current(Back(w, "fail"), TRUE))
                 \/ /\ sheet' = sheet
                    /\ Moves(w, Back(w, "dead")) \/ Moves(w, Back(w, "fail"))
  <2>1. /\ [work EXCEPT ![w].at = "note", ![w].bytes = None] = [work EXCEPT ![w] = PutDone(w)]
        /\ Unlocks(w, "fail") = [work EXCEPT ![w] = Back(w, "fail")]
    BY DEF PutDone, Unlocks, Back, WorkOK
  <2> QED BY <1>9, <1>10, <2>1 DEF Put
<1>12. Note(w) => Moves(w, Back(w, "done")) \/ Moves(w, Back(w, "dead"))
  BY <1>9 DEF Note
<1>13. Unlock(w) => Moves(w, Left(w)) \/ Moves(w, Current(Left(w), FALSE))
  <2> DEFINE next == [work EXCEPT ![w].at = IF work[w].end = "done" THEN "record" ELSE "settle"]
  <2>1. next = [work EXCEPT ![w] = Left(w)]
    BY DEF Left, At, WorkOK
  <2>2. Unlock(w) => work' = next \/ work' = Bumped(None, next)
    BY DEF Unlock
  <2> HIDE DEF next
  <2>3. work' = next => Moves(w, Left(w))
    BY <2>1, WorkSet
  <2>4. work' = Bumped(None, next) => Moves(w, Current(Left(w), None = w))
    BY <2>1, WorkBumped
  <2>5. (None = w) = FALSE
    BY <1>6
  <2> QED BY <2>2, <2>3, <2>4, <2>5
<1>14. Record(w) => Moves(w, At(w, "settle"))
  BY <1>1 DEF Record
<1> QED BY <1>3, <1>4, <1>5, <1>7, <1>8, <1>11, <1>12, <1>13, <1>14

\* ... and a claim, a crash, an outage and the end.
LEMMA OtherMoves ==
    ASSUME WorkOK, NEW w \in Worker
    PROVE  /\ Settle(w) \/ Crash(w) => Moves(w, Idle)
           /\ Outage(w) => \/ work[w].at \in {"edit", "put"} /\ Moves(w, Back(w, "fail"))
                           \/ Moves(w, AtEnd(w, "fail"))
           /\ LoseLocks(w) => work' = work
           /\ Claim(w) => \E r \in DOMAIN rows :
                /\ Open(r)
                /\ rows' = [rows EXCEPT ![r].status = "in_progress", ![r].by = w,
                                        ![r].attempts = @ + 1]
                /\ asked' = IF asked # None /\ asked.row = r
                            THEN [asked EXCEPT !.current = FALSE] ELSE asked
                /\ Moves(w, [Idle EXCEPT !.at = IF rows[r].job.kind = "upload" THEN "guard"
                                                                              ELSE "plan",
                                         !.row = r, !.job = rows[r].job])
<1>1. Settle(w) \/ Crash(w) => Moves(w, Idle)
  BY WorkSet DEF Settle, Crash
<1>2. Outage(w) => \/ work[w].at \in {"edit", "put"} /\ Moves(w, Back(w, "fail"))
                   \/ Moves(w, AtEnd(w, "fail"))
  <2>1. work' = Unlocks(w, "fail") => Moves(w, Back(w, "fail"))
    BY WorkSet DEF Unlocks, Back, WorkOK
  <2>2. Ends(w, "fail") => Moves(w, AtEnd(w, "fail"))
    BY WorkSet DEF Ends, AtEnd, WorkOK
  <2> QED BY <2>1, <2>2 DEF Outage
<1>3. LoseLocks(w) => work' = work
  BY DEF LoseLocks
<1>4. ASSUME Claim(w)
      PROVE  \E r \in DOMAIN rows :
                /\ Open(r)
                /\ rows' = [rows EXCEPT ![r].status = "in_progress", ![r].by = w,
                                        ![r].attempts = @ + 1]
                /\ asked' = IF asked # None /\ asked.row = r
                            THEN [asked EXCEPT !.current = FALSE] ELSE asked
                /\ Moves(w, [Idle EXCEPT !.at = IF rows[r].job.kind = "upload" THEN "guard"
                                                                              ELSE "plan",
                                         !.row = r, !.job = rows[r].job])
  BY <1>4, WorkSet DEF Claim
<1> QED BY <1>1, <1>2, <1>3, <1>4

\* A plan is a set of lines.
LEMMA PlanType ==
    ASSUME LinkOK, NEW job \in Jobs, job.kind # "upload"
    PROVE  PlanOf(job) \in SUBSET Line
BY DEF PlanOf, Jobs, Job, Kind, OnInvoice

\* An edit gives a workbook, keeps what people saved, and adds rows for an insert only.
LEMMA EditedType ==
    ASSUME NEW job \in Jobs, NEW plan \in SUBSET Line, NEW b \in Book
    PROVE  /\ Edited(job, plan, b) \in Book
           /\ Edited(job, plan, b).human = b.human
           /\ job.kind # "insert" => Edited(job, plan, b).rows = b.rows
           /\ job.kind = "insert" =>
                 Edited(job, plan, b).rows =
                    [l \in Line |-> b.rows[l] + IF l \in plan \ Present(b) THEN 1 ELSE 0]
<1>1. CASE job.kind = "insert"
  <2> DEFINE n == [l \in Line |-> b.rows[l] + IF l \in plan \ Present(b) THEN 1 ELSE 0]
  <2>1. \A l \in Line : b.rows[l] \in Nat
    BY DEF Book
  <2>2. n \in [Line -> Nat]
    BY <2>1
  <2>3. Edited(job, plan, b) = [b EXCEPT !.rows = n]
    BY <1>1 DEF Edited
  <2> HIDE DEF n
  <2>4. [b EXCEPT !.rows = n] \in Book /\ [b EXCEPT !.rows = n].human = b.human
        /\ [b EXCEPT !.rows = n].rows = n
    BY <2>2 DEF Book
  <2> QED BY <1>1, <2>3, <2>4 DEF n
<1>2. CASE job.kind # "insert"
  <2> DEFINE t == [l \in Line |-> IF l \in plan \cap Present(b)
                                  THEN IF job.kind = "stamp" THEN job.inv ELSE None
                                  ELSE b.tag[l]]
  <2>1. t \in [Line -> Invoice \cup {None}]
    BY DEF Book, Jobs, Job
  <2>2. Edited(job, plan, b) = [b EXCEPT !.tag = t]
    BY <1>2 DEF Edited
  <2> HIDE DEF t
  <2>3. [b EXCEPT !.tag = t] \in Book /\ [b EXCEPT !.tag = t].human = b.human
        /\ [b EXCEPT !.tag = t].rows = b.rows
    BY <2>1 DEF Book
  <2> QED BY <1>2, <2>2, <2>3
<1> QED BY <1>1, <1>2

\* Work stays of its type when w gets work that is and that fits its row.
LEMMA MovesTyped ==
    ASSUME WorkOK, DOMAIN rows \subseteq DOMAIN rows', NEW w \in Worker, NEW me \in Works, Fits(me),
           Moves(w, me)
    PROVE  WorkOK'
<1>1. \A x \in Worker : work[x] \in Works /\ Fits(work[x])
  BY DEF WorkOK
<1>2. ASSUME NEW x \in Worker PROVE work'[x] \in Works /\ Fits(work[x])'
  <2>1. CASE x = w
    BY <2>1 DEF Moves, Fits
  <2>2. CASE x # w /\ work'[x] = work[x]
    BY <1>1, <2>2 DEF Fits
  <2>3. CASE x # w /\ work'[x] = [work[x] EXCEPT !.current = FALSE]
    <3>1. /\ work'[x] \in Works /\ work'[x].at = work[x].at /\ work'[x].row = work[x].row
          /\ work'[x].job = work[x].job /\ work'[x].bytes = work[x].bytes
          /\ work'[x].end = work[x].end
      BY <1>1, <2>3 DEF Works
    <3> QED BY <1>1, <3>1 DEF Fits
  <2> QED BY <2>1, <2>2, <2>3 DEF Moves
<1>3. work' \in [Worker -> Works]
  BY <1>2 DEF Moves
<1> QED BY <1>2, <1>3 DEF WorkOK

\* The work of w fits after a step, if it is a stage of the same job.
LEMMA StageFits ==
    ASSUME WorkOK, DOMAIN rows \subseteq DOMAIN rows', NEW w \in Worker, work[w].at # "idle",
           NEW me \in Works, me.row = work[w].row, me.job = work[w].job,
           \/ me.at \in UploadAts /\ work[w].at \in UploadAts
           \/ me.at = "settle" /\ me.end \in Endings
           \/ /\ me.at \in ExcelAts /\ work[w].at \in ExcelAts
              /\ me.at = "put" => me.bytes \in Book
              /\ me.at \in {"unlock", "record"} => me.end \in Endings,
           Moves(w, me)
    PROVE  WorkOK'
<1>1. Fits(work[w])
  BY DEF WorkOK
<1>2. Fits(me)
  BY <1>1 DEF Fits, UploadAts, ExcelAts
<1> QED BY <1>2, MovesTyped

\* The work that the steps give w is of its type.
LEMMA AtTypes ==
    ASSUME WorkOK, NEW w \in Worker
    PROVE  /\ \A at \in Ats : /\ At(w, at) \in Works /\ At(w, at).at = at
                              /\ At(w, at).row = work[w].row /\ At(w, at).job = work[w].job
                              /\ At(w, at).end = work[w].end
           /\ \A end \in Endings : /\ AtEnd(w, end) \in Works /\ AtEnd(w, end).at = "settle"
                                   /\ AtEnd(w, end).end = end
                                   /\ AtEnd(w, end).row = work[w].row
                                   /\ AtEnd(w, end).job = work[w].job
           /\ \A end \in Endings : /\ Back(w, end) \in Works /\ Back(w, end).at = "unlock"
                                   /\ Back(w, end).end = end
                                   /\ Back(w, end).row = work[w].row
                                   /\ Back(w, end).job = work[w].job
           /\ \A me \in Works, c \in BOOLEAN :
                 /\ Current(me, c) \in Works /\ Current(me, c).at = me.at
                 /\ Current(me, c).row = me.row /\ Current(me, c).job = me.job
                 /\ Current(me, c).end = me.end
<1>1. work[w] \in Works
  BY DEF WorkOK
<1>2. \A at \in Ats : /\ At(w, at) \in Works /\ At(w, at).at = at
                      /\ At(w, at).row = work[w].row /\ At(w, at).job = work[w].job
                      /\ At(w, at).end = work[w].end
  BY <1>1 DEF At, Works
<1>3. "settle" \in Ats /\ "unlock" \in Ats
  BY DEF Ats
<1>4. \A end \in Endings : /\ AtEnd(w, end) \in Works /\ AtEnd(w, end).at = "settle"
                           /\ AtEnd(w, end).end = end
                           /\ AtEnd(w, end).row = work[w].row
                           /\ AtEnd(w, end).job = work[w].job
  BY <1>1, <1>3 DEF AtEnd, Works
<1>5. \A end \in Endings : /\ Back(w, end) \in Works /\ Back(w, end).at = "unlock"
                           /\ Back(w, end).end = end
                           /\ Back(w, end).row = work[w].row
                           /\ Back(w, end).job = work[w].job
  BY <1>1, <1>3 DEF Back, Works
<1>6. \A me \in Works, c \in BOOLEAN :
         /\ Current(me, c) \in Works /\ Current(me, c).at = me.at
         /\ Current(me, c).row = me.row /\ Current(me, c).job = me.job
         /\ Current(me, c).end = me.end
  BY DEF Current, Works
<1> QED BY <1>2, <1>4, <1>5, <1>6

\* Every step leaves every worker work that fits its row.
LEMMA WorkStep ==
    ASSUME Typed, Next
    PROVE  WorkOK'
<1>1. WorkOK /\ LinkOK /\ DOMAIN rows \subseteq DOMAIN rows'
  BY RowsStep DEF Typed
<1>2. {"done", "fail", "dead"} \subseteq Endings
  BY DEF Endings
<1>3. UploadAts \subseteq Ats /\ ExcelAts \subseteq Ats /\ "settle" \in Ats
  BY DEF UploadAts, ExcelAts, Ats
<1>4. ASSUME NEW w \in Worker, work[w].at # "idle", NEW end \in Endings, Moves(w, AtEnd(w, end))
      PROVE  WorkOK'
  BY <1>1, <1>4, AtTypes, StageFits
<1>5. ASSUME NEW w \in Worker, work[w].at \in ExcelAts, NEW end \in Endings,
             NEW me \in {Back(w, end), Current(Back(w, end), TRUE)}, Moves(w, me)
      PROVE  WorkOK'
  <2>1. Back(w, end) \in Works /\ Back(w, end).at = "unlock" /\ Back(w, end).end = end
        /\ Back(w, end).row = work[w].row /\ Back(w, end).job = work[w].job
    BY <1>1, AtTypes
  <2> DEFINE other == Current(Back(w, end), TRUE)
  <2>2. other \in Works /\ other.row = work[w].row /\ other.job = work[w].job
        /\ other.at = "unlock" /\ other.end = end
    BY <1>1, <2>1, AtTypes
  <2> HIDE DEF other
  <2>3. me = Back(w, end) \/ me = other
    BY <1>5 DEF other
  <2>4. me \in Works /\ me.row = work[w].row /\ me.job = work[w].job /\ me.at = "unlock"
        /\ me.end = end
    BY <2>1, <2>2, <2>3
  <2>5. "unlock" \in ExcelAts
    BY DEF ExcelAts
  <2>6. work[w].at # "idle"
    BY <1>5 DEF ExcelAts
  <2> QED BY <1>1, <1>5, <2>4, <2>5, <2>6, StageFits
<1>6. ASSUME NEW w \in Worker, work[w].at \in UploadAts, NEW at \in UploadAts, Moves(w, At(w, at))
      PROVE  WorkOK'
  <2>1. work[w].at # "idle"
    BY <1>6 DEF UploadAts
  <2> QED BY <1>1, <1>3, <1>6, <2>1, AtTypes, StageFits
<1>7. ASSUME NEW w \in Worker, work[w].at \in ExcelAts, NEW at \in ExcelAts \ {"put"},
             at \in {"unlock", "record"} => work[w].end \in Endings,
             NEW c \in BOOLEAN, Moves(w, At(w, at)) \/ Moves(w, Current(At(w, at), c))
      PROVE  WorkOK'
  <2>1. work[w].at # "idle"
    BY <1>7 DEF ExcelAts
  <2>2. PICK me \in {At(w, at), Current(At(w, at), c)} : Moves(w, me)
    BY <1>7
  <2>3. /\ me \in Works /\ me.row = work[w].row /\ me.job = work[w].job /\ me.at = at
        /\ me.end = work[w].end
    BY <1>1, <1>3, AtTypes
  <2> QED BY <1>1, <1>7, <2>1, <2>2, <2>3, StageFits
<1>8. ASSUME NEW w \in Worker, Guard(w) \/ Post(w) \/ Conflict(w) \/ Version(w) \/ Register(w)
      PROVE  WorkOK'
  <2>1. work[w].at \in UploadAts /\ work[w].at # "idle"
    BY <1>8 DEF Guard, Post, Conflict, Version, Register, UploadAts
  <2>2. \/ \E at \in UploadAts : Moves(w, At(w, at))
        \/ \E end \in Endings : Moves(w, AtEnd(w, end))
    BY <1>1, <1>2, <1>8, UploadMoves DEF UploadAts
  <2> QED BY <1>4, <1>6, <2>1, <2>2
<1>9. ASSUME NEW w \in Worker, work[w].at \in ExcelAts, NEW me \in Works, me.row = work[w].row,
             me.job = work[w].job, me.at \in ExcelAts, me.at = "put" => me.bytes \in Book,
             me.at \in {"unlock", "record"} => me.end \in Endings, Moves(w, me)
      PROVE  WorkOK'
  <2>1. work[w].at # "idle"
    BY <1>9 DEF ExcelAts
  <2> QED BY <1>1, <1>9, <2>1, StageFits
<1>10. ASSUME NEW w \in Worker, work[w].at \in ExcelAts
       PROVE  work[w] \in Works /\ work[w].job \in Jobs /\ work[w].job.kind # "upload"
  BY <1>1, <1>10 DEF WorkOK, Fits, ExcelAts
<1>11. ASSUME NEW w \in Worker, Plan(w) PROVE WorkOK'
  <2>1. work[w].at \in ExcelAts /\ work[w].at # "idle"
    BY <1>11 DEF Plan, ExcelAts
  <2>2. CASE Moves(w, Planned(w))
    <3>1. Planned(w) \in Works /\ Planned(w).row = work[w].row /\ Planned(w).job = work[w].job
          /\ Planned(w).at = "hold"
      BY <1>1, <1>3, <1>10, <2>1, PlanType DEF Planned, Works, ExcelAts
    <3>2. "hold" \in ExcelAts
      BY DEF ExcelAts
    <3> QED BY <1>9, <2>1, <2>2, <3>1, <3>2
  <2> QED BY <1>1, <1>2, <1>4, <1>11, <2>1, <2>2, EditMoves
<1>12. ASSUME NEW w \in Worker, Hold(w) \/ Meta(w) \/ Take(w) PROVE WorkOK'
  <2>1. work[w].at \in ExcelAts /\ work[w].at # "idle"
    BY <1>12 DEF Hold, Meta, Take, ExcelAts
  <2>2. {"meta", "take", "edit"} \subseteq ExcelAts \ {"put", "unlock", "record"}
    BY DEF ExcelAts
  <2> QED BY <1>1, <1>2, <1>4, <1>7, <1>12, <2>1, <2>2, EditMoves
<1>13. ASSUME NEW w \in Worker, Edit(w) PROVE WorkOK'
  <2>1. work[w].at \in ExcelAts /\ work[w].at # "idle"
    BY <1>13 DEF Edit, ExcelAts
  <2>2. Bytes \in Book /\ work[w].plan \in SUBSET Line
    BY <1>10, <2>1 DEF Bytes, Book, Typed, SheetOK, Works
  <2>3. EditOf(w) \in Book /\ Whole(work[w].job, work[w].plan, Bytes) \in BOOLEAN
    BY <1>10, <2>1, <2>2, EditedType DEF EditOf, Whole
  <2>4. {"unlock", "put"} \subseteq ExcelAts /\ "done" \in Endings
    BY DEF ExcelAts, Endings
  <2>5. EditDone(w) \in Works /\ EditDone(w).row = work[w].row /\ EditDone(w).job = work[w].job
        /\ EditDone(w).at = "unlock" /\ EditDone(w).end = "done"
    BY <1>3, <1>10, <2>1, <2>3, <2>4 DEF EditDone, Works
  <2>6. EditBegun(w) \in Works /\ EditBegun(w).row = work[w].row /\ EditBegun(w).job = work[w].job
        /\ EditBegun(w).at = "put" /\ EditBegun(w).bytes = EditOf(w)
    BY <1>3, <1>10, <2>1, <2>3, <2>4 DEF EditBegun, Works
  <2> QED BY <1>1, <1>9, <1>13, <2>1, <2>3, <2>4, <2>5, <2>6, EditMoves
<1>14. ASSUME NEW w \in Worker, Put(w) \/ Note(w) PROVE WorkOK'
  <2>1. work[w].at \in ExcelAts /\ work[w].at # "idle"
    BY <1>14 DEF Put, Note, ExcelAts
  <2>2. "note" \in ExcelAts
    BY DEF ExcelAts
  <2>3. PutDone(w) \in Works /\ PutDone(w).row = work[w].row /\ PutDone(w).job = work[w].job
        /\ PutDone(w).at = "note"
    BY <1>3, <1>10, <2>1, <2>2 DEF PutDone, Works
  <2>4. CASE Moves(w, Current(PutDone(w), TRUE))
    <3>1. Current(PutDone(w), TRUE) \in Works /\ Current(PutDone(w), TRUE).at = "note"
          /\ Current(PutDone(w), TRUE).row = work[w].row
          /\ Current(PutDone(w), TRUE).job = work[w].job
      BY <1>1, <2>3, AtTypes
    <3> QED BY <1>9, <2>1, <2>2, <2>4, <3>1
  <2>5. \/ Moves(w, Current(PutDone(w), TRUE))
        \/ \E end \in Endings : Moves(w, Back(w, end)) \/ Moves(w, Current(Back(w, end), TRUE))
    BY <1>1, <1>2, <1>14, EditMoves
  <2> QED BY <1>5, <2>1, <2>4, <2>5
<1>15. ASSUME NEW w \in Worker, Unlock(w) PROVE WorkOK'
  <2>1. /\ work[w].at \in ExcelAts /\ work[w].at # "idle" /\ work[w].at = "unlock"
        /\ work[w].end \in Endings
    BY <1>1, <1>15 DEF Unlock, ExcelAts, WorkOK, Fits
  <2>2. CASE work[w].end = "done"
    <3>1. "record" \in ExcelAts \ {"put"} /\ Left(w) = At(w, "record")
      BY <2>2 DEF ExcelAts, Left
    <3> QED BY <1>1, <1>7, <1>15, <2>1, <3>1, EditMoves
  <2>3. CASE work[w].end # "done"
    <3>1. Left(w) = At(w, "settle")
      BY <2>3 DEF Left
    <3>2. At(w, "settle") \in Works /\ At(w, "settle").at = "settle"
          /\ At(w, "settle").row = work[w].row /\ At(w, "settle").job = work[w].job
          /\ At(w, "settle").end = work[w].end
      BY <1>1, <1>3, AtTypes
    <3>3. Moves(w, At(w, "settle")) \/ Moves(w, Current(At(w, "settle"), FALSE))
      BY <1>1, <1>15, <3>1, EditMoves
    <3>4. PICK me \in {At(w, "settle"), Current(At(w, "settle"), FALSE)} : Moves(w, me)
      BY <3>3
    <3>5. me \in Works /\ me.at = "settle" /\ me.row = work[w].row /\ me.job = work[w].job
          /\ me.end = work[w].end
      <4>1. me = At(w, "settle") \/ me = Current(At(w, "settle"), FALSE)
        OBVIOUS
      <4>2. CASE me = At(w, "settle")
        BY <3>2, <4>2
      <4>3. CASE me = Current(At(w, "settle"), FALSE)
        BY <1>1, <3>2, <4>3, AtTypes
      <4> QED BY <4>1, <4>2, <4>3
    <3> QED BY <1>1, <2>1, <3>4, <3>5, StageFits
  <2> QED BY <2>2, <2>3
<1>16. ASSUME NEW w \in Worker, Record(w) PROVE WorkOK'
  <2>1. work[w].at # "idle" /\ work[w].end \in Endings
    BY <1>1, <1>16 DEF Record, WorkOK, Fits
  <2>2. At(w, "settle") \in Works /\ At(w, "settle").at = "settle"
        /\ At(w, "settle").row = work[w].row /\ At(w, "settle").job = work[w].job
        /\ At(w, "settle").end = work[w].end
    BY <1>1, <1>3, AtTypes
  <2>3. Moves(w, At(w, "settle"))
    BY <1>1, <1>16, EditMoves
  <2> QED BY <1>1, <2>1, <2>2, <2>3, StageFits
<1>17. ASSUME NEW w \in Worker, Settle(w) \/ Crash(w) PROVE WorkOK'
  <2>1. Idle \in Works /\ Fits(Idle)
    BY DEF Works, Idle, Ats, Fits
  <2> QED BY <1>1, <1>17, <2>1, OtherMoves, MovesTyped
<1>18. ASSUME NEW w \in Worker, Outage(w) PROVE WorkOK'
  <2>1. work[w].at # "idle"
    BY <1>18 DEF Outage
  <2>2. {"edit", "put"} \subseteq ExcelAts
    BY DEF ExcelAts
  <2>3. CASE work[w].at \in {"edit", "put"} /\ Moves(w, Back(w, "fail"))
    BY <1>2, <1>5, <2>2, <2>3
  <2>4. CASE Moves(w, AtEnd(w, "fail"))
    BY <1>2, <1>4, <2>1, <2>4
  <2> QED BY <1>1, <1>18, <2>3, <2>4, OtherMoves
<1>19. ASSUME NEW w \in Worker, Claim(w) PROVE WorkOK'
  <2>1. PICK r \in DOMAIN rows :
           Moves(w, [Idle EXCEPT !.at = IF rows[r].job.kind = "upload" THEN "guard" ELSE "plan",
                                 !.row = r, !.job = rows[r].job])
    BY <1>1, <1>19, OtherMoves
  <2> DEFINE job == rows[r].job
             me  == [Idle EXCEPT !.at = IF job.kind = "upload" THEN "guard" ELSE "plan",
                                 !.row = r, !.job = job]
  <2>2. job \in Jobs /\ r \in Nat
    BY RowsAre DEF Typed, RowType
  <2>3. /\ me.at = IF job.kind = "upload" THEN "guard" ELSE "plan"
        /\ me.row = r /\ me.job = job
    BY DEF Idle
  <2>4. me \in Works
    BY <1>3, <2>2 DEF Idle, Works, Ats
  <2>5. Moves(w, me)
    BY <2>1
  <2> HIDE DEF me
  <2>6. Fits(me)
    BY <1>1, <2>2, <2>3 DEF Fits, UploadAts, ExcelAts
  <2> QED BY <1>1, <2>4, <2>5, <2>6, MovesTyped
<1>20. CASE work' = work
  BY <1>1, <1>20 DEF WorkOK, Fits
<1>21. CASE PersonOpens \/ PersonSaves
  <2>1. /\ work' = [x \in Worker |-> work'[x]]
        /\ \A x \in Worker : work'[x] = [work[x] EXCEPT !.current = (x = None)]
    BY <1>21 DEF PersonOpens, PersonSaves, Bumped
  <2>2. ASSUME NEW w \in Worker PROVE WorkOK'
    <3>1. \A x \in Worker : (x = None) = FALSE
      OBVIOUS
    <3>2. Moves(w, Current(work[w], FALSE))
      BY <2>1, <3>1 DEF Moves, Current
    <3>3. work[w] \in Works /\ Fits(work[w])
      BY <1>1 DEF WorkOK
    <3> DEFINE me == Current(work[w], FALSE)
    <3>4. me \in Works /\ me.at = work[w].at /\ me.row = work[w].row /\ me.job = work[w].job
          /\ me.end = work[w].end /\ me.bytes = work[w].bytes
      BY <3>3 DEF Current, Works
    <3> HIDE DEF me
    <3>5. Fits(me)
      BY <1>1, <3>3, <3>4 DEF Fits
    <3> QED BY <1>1, <3>2, <3>4, <3>5, MovesTyped DEF me
  <2>3. CASE Worker = {}
    BY <2>1, <2>3 DEF WorkOK
  <2> QED BY <2>2, <2>3
<1>22. AskInsert \/ CoalesceUpload \/ ReclaimSome \/ LockEnds => work' = work
  BY DEF AskInsert, CoalesceUpload, ReclaimSome, Reclaim, LockEnds
<1>23. \A i \in Invoice : AskStamp(i) \/ AskClear(i) => work' = work
  BY DEF AskStamp, AskClear
<1>24. \A t \in Targets : AskUpload(t[1], t[2]) => work' = work
  BY DEF AskUpload
<1>25. \A l \in Line, i \in Invoice \cup {None} : Relink(l, i) => work' = work
  BY DEF Relink
<1>26. \A s \in DOMAIN files : PersonFiles(s) => work' = work
  BY DEF PersonFiles
<1>27. \A w \in Worker : LoseLocks(w) => work' = work
  BY DEF LoseLocks
<1> QED BY <1>8, <1>11, <1>12, <1>13, <1>14, <1>15, <1>16, <1>17, <1>18, <1>19, <1>20, <1>21,
           <1>22, <1>23, <1>24, <1>25, <1>26, <1>27
    DEF Next, Step, ClaimSome

-----------------------------------------------------------------------------
(* The other variables *)

\* The upload request under way names a row.
LEMMA AskedStep ==
    ASSUME Typed, Next
    PROVE  AskedOK'
<1>1. AskedOK /\ RowsOK /\ DOMAIN rows \subseteq DOMAIN rows'
  BY RowsStep DEF Typed
<1>2. asked' = asked => AskedOK'
  BY <1>1 DEF AskedOK
<1>3. ASSUME NEW t \in Targets, AskUpload(t[1], t[2]) PROVE AskedOK'
  <2>1. Upload(t[1], t[2]) \in Jobs /\ Upload(t[1], t[2]).kind = "upload"
    <3>1. t[1] \in Doc /\ t[2] \in Folder
      OBVIOUS
    <3> QED BY <3>1, JobTypes
  <2>2. ASSUME NEW r \in Newest(t[1]),
               asked' = [row |-> r, current |-> TRUE, job |-> Upload(t[1], t[2])]
        PROVE  AskedOK'
    <3>1. r \in DOMAIN rows /\ r \in Nat
      BY <1>1, RowsAre DEF Newest, Coalescible
    <3> HIDE DEF Upload
    <3> QED BY <1>1, <2>1, <2>2, <3>1 DEF AskedOK
  <2> QED BY <1>2, <1>3, <2>2 DEF AskUpload
<1>4. CoalesceUpload => AskedOK'
  BY DEF CoalesceUpload, AskedOK
<1>5. ASSUME NEW w \in Worker, Claim(w) PROVE AskedOK'
  <2>1. \/ asked' = asked
        \/ asked # None /\ asked' = [asked EXCEPT !.current = FALSE]
    BY <1>5 DEF Claim
  <2>2. CASE asked # None /\ asked' = [asked EXCEPT !.current = FALSE]
    BY <1>1, <2>2 DEF AskedOK
  <2> QED BY <1>2, <2>1, <2>2
<1>6. AskInsert \/ ReclaimSome \/ LockEnds \/ PersonOpens \/ PersonSaves => asked' = asked
  BY DEF AskInsert, ReclaimSome, Reclaim, LockEnds, PersonOpens, PersonSaves
<1>7. \A i \in Invoice : AskStamp(i) \/ AskClear(i) => asked' = asked
  BY DEF AskStamp, AskClear
<1>8. \A l \in Line, i \in Invoice \cup {None} : Relink(l, i) => asked' = asked
  BY DEF Relink
<1>9. \A s \in DOMAIN files : PersonFiles(s) => asked' = asked
  BY DEF PersonFiles
<1>10. \A w \in Worker : Step(w) \/ Outage(w) \/ Crash(w) \/ LoseLocks(w) =>
          Claim(w) \/ asked' = asked
  BY WorkerFrame
<1> QED BY <1>2, <1>3, <1>4, <1>5, <1>6, <1>7, <1>8, <1>9, <1>10 DEF Next, ClaimSome

\* Who writes into the folders.
LEMMA FilesFrame ==
    ASSUME Next
    PROVE  \/ files' = files
           \/ \E w \in Worker : Post(w) \/ Version(w) \/ Register(w)
           \/ \E s \in DOMAIN files : PersonFiles(s)
<1>1. \A w \in Worker : Step(w) \/ Outage(w) \/ Crash(w) \/ LoseLocks(w) \/ Claim(w) =>
         Post(w) \/ Version(w) \/ Register(w) \/ files' = files
  BY WorkerFrame
<1>2. AskInsert \/ CoalesceUpload \/ ReclaimSome \/ LockEnds \/ PersonOpens \/ PersonSaves
         => files' = files
  BY DEF AskInsert, CoalesceUpload, ReclaimSome, Reclaim, LockEnds, PersonOpens, PersonSaves
<1>3. \A i \in Invoice : AskStamp(i) \/ AskClear(i) => files' = files
  BY DEF AskStamp, AskClear
<1>4. \A l \in Line, i \in Invoice \cup {None} : Relink(l, i) => files' = files
  BY DEF Relink
<1>5. \A t \in Targets : AskUpload(t[1], t[2]) => files' = files
  BY DEF AskUpload
<1> QED BY <1>1, <1>2, <1>3, <1>4, <1>5 DEF Next, ClaimSome

\* Who writes the worksheet and the cache.
LEMMA SheetFrame ==
    ASSUME Next
    PROVE  /\ sheet' = sheet \/ PersonOpens \/ PersonSaves \/ LockEnds
              \/ \E w \in Worker : Take(w) \/ Put(w) \/ Unlock(w)
           /\ cache' = cache \/ \E w \in Worker : Record(w)
<1>1. \A w \in Worker : Step(w) \/ Outage(w) \/ Crash(w) \/ LoseLocks(w) \/ Claim(w) =>
         /\ sheet' = sheet \/ Take(w) \/ Put(w) \/ Unlock(w)
         /\ cache' = cache \/ Record(w)
  BY WorkerFrame
<1>2. AskInsert \/ CoalesceUpload \/ ReclaimSome => UNCHANGED <<sheet, cache>>
  BY DEF AskInsert, CoalesceUpload, ReclaimSome, Reclaim
<1>3. PersonOpens \/ PersonSaves \/ LockEnds => cache' = cache
  BY DEF PersonOpens, PersonSaves, LockEnds
<1>4. \A i \in Invoice : AskStamp(i) \/ AskClear(i) => UNCHANGED <<sheet, cache>>
  BY DEF AskStamp, AskClear
<1>5. \A l \in Line, i \in Invoice \cup {None} : Relink(l, i) => UNCHANGED <<sheet, cache>>
  BY DEF Relink
<1>6. \A t \in Targets : AskUpload(t[1], t[2]) => UNCHANGED <<sheet, cache>>
  BY DEF AskUpload
<1>7. \A s \in DOMAIN files : PersonFiles(s) => UNCHANGED <<sheet, cache>>
  BY DEF PersonFiles
<1> QED BY <1>1, <1>2, <1>3, <1>4, <1>5, <1>6, <1>7 DEF Next, ClaimSome

\* An upload is of an attachment into the slot of its name.
LEMMA UploadJob ==
    ASSUME WorkOK, NEW w \in Worker, work[w].at \in UploadAts
    PROVE  /\ work[w].job \in Jobs /\ work[w].job.kind = "upload"
           /\ work[w].job.doc \in Doc /\ work[w].job.folder \in Folder
           /\ Slot(work[w].job) \in Folder \X Name
           /\ Slot(work[w].job)[2] = NameOf[work[w].job.doc]
<1>1. work[w].job \in Jobs /\ work[w].job.kind = "upload"
  BY DEF WorkOK, Fits, UploadAts
<1> QED BY <1>1 DEF Jobs, Slot

\* A file stays where it is, stays registered and keeps having a document.
Stays(s) ==
    files[s] # None =>
        /\ files'[s] # None
        /\ files[s].registered # None => files'[s].registered # None
        /\ files[s].content # None => files'[s].content # None

\* No step takes away a file, its registration or its document; a registered file has one.
LEMMA FilesStep ==
    ASSUME Typed, FolderInv, Next
    PROVE  /\ FilesOK' /\ DOMAIN files' = DOMAIN files
           /\ \A s \in DOMAIN files :
                 /\ Stays(s)
                 /\ files'[s] # None /\ files'[s].registered # None => files'[s].content # None
<1>1. FilesOK /\ WorkOK
  BY DEF Typed
<1>2. CASE files' = files
  BY <1>1, <1>2 DEF FilesOK, FolderInv, Stays
<1>3. ASSUME NEW s \in DOMAIN files, NEW file \in File, files' = [files EXCEPT ![s] = file],
             Stays(s), file.registered # None => file.content # None
      PROVE  /\ FilesOK' /\ DOMAIN files' = DOMAIN files
             /\ \A q \in DOMAIN files :
                   /\ Stays(q)
                   /\ files'[q] # None /\ files'[q].registered # None => files'[q].content # None
  BY <1>1, <1>3 DEF FilesOK, FolderInv, Stays
<1>4. ASSUME NEW w \in Worker, Post(w) \/ Version(w) \/ Register(w), files' # files
      PROVE  /\ FilesOK' /\ DOMAIN files' = DOMAIN files
             /\ \A q \in DOMAIN files :
                   /\ Stays(q)
                   /\ files'[q] # None /\ files'[q].registered # None => files'[q].content # None
  <2> DEFINE s == Slot(work[w].job)
             d == work[w].job.doc
  <2>1. work[w].at \in UploadAts
    BY <1>4 DEF Post, Version, Register, UploadAts
  <2>2. s \in DOMAIN files /\ d \in Doc /\ files[s] \in File \cup {None}
    BY <1>1, <2>1, UploadJob DEF FilesOK
  <2>3. UploadOK(work[w])
    BY DEF FolderInv
  <2>4. \/ files[s] = None /\ files' = [files EXCEPT ![s] = [content |-> d, registered |-> None]]
        \/ work[w].at = "version" /\ files' = [files EXCEPT ![s].content = d]
        \/ work[w].at = "register" /\ files' = [files EXCEPT ![s].registered = d]
    BY <1>4 DEF Post, Version, Register
  <2>5. work[w].at \in {"version", "register"} => files[s] \in File
    BY <2>2, <2>3 DEF UploadOK
  <2>6. work[w].at = "register" => files[s].content # None
    BY <2>3 DEF UploadOK
  <2> HIDE DEF s, d
  <2>7. PICK file \in File : /\ files' = [files EXCEPT ![s] = file]
                             /\ file.registered # None => file.content # None
                             /\ files[s] # None =>
                                   /\ files[s].registered # None => file.registered # None
                                   /\ files[s].content # None => file.content # None
    <3>1. CASE /\ files[s] = None
               /\ files' = [files EXCEPT ![s] = [content |-> d, registered |-> None]]
      <4>1. [content |-> d, registered |-> None] \in File
        BY <2>2 DEF File
      <4> QED BY <3>1, <4>1
    <3>2. CASE work[w].at = "version" /\ files' = [files EXCEPT ![s].content = d]
      <4>1. /\ [files[s] EXCEPT !.content = d] \in File
            /\ [files[s] EXCEPT !.content = d].content = d
            /\ [files[s] EXCEPT !.content = d].registered = files[s].registered
        BY <2>2, <2>5, <3>2 DEF File
      <4>2. files' = [files EXCEPT ![s] = [files[s] EXCEPT !.content = d]]
        BY <3>2
      <4> QED BY <2>2, <4>1, <4>2
    <3>3. CASE work[w].at = "register" /\ files' = [files EXCEPT ![s].registered = d]
      <4>1. /\ [files[s] EXCEPT !.registered = d] \in File
            /\ [files[s] EXCEPT !.registered = d].content = files[s].content
            /\ [files[s] EXCEPT !.registered = d].registered = d
        BY <2>2, <2>5, <3>3 DEF File
      <4>2. files' = [files EXCEPT ![s] = [files[s] EXCEPT !.registered = d]]
        BY <3>3
      <4> QED BY <2>2, <2>6, <3>3, <4>1, <4>2
    <3> QED BY <2>4, <3>1, <3>2, <3>3
  <2>8. Stays(s)
    BY <1>1, <2>2, <2>7 DEF Stays, FilesOK
  <2> QED BY <1>3, <2>2, <2>7, <2>8
<1>5. ASSUME NEW s \in DOMAIN files, PersonFiles(s)
      PROVE  /\ FilesOK' /\ DOMAIN files' = DOMAIN files
             /\ \A q \in DOMAIN files :
                   /\ Stays(q)
                   /\ files'[q] # None /\ files'[q].registered # None => files'[q].content # None
  <2>1. [content |-> None, registered |-> None] \in File
    BY DEF File
  <2> QED BY <1>3, <1>5, <2>1 DEF PersonFiles, Stays
<1> QED BY <1>2, <1>4, <1>5, FilesFrame

\* One worker at a time goes on, the etags of the others may become stale.
Same(x) == work'[x] = work[x] \/ work'[x] = [work[x] EXCEPT !.current = FALSE]

\* At most one worker goes on in a step.
LEMMA WhoMoves ==
    ASSUME Typed, Next
    PROVE  \/ \A x \in Worker : Same(x)
           \/ \E w \in Worker : /\ Step(w) \/ Outage(w) \/ Crash(w) \/ Claim(w)
                                /\ \A x \in Worker : x # w => Same(x)
<1>1. WorkOK
  BY DEF Typed
<1>2. \A w \in Worker : \A me : Moves(w, me) => \A x \in Worker : x # w => Same(x)
  BY DEF Moves, Same
<1>3. ASSUME NEW w \in Worker, Step(w) \/ Outage(w) \/ Crash(w) \/ Claim(w)
      PROVE  \A x \in Worker : x # w => Same(x)
  <2>1. \E me : Moves(w, me)
    BY <1>1, <1>3, UploadMoves, EditMoves, OtherMoves DEF Step
  <2> QED BY <1>2, <2>1
<1>4. work' = work => \A x \in Worker : Same(x)
  BY DEF Same
<1>5. PersonOpens \/ PersonSaves => \A x \in Worker : Same(x)
  <2>1. \A x \in Worker : (x = None) = FALSE
    OBVIOUS
  <2>2. PersonOpens \/ PersonSaves =>
           \A x \in Worker : work'[x] = [work[x] EXCEPT !.current = (x = None)]
    BY DEF PersonOpens, PersonSaves, Bumped
  <2> QED BY <2>1, <2>2 DEF Same
<1>6. AskInsert \/ CoalesceUpload \/ ReclaimSome \/ LockEnds => work' = work
  BY DEF AskInsert, CoalesceUpload, ReclaimSome, Reclaim, LockEnds
<1>7. \A i \in Invoice : AskStamp(i) \/ AskClear(i) => work' = work
  BY DEF AskStamp, AskClear
<1>8. \A t \in Targets : AskUpload(t[1], t[2]) => work' = work
  BY DEF AskUpload
<1>9. \A l \in Line, i \in Invoice \cup {None} : Relink(l, i) => work' = work
  BY DEF Relink
<1>10. \A s \in DOMAIN files : PersonFiles(s) => work' = work
  BY DEF PersonFiles
<1>11. \A w \in Worker : LoseLocks(w) => work' = work
  BY DEF LoseLocks
<1> QED BY <1>3, <1>4, <1>5, <1>6, <1>7, <1>8, <1>9, <1>10, <1>11 DEF Next, ClaimSome

\* Where each step leads the worker that takes it.
LEMMA Stages ==
    ASSUME Typed, NEW w \in Worker
    PROVE  /\ Guard(w) \/ Register(w) => work'[w].at \in {"post", "settle"}
           /\ Post(w) \/ Version(w) => \/ work'[w].at = "settle"
                                       \/ work'[w].at = "register" /\ work'[w].job = work[w].job
           /\ Conflict(w) => \/ work'[w].at = "settle"
                             \/ /\ work'[w].at = "version" /\ work'[w].job = work[w].job
                                /\ Ours(files[Slot(work[w].job)])
           /\ Plan(w) \/ Hold(w) \/ Meta(w) \/ Take(w)
                 => work'[w].at \in {"settle", "hold", "meta", "take", "edit"}
           /\ Edit(w) => work'[w].at \in {"unlock", "put"}
           /\ Put(w) => \/ work'[w].at = "note" /\ work'[w] = Current(PutDone(w), TRUE)
                        \/ work'[w].at = "unlock" /\ work'[w].end # "done"
           /\ Note(w) => work'[w].at = "unlock"
           /\ Unlock(w) \/ Record(w) => work'[w].at \in {"settle", "record"}
           /\ Settle(w) \/ Crash(w) => work'[w].at = "idle"
           /\ Outage(w) => \/ work'[w].at = "settle"
                           \/ work'[w].at = "unlock" /\ work'[w].end # "done"
           /\ Claim(w) => work'[w].at \in {"guard", "plan"}
<1>1. WorkOK /\ work[w] \in Works
  BY DEF Typed, WorkOK
<1>2. /\ \A at \in Ats : At(w, at).at = at /\ At(w, at).job = work[w].job
      /\ \A end \in Endings : AtEnd(w, end).at = "settle" /\ Back(w, end).at = "unlock"
      /\ \A me \in Works, c \in BOOLEAN : Current(me, c).at = me.at
      /\ \A at \in Ats : At(w, at) \in Works
      /\ \A end \in Endings : Back(w, end) \in Works
  BY <1>1, AtTypes
<1>3. {"done", "fail", "dead"} \subseteq Endings
      /\ {"post", "version", "register", "meta", "take", "edit", "settle", "record",
          "note"} \subseteq Ats
  BY DEF Endings, Ats
<1>4. \A me : Moves(w, me) => work'[w] = me
  BY DEF Moves
<1>5. /\ AtEnd(w, "done").at = "settle" /\ AtEnd(w, "fail").at = "settle"
       /\ AtEnd(w, "dead").at = "settle" /\ Back(w, "done").at = "unlock"
       /\ Back(w, "fail").at = "unlock" /\ Back(w, "dead").at = "unlock"
       /\ At(w, "meta").at = "meta" /\ At(w, "settle").at = "settle"
  BY <1>2, <1>3
<1>6. \A at : \A me : Moves(w, me) /\ me.at = at => work'[w].at = at
  BY <1>4
<1>7. Guard(w) \/ Register(w) => work'[w].at \in {"post", "settle"}
  BY <1>1, <1>2, <1>3, <1>4, UploadMoves
<1>8. Post(w) \/ Version(w) => \/ work'[w].at = "settle"
                               \/ work'[w].at = "register" /\ work'[w].job = work[w].job
  BY <1>1, <1>2, <1>3, <1>4, UploadMoves
<1>9. Conflict(w) => \/ work'[w].at = "settle"
                     \/ /\ work'[w].at = "version" /\ work'[w].job = work[w].job
                        /\ Ours(files[Slot(work[w].job)])
  BY <1>1 DEF Conflict, To, Ends, WorkOK, Works
<1>10. Plan(w) \/ Hold(w) \/ Meta(w) \/ Take(w)
          => work'[w].at \in {"settle", "hold", "meta", "take", "edit"}
  <2>1. Planned(w).at = "hold"
    BY <1>1 DEF Planned, Works
  <2>2. Current(At(w, "take"), TRUE).at = "take" /\ Current(At(w, "edit"), TRUE).at = "edit"
    BY <1>2, <1>3
  <2>3. /\ Plan(w) => Moves(w, AtEnd(w, "done")) \/ Moves(w, Planned(w))
        /\ Hold(w) => Moves(w, At(w, "meta")) \/ Moves(w, AtEnd(w, "fail"))
        /\ Meta(w) => Moves(w, AtEnd(w, "fail")) \/ Moves(w, Current(At(w, "take"), TRUE))
        /\ Take(w) => \/ Moves(w, Current(At(w, "edit"), TRUE))
                      \/ Moves(w, AtEnd(w, "dead")) \/ Moves(w, AtEnd(w, "fail"))
    BY <1>1, EditMoves
  <2> QED BY <1>5, <1>6, <2>1, <2>2, <2>3
<1>11. Edit(w) => work'[w].at \in {"unlock", "put"}
  <2>1. EditDone(w).at = "unlock" /\ EditBegun(w).at = "put"
    BY <1>1 DEF EditDone, EditBegun, Works
  <2>2. Edit(w) => Moves(w, EditDone(w)) \/ Moves(w, EditBegun(w))
    BY <1>1, EditMoves
  <2> QED BY <1>6, <2>1, <2>2
<1>12. Put(w) => \/ work'[w].at = "note" /\ work'[w] = Current(PutDone(w), TRUE)
                 \/ work'[w].at = "unlock" /\ work'[w].end # "done"
  <2>1. Current(PutDone(w), TRUE).at = "note"
    BY <1>1 DEF PutDone, Current, Works
  <2>5. /\ Back(w, "fail").end = "fail" /\ Back(w, "dead").end = "dead"
        /\ Back(w, "fail") \in Works
    BY <1>1, <1>3, AtTypes
  <2>2. Current(Back(w, "fail"), TRUE).at = "unlock" /\ Current(Back(w, "fail"), TRUE).end = "fail"
    <3>1. \A me \in Works : /\ Current(me, TRUE).at = me.at /\ Current(me, TRUE).end = me.end
      BY <1>1, AtTypes
    <3> QED BY <1>5, <2>5, <3>1
  <2>3. Put(w) => \/ Moves(w, Current(PutDone(w), TRUE))
                  \/ Moves(w, Current(Back(w, "fail"), TRUE))
                  \/ Moves(w, Back(w, "dead")) \/ Moves(w, Back(w, "fail"))
    BY <1>1, EditMoves
  <2>4. \A end \in {"fail", "dead"} : end # "done"
    OBVIOUS
  <2> QED BY <1>4, <1>5, <2>1, <2>2, <2>3, <2>4, <2>5
<1>13. Note(w) => work'[w].at = "unlock"
  <2>1. Note(w) => Moves(w, Back(w, "done")) \/ Moves(w, Back(w, "dead"))
    BY <1>1, EditMoves
  <2> QED BY <1>5, <1>6, <2>1
<1>14. Unlock(w) \/ Record(w) => work'[w].at \in {"settle", "record"}
  <2>1. Left(w).at \in {"settle", "record"} /\ Left(w) \in Works
    BY <1>2, <1>3 DEF Left
  <2>2. Current(Left(w), FALSE).at = Left(w).at
    BY <1>2, <2>1
  <2> QED BY <1>1, <1>2, <1>3, <1>4, <2>1, <2>2, EditMoves
<1>15. Settle(w) \/ Crash(w) => work'[w].at = "idle"
  <2>1. Settle(w) \/ Crash(w) => Moves(w, Idle)
    BY <1>1, OtherMoves
  <2> QED BY <1>4, <2>1 DEF Idle
<1>16. Outage(w) => \/ work'[w].at = "settle"
                    \/ work'[w].at = "unlock" /\ work'[w].end # "done"
  <2>1. Outage(w) => Moves(w, Back(w, "fail")) \/ Moves(w, AtEnd(w, "fail"))
    BY <1>1, OtherMoves
  <2>2. Back(w, "fail").end = "fail"
    BY <1>1, <1>3, AtTypes
  <2> QED BY <1>4, <1>5, <2>1, <2>2
<1>17. Claim(w) => work'[w].at \in {"guard", "plan"}
  <2>1. ASSUME Claim(w) PROVE work'[w].at \in {"guard", "plan"}
    <3>1. PICK r \in DOMAIN rows :
             Moves(w, [Idle EXCEPT !.at = IF rows[r].job.kind = "upload" THEN "guard" ELSE "plan",
                                   !.row = r, !.job = rows[r].job])
      BY <1>1, <2>1, OtherMoves
    <3>2. work'[w] = [Idle EXCEPT !.at = IF rows[r].job.kind = "upload" THEN "guard" ELSE "plan",
                                  !.row = r, !.job = rows[r].job]
      BY <1>4, <3>1
    <3> QED BY <3>2 DEF Idle
  <2> QED BY <2>1
<1> QED BY <1>7, <1>8, <1>9, <1>10, <1>11, <1>14, <1>15, <1>16, <1>17, <1>12, <1>13

\* Only a step of w that met or made the file itself leads w to the next write on it.
LEMMA UploadStages ==
    ASSUME Typed, NEW w \in Worker, Step(w) \/ Outage(w) \/ Crash(w) \/ Claim(w)
    PROVE  /\ work'[w].at = "version" => /\ Conflict(w) /\ Ours(files[Slot(work[w].job)])
                                         /\ work'[w].job = work[w].job
           /\ work'[w].at = "register" => /\ Post(w) \/ Version(w)
                                          /\ work'[w].job = work[w].job
BY Stages DEF Step

\* A write that took effect, whether its answer came or not.
LEMMA Written ==
    ASSUME Typed, FolderInv, NEW w \in Worker, Post(w) \/ Version(w)
    PROVE  /\ Slot(work[w].job) \in DOMAIN files /\ work[w].job.doc \in Doc
           /\ files'[Slot(work[w].job)] # None
           /\ files'[Slot(work[w].job)].content = work[w].job.doc
<1> DEFINE s == Slot(work[w].job)
<1>1. work[w].at \in UploadAts /\ FilesOK /\ WorkOK
  BY DEF Post, Version, UploadAts, Typed
<1>2. s \in DOMAIN files /\ work[w].job.doc \in Doc
  BY <1>1, UploadJob DEF FilesOK
<1>3. Version(w) => files[s] \in File
  BY <1>1, <1>2 DEF Version, FolderInv, UploadOK, FilesOK
<1>4. Post(w) => files' = [files EXCEPT ![s] = [content |-> work[w].job.doc, registered |-> None]]
  BY DEF Post
<1>5. Version(w) => files' = [files EXCEPT ![s].content = work[w].job.doc]
  BY DEF Version
<1>6. [content |-> work[w].job.doc, registered |-> None] \in File
  BY <1>2 DEF File
<1>7. Version(w) => /\ [files[s] EXCEPT !.content = work[w].job.doc] \in File
                    /\ [files[s] EXCEPT !.content = work[w].job.doc].content = work[w].job.doc
  BY <1>2, <1>3 DEF File
<1> HIDE DEF s
<1>8. CASE Post(w)
  BY <1>2, <1>4, <1>6, <1>8 DEF s
<1>9. CASE Version(w)
  <2>1. files'[s] = [files[s] EXCEPT !.content = work[w].job.doc]
    BY <1>2, <1>5, <1>9
  <2> QED BY <1>2, <1>7, <1>9, <2>1 DEF s
<1> QED BY <1>8, <1>9

\* FolderInv is kept.
LEMMA FolderStep ==
    ASSUME Typed, FolderInv, Next
    PROVE  FolderInv'
<1>1. /\ FilesOK /\ WorkOK /\ FilesOK' /\ DOMAIN files' = DOMAIN files
      /\ \A s \in DOMAIN files :
            /\ Stays(s)
            /\ files'[s] # None /\ files'[s].registered # None => files'[s].content # None
  BY FilesStep DEF Typed
<1>2. ASSUME NEW x \in Worker, Same(x) PROVE UploadOK(work[x])'
  <2>1. work[x] \in Works /\ UploadOK(work[x])
    BY <1>1 DEF WorkOK, FolderInv
  <2>2. work'[x].at = work[x].at /\ work'[x].job = work[x].job
    BY <1>2, <2>1 DEF Same, Works
  <2>3. work[x].at \in UploadAts => Slot(work[x].job) \in DOMAIN files
    BY <1>1, UploadJob DEF FilesOK
  <2>4. Slot(work[x].job)' = Slot(work[x].job)
    BY <2>2 DEF Slot
  <2> QED BY <1>1, <2>1, <2>2, <2>3, <2>4 DEF UploadOK, Stays, UploadAts
<1>3. ASSUME NEW w \in Worker, Step(w) \/ Outage(w) \/ Crash(w) \/ Claim(w)
      PROVE  UploadOK(work[w])'
  <2> DEFINE s == Slot(work[w].job)
  <2>1. work'[w].at = "version" => /\ Conflict(w) /\ Ours(files[s])
                                   /\ work'[w].job = work[w].job
    BY <1>3, UploadStages
  <2>2. work'[w].at = "register" => (Post(w) \/ Version(w)) /\ work'[w].job = work[w].job
    BY <1>3, UploadStages
  <2>4. CASE Conflict(w) /\ Ours(files[s]) /\ work'[w].job = work[w].job
             /\ work'[w].at = "version"
    <3>1. /\ work[w].at \in UploadAts /\ files' = files
          /\ files[s] # None /\ files[s].registered # None
      BY <2>4 DEF Conflict, UploadAts, Ours
    <3>2. Slot(work[w].job)' = s
      BY <2>4 DEF Slot
    <3> QED BY <2>4, <3>1, <3>2 DEF UploadOK
  <2>5. CASE (Post(w) \/ Version(w)) /\ work'[w].job = work[w].job /\ work'[w].at = "register"
    <3>1. Slot(work[w].job)' = s
      BY <2>5 DEF Slot
    <3>2. files'[s] # None /\ files'[s].content = work[w].job.doc /\ work[w].job.doc \in Doc
      BY <2>5, Written
    <3> QED BY <2>5, <3>1, <3>2 DEF UploadOK
  <2>6. work'[w].at \notin {"version", "register"} => UploadOK(work[w])'
    BY DEF UploadOK
  <2> QED BY <2>1, <2>2, <2>4, <2>5, <2>6
<1>4. \A x \in Worker : UploadOK(work[x])'
  BY <1>2, <1>3, WhoMoves
<1> QED BY <1>1, <1>4 DEF FolderInv

\* The workbook stays of its type.
LEMMA SheetStep ==
    ASSUME Typed, Next
    PROVE  SheetOK'
<1>1. SheetOK /\ WorkOK
  BY DEF Typed
<1>2. \A lock \in {None, "ours", "person"} : sheet' = [sheet EXCEPT !.lock = lock] => SheetOK'
  BY <1>1 DEF SheetOK
<1>3. sheet' = sheet => SheetOK'
  BY <1>1 DEF SheetOK
<1>4. PersonOpens \/ LockEnds => SheetOK'
  BY <1>2 DEF PersonOpens, LockEnds
<1>5. ASSUME PersonSaves PROVE SheetOK'
  <2>1. sheet.human \in Nat
    BY <1>1 DEF SheetOK
  <2>2. sheet.human + 1 \in Nat
    BY <2>1
  <2>3. \A n \in Nat : [sheet EXCEPT !.human = n]
                         \in [rows : [Line -> Nat], tag : [Line -> Invoice \cup {None}],
                              human : Nat, lock : {None, "ours", "person"}]
    BY <1>1 DEF SheetOK
  <2> QED BY <1>5, <2>2, <2>3 DEF PersonSaves, SheetOK
<1>6. ASSUME NEW w \in Worker, Take(w) \/ Unlock(w) PROVE SheetOK'
  <2>1. sheet.lock \in {None, "ours", "person"}
    BY <1>1 DEF SheetOK
  <2>2. Take(w) => sheet' = sheet \/ sheet' = [sheet EXCEPT !.lock = "ours"]
    BY DEF Take
  <2>3. Unlock(w) => \/ sheet' = sheet
                     \/ sheet' = [sheet EXCEPT !.lock = IF sheet.lock = "ours" THEN None
                                                        ELSE sheet.lock]
    BY DEF Unlock
  <2> QED BY <1>2, <1>3, <1>6, <2>1, <2>2, <2>3
<1>7. ASSUME NEW w \in Worker, Put(w) PROVE SheetOK'
  <2>1. work[w].bytes \in Book
    BY <1>1, <1>7 DEF Put, WorkOK, Fits
  <2>2. \/ sheet' = sheet
        \/ sheet' = [sheet EXCEPT !.rows = work[w].bytes.rows, !.tag = work[w].bytes.tag,
                                  !.human = work[w].bytes.human]
    BY <1>1, <1>7, EditMoves
  <2>3. \A b \in Book : [sheet EXCEPT !.rows = b.rows, !.tag = b.tag, !.human = b.human]
                          \in [rows : [Line -> Nat], tag : [Line -> Invoice \cup {None}],
                               human : Nat, lock : {None, "ours", "person"}]
    BY <1>1 DEF SheetOK, Book
  <2> QED BY <1>3, <2>1, <2>2, <2>3 DEF SheetOK
<1> QED BY <1>3, <1>4, <1>5, <1>6, <1>7, SheetFrame

\* The cache changes to what was found whole only.
LEMMA RecordedCache ==
    ASSUME Typed, NEW w \in Worker, Record(w)
    PROVE  \/ cache' = cache
           \/ /\ work[w].whole
              /\ work[w].job \in Jobs /\ work[w].plan \in SUBSET Line
              /\ cache' = [cache EXCEPT ![work[w].job.inv] = Hash(work[w].job, work[w].plan)]
BY DEF Record, Typed, WorkOK, Fits, Works

\* The cache stays of its type, ...
LEMMA CacheStep ==
    ASSUME Typed, Next
    PROVE  CacheOK'
<1>1. CacheOK
  BY DEF Typed
<1>2. cache' = cache => CacheOK'
  BY <1>1 DEF CacheOK
<1>3. ASSUME NEW w \in Worker, Record(w) PROVE CacheOK'
  <2>1. \A job \in Jobs, plan \in SUBSET Line :
           Hash(job, plan) \in [kind : Kind, lines : SUBSET Line]
    BY DEF Hash, Jobs, Job
  <2>2. ASSUME NEW h \in [kind : Kind, lines : SUBSET Line], NEW e,
               cache' = [cache EXCEPT ![e] = h]
        PROVE  CacheOK'
    <3> DEFINE H == [kind : Kind, lines : SUBSET Line]
    <3>1. cache \in [Invoice \cup {None} -> H \cup {None}] /\ h \in H
      BY <1>1 DEF CacheOK
    <3> HIDE DEF H
    <3>2. cache' \in [Invoice \cup {None} -> H \cup {None}]
      BY <2>2, <3>1
    <3> QED BY <3>2 DEF CacheOK, H
  <2> QED BY <1>2, <1>3, <2>1, <2>2, RecordedCache
<1> QED BY <1>2, <1>3, SheetFrame

\* ... the links and the tags on paper ...
LEMMA LinkStep ==
    ASSUME Typed, Next
    PROVE  LinkOK'
<1>1. LinkOK
  BY DEF Typed
<1>2. UNCHANGED <<link, paper>> => LinkOK'
  BY <1>1 DEF LinkOK
<1>3. ASSUME NEW i \in Invoice, AskStamp(i) \/ AskClear(i) PROVE LinkOK'
  BY <1>1, <1>3 DEF LinkOK, AskStamp, AskClear
<1>4. ASSUME NEW l \in Line, NEW i \in Invoice \cup {None}, Relink(l, i) PROVE LinkOK'
  BY <1>1, <1>4 DEF LinkOK, Relink
<1>5. \A w \in Worker : Step(w) \/ Outage(w) \/ Crash(w) \/ LoseLocks(w) \/ Claim(w) =>
         UNCHANGED <<link, paper>>
  BY WorkerFrame
<1>6. AskInsert \/ CoalesceUpload \/ ReclaimSome \/ LockEnds \/ PersonOpens \/ PersonSaves
         => UNCHANGED <<link, paper>>
  BY DEF AskInsert, CoalesceUpload, ReclaimSome, Reclaim, LockEnds, PersonOpens, PersonSaves
<1>7. \A t \in Targets : AskUpload(t[1], t[2]) => UNCHANGED <<link, paper>>
  BY DEF AskUpload
<1>8. \A s \in DOMAIN files : PersonFiles(s) => UNCHANGED <<link, paper>>
  BY DEF PersonFiles
<1> QED BY <1>2, <1>3, <1>4, <1>5, <1>6, <1>7, <1>8 DEF Next, ClaimSome

\* ... and the owners of the locks.
LEMMA LocksStep ==
    ASSUME Typed, Next
    PROVE  LocksOK'
<1>1. LocksOK
  BY DEF Typed
<1>2. ASSUME NEW w \in Worker, Step(w) \/ Outage(w) \/ Crash(w) \/ LoseLocks(w) \/ Claim(w)
      PROVE  LocksOK'
  BY <1>1, <1>2, WorkerFrame DEF LocksOK
<1>3. UNCHANGED <<drain, hold>> => LocksOK'
  BY <1>1 DEF LocksOK
<1>4. AskInsert \/ CoalesceUpload \/ ReclaimSome \/ LockEnds \/ PersonOpens \/ PersonSaves
         => UNCHANGED <<drain, hold>>
  BY DEF AskInsert, CoalesceUpload, ReclaimSome, Reclaim, LockEnds, PersonOpens, PersonSaves
<1>5. \A i \in Invoice : AskStamp(i) \/ AskClear(i) => UNCHANGED <<drain, hold>>
  BY DEF AskStamp, AskClear
<1>6. \A l \in Line, i \in Invoice \cup {None} : Relink(l, i) => UNCHANGED <<drain, hold>>
  BY DEF Relink
<1>7. \A t \in Targets : AskUpload(t[1], t[2]) => UNCHANGED <<drain, hold>>
  BY DEF AskUpload
<1>8. \A s \in DOMAIN files : PersonFiles(s) => UNCHANGED <<drain, hold>>
  BY DEF PersonFiles
<1> QED BY <1>2, <1>3, <1>4, <1>5, <1>6, <1>7, <1>8 DEF Next, ClaimSome

\* The bounds of the model are kept.
LEMMA CountStep ==
    ASSUME Typed, Next
    PROVE  CountOK'
<1>1. CountOK /\ MaxMove \in Nat /\ MaxTouch \in Nat /\ MaxTrouble \in Nat
  BY DEF Typed
<1>2. UNCHANGED trouble \/ Bother => trouble' \in 0 .. MaxTrouble
  BY <1>1 DEF CountOK, Bother
<1>3. UNCHANGED touches \/ Touch => touches' \in 0 .. MaxTouch
  BY <1>1 DEF CountOK, Touch
<1>4. \A w \in Worker : Step(w) \/ Outage(w) \/ Crash(w) \/ LoseLocks(w) \/ Claim(w) =>
         UNCHANGED <<moves, touches>> /\ (UNCHANGED trouble \/ Bother)
  <2>1. \A w \in Worker : Step(w) \/ Outage(w) \/ Crash(w) \/ LoseLocks(w) \/ Claim(w) =>
           UNCHANGED <<moves, touches>>
    BY WorkerFrame
  <2>2. \A w \in Worker : Guard(w) \/ Post(w) \/ Conflict(w) \/ Version(w) \/ Register(w) =>
           UNCHANGED trouble \/ Bother
    BY DEF Guard, Post, Conflict, Version, Register, Answered
  <2>3. \A w \in Worker : Plan(w) \/ Hold(w) \/ Meta(w) \/ Take(w) \/ Edit(w) => UNCHANGED trouble
    BY DEF Plan, Hold, Meta, Take, Edit
  <2>4. \A w \in Worker : Put(w) \/ Note(w) => UNCHANGED trouble \/ Bother
    BY DEF Put, Note
  <2>5. \A w \in Worker : Unlock(w) \/ Record(w) => UNCHANGED trouble \/ Bother
    BY DEF Unlock, Record
  <2>6. \A w \in Worker : Settle(w) \/ Outage(w) \/ Crash(w) \/ LoseLocks(w) \/ Claim(w) =>
           UNCHANGED trouble \/ Bother
    BY DEF Settle, Outage, Crash, LoseLocks, Claim
  <2>7. \A w \in Worker : Step(w) \/ Outage(w) \/ Crash(w) \/ LoseLocks(w) \/ Claim(w) =>
           UNCHANGED trouble \/ Bother
    BY <2>2, <2>3, <2>4, <2>5, <2>6 DEF Step
  <2> HIDE DEF Bother
  <2> QED BY <2>1, <2>7
<1>5. AskInsert \/ CoalesceUpload \/ ReclaimSome \/ LockEnds
         => UNCHANGED <<moves, touches, trouble>>
  BY DEF AskInsert, CoalesceUpload, ReclaimSome, Reclaim, LockEnds
<1>6. PersonOpens \/ PersonSaves => UNCHANGED <<moves, trouble>> /\ Touch
  BY DEF PersonOpens, PersonSaves
<1>7. \A i \in Invoice : AskStamp(i) \/ AskClear(i) => UNCHANGED <<moves, touches, trouble>>
  BY DEF AskStamp, AskClear
<1>8. \A l \in Line, i \in Invoice \cup {None} : Relink(l, i) =>
         UNCHANGED <<touches, trouble>> /\ moves < MaxMove /\ moves' = moves + 1
  BY DEF Relink
<1>9. \A t \in Targets : AskUpload(t[1], t[2]) => UNCHANGED <<moves, touches, trouble>>
  BY DEF AskUpload
<1>10. \A s \in DOMAIN files : PersonFiles(s) => UNCHANGED <<moves, trouble>> /\ Touch
  BY DEF PersonFiles
<1>11. moves' = moves \/ (moves < MaxMove /\ moves' = moves + 1) => moves' \in 0 .. MaxMove
  BY <1>1 DEF CountOK
<1>12. \/ UNCHANGED moves
       \/ moves < MaxMove /\ moves' = moves + 1
  BY <1>4, <1>5, <1>6, <1>7, <1>8, <1>9, <1>10 DEF Next, ClaimSome
<1>13. UNCHANGED touches \/ Touch
  BY <1>4, <1>5, <1>6, <1>7, <1>8, <1>9, <1>10 DEF Next, ClaimSome
<1>14. UNCHANGED trouble \/ Bother
  BY <1>4, <1>5, <1>6, <1>7, <1>8, <1>9, <1>10 DEF Next, ClaimSome
<1> QED BY <1>2, <1>3, <1>11, <1>12, <1>13, <1>14 DEF CountOK

\* Both invariants hold at the start.
LEMMA TypedInit ==
    ASSUME Init
    PROVE  Typed /\ FolderInv
<1>1. RowsOK
  <2>1. rows = <<>> /\ Len(<<>>) = 0 /\ DOMAIN rows = {} /\ <<>> \in Seq(RowType)
    BY DEF Init
  <2> QED BY <2>1 DEF RowsOK
<1>2. AskedOK /\ FilesOK /\ CacheOK /\ LinkOK /\ LocksOK /\ CountOK
  BY DEF Init, AskedOK, FilesOK, CacheOK, LinkOK, LocksOK, CountOK
<1>3. SheetOK
  <2>1. \A n \in [Line -> 0 .. 1] : n \in [Line -> Nat]
    OBVIOUS
  <2>2. [l \in Line |-> None] \in [Line -> Invoice \cup {None}]
    OBVIOUS
  <2> QED BY <2>1, <2>2 DEF Init, SheetOK
<1>4. WorkOK
  <2>1. Idle \in Works /\ Fits(Idle)
    BY DEF Works, Idle, Ats, Fits
  <2>2. work = [w \in Worker |-> Idle]
    BY DEF Init
  <2> HIDE DEF Idle
  <2> QED BY <2>1, <2>2 DEF WorkOK
<1>5. FolderInv
  <2>1. \A w \in Worker : work[w].at = "idle"
    BY DEF Init, Idle
  <2>2. \A s \in DOMAIN files : files[s] = None
    BY DEF Init
  <2> QED BY <2>1, <2>2 DEF FolderInv, UploadOK
<1> QED BY <1>1, <1>2, <1>3, <1>4, <1>5 DEF Typed

\* Typed and FolderInv are invariants, together: each needs the other.
LEMMA TypedHolds == Spec => [](Typed /\ FolderInv)
<1>1. ASSUME Typed /\ FolderInv, [Next]_vars PROVE (Typed /\ FolderInv)'
  <2>1. CASE Next
    <3>1. RowsOK' /\ AskedOK' /\ WorkOK' /\ FilesOK'
      BY <1>1, <2>1, RowsStep, AskedStep, WorkStep, FilesStep
    <3>2. SheetOK' /\ CacheOK' /\ LinkOK' /\ LocksOK' /\ CountOK'
      BY <1>1, <2>1, SheetStep, CacheStep, LinkStep, LocksStep, CountStep
    <3>3. FolderInv'
      BY <1>1, <2>1, FolderStep
    <3> QED BY <3>1, <3>2, <3>3 DEF Typed
  <2>2. CASE UNCHANGED vars
    <3>1. Typed'
      BY <1>1, <2>2 DEF Typed, RowsOK, AskedOK, FilesOK, SheetOK, CacheOK, LinkOK, LocksOK,
                        CountOK, WorkOK, Fits, Open, vars
    <3>2. FolderInv'
      BY <1>1, <2>2 DEF FolderInv, UploadOK, vars
    <3> QED BY <3>1, <3>2
  <2> QED BY <1>1, <2>1, <2>2
<1> QED BY <1>1, TypedInit, PTL DEF Spec

\* Rows, files, locks and counters stay within their types and bounds: no row is claimed
\* more than MAX_ATTEMPTS times, whatever is reclaimed, lost or settled twice.
THEOREM BoxTypeCorrect == Spec => []TypeOK
<1>1. Typed => TypeOK
  BY TypedIsTypeOK
<1> QED BY <1>1, TypedHolds, PTL

\* push_blob_to_box never gives a new version to a file that is not ours: on a name
\* conflict it writes only to a file in the registry, and whoever registers one wrote it.
THEOREM PersonsFilesSurvive == Spec => PersonsFileKept
<1> DEFINE Kept == \A s \in DOMAIN files :
                      files[s] # None /\ files[s].content = None => files'[s].content = None
<1>1. ASSUME Typed /\ FolderInv, [Next]_vars PROVE [Kept]_vars
  <2>1. FilesOK /\ WorkOK
    BY <1>1 DEF Typed
  <2>2. CASE files' = files
    BY <2>2
  <2>3. ASSUME NEW w \in Worker, Post(w) \/ Version(w) \/ Register(w), files' # files PROVE Kept
    <3> DEFINE s == Slot(work[w].job)
               d == work[w].job.doc
    <3>1. work[w].at \in UploadAts
      BY <2>3 DEF Post, Version, Register, UploadAts
    <3>2. s \in DOMAIN files /\ d \in Doc
      BY <2>1, <3>1, UploadJob DEF FilesOK
    <3>3. /\ UploadOK(work[w])
          /\ files[s] # None /\ files[s].registered # None => files[s].content # None
      BY <1>1, <3>2 DEF FolderInv
    <3>4. files[s] = None \/ files[s].content # None
      BY <2>3, <3>3 DEF UploadOK, Post, Version, Register
    <3>5. \A q \in DOMAIN files : q # s => files'[q] = files[q]
      BY <2>3 DEF Post, Version, Register
    <3> HIDE DEF s
    <3> QED BY <3>2, <3>4, <3>5
  <2>4. ASSUME NEW s \in DOMAIN files, PersonFiles(s) PROVE Kept
    <3>1. files[s] = None /\ \A q \in DOMAIN files : q # s => files'[q] = files[q]
      BY <2>4 DEF PersonFiles
    <3> QED BY <3>1
  <2>5. CASE UNCHANGED vars
    BY <2>2, <2>5 DEF vars
  <2> QED BY <1>1, <2>2, <2>3, <2>4, <2>5, FilesFrame
<1> QED BY <1>1, TypedHolds, PTL DEF PersonsFileKept, Spec

-----------------------------------------------------------------------------
(* The worksheet and its cache *)

\* How the rows of the worksheet and the edits of people change.
LEMMA SheetWrites ==
    ASSUME Typed, Next
    PROVE  \/ sheet'.rows = sheet.rows /\ sheet'.human = sheet.human
           \/ /\ sheet'.rows = sheet.rows /\ sheet'.human = sheet.human + 1
              /\ \A x \in Worker : Same(x) /\ ~ work'[x].current
           \/ \E w \in Worker :
                 /\ Put(w) /\ work[w].at = "put" /\ work[w].current
                 /\ sheet'.rows = work[w].bytes.rows /\ sheet'.human = work[w].bytes.human
                 /\ \A x \in Worker : x # w => ~ work'[x].current
<1>1. SheetOK /\ WorkOK
  BY DEF Typed
<1>2. \A lock : sheet' = [sheet EXCEPT !.lock = lock]
                   => sheet'.rows = sheet.rows /\ sheet'.human = sheet.human
  BY <1>1 DEF SheetOK
<1>3. PersonOpens \/ LockEnds => sheet'.rows = sheet.rows /\ sheet'.human = sheet.human
  BY <1>2 DEF PersonOpens, LockEnds
<1>4. ASSUME NEW w \in Worker, Take(w) \/ Unlock(w)
      PROVE  sheet'.rows = sheet.rows /\ sheet'.human = sheet.human
  <2>1. Take(w) => sheet' = sheet \/ sheet' = [sheet EXCEPT !.lock = "ours"]
    BY DEF Take
  <2>2. Unlock(w) => \/ sheet' = sheet
                     \/ sheet' = [sheet EXCEPT !.lock = IF sheet.lock = "ours" THEN None
                                                        ELSE sheet.lock]
    BY DEF Unlock
  <2> QED BY <1>2, <1>4, <2>1, <2>2
<1>5. ASSUME PersonSaves
      PROVE  /\ sheet'.rows = sheet.rows /\ sheet'.human = sheet.human + 1
             /\ \A x \in Worker : Same(x) /\ ~ work'[x].current
  <2>1. sheet'.rows = sheet.rows /\ sheet'.human = sheet.human + 1
    BY <1>1, <1>5 DEF PersonSaves, SheetOK
  <2>2. \A x \in Worker : work'[x] = [work[x] EXCEPT !.current = (x = None)]
    BY <1>5 DEF PersonSaves, Bumped
  <2>3. \A x \in Worker : (x = None) = FALSE
    OBVIOUS
  <2>4. \A x \in Worker : work'[x] = [work[x] EXCEPT !.current = FALSE]
    BY <2>2, <2>3
  <2>5. \A x \in Worker : work[x] \in Works
    BY <1>1 DEF WorkOK
  <2> QED BY <2>1, <2>4, <2>5 DEF Same, Works
<1>6. ASSUME NEW w \in Worker, Put(w), sheet' # sheet
      PROVE  /\ work[w].at = "put" /\ work[w].current
             /\ sheet'.rows = work[w].bytes.rows /\ sheet'.human = work[w].bytes.human
             /\ \A x \in Worker : x # w => ~ work'[x].current
  <2>1. /\ work[w].current
        /\ sheet' = [sheet EXCEPT !.rows = work[w].bytes.rows, !.tag = work[w].bytes.tag,
                                  !.human = work[w].bytes.human]
        /\ \A x \in Worker : x # w => ~ work'[x].current
    BY <1>1, <1>6, EditMoves
  <2>2. sheet'.rows = work[w].bytes.rows /\ sheet'.human = work[w].bytes.human
    BY <1>1, <2>1 DEF SheetOK
  <2> QED BY <1>6, <2>1, <2>2 DEF Put
<1> QED BY <1>3, <1>4, <1>5, <1>6, SheetFrame

\* Editing adds the missing lines once, and nothing that is there disappears.
LEMMA EditedRows ==
    ASSUME NEW job \in Jobs, NEW plan \in SUBSET Line, NEW b \in Book, Single(b.rows),
           job.kind # "upload"
    PROVE  /\ Single(Edited(job, plan, b).rows)
           /\ Present(b) \subseteq Present(Edited(job, plan, b))
           /\ Whole(job, plan, b) => plan \subseteq Present(Edited(job, plan, b))
<1>1. \A l \in Line : b.rows[l] \in 0 .. 1
  BY DEF Single
<1>2. CASE job.kind # "insert"
  <2>1. Edited(job, plan, b).rows = b.rows
    BY <1>2, EditedType
  <2>2. Whole(job, plan, b) => plan \subseteq Present(b)
    BY <1>2 DEF Whole, StampLike, Jobs, Job, Kind
  <2>3. Present(Edited(job, plan, b)) = Present(b)
    BY <2>1 DEF Present
  <2> QED BY <2>1, <2>2, <2>3
<1>3. CASE job.kind = "insert"
  <2> DEFINE n == [l \in Line |-> b.rows[l] + IF l \in plan \ Present(b) THEN 1 ELSE 0]
  <2>1. Edited(job, plan, b).rows = n
    BY <1>3, EditedType
  <2>2. \A l \in Line : /\ l \in Present(b) => n[l] = 1
                        /\ l \in plan => n[l] = 1
                        /\ n[l] \in 0 .. 1
    BY <1>1 DEF Present
  <2>3. n \in [Line -> 0 .. 1]
    BY <2>2
  <2> HIDE DEF n
  <2> QED BY <2>1, <2>2, <2>3 DEF Single, Present
<1> QED BY <1>2, <1>3

\* The worksheet a worker may write, and what it may remember of it.
LEMMA EditStep ==
    ASSUME Typed, BookInv, Next
    PROVE  /\ Single(sheet'.rows) /\ Present(sheet) \subseteq Present(sheet)'
           /\ sheet'.human >= sheet.human
           /\ \A x \in Worker : EditOK(work[x])'
<1>1. SheetOK /\ WorkOK /\ \A x \in Worker : EditOK(work[x]) /\ work[x] \in Works
  BY DEF Typed, BookInv, WorkOK
<1>2. Single(sheet'.rows) /\ Present(sheet) \subseteq Present(sheet)' /\ sheet'.human >= sheet.human
  <2>1. ASSUME NEW w \in Worker, work[w].at = "put", work[w].current,
               sheet'.rows = work[w].bytes.rows, sheet'.human = work[w].bytes.human
        PROVE  /\ Single(sheet'.rows) /\ Present(sheet) \subseteq Present(sheet)'
               /\ sheet'.human >= sheet.human
    <3>1. /\ Single(work[w].bytes.rows) /\ work[w].bytes.human = sheet.human
          /\ Present(sheet) \subseteq Present(work[w].bytes)
      BY <1>1, <2>1 DEF EditOK
    <3>2. Present(sheet)' = Present(work[w].bytes)
      BY <2>1 DEF Present
    <3>3. sheet.human \in Nat
      BY <1>1 DEF SheetOK
    <3> QED BY <2>1, <3>1, <3>2, <3>3
  <2>2. ASSUME sheet'.rows = sheet.rows,
               sheet'.human = sheet.human \/ sheet'.human = sheet.human + 1
        PROVE  /\ Single(sheet'.rows) /\ Present(sheet) \subseteq Present(sheet)'
               /\ sheet'.human >= sheet.human
    <3>1. sheet.human \in Nat /\ Single(sheet.rows)
      BY DEF Typed, SheetOK, BookInv
    <3> QED BY <2>2, <3>1 DEF Present
  <2> QED BY <2>1, <2>2, SheetWrites
<1>3. ASSUME NEW x \in Worker, Same(x),
             \/ sheet'.rows = sheet.rows /\ sheet'.human = sheet.human
             \/ ~ work'[x].current
      PROVE  EditOK(work[x])'
  <2>1. /\ work'[x].at = work[x].at /\ work'[x].bytes = work[x].bytes
        /\ work'[x].whole = work[x].whole /\ work'[x].plan = work[x].plan
        /\ work'[x].end = work[x].end /\ (work'[x].current => work[x].current)
    BY <1>1, <1>3 DEF Same, Works
  <2>2. EditOK(work[x])
    BY <1>1
  <2>3. Present(work[x].bytes)' = Present(work[x].bytes)
    BY <2>1 DEF Present
  <2>4. sheet'.rows = sheet.rows => Present(sheet)' = Present(sheet)
    BY DEF Present
  <2>5. work'[x].at = "put" => /\ Single(work'[x].bytes.rows)
                               /\ work'[x].whole => work'[x].plan \subseteq Present(work[x].bytes)'
    BY <2>1, <2>2, <2>3 DEF EditOK
  <2>6. work'[x].at = "put" /\ work'[x].current =>
           /\ work'[x].bytes.human = sheet'.human
           /\ Present(sheet)' \subseteq Present(work[x].bytes)'
    BY <1>3, <2>1, <2>2, <2>3, <2>4 DEF EditOK
  <2>7. work'[x].at \in {"note", "record"} \/ (work'[x].at = "unlock" /\ work'[x].end = "done") =>
           (work'[x].whole => work'[x].plan \subseteq Present(sheet)')
    BY <1>2, <2>1, <2>2 DEF EditOK
  <2> QED BY <2>5, <2>6, <2>7 DEF EditOK
<1>4. ASSUME NEW w \in Worker, Step(w) \/ Outage(w) \/ Crash(w) \/ Claim(w)
      PROVE  EditOK(work[w])'
  <2>1. \/ work'[w].at \notin {"put", "note", "record", "unlock"}
        \/ work'[w].at = "unlock" /\ work'[w].end # "done"
        \/ Edit(w)
        \/ Put(w) /\ work'[w].at = "note"
        \/ Note(w) /\ work'[w].at = "unlock"
        \/ (Unlock(w) \/ Record(w)) /\ work'[w].at = "record"
    <3>1. Guard(w) \/ Post(w) \/ Conflict(w) \/ Version(w) \/ Register(w)
             => work'[w].at \notin {"put", "note", "record", "unlock"}
      BY <1>1, Stages
    <3>2. Plan(w) \/ Hold(w) \/ Meta(w) \/ Take(w) \/ Settle(w) \/ Crash(w) \/ Claim(w)
             => work'[w].at \notin {"put", "note", "record", "unlock"}
      BY <1>1, Stages
    <3>3. Outage(w) => \/ work'[w].at \notin {"put", "note", "record", "unlock"}
                       \/ work'[w].at = "unlock" /\ work'[w].end # "done"
      BY <1>1, Stages
    <3>4. Put(w) => \/ work'[w].at = "note"
                    \/ work'[w].at = "unlock" /\ work'[w].end # "done"
      BY <1>1, Stages
    <3>5. Note(w) => work'[w].at = "unlock"
      BY <1>1, Stages
    <3>6. Unlock(w) \/ Record(w) => \/ work'[w].at = "record"
                                    \/ work'[w].at \notin {"put", "note", "record", "unlock"}
      BY <1>1, Stages
    <3> QED BY <1>4, <3>1, <3>2, <3>3, <3>4, <3>5, <3>6 DEF Step
  <2>2. CASE \/ work'[w].at \notin {"put", "note", "record", "unlock"}
             \/ work'[w].at = "unlock" /\ work'[w].end # "done"
    BY <2>2 DEF EditOK
  <2>3. CASE Edit(w)
    <3> DEFINE job == work[w].job
               plan == work[w].plan
    <3>1. /\ job \in Jobs /\ job.kind # "upload" /\ plan \in SUBSET Line /\ Bytes \in Book
          /\ Single(Bytes.rows) /\ sheet' = sheet
      <4>1. work[w].at = "edit" /\ sheet' = sheet
        BY <2>3 DEF Edit
      <4>2. job \in Jobs /\ job.kind # "upload" /\ plan \in SUBSET Line
        BY <1>1, <4>1 DEF WorkOK, Fits, ExcelAts, Works
      <4>3. Bytes \in Book /\ Bytes.rows = sheet.rows
        BY <1>1 DEF Bytes, Book, SheetOK
      <4> QED BY <4>1, <4>2, <4>3 DEF BookInv
    <3>2. /\ Single(EditOf(w).rows) /\ Present(Bytes) \subseteq Present(EditOf(w))
          /\ Whole(job, plan, Bytes) => plan \subseteq Present(EditOf(w))
          /\ EditOf(w).human = Bytes.human
      <4>1. EditOf(w) = Edited(job, plan, Bytes)
        BY DEF EditOf
      <4> HIDE DEF job, plan
      <4>2. /\ Single(Edited(job, plan, Bytes).rows)
            /\ Present(Bytes) \subseteq Present(Edited(job, plan, Bytes))
            /\ Whole(job, plan, Bytes) => plan \subseteq Present(Edited(job, plan, Bytes))
        BY <3>1, EditedRows
      <4>3. Edited(job, plan, Bytes).human = Bytes.human
        BY <3>1 DEF Edited, Book
      <4> QED BY <4>1, <4>2, <4>3
    <3>3. /\ Present(Bytes) = Present(sheet) /\ Bytes.human = sheet.human
          /\ Present(sheet)' = Present(sheet)
      BY <3>1 DEF Present, Bytes
    <3>4. CASE EditOf(w) = Bytes /\ work'[w] = EditDone(w)
      <4>1. /\ work'[w].at = "unlock" /\ work'[w].whole = Whole(job, plan, Bytes)
            /\ work'[w].plan = plan
        BY <1>1, <3>4 DEF EditDone, Works
      <4> QED BY <3>2, <3>3, <3>4, <4>1 DEF EditOK
    <3>5. CASE work'[w] = EditBegun(w)
      <4>1. /\ work'[w].at = "put" /\ work'[w].whole = Whole(job, plan, Bytes)
            /\ work'[w].plan = plan /\ work'[w].bytes = EditOf(w)
        BY <1>1, <3>5 DEF EditBegun, Works
      <4>2. Present(work[w].bytes)' = Present(EditOf(w))
        BY <4>1 DEF Present
      <4>3. /\ Single(work'[w].bytes.rows) /\ work'[w].bytes.human = sheet'.human
            /\ Present(sheet)' \subseteq Present(work[w].bytes)'
            /\ work'[w].whole => work'[w].plan \subseteq Present(work[w].bytes)'
        BY <3>1, <3>2, <3>3, <4>1, <4>2
      <4> QED BY <4>1, <4>3 DEF EditOK
    <3>6. \/ EditOf(w) = Bytes /\ work'[w] = EditDone(w)
          \/ work'[w] = EditBegun(w)
      BY <1>1, <2>3, EditMoves DEF Moves
    <3> QED BY <3>4, <3>5, <3>6
  <2>4. CASE Put(w) /\ work'[w].at = "note"
    <3>1. work'[w] = Current(PutDone(w), TRUE)
      BY <1>1, <2>4, Stages
    <3>2. work'[w].whole = work[w].whole /\ work'[w].plan = work[w].plan
      BY <1>1, <3>1 DEF Current, PutDone, Works
    <3>3. work[w].at = "put" /\ (work[w].whole => work[w].plan \subseteq Present(work[w].bytes))
      BY <1>1, <2>4 DEF Put, EditOK
    <3>4. sheet' = [sheet EXCEPT !.rows = work[w].bytes.rows, !.tag = work[w].bytes.tag,
                                 !.human = work[w].bytes.human]
      <4>1. \A end \in {"dead", "fail"} : ~ Moves(w, Back(w, end))
        <5>1. \A end \in Endings : Back(w, end).at = "unlock"
          BY <1>1, AtTypes
        <5> QED BY <2>4, <5>1 DEF Moves, Endings
      <4> QED BY <1>1, <2>4, <4>1, EditMoves
    <3>5. Present(sheet)' = Present(work[w].bytes)
      <4>1. sheet'.rows = work[w].bytes.rows
        BY <1>1, <3>4 DEF SheetOK
      <4> QED BY <4>1 DEF Present
    <3> QED BY <2>4, <3>2, <3>3, <3>5 DEF EditOK
  <2>5. CASE Note(w) /\ work'[w].at = "unlock"
    <3>1. work'[w] = Back(w, "done") \/ work'[w] = Back(w, "dead")
      BY <1>1, <2>5, EditMoves DEF Moves
    <3>2. work'[w].whole = work[w].whole /\ work'[w].plan = work[w].plan
      BY <1>1, <3>1 DEF Back, Works
    <3>3. work[w].whole => work[w].plan \subseteq Present(sheet)
      BY <1>1, <2>5 DEF Note, EditOK
    <3> QED BY <1>2, <2>5, <3>2, <3>3 DEF EditOK
  <2>6. CASE (Unlock(w) \/ Record(w)) /\ work'[w].at = "record"
    <3>1. ~ Record(w)
      <4>1. Record(w) => work'[w] = At(w, "settle")
        BY <1>1, EditMoves DEF Moves
      <4>2. At(w, "settle").at = "settle"
        BY <1>1 DEF At, Works
      <4> QED BY <2>6, <4>1, <4>2
    <3>2. work[w].at = "unlock" /\ (work'[w] = Left(w) \/ work'[w] = Current(Left(w), FALSE))
      BY <1>1, <2>6, <3>1, EditMoves DEF Moves, Unlock
    <3>3. /\ Left(w).at = IF work[w].end = "done" THEN "record" ELSE "settle"
          /\ Left(w).whole = work[w].whole /\ Left(w).plan = work[w].plan
          /\ Current(Left(w), FALSE).at = Left(w).at
          /\ Current(Left(w), FALSE).whole = Left(w).whole
          /\ Current(Left(w), FALSE).plan = Left(w).plan
      BY <1>1 DEF Left, At, Current, Works
    <3>4. work[w].end = "done" /\ work'[w].whole = work[w].whole /\ work'[w].plan = work[w].plan
      BY <2>6, <3>2, <3>3
    <3>5. work[w].whole => work[w].plan \subseteq Present(sheet)
      BY <1>1, <3>2, <3>4 DEF EditOK
    <3> QED BY <1>2, <2>6, <3>4, <3>5 DEF EditOK
  <2> QED BY <2>1, <2>2, <2>3, <2>4, <2>5, <2>6
<1>5. \/ \A x \in Worker : Same(x)
      \/ \E w \in Worker : /\ Step(w) \/ Outage(w) \/ Crash(w) \/ Claim(w)
                           /\ \A x \in Worker : x # w => Same(x)
  BY WhoMoves
<1>6. CASE sheet'.rows = sheet.rows /\ sheet'.human = sheet.human
  BY <1>2, <1>3, <1>4, <1>5, <1>6
<1>7. CASE \A x \in Worker : Same(x) /\ ~ work'[x].current
  BY <1>2, <1>3, <1>7
<1>8. ASSUME NEW w \in Worker, Put(w), \A x \in Worker : x # w => ~ work'[x].current
      PROVE  \A x \in Worker : EditOK(work[x])'
  <2>1. Step(w)
    BY <1>8 DEF Step
  <2>2. \A x \in Worker : x # w => Same(x)
    <3>1. \E me : Moves(w, me)
      BY <1>1, <1>8, EditMoves
    <3> QED BY <3>1 DEF Moves, Same
  <2> QED BY <1>3, <1>4, <1>8, <2>1, <2>2
<1> QED BY <1>2, <1>6, <1>7, <1>8, SheetWrites

\* What is remembered as written stays in the worksheet.
LEMMA CacheEarned ==
    ASSUME Typed, BookInv, Next
    PROVE  CacheIsEarned'
<1>1. CacheOK /\ CacheIsEarned /\ Present(sheet) \subseteq Present(sheet)'
  BY EditStep DEF Typed, BookInv
<1>2. cache' = cache => CacheIsEarned'
  BY <1>1 DEF CacheIsEarned
<1>3. ASSUME NEW w \in Worker, Record(w) PROVE CacheIsEarned'
  <2>1. CASE /\ work[w].whole
             /\ work[w].job \in Jobs /\ work[w].plan \in SUBSET Line
             /\ cache' = [cache EXCEPT ![work[w].job.inv] = Hash(work[w].job, work[w].plan)]
    <3>1. work[w].at = "record" /\ EditOK(work[w])
      BY <1>3 DEF Record, BookInv
    <3>2. work[w].plan \subseteq Present(sheet)
      BY <2>1, <3>1 DEF EditOK
    <3>3. Hash(work[w].job, work[w].plan).lines = work[w].plan
      BY DEF Hash
    <3> QED BY <1>1, <2>1, <3>2, <3>3 DEF CacheIsEarned
  <2> QED BY <1>2, <1>3, <2>1, RecordedCache
<1> QED BY <1>2, <1>3, SheetFrame

\* BookInv is an invariant.
LEMMA BookHolds == Spec => []BookInv
<1>1. Init => BookInv
  <2>1. ASSUME Init PROVE BookInv
    <3>1. Single(sheet.rows)
      BY <2>1 DEF Init, Single
    <3>2. \A w \in Worker : work[w].at = "idle"
      BY <2>1 DEF Init, Idle
    <3>3. CacheIsEarned
      BY <2>1 DEF Init, CacheIsEarned
    <3> QED BY <3>1, <3>2, <3>3 DEF BookInv, EditOK
  <2> QED BY <2>1
<1>2. ASSUME Typed /\ FolderInv, BookInv, [Next]_vars PROVE BookInv'
  <2>1. CASE Next
    BY <1>2, <2>1, EditStep, CacheEarned DEF BookInv
  <2>2. CASE UNCHANGED vars
    BY <1>2, <2>2 DEF BookInv, EditOK, CacheIsEarned, Present, vars
  <2> QED BY <1>2, <2>1, <2>2
<1> QED BY <1>1, <1>2, TypedHolds, PTL DEF Spec

\* No line of a bill is in the DETAILS tab twice, though two workers may edit at a time once
\* a lock is lost: a put is built on the version it replaces, or Box refuses it.
THEOREM LinesAreOnce == Spec => []LineOnce
<1>1. BookInv => LineOnce
  BY DEF BookInv, LineOnce, Single
<1> QED BY <1>1, BookHolds, PTL

\* The freshness cache, which lets later rows do nothing, remembers only writes whose lines
\* are all in the worksheet: nobody removes a line, so what was whole at the put stays.
THEOREM CacheEntriesAreEarned == Spec => []CacheIsEarned
<1>1. BookInv => CacheIsEarned
  BY DEF BookInv
<1> QED BY <1>1, BookHolds, PTL

\* No put of ours undoes what a person saved in the workbook.
THEOREM PersonsEditsSurvive == Spec => PersonsEditKept
<1>1. ASSUME Typed /\ FolderInv, BookInv, [Next]_vars PROVE [sheet'.human >= sheet.human]_vars
  BY <1>1, EditStep
<1> QED BY <1>1, TypedHolds, BookHolds, PTL DEF PersonsEditKept, Spec

-----------------------------------------------------------------------------
(* What is filed *)

\* What a step does to one row.
RowMoves(r) ==
    \/ rows'[r] = rows[r]
    \/ /\ asked # None /\ asked.current /\ asked.row = r
       /\ asked' = None /\ rows'[r].status = rows[r].status
    \/ /\ Open(r) /\ rows'[r].status = "in_progress" /\ rows'[r].job = rows[r].job
       /\ asked' # None => asked'.row # r \/ ~ asked'.current
       /\ \E w \in Worker : Claim(w) /\ rows'[r].by = w /\ work'[w].row = r
                            /\ work'[w].job = rows[r].job
    \/ /\ rows[r].status = "in_progress" /\ rows'[r].status \in {"done", "dead", "failed"}
       /\ rows'[r].job = rows[r].job
       /\ rows'[r].status = "done" =>
             \E w \in Worker : /\ work[w].at = "settle" /\ work[w].end = "done"
                               /\ work[w].row = r /\ Owns(w, r)

\* Every row makes one of those moves; a new one waits.
LEMMA RowMovesStep ==
    ASSUME Typed, Next
    PROVE  /\ \A r \in DOMAIN rows : RowMoves(r)
           /\ \A r \in DOMAIN rows' : r \in DOMAIN rows \/ rows'[r].status = "pending"
<1> DEFINE Goal == /\ \A r \in DOMAIN rows : RowMoves(r)
                   /\ \A r \in DOMAIN rows' : r \in DOMAIN rows \/ rows'[r].status = "pending"
<1>1. RowsOK /\ AskedOK /\ WorkOK /\ \A r \in DOMAIN rows : rows[r] \in RowType
  BY RowsAre DEF Typed
<1>2. CASE rows' = rows
  BY <1>2 DEF RowMoves
<1>3. ASSUME NEW job \in Jobs, Append1(job) PROVE Goal
  <2>1. Row(job).status = "pending"
    BY DEF Row
  <2> QED BY <1>1, <1>3, <2>1, AppendRow DEF RowMoves
<1>4. ASSUME NEW t \in Targets, AskUpload(t[1], t[2]) PROVE Goal
  <2>1. t[1] \in Doc /\ t[2] \in Folder
    OBVIOUS
  <2>2. Upload(t[1], t[2]) \in Jobs
    BY <2>1, JobTypes
  <2> QED BY <1>2, <1>3, <1>4, <2>2 DEF AskUpload
<1>5. ASSUME NEW r \in DOMAIN rows, NEW row, rows' = [rows EXCEPT ![r] = row],
             rows'[r] = row => RowMoves(r)
      PROVE  Goal
  <2>1. /\ rows'[r] = row /\ DOMAIN rows' = DOMAIN rows
        /\ \A q \in DOMAIN rows : q # r => rows'[q] = rows[q]
    BY <1>5
  <2>2. \A q \in DOMAIN rows : q # r => RowMoves(q)
    BY <2>1 DEF RowMoves
  <2> QED BY <1>5, <2>1, <2>2
<1>6. CASE CoalesceUpload
  <2>1. asked # None /\ asked' = None /\ asked.row \in DOMAIN rows
    BY <1>1, <1>6 DEF CoalesceUpload, AskedOK
  <2>2. CASE asked.current /\ rows' = [rows EXCEPT ![asked.row].job = asked.job]
    <3> DEFINE row == [rows[asked.row] EXCEPT !.job = asked.job]
    <3>1. rows' = [rows EXCEPT ![asked.row] = row]
      BY <2>2
    <3>2. row.status = rows[asked.row].status
      BY <1>1, <2>1 DEF RowType
    <3> HIDE DEF row
    <3>3. rows'[asked.row] = row => RowMoves(asked.row)
      BY <2>1, <2>2, <3>2 DEF RowMoves
    <3> QED BY <1>5, <2>1, <3>1, <3>3
  <2> QED BY <1>2, <1>6, <2>2 DEF CoalesceUpload
<1>7. AskInsert => Goal
  BY <1>3, JobTypes DEF AskInsert
<1>8. ASSUME NEW i \in Invoice, AskStamp(i) \/ AskClear(i) PROVE Goal
  <2>1. Append1(Excel("stamp", i, {})) \/ \E ls \in SUBSET Line : Append1(Excel("clear", i, ls))
    BY <1>8 DEF AskStamp, AskClear
  <2>2. ASSUME NEW ls \in SUBSET Line, NEW k \in {"stamp", "clear"}, Append1(Excel(k, i, ls))
        PROVE  Goal
    <3>1. Excel(k, i, ls) \in Jobs
      BY JobTypes
    <3> QED BY <1>3, <2>2, <3>1
  <2> QED BY <2>1, <2>2
<1>9. ASSUME NEW w \in Worker, Claim(w) PROVE Goal
  <2>1. PICK r \in DOMAIN rows :
           /\ Open(r)
           /\ rows' = [rows EXCEPT ![r].status = "in_progress", ![r].by = w, ![r].attempts = @ + 1]
           /\ asked' = IF asked # None /\ asked.row = r
                       THEN [asked EXCEPT !.current = FALSE] ELSE asked
           /\ Moves(w, [Idle EXCEPT !.at = IF rows[r].job.kind = "upload" THEN "guard" ELSE "plan",
                                    !.row = r, !.job = rows[r].job])
    BY <1>1, <1>9, OtherMoves
  <2> DEFINE row == [rows[r] EXCEPT !.status = "in_progress", !.by = w, !.attempts = @ + 1]
  <2>2. rows' = [rows EXCEPT ![r] = row] /\ row.status = "in_progress" /\ row.job = rows[r].job
        /\ row.by = w
    BY <1>1, <2>1 DEF RowType
  <2>3. asked' # None => asked'.row # r \/ ~ asked'.current
    BY <1>1, <2>1 DEF AskedOK
  <2>4. work'[w].row = r /\ work'[w].job = rows[r].job
    BY <2>1 DEF Moves, Idle
  <2> HIDE DEF row
  <2>5. rows'[r] = row => RowMoves(r)
    BY <1>9, <2>1, <2>2, <2>3, <2>4 DEF RowMoves
  <2> QED BY <1>5, <2>2, <2>5
<1>10. ASSUME NEW r \in DOMAIN rows, NEW end, rows[r].status = "in_progress",
              rows' = [rows EXCEPT ![r].status = Verdict(r, end), ![r].by = None],
              end = "done" => \E w \in Worker : /\ work[w].at = "settle" /\ work[w].end = "done"
                                                /\ work[w].row = r /\ Owns(w, r)
       PROVE  Goal
  <2> DEFINE row == [rows[r] EXCEPT !.status = Verdict(r, end), !.by = None]
  <2>1. rows' = [rows EXCEPT ![r] = row]
    BY <1>10
  <2>2. row.status = Verdict(r, end) /\ row.job = rows[r].job
    BY <1>1 DEF RowType
  <2>3. Verdict(r, end) \in {"done", "dead", "failed"} /\ (Verdict(r, end) = "done" => end = "done")
    BY <1>1, SettledRowType
  <2> HIDE DEF row
  <2>4. rows'[r] = row => RowMoves(r)
    BY <1>10, <2>2, <2>3 DEF RowMoves
  <2> QED BY <1>5, <2>1, <2>4
<1>11. ASSUME NEW w \in Worker, Settle(w) PROVE Goal
  <2>1. work[w].at = "settle" /\ work[w].row \in DOMAIN rows
    BY <1>1, <1>11 DEF WorkOK, Fits, Settle
  <2>2. CASE Owns(w, work[w].row)
    <3>1. /\ rows[work[w].row].status = "in_progress"
          /\ rows' = [rows EXCEPT ![work[w].row].status = Verdict(work[w].row, work[w].end),
                                  ![work[w].row].by = None]
      BY <1>11, <2>2 DEF Settle, Mark, Owns
    <3> QED BY <1>10, <2>1, <2>2, <3>1
  <2>3. CASE ~ Owns(w, work[w].row)
    BY <1>2, <1>11, <2>3 DEF Settle, Mark
  <2> QED BY <2>2, <2>3
<1>12. CASE ReclaimSome
  <2>1. PICK r \in DOMAIN rows : Reclaim(r)
    BY <1>12 DEF ReclaimSome
  <2>2. /\ rows[r].status = "in_progress"
        /\ rows' = [rows EXCEPT ![r].status = Verdict(r, "fail"), ![r].by = None]
    BY <2>1 DEF Reclaim
  <2>3. ("fail" = "done") = FALSE
    OBVIOUS
  <2> QED BY <1>10, <2>2, <2>3
<1>13. ASSUME NEW w \in Worker, Step(w) \/ Outage(w) \/ Crash(w) \/ LoseLocks(w)
       PROVE  Settle(w) \/ Claim(w) \/ rows' = rows
  BY <1>13, WorkerFrame
<1>14. PersonOpens \/ PersonSaves \/ LockEnds => rows' = rows
  BY DEF PersonOpens, PersonSaves, LockEnds
<1>15. (\E s \in DOMAIN files : PersonFiles(s))
       \/ (\E l \in Line, i \in Invoice \cup {None} : Relink(l, i)) => rows' = rows
  BY DEF PersonFiles, Relink
<1> QED BY <1>2, <1>4, <1>6, <1>7, <1>8, <1>9, <1>11, <1>12, <1>13, <1>14, <1>15
    DEF Next, ClaimSome

\* Documents go only under their own name.
LEMMA NamedStep ==
    ASSUME Typed, FolderInv, Next, \A s \in DOMAIN files : Named(s)
    PROVE  \A s \in DOMAIN files : Named(s)'
<1>1. FilesOK /\ WorkOK
  BY DEF Typed
<1>2. CASE files' = files
  BY <1>2 DEF Named
<1>3. ASSUME NEW w \in Worker, Post(w) \/ Version(w) \/ Register(w), files' # files
      PROVE  \A s \in DOMAIN files : Named(s)'
  <2> DEFINE s == Slot(work[w].job)
             d == work[w].job.doc
  <2>1. work[w].at \in UploadAts
    BY <1>3 DEF Post, Version, Register, UploadAts
  <2>2. s \in DOMAIN files /\ d \in Doc /\ s[2] = NameOf[d] /\ files[s] \in File \cup {None}
    BY <1>1, <2>1, UploadJob DEF FilesOK
  <2>3. \/ files' = [files EXCEPT ![s] = [content |-> d, registered |-> None]]
        \/ work[w].at = "version" /\ files' = [files EXCEPT ![s].content = d]
        \/ work[w].at = "register" /\ files' = [files EXCEPT ![s].registered = d]
    BY <1>3 DEF Post, Version, Register
  <2>4. work[w].at \in {"version", "register"} => files[s] \in File
    BY <2>2 DEF FolderInv, UploadOK
  <2> HIDE DEF s, d
  <2>5. ASSUME NEW q \in DOMAIN files PROVE Named(q)'
    <3>1. Named(q)
      OBVIOUS
    <3>2. CASE q # s
      <4>1. files'[q] = files[q]
        BY <2>3, <3>2
      <4> QED BY <3>1, <4>1 DEF Named
    <3>3. CASE q = s /\ files'[s] = [content |-> d, registered |-> None]
      BY <2>2, <3>3 DEF Named
    <3>4. CASE q = s /\ files[s] \in File /\ files'[s] = [files[s] EXCEPT !.content = d]
      BY <2>2, <3>1, <3>4 DEF Named, File
    <3>5. CASE q = s /\ files[s] \in File /\ files'[s] = [files[s] EXCEPT !.registered = d]
      BY <2>2, <3>1, <3>5 DEF Named, File
    <3> QED BY <2>2, <2>3, <2>4, <3>2, <3>3, <3>4, <3>5
  <2> QED BY <2>5
<1>4. ASSUME NEW s \in DOMAIN files, PersonFiles(s) PROVE \A q \in DOMAIN files : Named(q)'
  <2>1. files' = [files EXCEPT ![s] = [content |-> None, registered |-> None]]
    BY <1>4 DEF PersonFiles
  <2> QED BY <2>1 DEF Named
<1> QED BY <1>2, <1>3, <1>4, FilesFrame

\* What is filed stays filed, and a document written stays the document: no other one has
\* its name.
LEMMA FiledStays ==
    ASSUME Typed, FolderInv, Next, NamesOwn, \A s \in DOMAIN files : Named(s),
           NEW job \in Jobs, job.kind = "upload"
    PROVE  /\ Filed(job) => Filed(job)'
           /\ files[Slot(job)] # None /\ files[Slot(job)].content = job.doc
                 => files'[Slot(job)].content = job.doc
<1> DEFINE s == Slot(job)
<1>1. /\ FilesOK' /\ DOMAIN files' = DOMAIN files /\ FilesOK
      /\ \A q \in DOMAIN files : Stays(q) /\ Named(q)'
  BY FilesStep, NamedStep DEF Typed
<1>2. job.doc \in Doc /\ s \in DOMAIN files /\ s[2] = NameOf[job.doc] /\ None \notin Doc
  BY <1>1 DEF Jobs, Slot, FilesOK
<1>3. files'[s] \in File \cup {None} /\ Stays(s) /\ Named(s)'
  BY <1>1, <1>2 DEF FilesOK
<1> HIDE DEF s
<1>4. ASSUME files[s] # None, files[s].content = job.doc
      PROVE  files'[s] \in File /\ files'[s].content = job.doc
  <2>1. files'[s] \in File /\ files'[s].content # None
    BY <1>2, <1>3, <1>4 DEF Stays
  <2>2. files'[s].content \in Doc /\ NameOf[files'[s].content] = NameOf[job.doc]
    BY <1>2, <1>3, <2>1 DEF Named, File
  <2> QED BY <1>2, <2>1, <2>2 DEF NamesOwn
<1>5. ASSUME files[s] = [content |-> job.doc, registered |-> job.doc]
      PROVE  files'[s] = [content |-> job.doc, registered |-> job.doc]
  <2>1. files[s] # None
    <3>1. [content |-> job.doc, registered |-> job.doc] \in File
      BY <1>2 DEF File
    <3> QED BY <1>5, <3>1
  <2>2. files'[s] \in File /\ files'[s].content = job.doc
    BY <1>4, <1>5, <2>1
  <2>3. files'[s].registered # None
    BY <1>2, <1>3, <1>5, <2>1 DEF Stays
  <2>4. files'[s].registered \in Doc /\ NameOf[files'[s].registered] = NameOf[job.doc]
    BY <1>2, <1>3, <2>2, <2>3 DEF Named, File
  <2>5. files'[s].registered = job.doc
    BY <1>2, <2>4 DEF NamesOwn
  <2> QED BY <2>2, <2>5 DEF File
<1> QED BY <1>4, <1>5 DEF s, Filed, Slot

\* A worker that goes on keeps its row and its job.
LEMMA JobStays ==
    ASSUME Typed, NEW w \in Worker, Step(w) \/ Outage(w), work'[w].at # "idle"
    PROVE  work'[w].job = work[w].job /\ work'[w].row = work[w].row
<1>1. WorkOK /\ work[w] \in Works
  BY DEF Typed, WorkOK
<1> DEFINE Keeps(me) == me.job = work[w].job /\ me.row = work[w].row
<1>2. \A at, end : Keeps(At(w, at)) /\ Keeps(AtEnd(w, end)) /\ Keeps(Back(w, end))
  BY <1>1 DEF At, AtEnd, Back, Works
<1>3. Keeps(Planned(w)) /\ Keeps(EditDone(w)) /\ Keeps(EditBegun(w)) /\ Keeps(PutDone(w))
      /\ Keeps(Left(w))
  BY <1>1 DEF Planned, EditDone, EditBegun, PutDone, Left, At, Works
<1>4. \A at, end : /\ Keeps(Current(At(w, at), TRUE)) /\ Keeps(Current(Back(w, end), TRUE))
                   /\ Keeps(Current(PutDone(w), TRUE)) /\ Keeps(Current(Left(w), FALSE))
  BY <1>1 DEF Current, At, Back, PutDone, Left, Works
<1> HIDE DEF Keeps
<1>5. \A me : Moves(w, me) /\ Keeps(me) => Keeps(work'[w])
  BY DEF Moves
<1>6. Guard(w) \/ Post(w) \/ Conflict(w) \/ Version(w) \/ Register(w) => Keeps(work'[w])
  BY <1>1, <1>2, <1>5, UploadMoves
<1>7. Plan(w) \/ Hold(w) \/ Meta(w) => Keeps(work'[w])
  <2>1. /\ Plan(w) => Moves(w, AtEnd(w, "done")) \/ Moves(w, Planned(w))
        /\ Hold(w) => Moves(w, At(w, "meta")) \/ Moves(w, AtEnd(w, "fail"))
        /\ Meta(w) => Moves(w, AtEnd(w, "fail")) \/ Moves(w, Current(At(w, "take"), TRUE))
    BY <1>1, EditMoves
  <2> QED BY <1>2, <1>3, <1>4, <1>5, <2>1
<1>8. Take(w) \/ Edit(w) => Keeps(work'[w])
  <2>1. /\ Take(w) => \/ Moves(w, Current(At(w, "edit"), TRUE))
                      \/ Moves(w, AtEnd(w, "dead")) \/ Moves(w, AtEnd(w, "fail"))
        /\ Edit(w) => Moves(w, EditDone(w)) \/ Moves(w, EditBegun(w))
    BY <1>1, EditMoves
  <2> QED BY <1>2, <1>3, <1>4, <1>5, <2>1
<1>9. Put(w) \/ Note(w) => Keeps(work'[w])
  <2>1. /\ Put(w) => \/ Moves(w, Current(PutDone(w), TRUE))
                     \/ Moves(w, Current(Back(w, "fail"), TRUE))
                     \/ Moves(w, Back(w, "dead")) \/ Moves(w, Back(w, "fail"))
        /\ Note(w) => Moves(w, Back(w, "done")) \/ Moves(w, Back(w, "dead"))
    BY <1>1, EditMoves
  <2> QED BY <1>2, <1>4, <1>5, <2>1
<1>10. Unlock(w) \/ Record(w) => Keeps(work'[w])
  <2>1. /\ Unlock(w) => Moves(w, Left(w)) \/ Moves(w, Current(Left(w), FALSE))
        /\ Record(w) => Moves(w, At(w, "settle"))
    BY <1>1, EditMoves
  <2> QED BY <1>2, <1>3, <1>4, <1>5, <2>1
<1>11. Outage(w) => Keeps(work'[w])
  <2>1. Outage(w) => Moves(w, Back(w, "fail")) \/ Moves(w, AtEnd(w, "fail"))
    BY <1>1, OtherMoves
  <2> QED BY <1>2, <1>5, <2>1
<1>12. ~ Settle(w)
  BY Stages
<1>13. Keeps(work'[w])
  BY <1>6, <1>7, <1>8, <1>9, <1>10, <1>11, <1>12 DEF Step
<1> QED BY <1>13 DEF Keeps

\* An upload is done where the registry shows it done, or where it is registered.
LEMMA DoneUploads ==
    ASSUME Typed, NEW w \in Worker, Step(w) \/ Outage(w) \/ Crash(w) \/ Claim(w),
           work'[w].at = "settle", work'[w].end = "done", work'[w].job.kind = "upload"
    PROVE  /\ work[w].at \in UploadAts /\ work'[w].job = work[w].job
           /\ \/ /\ files[Slot(work[w].job)] # None /\ files' = files
                 /\ files[Slot(work[w].job)].registered = work[w].job.doc
              \/ /\ work[w].at = "register"
                 /\ files' = [files EXCEPT ![Slot(work[w].job)].registered = work[w].job.doc]
<1>1. WorkOK /\ work[w] \in Works /\ Fits(work[w])
  BY DEF Typed, WorkOK
<1>2. Step(w) \/ Outage(w)
  <2>1. ~ Crash(w) /\ ~ Claim(w)
    BY Stages
  <2> QED BY <2>1
<1>3. work'[w].job = work[w].job
  BY <1>2, JobStays
<1>4. \A end : Moves(w, AtEnd(w, end)) => end = "done"
  BY <1>1 DEF Moves, AtEnd, Works
<1>5. \A at : Moves(w, At(w, at)) => at = "settle"
  BY <1>1 DEF Moves, At, Works
<1>6. work[w].job.kind = "upload"
  BY <1>3
<1>7. work[w].at \notin ExcelAts
  BY <1>1, <1>6 DEF Fits, ExcelAts
<1>8. ~ (Plan(w) \/ Hold(w) \/ Meta(w) \/ Take(w) \/ Edit(w) \/ Put(w) \/ Note(w)
         \/ Unlock(w) \/ Record(w))
  BY <1>7 DEF Plan, Hold, Meta, Take, Edit, Put, Note, Unlock, Record, ExcelAts
<1>9. ~ Settle(w)
  BY Stages
<1>10. ~ Outage(w)
  <2>1. Outage(w) => Moves(w, AtEnd(w, "fail")) \/ Moves(w, Back(w, "fail"))
    BY <1>1, OtherMoves
  <2>2. ~ Moves(w, AtEnd(w, "fail"))
    BY <1>4
  <2>3. ~ Moves(w, Back(w, "fail"))
    BY <1>1 DEF Moves, Back, Works
  <2> QED BY <2>1, <2>2, <2>3
<1>11. ~ (Post(w) \/ Version(w) \/ Conflict(w))
  <2>1. /\ Post(w) => Moves(w, At(w, "register")) \/ Moves(w, AtEnd(w, "fail"))
        /\ Conflict(w) => Moves(w, At(w, "version")) \/ Moves(w, AtEnd(w, "dead"))
        /\ Version(w) => Moves(w, At(w, "register")) \/ Moves(w, AtEnd(w, "fail"))
    BY <1>1, UploadMoves
  <2>2. ~ Moves(w, At(w, "register")) /\ ~ Moves(w, At(w, "version"))
    BY <1>5
  <2>3. ~ Moves(w, AtEnd(w, "fail")) /\ ~ Moves(w, AtEnd(w, "dead"))
    BY <1>4
  <2> QED BY <2>1, <2>2, <2>3
<1>12. \A end : Ends(w, end) => end = "done"
  BY <1>1 DEF Ends, WorkOK, Works
<1>13. ~ To(w, "post")
  BY <1>1 DEF To, WorkOK, Works
<1>14. Guard(w) =>
          /\ work[w].at \in UploadAts /\ files[Slot(work[w].job)] # None /\ files' = files
          /\ files[Slot(work[w].job)].registered = work[w].job.doc
  <2>1. ~ Ends(w, "dead")
    BY <1>12
  <2> QED BY <1>13, <2>1 DEF Guard, UploadAts
<1>15. Register(w) =>
          /\ work[w].at = "register" /\ work[w].at \in UploadAts
          /\ files' = [files EXCEPT ![Slot(work[w].job)].registered = work[w].job.doc]
  <2>1. ~ Ends(w, "dead")
    BY <1>12
  <2> QED BY <2>1 DEF Register, UploadAts
<1> QED BY <1>2, <1>3, <1>8, <1>9, <1>10, <1>11, <1>14, <1>15 DEF Step

\* The row a worker owns asks for the job the worker does.
LEMMA OwnJobStep ==
    ASSUME Typed, FiledInv, Next, NEW x \in Worker,
           \/ Same(x)
           \/ Step(x) \/ Outage(x) \/ Crash(x) \/ Claim(x),
           work'[x].at # "idle", Owns(x, work[x].row)'
    PROVE  rows'[work'[x].row].job = work'[x].job
<1>1. WorkOK /\ work[x] \in Works /\ Fits(work[x]) /\ FiledOK(work[x], x) /\ AskedOK
  BY DEF Typed, WorkOK, FiledInv
<1>2. CASE Claim(x)
  <2>1. PICK r \in DOMAIN rows :
           /\ rows' = [rows EXCEPT ![r].status = "in_progress", ![r].by = x, ![r].attempts = @ + 1]
           /\ Moves(x, [Idle EXCEPT !.at = IF rows[r].job.kind = "upload" THEN "guard" ELSE "plan",
                                    !.row = r, !.job = rows[r].job])
    BY <1>1, <1>2, OtherMoves
  <2>2. work'[x].row = r /\ work'[x].job = rows[r].job
    BY <2>1 DEF Moves, Idle
  <2>3. rows[r] \in RowType
    BY RowsAre DEF Typed
  <2>4. rows'[r].job = rows[r].job
    BY <2>1, <2>3 DEF RowType
  <2> QED BY <2>2, <2>4
<1>3. CASE ~ Claim(x)
  <2>1. work'[x].job = work[x].job /\ work'[x].row = work[x].row /\ work[x].at # "idle"
    <3>1. CASE Same(x)
      BY <1>1, <3>1 DEF Same, Works
    <3>2. ~ Crash(x)
      BY Stages
    <3>3. CASE Step(x) \/ Outage(x)
      <4>1. work[x].at # "idle"
        BY <3>3 DEF Step, Guard, Post, Conflict, Version, Register, Plan, Hold, Meta, Take, Edit,
                    Put, Note, Unlock, Record, Settle, Outage
      <4> QED BY <3>3, <4>1, JobStays
    <3> QED BY <1>3, <3>1, <3>2, <3>3
  <2> DEFINE r == work[x].row
  <2>2. r \in DOMAIN rows /\ RowMoves(r)
    BY <1>1, <2>1, RowMovesStep DEF Fits
  <2>3. rows'[r].status = "in_progress" /\ rows'[r].by = x
    BY <2>1 DEF Owns
  <2>4. Owns(x, r) => rows[r].job = work[x].job
    BY <1>1, <2>1 DEF FiledOK
  <2>5. CASE rows'[r] = rows[r]
    BY <2>1, <2>3, <2>4, <2>5 DEF Owns
  <2>6. ~ (asked # None /\ asked.current /\ asked.row = r /\ rows'[r].status = rows[r].status)
    BY <2>3 DEF FiledInv, Open
  <2>7. ~ (\E w \in Worker : Claim(w) /\ rows'[r].by = w)
    BY <1>3, <2>3
  <2>8. ~ (rows'[r].status \in {"done", "dead", "failed"})
    BY <2>3
  <2> QED BY <2>2, <2>5, <2>6, <2>7, <2>8 DEF RowMoves
<1> QED BY <1>2, <1>3

\* A worker knows the state of the file it has written.
LEMMA FiledWorkStep ==
    ASSUME Typed, FolderInv, FiledInv, NamesOwn, Next
    PROVE  \A x \in Worker : FiledOK(work[x], x)'
<1>1. WorkOK /\ FilesOK /\ \A x \in Worker : work[x] \in Works /\ Fits(work[x])
  BY DEF Typed, WorkOK
<1>2. \A s \in DOMAIN files : Named(s)
  BY DEF FiledInv
<1>3. ASSUME NEW job \in Jobs, job.kind = "upload"
      PROVE  /\ Filed(job) => Filed(job)'
             /\ files[Slot(job)] # None /\ files[Slot(job)].content = job.doc
                   => files'[Slot(job)].content = job.doc
  BY <1>2, <1>3, FiledStays
<1>4. ASSUME NEW x \in Worker, Same(x)
      PROVE  /\ work'[x].at = "register" => files'[Slot(work'[x].job)].content = work'[x].job.doc
             /\ work'[x].at = "settle" /\ work'[x].end = "done" /\ work'[x].job.kind = "upload"
                   => Filed(work[x].job)'
  <2>1. work'[x].at = work[x].at /\ work'[x].job = work[x].job /\ work'[x].end = work[x].end
    BY <1>1, <1>4 DEF Same, Works
  <2>2. FiledOK(work[x], x) /\ UploadOK(work[x])
    BY DEF FiledInv, FolderInv
  <2>3. work[x].at \in {"register", "settle"} => work[x].job \in Jobs
    BY <1>1 DEF Fits
  <2>4. work[x].at = "register" => work[x].job.kind = "upload"
    BY <1>1 DEF Fits, UploadAts
  <2>5. work[x].at = "register" => files'[Slot(work[x].job)].content = work[x].job.doc
    BY <1>3, <2>2, <2>3, <2>4 DEF FiledOK, UploadOK
  <2>6. work[x].at = "settle" /\ work[x].end = "done" /\ work[x].job.kind = "upload"
           => /\ Filed(work[x].job)
              /\ files'[Slot(work[x].job)] = [content |-> work[x].job.doc,
                                              registered |-> work[x].job.doc]
    BY <1>3, <2>2, <2>3 DEF FiledOK, Filed, Slot
  <2>7. Slot(work[x].job)' = Slot(work[x].job)
    BY <2>1 DEF Slot
  <2> QED BY <2>1, <2>5, <2>6, <2>7 DEF Filed, Slot
<1>5. ASSUME NEW w \in Worker, Step(w) \/ Outage(w) \/ Crash(w) \/ Claim(w)
      PROVE  /\ work'[w].at = "register" => files'[Slot(work'[w].job)].content = work'[w].job.doc
             /\ work'[w].at = "settle" /\ work'[w].end = "done" /\ work'[w].job.kind = "upload"
                   => Filed(work[w].job)'
  <2> DEFINE s == Slot(work[w].job)
             d == work[w].job.doc
  <2>1. ASSUME work'[w].at = "register"
        PROVE  files'[Slot(work'[w].job)].content = work'[w].job.doc
    BY <1>5, <2>1, UploadStages, Written
  <2>2. ASSUME work'[w].at = "settle", work'[w].end = "done", work'[w].job.kind = "upload"
        PROVE  Filed(work[w].job)'
    <3>1. /\ work[w].at \in UploadAts /\ work'[w].job = work[w].job
          /\ \/ files[s] # None /\ files' = files /\ files[s].registered = d
             \/ work[w].at = "register" /\ files' = [files EXCEPT ![s].registered = d]
      BY <1>5, <2>2, DoneUploads
    <3>2. s \in DOMAIN files /\ d \in Doc /\ s[2] = NameOf[d] /\ files[s] \in File \cup {None}
      BY <1>1, <3>1, UploadJob DEF FilesOK
    <3>3. Slot(work[w].job)' = s /\ work'[w].job.doc = d
      BY <3>1 DEF Slot
    <3>4. UploadOK(work[w]) /\ FiledOK(work[w], w)
      BY DEF FolderInv, FiledInv
    <3>5. Named(s) /\ (files[s] # None /\ files[s].registered # None => files[s].content # None)
      BY <1>2, <3>2 DEF FolderInv
    <3> HIDE DEF s, d
    <3>6. CASE files[s] # None /\ files' = files /\ files[s].registered = d
      <4>1. files[s] \in File /\ files[s].content \in Doc /\ NameOf[files[s].content] = NameOf[d]
        BY <3>2, <3>5, <3>6 DEF Named, File
      <4>2. files[s].content = d
        BY <3>2, <4>1 DEF NamesOwn
      <4>3. files[s] = [content |-> d, registered |-> d]
        BY <3>6, <4>1, <4>2 DEF File
      <4> QED BY <3>3, <3>6, <4>3 DEF Filed, s, d, Slot
    <3>7. CASE work[w].at = "register" /\ files' = [files EXCEPT ![s].registered = d]
      <4>1. files[s] \in File /\ files[s].content = d
        BY <3>2, <3>4, <3>7 DEF UploadOK, FiledOK, s, d
      <4>2. files'[s] = [files[s] EXCEPT !.registered = d]
        BY <3>2, <3>7
      <4>3. files'[s] = [content |-> d, registered |-> d]
        BY <4>1, <4>2 DEF File
      <4> QED BY <3>3, <4>3 DEF Filed, s, d, Slot
    <3> QED BY <3>1, <3>6, <3>7 DEF s, d
  <2> QED BY <2>1, <2>2
<1>6. ASSUME NEW x \in Worker, Same(x) \/ Step(x) \/ Outage(x) \/ Crash(x) \/ Claim(x)
      PROVE  FiledOK(work[x], x)'
  <2>1. work'[x].at = "register" => files'[Slot(work'[x].job)].content = work'[x].job.doc
    BY <1>4, <1>5, <1>6
  <2>2. work'[x].at = "settle" /\ work'[x].end = "done" /\ work'[x].job.kind = "upload"
           => Filed(work[x].job)'
    BY <1>4, <1>5, <1>6
  <2>3. work'[x].at # "idle" /\ Owns(x, work[x].row)' => rows'[work'[x].row].job = work'[x].job
    BY <1>6, OwnJobStep
  <2> QED BY <2>1, <2>2, <2>3 DEF FiledOK, Slot, Filed, Owns
<1> QED BY <1>6, WhoMoves

\* The row of an upload request that was not claimed since the search is open.
LEMMA AskedOpenStep ==
    ASSUME Typed, FiledInv, Next, asked' # None, asked'.current
    PROVE  Open(asked.row)'
<1>1. RowsOK /\ AskedOK /\ (asked # None /\ asked.current => Open(asked.row))
  BY DEF Typed, FiledInv
<1>2. ASSUME asked' = asked PROVE Open(asked.row)'
  <2>1. asked.row \in DOMAIN rows /\ Open(asked.row) /\ RowMoves(asked.row)
    BY <1>1, <1>2, RowMovesStep DEF AskedOK
  <2> QED BY <1>2, <2>1 DEF RowMoves, Open
<1>3. ASSUME NEW t \in Targets, AskUpload(t[1], t[2]) PROVE Open(asked.row)'
  <2>1. ASSUME NEW r \in Newest(t[1]), rows' = rows,
               asked' = [row |-> r, current |-> TRUE, job |-> Upload(t[1], t[2])]
        PROVE  Open(asked.row)'
    BY <2>1 DEF Newest, Coalescible, Open
  <2> QED BY <1>2, <1>3, <2>1 DEF AskUpload
<1>4. ~ CoalesceUpload
  BY DEF CoalesceUpload
<1>5. ASSUME NEW w \in Worker, Claim(w) PROVE asked' = asked
  <2>1. \/ asked' = asked
        \/ asked # None /\ asked' = [asked EXCEPT !.current = FALSE]
    BY <1>5 DEF Claim
  <2>2. asked # None => ~ [asked EXCEPT !.current = FALSE].current
    BY <1>1 DEF AskedOK
  <2> QED BY <2>1, <2>2
<1>6. AskInsert \/ ReclaimSome \/ LockEnds \/ PersonOpens \/ PersonSaves => asked' = asked
  BY DEF AskInsert, ReclaimSome, Reclaim, LockEnds, PersonOpens, PersonSaves
<1>7. \A i \in Invoice : AskStamp(i) \/ AskClear(i) => asked' = asked
  BY DEF AskStamp, AskClear
<1>8. \A l \in Line, i \in Invoice \cup {None} : Relink(l, i) => asked' = asked
  BY DEF Relink
<1>9. \A s \in DOMAIN files : PersonFiles(s) => asked' = asked
  BY DEF PersonFiles
<1>10. \A w \in Worker : Step(w) \/ Outage(w) \/ Crash(w) \/ LoseLocks(w) =>
          Claim(w) \/ asked' = asked
  BY WorkerFrame
<1> QED BY <1>2, <1>3, <1>4, <1>5, <1>6, <1>7, <1>8, <1>9, <1>10 DEF Next, ClaimSome

\* A row becomes done when its upload is filed, and what is filed stays.
LEMMA DoneFiledStep ==
    ASSUME Typed, FolderInv, FiledInv, NamesOwn, Next
    PROVE  DoneIsFiled'
<1>1. RowsOK /\ WorkOK /\ \A r \in DOMAIN rows : rows[r] \in RowType
  BY RowsAre DEF Typed
<1>2. \A r \in DOMAIN rows : rows[r].job \in Jobs
  BY <1>1 DEF RowType
<1>3. ASSUME NEW job \in Jobs, job.kind = "upload", Filed(job)
      PROVE  files'[Slot(job)] = [content |-> job.doc, registered |-> job.doc]
  <2>1. Filed(job)'
    BY <1>3, FiledStays DEF FiledInv
  <2> QED BY <2>1 DEF Filed, Slot
<1>4. ASSUME NEW r \in DOMAIN rows', rows'[r].job.kind = "upload", rows'[r].status = "done"
      PROVE  files'[Slot(rows'[r].job)] = [content |-> rows'[r].job.doc,
                                           registered |-> rows'[r].job.doc]
  <2>1. r \in DOMAIN rows /\ RowMoves(r)
    BY <1>4, RowMovesStep
  <2>2. ASSUME rows'[r].job = rows[r].job, Filed(rows[r].job)
        PROVE  files'[Slot(rows'[r].job)] = [content |-> rows'[r].job.doc,
                                             registered |-> rows'[r].job.doc]
    BY <1>2, <1>3, <1>4, <2>1, <2>2
  <2>3. CASE rows'[r] = rows[r]
    <3>1. Filed(rows[r].job)
      BY <1>4, <2>1, <2>3 DEF FiledInv, DoneIsFiled, Filed
    <3> QED BY <2>2, <2>3, <3>1
  <2>4. ~ (asked # None /\ asked.current /\ asked.row = r /\ rows'[r].status = rows[r].status)
    BY <1>4 DEF FiledInv, Open
  <2>5. ASSUME NEW w \in Worker, work[w].at = "settle", work[w].end = "done", work[w].row = r,
               Owns(w, r), rows'[r].job = rows[r].job
        PROVE  Filed(rows[r].job)
    <3>1. FiledOK(work[w], w)
      BY DEF FiledInv
    <3>2. rows[r].job = work[w].job
      BY <2>5, <3>1 DEF FiledOK
    <3> QED BY <1>4, <2>5, <3>1, <3>2 DEF FiledOK
  <2> QED BY <1>4, <2>1, <2>2, <2>3, <2>4, <2>5 DEF RowMoves
<1> QED BY <1>4 DEF DoneIsFiled, Slot

\* FiledInv is an invariant when no two attachments share a name.
LEMMA FiledHolds == NamesOwn => (Spec => []FiledInv)
<1> SUFFICES ASSUME NamesOwn PROVE Spec => []FiledInv
  OBVIOUS
<1>1. Init => FiledInv
  <2>1. ASSUME Init PROVE FiledInv
    <3>1. \A s \in DOMAIN files : Named(s)
      BY <2>1 DEF Init, Named
    <3>2. \A w \in Worker : work[w].at = "idle"
      BY <2>1 DEF Init, Idle
    <3>3. asked = None /\ DOMAIN rows = {}
      BY <2>1 DEF Init
    <3> QED BY <3>1, <3>2, <3>3 DEF FiledInv, FiledOK, DoneIsFiled
  <2> QED BY <2>1
<1>2. ASSUME Typed /\ FolderInv, FiledInv, [Next]_vars PROVE FiledInv'
  <2>1. CASE Next
    <3>1. \A s \in DOMAIN files' : Named(s)'
      <4>1. DOMAIN files' = DOMAIN files
        BY <1>2, <2>1, FilesStep
      <4> QED BY <1>2, <2>1, <4>1, NamedStep DEF FiledInv
    <3>2. \A x \in Worker : FiledOK(work[x], x)'
      BY <1>2, <2>1, FiledWorkStep
    <3>3. asked' # None /\ asked'.current => Open(asked.row)'
      BY <1>2, <2>1, AskedOpenStep
    <3>4. DoneIsFiled'
      BY <1>2, <2>1, DoneFiledStep
    <3> QED BY <3>1, <3>2, <3>3, <3>4 DEF FiledInv
  <2>2. CASE UNCHANGED vars
    BY <1>2, <2>2 DEF FiledInv, Named, FiledOK, Filed, Slot, Owns, Open, DoneIsFiled, vars
  <2> QED BY <1>2, <2>1, <2>2
<1> QED BY <1>1, <1>2, TypedHolds, PTL DEF Spec

\* When no two attachments share a name, what a done upload was last asked to file is in its
\* folder and registered: a retarget of a row that was claimed meanwhile is dropped, and a
\* worker that lost its row cannot mark it. (Bills with several lines do share a name; see
\* DocumentKept.)
THEOREM DoneUploadsAreFiled == NamesOwn => (Spec => []DoneIsFiled)
<1> SUFFICES ASSUME NamesOwn PROVE Spec => []DoneIsFiled
  OBVIOUS
<1>1. FiledInv => DoneIsFiled
  BY DEF FiledInv
<1> QED BY <1>1, FiledHolds, PTL
=============================================================================
