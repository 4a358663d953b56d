----------------------------- MODULE BoxOutbox -----------------------------
(***************************************************************************)
(* The outbox that carries a completed bill and a completed invoice to     *)
(* Box: document uploads into project folders, and edits of the DETAILS    *)
(* tab of one workbook that people keep open in Excel for the web.         *)
(*                                                                         *)
(* Rows are drained one at a time under the application lock               *)
(* "box_outbox_drain"; a workbook edit also takes "box_file_write:<id>"    *)
(* and a lock in Box itself.  The application locks live on idle database  *)
(* connections and can be lost while their holder goes on; what protects   *)
(* the files then is the row version of the outbox row, the registry of    *)
(* files pushed before and the workbook's etag.                            *)
(***************************************************************************)
EXTENDS Integers, Sequences

CONSTANTS
    Doc,          \* the attachments of one bill
    Folder,       \* Box project folders
    Name,         \* file names
    NameOf,       \* the name completion builds for an attachment
    Targets,      \* the <<attachment, folder>> pairs completion may ask for
    Line,         \* the lines of the bill, keys of column Z
    Invoice,      \* invoices that may bill those lines
    Worker,       \* processes that drain
    None,         \* absent
    MaxAttempts,  \* BoxOutboxWorker.MAX_ATTEMPTS
    MaxRow,       \* bound: rows ever enqueued
    MaxMove,      \* bound: changes of the invoices' lines
    MaxTouch,     \* bound: things people do in Box
    MaxTrouble    \* bound: crashes, lost locks, lost answers, outages

\* A file in Box: the document that is its latest version (None: not one of ours), and the
\* attachment the registry gives it to.
File == [content : Doc \cup {None}, registered : Doc \cup {None}]

ASSUME BoxAssumption ==
    /\ NameOf \in [Doc -> Name]
    /\ Targets \subseteq Doc \X Folder
    /\ MaxAttempts \in Nat \ {0}
    /\ {MaxRow, MaxMove, MaxTouch, MaxTrouble} \subseteq Nat
    /\ None \notin Doc \cup Invoice \cup Worker \cup File

VARIABLES
    rows,        \* [box].[Outbox], by Id
    asked,       \* an upload request between its search and its update
    files,       \* what Box holds in each folder under each name
    sheet,       \* the workbook: lines, draw tags, people's edits, Box lock
    cache,       \* freshness cache of the workbook, by entity
    link,        \* the invoice each line is on
    paper,       \* the draw tags of the SharePoint copy of the worksheet
    drain,       \* who holds box_outbox_drain
    hold,        \* who holds box_file_write
    work,        \* what each worker is doing
    moves, touches, trouble

vars == <<rows, asked, files, sheet, cache, link, paper, drain, hold, work,
          moves, touches, trouble>>

Kind == {"upload", "insert", "stamp", "clear"}
Job == [kind : Kind, doc : Doc \cup {None}, folder : Folder \cup {None},
        inv : Invoice \cup {None}, lines : SUBSET Line]

Upload(d, f) ==
    [kind |-> "upload", doc |-> d, folder |-> f, inv |-> None, lines |-> {}]
Excel(k, i, ls) ==
    [kind |-> k, doc |-> None, folder |-> None, inv |-> i, lines |-> ls]

Row(job) == [job |-> job, status |-> "pending", attempts |-> 0, by |-> None]
Idle == [at |-> "idle", row |-> 0, job |-> None, plan |-> {},
         current |-> FALSE, bytes |-> None, whole |-> FALSE, end |-> None]

Open(r) == rows[r].status \in {"pending", "failed"}
Slot(job) == <<job.folder, NameOf[job.doc]>>
Bytes == [rows |-> sheet.rows, tag |-> sheet.tag, human |-> sheet.human]

\* Some lines may be in the worksheet from an earlier completion of the bill.
Init ==
    /\ rows = <<>>
    /\ asked = None
    /\ files = [s \in Folder \X Name |-> None]
    /\ \E n \in [Line -> 0..1] :
           sheet = [rows |-> n, tag |-> [l \in Line |-> None],
                    human |-> 0, lock |-> None]
    /\ cache = [e \in Invoice \cup {None} |-> None]
    /\ link = [l \in Line |-> None]
    /\ paper = [l \in Line |-> None]
    /\ drain = None /\ hold = None
    /\ work = [w \in Worker |-> Idle]
    /\ moves = 0 /\ touches = 0 /\ trouble = 0

Bother == trouble < MaxTrouble /\ trouble' = trouble + 1

-----------------------------------------------------------------------------
(* Enqueueing *)

Append1(job) == Len(rows) < MaxRow /\ rows' = Append(rows, Row(job))

\* The newest row that is not claimed yet and carries the same attachment,
\* whatever its folder and its name.
Coalescible(d) == {r \in DOMAIN rows : Open(r) /\ rows[r].job.doc = d}
Newest(d) == {r \in Coalescible(d) : \A q \in Coalescible(d) : q <= r}

\* enqueue_box_upload up to the search: a new row, or one to overwrite.
AskUpload(d, f) ==
    /\ asked = None
    /\ \/ /\ Coalescible(d) = {}
          /\ Append1(Upload(d, f)) /\ UNCHANGED asked
       \/ \E r \in Newest(d) :
             /\ asked' = [row |-> r, current |-> TRUE, job |-> Upload(d, f)]
             /\ UNCHANGED rows
    /\ UNCHANGED <<files, sheet, cache, link, paper, drain, hold, work,
                   moves, touches, trouble>>

\* The latest target wins and the debounce starts again - unless the row was
\* claimed since the search: then the request is forgotten.
CoalesceUpload ==
    /\ asked # None
    /\ asked' = None
    /\ IF asked.current
       THEN rows' = [rows EXCEPT ![asked.row].job = asked.job]
       ELSE UNCHANGED rows
    /\ UNCHANGED <<files, sheet, cache, link, paper, drain, hold, work,
                   moves, touches, trouble>>

\* Completing the bill asks for its lines in the worksheet.
AskInsert ==
    /\ Line # {}
    /\ Append1(Excel("insert", None, {}))
    /\ UNCHANGED <<asked, files, sheet, cache, link, paper, drain, hold, work,
                   moves, touches, trouble>>

OnInvoice(i) == {l \in Line : link[l] = i}

\* Completing an invoice tags its lines in SharePoint and asks for the same
\* in Box; which lines is read again when the row is drained.
AskStamp(i) ==
    /\ OnInvoice(i) # {}
    /\ Append1(Excel("stamp", i, {}))
    /\ paper' = [l \in Line |-> IF link[l] = i THEN i ELSE paper[l]]
    /\ UNCHANGED <<asked, files, sheet, cache, link, drain, hold, work,
                   moves, touches, trouble>>

\* apply_removals: lines tagged for the invoice and no longer on it lose the
\* tag in SharePoint; their keys travel to Box in the row.
AskClear(i) ==
    LET gone == {l \in Line : paper[l] = i /\ link[l] # i} IN
    /\ gone # {}
    /\ Append1(Excel("clear", i, gone))
    /\ paper' = [l \in Line |-> IF l \in gone THEN None ELSE paper[l]]
    /\ UNCHANGED <<asked, files, sheet, cache, link, drain, hold, work,
                   moves, touches, trouble>>

\* A line is put on an invoice, or taken off it.
Relink(l, i) ==
    /\ moves < MaxMove /\ moves' = moves + 1
    /\ (link[l] = None) # (i = None)
    /\ link' = [link EXCEPT ![l] = i]
    /\ UNCHANGED <<rows, asked, files, sheet, cache, paper, drain, hold, work,
                   touches, trouble>>

-----------------------------------------------------------------------------
(* Claiming, settling, reclaiming *)

\* drain_once: the drain lock, then the oldest row that is due - any open row,
\* for debounce and backoff differ from row to row. The attempt counts here.
Claim(w) ==
    \E r \in DOMAIN rows :
        LET row == rows[r] IN
        /\ work[w] = Idle /\ drain = None /\ Open(r)
        /\ drain' = w
        /\ rows' = [rows EXCEPT ![r].status = "in_progress", ![r].by = w,
                                ![r].attempts = @ + 1]
        /\ asked' = IF asked # None /\ asked.row = r
                    THEN [asked EXCEPT !.current = FALSE] ELSE asked
        /\ work' = [work EXCEPT ![w] =
                [Idle EXCEPT !.at = IF row.job.kind = "upload" THEN "guard" ELSE "plan",
                             !.row = r, !.job = row.job]]
        /\ UNCHANGED <<files, sheet, cache, link, paper, hold,
                       moves, touches, trouble>>

\* Fault: one attempt too many.
ExhaustedLate(r) == rows[r].attempts > MaxAttempts

Exhausted(r) == rows[r].attempts + 1 > MaxAttempts

\* The status an ending gives its row; a spent row is dead-lettered.
Verdict(r, end) ==
    CASE end = "done" -> "done"
      [] end = "dead" \/ Exhausted(r) -> "dead"
      [] OTHER -> "failed"

\* Fault: rows are marked without comparing the row version.
OwnsAll(w, r) == w \in Worker /\ r \in DOMAIN rows

\* The row version w claimed is the row's still: only reclaiming the row and
\* claiming it again change a claimed row.
Owns(w, r) == rows[r].status = "in_progress" /\ rows[r].by = w

\* Complete, Fail and DeadLetter: nothing happens on another row version.
Mark(w, r, end) ==
    IF Owns(w, r)
    THEN rows' = [rows EXCEPT ![r].status = Verdict(r, end), ![r].by = None]
    ELSE UNCHANGED rows

Settle(w) ==
    /\ work[w].at = "settle"
    /\ Mark(w, work[w].row, work[w].end)
    /\ work' = [work EXCEPT ![w] = Idle]
    /\ drain' = IF drain = w THEN None ELSE drain
    /\ UNCHANGED <<asked, files, sheet, cache, link, paper, hold,
                   moves, touches, trouble>>

\* reclaim_stale_claims, under the drain lock: a claim half an hour old is
\* retried at once or dead-lettered.
Reclaim(r) ==
    /\ drain = None
    /\ rows[r].status = "in_progress"
    /\ rows' = [rows EXCEPT ![r].status = Verdict(r, "fail"), ![r].by = None]
    /\ UNCHANGED <<asked, files, sheet, cache, link, paper, drain, hold, work,
                   moves, touches, trouble>>

-----------------------------------------------------------------------------
(* Uploading a document: push_blob_to_box *)

To(w, at) == work' = [work EXCEPT ![w].at = at]
Ends(w, end) == work' = [work EXCEPT ![w].at = "settle", ![w].end = end]

\* The registry proves the very document is there; or it does not, or could
\* not be read, or an operator forces the upload; or the blob cannot be read.
Guard(w) ==
    LET job == work[w].job
        file == files[Slot(job)]
    IN  /\ work[w].at = "guard"
        /\ \/ To(w, "post") /\ UNCHANGED trouble
           \/ file # None /\ file.registered = job.doc /\ Ends(w, "done") /\ UNCHANGED trouble
           \/ Bother /\ Ends(w, "dead")
        /\ UNCHANGED <<rows, asked, files, sheet, cache, link, paper, drain, hold,
                       moves, touches>>

\* The answer of a write arrives, or is lost after the write took effect.
Answered(w, at) ==
    \/ To(w, at) /\ UNCHANGED trouble
    \/ Bother /\ Ends(w, "fail")

\* Upload under a free name.
Post(w) ==
    LET job == work[w].job IN
    /\ work[w].at = "post" /\ files[Slot(job)] = None
    /\ files' = [files EXCEPT ![Slot(job)] = [content |-> job.doc, registered |-> None]]
    /\ Answered(w, "register")
    /\ UNCHANGED <<rows, asked, sheet, cache, link, paper, drain, hold, moves, touches>>

\* Fault: whatever has the name is taken for ours.
OursAll(file) == file # None

Ours(file) == file.registered # None

\* The name is taken (409): a file the registry gives to this bill receives a
\* new version, any other is left alone and the row is dead-lettered.
Conflict(w) ==
    LET file == files[Slot(work[w].job)] IN
    /\ work[w].at = "post" /\ file # None
    /\ IF Ours(file) THEN To(w, "version") ELSE Ends(w, "dead")
    /\ UNCHANGED <<rows, asked, files, sheet, cache, link, paper, drain, hold,
                   moves, touches, trouble>>

Version(w) ==
    LET job == work[w].job IN
    /\ work[w].at = "version"
    /\ files' = [files EXCEPT ![Slot(job)].content = job.doc]
    /\ Answered(w, "register")
    /\ UNCHANGED <<rows, asked, sheet, cache, link, paper, drain, hold, moves, touches>>

\* Remember the file in the registry; a database error is not a BoxError, so
\* the row is dead-lettered.
Register(w) ==
    LET job == work[w].job IN
    /\ work[w].at = "register"
    /\ \/ /\ files' = [files EXCEPT ![Slot(job)].registered = job.doc]
          /\ Ends(w, "done") /\ UNCHANGED trouble
       \/ Bother /\ Ends(w, "dead") /\ UNCHANGED files
    /\ UNCHANGED <<rows, asked, sheet, cache, link, paper, drain, hold, moves, touches>>

-----------------------------------------------------------------------------
(* Editing the workbook: BoxExcelUpdateService.handle and _run_locked *)

StampLike(job) == job.kind \in {"stamp", "clear"}

\* What the row wants written: all lines of the bill, the lines the invoice
\* has now, or the keys frozen in the row.
PlanOf(job) ==
    CASE job.kind = "insert" -> Line
      [] job.kind = "stamp" -> OnInvoice(job.inv)
      [] job.kind = "clear" -> job.lines

Hash(job, plan) == [kind |-> job.kind, lines |-> plan]

\* Nothing to write, or the same was written before: done without a look at
\* the workbook.
Plan(w) ==
    LET job == work[w].job
        plan == PlanOf(job)
    IN  /\ work[w].at = "plan"
        /\ IF plan = {} \/ cache[job.inv] = Hash(job, plan)
           THEN Ends(w, "done")
           ELSE work' = [work EXCEPT ![w].at = "hold", ![w].plan = plan]
        /\ UNCHANGED <<rows, asked, files, sheet, cache, link, paper, drain, hold,
                       moves, touches, trouble>>

Hold(w) ==
    /\ work[w].at = "hold"
    /\ IF hold = None THEN hold' = w /\ To(w, "meta")
                      ELSE Ends(w, "fail") /\ UNCHANGED hold
    /\ UNCHANGED <<rows, asked, files, sheet, cache, link, paper, drain,
                   moves, touches, trouble>>

LeaveHold(w) == hold' = IF hold = w THEN None ELSE hold

\* The workbook's etag; a person editing in the browser has it first.
Meta(w) ==
    /\ work[w].at = "meta"
    /\ IF sheet.lock = "person"
       THEN Ends(w, "fail") /\ LeaveHold(w)
       ELSE work' = [work EXCEPT ![w].at = "take", ![w].current = TRUE] /\ UNCHANGED hold
    /\ UNCHANGED <<rows, asked, files, sheet, cache, link, paper, drain,
                   moves, touches, trouble>>

\* work with every etag held stale but that of w, if it is a worker.
Bumped(w, wk) == [x \in Worker |-> [wk[x] EXCEPT !.current = (x = w)]]

\* Lock the workbook in Box if the etag still holds, over a lock of ours that
\* a crash left; the etag changes. A stale etag (412) is not retryable.
Take(w) ==
    /\ work[w].at = "take"
    /\ \/ /\ work[w].current /\ sheet.lock # "person"
          /\ sheet' = [sheet EXCEPT !.lock = "ours"]
          /\ work' = Bumped(w, [work EXCEPT ![w].at = "edit"])
          /\ UNCHANGED hold
       \/ ~work[w].current /\ Ends(w, "dead") /\ LeaveHold(w) /\ UNCHANGED sheet
       \/ sheet.lock = "person" /\ Ends(w, "fail") /\ LeaveHold(w) /\ UNCHANGED sheet
    /\ UNCHANGED <<rows, asked, files, cache, link, paper, drain, moves, touches, trouble>>

Present(b) == {l \in Line : b.rows[l] > 0}

\* Fault: rows are added without a look at column Z.
EditedBlindly(job, plan, b) ==
    IF job.kind = "insert"
    THEN [b EXCEPT !.rows = [l \in Line |-> b.rows[l] + 1]]
    ELSE [b EXCEPT !.tag = [l \in Line |-> IF l \in plan \cap Present(b)
                     THEN IF job.kind = "stamp" THEN job.inv ELSE None
                     ELSE b.tag[l]]]

\* Rows are added where column Z does not have them; a tag is written or
\* blanked where it does.
Edited(job, plan, b) ==
    IF job.kind = "insert"
    THEN [b EXCEPT !.rows = [l \in Line |-> b.rows[l] + IF l \in plan \ Present(b)
                                                         THEN 1 ELSE 0]]
    ELSE [b EXCEPT !.tag = [l \in Line |-> IF l \in plan \cap Present(b)
                     THEN IF job.kind = "stamp" THEN job.inv ELSE None
                     ELSE b.tag[l]]]

\* Fault: a tag that found no row counts as written.
WholeAlways(job, plan, b) == job.kind \in Kind /\ plan \subseteq Line /\ b # None

\* Nothing the plan names was missing from the sheet.
Whole(job, plan, b) == StampLike(job) => plan \subseteq Present(b)

\* Download and edit; with nothing to change there is nothing to upload.
Edit(w) ==
    LET me == work[w]
        new == Edited(me.job, me.plan, Bytes)
    IN  /\ me.at = "edit"
        /\ work' = [work EXCEPT ![w] =
              [me EXCEPT !.whole = Whole(me.job, me.plan, Bytes),
                         !.bytes = IF new = Bytes THEN None ELSE new,
                         !.at = IF new = Bytes THEN "unlock" ELSE "put",
                         !.end = IF new = Bytes THEN "done" ELSE None]]
        /\ UNCHANGED <<rows, asked, files, sheet, cache, link, paper, drain, hold,
                       moves, touches, trouble>>

Unlocks(w, end) ==
    [work EXCEPT ![w].at = "unlock", ![w].end = end, ![w].bytes = None]

\* Fault: the new version is uploaded without If-Match.
PutUnmatched(w) ==
    /\ work[w].at = "put"
    /\ sheet' = [sheet EXCEPT !.rows = work[w].bytes.rows, !.tag = work[w].bytes.tag,
                              !.human = work[w].bytes.human]
    /\ work' = Bumped(w, [work EXCEPT ![w].at = "note", ![w].bytes = None])
    /\ UNCHANGED <<rows, asked, files, cache, link, paper, drain, hold,
                   moves, touches, trouble>>

\* A new version of the workbook, if nobody changed it since our lock.
Put(w) ==
    /\ work[w].at = "put"
    /\ \/ /\ work[w].current /\ sheet.lock # "person"
          /\ sheet' = [sheet EXCEPT !.rows = work[w].bytes.rows, !.tag = work[w].bytes.tag,
                                   !.human = work[w].bytes.human]
          /\ \/ work' = Bumped(w, [work EXCEPT ![w].at = "note", ![w].bytes = None])
                /\ UNCHANGED trouble
             \/ Bother /\ work' = Bumped(w, Unlocks(w, "fail"))
       \/ ~work[w].current /\ work' = Unlocks(w, "dead") /\ UNCHANGED <<sheet, trouble>>
       \/ sheet.lock = "person" /\ work' = Unlocks(w, "fail") /\ UNCHANGED <<sheet, trouble>>
    /\ UNCHANGED <<rows, asked, files, cache, link, paper, drain, hold, moves, touches>>

\* The registry remembers the version pushed, or the row is dead-lettered.
Note(w) ==
    /\ work[w].at = "note"
    /\ \/ work' = Unlocks(w, "done") /\ UNCHANGED trouble
       \/ Bother /\ work' = Unlocks(w, "dead")
    /\ UNCHANGED <<rows, asked, files, sheet, cache, link, paper, drain, hold, moves, touches>>

\* The Box lock is given back if that works, then the application lock.
Unlock(w) ==
    /\ work[w].at = "unlock"
    /\ LET next == [work EXCEPT ![w].at = IF work[w].end = "done" THEN "record"
                                                                ELSE "settle"]
       IN  \/ /\ sheet' = [sheet EXCEPT !.lock = IF @ = "ours" THEN None ELSE @]
              /\ work' = Bumped(None, next) /\ UNCHANGED trouble
           \/ Bother /\ UNCHANGED sheet /\ work' = next
    /\ LeaveHold(w)
    /\ UNCHANGED <<rows, asked, files, cache, link, paper, drain, moves, touches>>

\* Remember what was written, unless a line was missing; a failure to
\* remember is swallowed.
Record(w) ==
    LET me == work[w] IN
    /\ me.at = "record"
    /\ \/ /\ me.whole /\ cache' = [cache EXCEPT ![me.job.inv] = Hash(me.job, me.plan)]
          /\ UNCHANGED trouble
       \/ ~me.whole /\ UNCHANGED <<cache, trouble>>
       \/ Bother /\ UNCHANGED cache
    /\ To(w, "settle")
    /\ UNCHANGED <<rows, asked, files, sheet, link, paper, drain, hold, moves, touches>>

-----------------------------------------------------------------------------
(* What goes wrong *)

\* Box refuses a call for now (429, 5xx, no connection).
Outage(w) ==
    /\ work[w].at \in {"post", "version", "meta", "take", "edit", "put"}
    /\ Bother
    /\ IF work[w].at \in {"edit", "put"}
       THEN work' = Unlocks(w, "fail") /\ UNCHANGED hold
       ELSE Ends(w, "fail") /\ LeaveHold(w)
    /\ UNCHANGED <<rows, asked, files, sheet, cache, link, paper, drain, moves, touches>>

\* The process dies: its connections and their locks go, its claim stays.
Crash(w) ==
    /\ work[w] # Idle
    /\ Bother
    /\ work' = [work EXCEPT ![w] = Idle]
    /\ drain' = IF drain = w THEN None ELSE drain
    /\ LeaveHold(w)
    /\ UNCHANGED <<rows, asked, files, sheet, cache, link, paper, moves, touches>>

\* An idle connection is cut and its lock released while the worker goes on.
LoseLocks(w) ==
    /\ w \in {drain, hold}
    /\ Bother
    /\ drain' = IF drain = w THEN None ELSE drain
    /\ hold' \in {hold, IF hold = w THEN None ELSE hold}
    /\ UNCHANGED <<rows, asked, files, sheet, cache, link, paper, work, moves, touches>>

Touch == touches < MaxTouch /\ touches' = touches + 1

\* A person puts a file of their own in a folder.
PersonFiles(s) ==
    /\ Touch
    /\ files[s] = None
    /\ files' = [files EXCEPT ![s] = [content |-> None, registered |-> None]]
    /\ UNCHANGED <<rows, asked, sheet, cache, link, paper, drain, hold, work, moves, trouble>>

\* A person opens the workbook in the browser, saves it, closes it.
PersonOpens ==
    /\ Touch
    /\ sheet.lock = None
    /\ sheet' = [sheet EXCEPT !.lock = "person"]
    /\ work' = Bumped(None, work)
    /\ UNCHANGED <<rows, asked, files, cache, link, paper, drain, hold, moves, trouble>>

PersonSaves ==
    /\ Touch
    /\ sheet.lock # "ours"
    /\ sheet' = [sheet EXCEPT !.human = @ + 1]
    /\ work' = Bumped(None, work)
    /\ UNCHANGED <<rows, asked, files, cache, link, paper, drain, hold, moves, trouble>>

\* A person closes the workbook, or our lock reaches the end of its life.
LockEnds ==
    /\ sheet.lock # None
    /\ sheet' = [sheet EXCEPT !.lock = None]
    /\ UNCHANGED <<rows, asked, files, cache, link, paper, drain, hold, work,
                   moves, touches, trouble>>

-----------------------------------------------------------------------------
(* The system *)

Step(w) ==
    \/ Guard(w) \/ Post(w) \/ Conflict(w) \/ Version(w) \/ Register(w)
    \/ Plan(w) \/ Hold(w) \/ Meta(w) \/ Take(w) \/ Edit(w) \/ Put(w) \/ Note(w)
    \/ Unlock(w) \/ Record(w) \/ Settle(w)

ClaimSome == \E w \in Worker : Claim(w)
ReclaimSome == \E r \in DOMAIN rows : Reclaim(r)

Next ==
    \/ \E t \in Targets : AskUpload(t[1], t[2])
    \/ CoalesceUpload
    \/ AskInsert
    \/ \E i \in Invoice : AskStamp(i) \/ AskClear(i)
    \/ \E l \in Line, i \in Invoice \cup {None} : Relink(l, i)
    \/ ClaimSome \/ ReclaimSome
    \/ \E w \in Worker : Step(w) \/ Outage(w) \/ Crash(w) \/ LoseLocks(w)
    \/ \E s \in DOMAIN files : PersonFiles(s)
    \/ PersonOpens \/ PersonSaves \/ LockEnds

Spec == Init /\ [][Next]_vars

-----------------------------------------------------------------------------
(* Properties *)

\* Everything stays within its type and its bounds; a row is claimed at most
\* MaxAttempts times, and at most one upload request is under way.
TypeOK ==
    /\ rows \in Seq([job : Job, by : Worker \cup {None}, attempts : 0..MaxAttempts,
                     status : {"pending", "in_progress", "failed", "done", "dead"}])
    /\ Len(rows) <= MaxRow
    /\ asked = None \/ asked.job \in Job
    /\ files \in [Folder \X Name -> File \cup {None}]
    /\ sheet.lock \in {None, "ours", "person"}
    /\ link \in [Line -> Invoice \cup {None}] /\ paper \in [Line -> Invoice \cup {None}]
    /\ {drain, hold} \subseteq Worker \cup {None}
    /\ moves \in 0..MaxMove /\ touches \in 0..MaxTouch /\ trouble \in 0..MaxTrouble

\* A line of the bill is in the worksheet at most once, whatever was retried
\* or written by two workers (apply_rows_to_details: column Z).
LineOnce == \A l \in Line : sheet.rows[l] <= 1

\* What a done upload was last asked to file is in its folder and registered:
\* so for attachments whose names are their own (two of one name: DocumentKept).
DoneIsFiled ==
    \A r \in DOMAIN rows :
        rows[r].job.kind = "upload" /\ rows[r].status = "done"
        => files[Slot(rows[r].job)] =
               [content |-> rows[r].job.doc, registered |-> rows[r].job.doc]

\* The freshness cache, which makes later rows do nothing, remembers a write
\* only if every line of it is in the worksheet.
CacheIsEarned ==
    \A e \in DOMAIN cache : cache[e] # None => cache[e].lines \subseteq Present(sheet)

\* No write of ours undoes what a person saved in the workbook: it is built
\* on that version, or Box refuses it.
PersonsEditKept == [][sheet'.human >= sheet.human]_vars

\* A file that is not ours is never given a new version.
PersonsFileKept ==
    [][\A s \in DOMAIN files :
          files[s] # None /\ files[s].content = None => files'[s].content = None]_vars

-----------------------------------------------------------------------------
(* What the outbox promises to completion: its uploads are a durable queue. *)
(* A workbook edit promises less, for it is done when lines are missing.   *)

IsUpload(r) == r \in DOMAIN rows /\ rows[r].job.kind = "upload"
DocOf(r) == IF IsUpload(r) THEN rows[r].job.doc ELSE None

\* The state of the ticket a row stands for.
QueueState == [pending |-> "waiting", failed |-> "waiting", in_progress |-> "taken",
               done |-> "finished", dead |-> "given_up"]
TicketState(r) == IF IsUpload(r) THEN QueueState[rows[r].status] ELSE "none"

\* The documents that some folder holds under their name, known to the registry.
Holds(file, d) == file # None /\ file.content = d /\ file.registered = d
Delivered == {d \in Doc : \E f \in Folder : Holds(files[<<f, NameOf[d]>>], d)}

Queue == INSTANCE DurableQueue WITH
    Ticket    <- 1 .. MaxRow,
    Item      <- Doc,
    NoItem    <- None,
    item      <- [r \in 1 .. MaxRow |-> DocOf(r)],
    state     <- [r \in 1 .. MaxRow |-> TicketState(r)],
    delivered <- Delivered

\* An upload is handed over at least once: a request that is coalesced keeps its ticket,
\* only a claimed row is marked, a worker that lost its row cannot mark it, a done row has
\* had its document filed, and what is filed and registered stays so.
ImplementsDurableQueue == Queue!Spec

-----------------------------------------------------------------------------
(* What the code does not keep *)

\* A document that is filed stays filed: no other document replaces it. A bill
\* with several lines names all its attachments alike, and the second one that
\* is pushed to a folder becomes a new version of the first one's file.
DocumentKept ==
    [][\A s \in DOMAIN files :
          files[s] # None /\ files[s].content # None
          => files'[s].content = files[s].content]_vars
=============================================================================
