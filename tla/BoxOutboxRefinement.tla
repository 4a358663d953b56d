------------------------- MODULE BoxOutboxRefinement -------------------------
(***************************************************************************)
(* The uploads of the Box outbox implement the durable queue when no two   *)
(* attachments share a name, also when workers lose the locks they rely    *)
(* on: the row version alone keeps a worker that lost its row from marking *)
(* it, and a coalesced request stays a request for the same document.      *)
(***************************************************************************)
EXTENDS BoxOutboxProofs

USE BoxAssumption

\* Rows, the request under way and the workers agree on the document.
TicketInv ==
    /\ asked # None => rows[asked.row].job.doc = asked.job.doc
    /\ \A w \in Worker : work[w].at # "idle" => rows[work[w].row].job.doc = work[w].job.doc

\* The moves of a row that takes the value row; done needs the document filed.
StatusMoves(old, row) ==
    \/ row.status = old.status
    \/ old.status \in {"pending", "failed"} /\ row.status = "in_progress"
    \/ old.status = "in_progress" /\ row.status \in {"failed", "dead"}
    \/ /\ old.status = "in_progress" /\ row.status = "done"
       /\ old.job.kind = "upload" => Filed(old.job)

Becomes(r, row) ==
    /\ rows' = [rows EXCEPT ![r] = row]
    /\ row.job.doc = rows[r].job.doc
    /\ StatusMoves(rows[r], row)

\* A step enqueues a row, or changes one, or none; only the last kind touches files.
TableMoves ==
    \/ rows' = rows
    \/ files' = files /\ \E job \in Jobs : Append1(job)
    \/ files' = files /\ \E r \in DOMAIN rows, row \in RowType : Becomes(r, row)

LEMMA TableStep ==
    ASSUME Typed, FiledInv, TicketInv, Next
    PROVE  TableMoves
<1>1. RowsOK /\ AskedOK /\ WorkOK /\ \A r \in DOMAIN rows : rows[r] \in RowType
  BY RowsAre DEF Typed
<1>2. CASE rows' = rows
  BY <1>2 DEF TableMoves
<1>3. ASSUME NEW t \in Targets, AskUpload(t[1], t[2]) PROVE TableMoves
  <2>1. t[1] \in Doc /\ t[2] \in Folder
    OBVIOUS
  <2>2. Upload(t[1], t[2]) \in Jobs
    BY <2>1, JobTypes
  <2> QED BY <1>3, <2>2 DEF AskUpload, TableMoves
<1>4. CASE CoalesceUpload
  <2>1. asked # None /\ asked.row \in DOMAIN rows /\ asked.job \in Jobs /\ files' = files
    BY <1>1, <1>4 DEF CoalesceUpload, AskedOK
  <2>2. CASE asked.current /\ rows' = [rows EXCEPT ![asked.row].job = asked.job]
    <3> DEFINE row == [rows[asked.row] EXCEPT !.job = asked.job]
    <3>1. rows' = [rows EXCEPT ![asked.row] = row]
      BY <2>2
    <3>2. row \in RowType /\ row.status = rows[asked.row].status
      BY <1>1, <2>1, MovedRowType
    <3>3. row.job.doc = rows[asked.row].job.doc
      BY <1>1, <2>1 DEF TicketInv, RowType
    <3> HIDE DEF row
    <3>4. Becomes(asked.row, row)
      BY <3>1, <3>2, <3>3 DEF Becomes, StatusMoves
    <3> QED BY <2>1, <3>2, <3>4 DEF TableMoves
  <2> QED BY <1>2, <1>4, <2>2 DEF CoalesceUpload
<1>5. CASE AskInsert
  BY <1>5, JobTypes DEF AskInsert, TableMoves
<1>6. ASSUME NEW i \in Invoice, AskStamp(i) \/ AskClear(i) PROVE TableMoves
  <2>1. files' = files
    BY <1>6 DEF AskStamp, AskClear
  <2>2. Append1(Excel("stamp", i, {})) \/ \E ls \in SUBSET Line : Append1(Excel("clear", i, ls))
    BY <1>6 DEF AskStamp, AskClear
  <2>3. \E ls \in SUBSET Line, k \in {"stamp", "clear"} : Append1(Excel(k, i, ls))
    BY <2>2
  <2>4. PICK ls \in SUBSET Line, k \in {"stamp", "clear"} : Append1(Excel(k, i, ls))
    BY <2>3
  <2>5. Excel(k, i, ls) \in Jobs
    BY JobTypes
  <2> QED BY <2>1, <2>4, <2>5 DEF TableMoves
<1>7. ASSUME NEW w \in Worker, Claim(w) PROVE TableMoves
  <2>1. PICK r \in DOMAIN rows :
           /\ Open(r)
           /\ rows' = [rows EXCEPT ![r].status = "in_progress", ![r].by = w, ![r].attempts = @ + 1]
    BY <1>7 DEF Claim
  <2> DEFINE row == [rows[r] EXCEPT !.status = "in_progress", !.by = w, !.attempts = @ + 1]
  <2>2. rows' = [rows EXCEPT ![r] = row] /\ row.status = "in_progress" /\ row.job = rows[r].job
    BY <1>1, <2>1 DEF RowType
  <2>3. row \in RowType
    BY <1>1, <2>1, ClaimRowType
  <2> HIDE DEF row
  <2>4. Becomes(r, row)
    BY <2>1, <2>2 DEF Becomes, StatusMoves, Open
  <2>5. files' = files
    BY <1>7 DEF Claim
  <2> QED BY <2>3, <2>4, <2>5 DEF TableMoves
<1>8. ASSUME NEW r \in DOMAIN rows, NEW end, rows[r].status = "in_progress", files' = files,
             rows' = [rows EXCEPT ![r].status = Verdict(r, end), ![r].by = None],
             end = "done" /\ rows[r].job.kind = "upload" => Filed(rows[r].job)
      PROVE  TableMoves
  <2> DEFINE row == [rows[r] EXCEPT !.status = Verdict(r, end), !.by = None]
  <2>1. rows' = [rows EXCEPT ![r] = row]
    BY <1>8
  <2>2. row.status = Verdict(r, end) /\ row.job = rows[r].job
    BY <1>1 DEF RowType
  <2>3. /\ row \in RowType
        /\ Verdict(r, end) \in {"done", "dead", "failed"}
        /\ Verdict(r, end) = "done" => end = "done"
    BY <1>1, SettledRowType
  <2> HIDE DEF row
  <2>4. Becomes(r, row)
    BY <1>8, <2>1, <2>2, <2>3 DEF Becomes, StatusMoves
  <2> QED BY <1>8, <2>3, <2>4 DEF TableMoves
<1>9. ASSUME NEW w \in Worker, Settle(w) PROVE TableMoves
  <2>1. work[w].at = "settle" /\ work[w].row \in DOMAIN rows /\ files' = files
    BY <1>1, <1>9 DEF WorkOK, Fits, Settle
  <2>2. CASE Owns(w, work[w].row)
    <3>1. /\ rows[work[w].row].status = "in_progress"
          /\ rows' = [rows EXCEPT ![work[w].row].status = Verdict(work[w].row, work[w].end),
                                  ![work[w].row].by = None]
      BY <1>9, <2>2 DEF Settle, Mark, Owns
    <3>2. work[w].end = "done" /\ rows[work[w].row].job.kind = "upload"
             => Filed(rows[work[w].row].job)
      BY <2>1, <2>2 DEF FiledInv, FiledOK
    <3> QED BY <1>8, <2>1, <3>1, <3>2
  <2>3. CASE ~ Owns(w, work[w].row)
    BY <1>2, <1>9, <2>3 DEF Settle, Mark
  <2> QED BY <2>2, <2>3
<1>10. CASE ReclaimSome
  <2>1. PICK r \in DOMAIN rows : Reclaim(r)
    BY <1>10 DEF ReclaimSome
  <2>2. /\ rows[r].status = "in_progress" /\ files' = files
        /\ rows' = [rows EXCEPT ![r].status = Verdict(r, "fail"), ![r].by = None]
    BY <2>1 DEF Reclaim
  <2>3. ("fail" = "done") = FALSE
    OBVIOUS
  <2> QED BY <1>8, <2>2, <2>3
<1>11. ASSUME NEW w \in Worker, Step(w) \/ Outage(w) \/ Crash(w) \/ LoseLocks(w)
       PROVE  Settle(w) \/ Claim(w) \/ rows' = rows
  BY <1>11, WorkerFrame
<1>12. PersonOpens \/ PersonSaves \/ LockEnds => rows' = rows
  BY DEF PersonOpens, PersonSaves, LockEnds
<1>13. (\E s \in DOMAIN files : PersonFiles(s))
       \/ (\E l \in Line, i \in Invoice \cup {None} : Relink(l, i)) => rows' = rows
  BY DEF PersonFiles, Relink
<1> QED BY <1>2, <1>3, <1>4, <1>5, <1>6, <1>7, <1>9, <1>10, <1>11, <1>12, <1>13
    DEF Next, ClaimSome

\* A row asks for one document all its life, and none disappears.
LEMMA DocStays ==
    ASSUME Typed, TableMoves
    PROVE  \A r \in DOMAIN rows : r \in DOMAIN rows' /\ rows'[r].job.doc = rows[r].job.doc
<1>1. RowsOK
  BY DEF Typed
<1>2. \A job \in Jobs : Append1(job) =>
         \A r \in DOMAIN rows : r \in DOMAIN rows' /\ rows'[r] = rows[r]
  BY <1>1, AppendRow
<1>3. ASSUME NEW q \in DOMAIN rows, NEW row \in RowType, Becomes(q, row)
      PROVE  \A r \in DOMAIN rows : r \in DOMAIN rows' /\ rows'[r].job.doc = rows[r].job.doc
  BY <1>3 DEF Becomes
<1> QED BY <1>2, <1>3 DEF TableMoves

LEMMA TicketStep ==
    ASSUME Typed, FiledInv, TicketInv, Next
    PROVE  TicketInv'
<1>1. RowsOK /\ AskedOK /\ WorkOK /\ \A x \in Worker : work[x] \in Works /\ Fits(work[x])
  BY DEF Typed, WorkOK
<1>2. \A r \in DOMAIN rows : r \in DOMAIN rows' /\ rows'[r].job.doc = rows[r].job.doc
  BY TableStep, DocStays
<1>3. asked' # None => rows'[asked'.row].job.doc = asked'.job.doc
  <2>1. ASSUME asked' # None, asked' = asked \/ asked' = [asked EXCEPT !.current = FALSE],
               asked # None
        PROVE  rows'[asked'.row].job.doc = asked'.job.doc
    <3>1. asked'.row = asked.row /\ asked'.job = asked.job /\ asked.row \in DOMAIN rows
      BY <1>1, <2>1 DEF AskedOK
    <3> QED BY <1>2, <2>1, <3>1 DEF TicketInv
  <2>2. ASSUME NEW t \in Targets, AskUpload(t[1], t[2]), asked' # asked
        PROVE  rows'[asked'.row].job.doc = asked'.job.doc
    <3>1. PICK r \in Newest(t[1]) :
             asked' = [row |-> r, current |-> TRUE, job |-> Upload(t[1], t[2])]
      BY <2>2 DEF AskUpload
    <3>2. r \in DOMAIN rows /\ rows[r].job.doc = t[1]
      BY DEF Newest, Coalescible
    <3> QED BY <1>2, <3>1, <3>2 DEF Upload
  <2>3. CoalesceUpload => asked' = None
    BY DEF CoalesceUpload
  <2>4. ASSUME NEW w \in Worker, Claim(w)
        PROVE  asked' = asked \/ (asked # None /\ asked' = [asked EXCEPT !.current = FALSE])
    BY <2>4 DEF Claim
  <2>5. AskInsert \/ ReclaimSome \/ LockEnds \/ PersonOpens \/ PersonSaves => asked' = asked
    BY DEF AskInsert, ReclaimSome, Reclaim, LockEnds, PersonOpens, PersonSaves
  <2>6. \A i \in Invoice : AskStamp(i) \/ AskClear(i) => asked' = asked
    BY DEF AskStamp, AskClear
  <2>7. \A l \in Line, i \in Invoice \cup {None} : Relink(l, i) => asked' = asked
    BY DEF Relink
  <2>8. \A s \in DOMAIN files : PersonFiles(s) => asked' = asked
    BY DEF PersonFiles
  <2>9. \A w \in Worker : Step(w) \/ Outage(w) \/ Crash(w) \/ LoseLocks(w) =>
           Claim(w) \/ asked' = asked
    BY WorkerFrame
  <2> QED BY <2>1, <2>2, <2>3, <2>4, <2>5, <2>6, <2>7, <2>8, <2>9 DEF Next, ClaimSome
<1>4. ASSUME NEW x \in Worker, Same(x) \/ Step(x) \/ Outage(x) \/ Crash(x) \/ Claim(x),
             work'[x].at # "idle"
      PROVE  rows'[work'[x].row].job.doc = work'[x].job.doc
  <2>1. CASE Claim(x)
    <3>1. PICK r \in DOMAIN rows :
             Moves(x, [Idle EXCEPT !.at = IF rows[r].job.kind = "upload" THEN "guard" ELSE "plan",
                                   !.row = r, !.job = rows[r].job])
      BY <1>1, <2>1, OtherMoves
    <3>2. work'[x].row = r /\ work'[x].job = rows[r].job
      BY <3>1 DEF Moves, Idle
    <3> QED BY <1>2, <3>2
  <2>2. ~ Crash(x)
    BY <1>4, Stages
  <2>3. ASSUME work'[x].job = work[x].job, work'[x].row = work[x].row, work[x].at # "idle"
        PROVE  rows'[work'[x].row].job.doc = work'[x].job.doc
    BY <1>1, <1>2, <2>3 DEF TicketInv, Fits
  <2>4. CASE Same(x)
    <3>1. work'[x].at = work[x].at /\ work'[x].job = work[x].job /\ work'[x].row = work[x].row
      BY <1>1, <2>4 DEF Same, Works
    <3> QED BY <1>4, <2>3, <3>1
  <2>5. CASE Step(x) \/ Outage(x)
    <3>1. work[x].at # "idle"
      BY <2>5 DEF Step, Guard, Post, Conflict, Version, Register, Plan, Hold, Meta, Take, Edit,
                  Put, Note, Unlock, Record, Settle, Outage
    <3>2. work'[x].job = work[x].job /\ work'[x].row = work[x].row
      BY <1>4, <2>5, JobStays
    <3> QED BY <2>3, <3>1, <3>2
  <2> QED BY <1>4, <2>1, <2>2, <2>4, <2>5
<1>5. \A x \in Worker : Same(x) \/ Step(x) \/ Outage(x) \/ Crash(x) \/ Claim(x)
  BY WhoMoves
<1> QED BY <1>3, <1>4, <1>5 DEF TicketInv

\* A step files nothing, or the document of a row.
LEMMA DeliveredStep ==
    ASSUME Typed, FolderInv, FiledInv, TicketInv, NamesOwn, Next
    PROVE  \/ Delivered' = Delivered
           \/ \E r \in DOMAIN rows :
                 /\ rows' = rows /\ IsUpload(r) /\ rows[r].job.doc \notin Delivered
                 /\ Delivered' = Delivered \cup {rows[r].job.doc}
<1>1. FilesOK /\ WorkOK /\ RowsOK /\ \A r \in DOMAIN rows : rows[r] \in RowType
  BY RowsAre DEF Typed
<1>2. Delivered \subseteq Delivered'
  <2>1. ASSUME NEW d \in Doc, NEW f \in Folder, Holds(files[<<f, NameOf[d]>>], d)
        PROVE  Holds(files'[<<f, NameOf[d]>>], d)
    <3> DEFINE job == Upload(d, f)
    <3>1. job \in Jobs /\ job.kind = "upload" /\ job.doc = d /\ Slot(job) = <<f, NameOf[d]>>
      BY JobTypes DEF Upload, Slot
    <3> HIDE DEF job
    <3>2. files[Slot(job)] \in File
      <4>1. <<f, NameOf[d]>> \in Folder \X Name
        OBVIOUS
      <4> QED BY <1>1, <2>1, <3>1, <4>1 DEF FilesOK, Holds
    <3>3. Filed(job)
      BY <2>1, <3>1, <3>2 DEF Filed, Holds, File
    <3>4. Filed(job)'
      BY <3>1, <3>3, FiledStays DEF FiledInv
    <3>5. files'[<<f, NameOf[d]>>] = [content |-> d, registered |-> d]
      BY <3>1, <3>4 DEF Filed, Slot
    <3>6. [content |-> d, registered |-> d] # None
      <4>1. [content |-> d, registered |-> d] \in File
        BY DEF File
      <4> QED BY <4>1
    <3> QED BY <3>5, <3>6 DEF Holds
  <2> QED BY <2>1 DEF Delivered
<1>3. CASE files' = files
  BY <1>3 DEF Delivered
<1>4. ASSUME NEW s \in DOMAIN files, PersonFiles(s) PROVE Delivered' = Delivered
  <2>1. files' = [files EXCEPT ![s] = [content |-> None, registered |-> None]]
    BY <1>4 DEF PersonFiles
  <2>2. \A d \in Doc : ~ Holds(files'[s], d)
    BY <2>1 DEF Holds
  <2>3. ASSUME NEW d \in Doc, NEW f \in Folder, Holds(files'[<<f, NameOf[d]>>], d)
        PROVE  Holds(files[<<f, NameOf[d]>>], d)
    <3>1. <<f, NameOf[d]>> # s
      BY <2>2, <2>3
    <3> QED BY <2>1, <2>3, <3>1
  <2> QED BY <1>2, <2>3 DEF Delivered
<1>5. ASSUME NEW w \in Worker, Post(w) \/ Version(w) \/ Register(w), Delivered' # Delivered
      PROVE  \E r \in DOMAIN rows :
                 /\ rows' = rows /\ IsUpload(r) /\ rows[r].job.doc \notin Delivered
                 /\ Delivered' = Delivered \cup {rows[r].job.doc}
  <2> DEFINE s == Slot(work[w].job)
             c == work[w].job.doc
             r == work[w].row
  <2>1. work[w].at \in UploadAts /\ work[w].at # "idle" /\ rows' = rows
    BY <1>5 DEF Post, Version, Register, UploadAts
  <2>2. s \in DOMAIN files /\ c \in Doc /\ s[2] = NameOf[c]
    BY <1>1, <2>1, UploadJob DEF FilesOK
  <2>3. \A q \in DOMAIN files : q # s => files'[q] = files[q]
    <3>1. \/ files' = [files EXCEPT ![s] = [content |-> c, registered |-> None]]
          \/ files' = [files EXCEPT ![s].content = c]
          \/ files' = [files EXCEPT ![s].registered = c]
          \/ files' = files
      BY <1>5 DEF Post, Version, Register
    <3> QED BY <3>1
  <2>4. r \in DOMAIN rows /\ rows[r].job.doc = c
    BY <1>1, <2>1 DEF WorkOK, Fits, TicketInv
  <2>5. IsUpload(r)
    BY <1>1, <2>2, <2>4 DEF IsUpload, RowType, Jobs
  <2> HIDE DEF s, c, r
  <2>6. ASSUME NEW d \in Doc, NEW f \in Folder, Holds(files'[<<f, NameOf[d]>>], d), d # c
        PROVE  Holds(files[<<f, NameOf[d]>>], d)
    <3>1. <<f, NameOf[d]>> # s
      <4>1. NameOf[d] # NameOf[c]
        BY <2>2, <2>6 DEF NamesOwn
      <4> QED BY <2>2, <4>1
    <3>2. <<f, NameOf[d]>> \in DOMAIN files
      BY <1>1 DEF FilesOK
    <3> QED BY <2>3, <2>6, <3>1, <3>2
  <2>7. Delivered' \subseteq Delivered \cup {c}
    BY <2>6 DEF Delivered
  <2>8. c \notin Delivered /\ Delivered' = Delivered \cup {c}
    BY <1>2, <1>5, <2>7
  <2> QED BY <2>1, <2>4, <2>5, <2>8
<1> QED BY <1>3, <1>4, <1>5, FilesFrame

-----------------------------------------------------------------------------
(* The steps of the queue, seen from the rows.                             *)

Rows      == 1 .. MaxRow
KeepsDocs == \A r \in Rows : DocOf(r)' = DocOf(r)
Keeps(S)  == \A r \in S : TicketState(r)' = TicketState(r)

LEMMA Stutters ==
    ASSUME KeepsDocs, Keeps(Rows), Delivered' = Delivered
    PROVE  UNCHANGED Queue!vars
BY DEF Queue!vars, KeepsDocs, Keeps, Rows

LEMMA Submits ==
    ASSUME NEW r \in Rows, NEW d \in Doc, TicketState(r) = "none", TicketState(r)' = "waiting",
           DocOf(r)' = d, \A q \in Rows \ {r} : DocOf(q)' = DocOf(q),
           Keeps(Rows \ {r}), Delivered' = Delivered
    PROVE  Queue!Next
<1>1. Queue!Submit(r, d)
  BY DEF Queue!Submit, Keeps, Rows
<1> QED BY <1>1 DEF Queue!Next, Rows

LEMMA Takes ==
    ASSUME NEW r \in Rows, TicketState(r) = "waiting", TicketState(r)' = "taken",
           KeepsDocs, Keeps(Rows \ {r}), Delivered' = Delivered
    PROVE  Queue!Next
<1>1. Queue!Take(r)
  BY DEF Queue!Take, KeepsDocs, Keeps, Rows
<1> QED BY <1>1 DEF Queue!Next, Rows

LEMMA Finishes ==
    ASSUME NEW r \in Rows, TicketState(r) = "taken", TicketState(r)' = "finished",
           DocOf(r) \in Delivered, KeepsDocs, Keeps(Rows \ {r}), Delivered' = Delivered
    PROVE  Queue!Next
<1>1. Queue!Finish(r)
  BY DEF Queue!Finish, KeepsDocs, Keeps, Rows
<1> QED BY <1>1 DEF Queue!Next, Rows

LEMMA Returns ==
    ASSUME NEW r \in Rows, TicketState(r) = "taken", TicketState(r)' \in {"waiting", "given_up"},
           KeepsDocs, Keeps(Rows \ {r}), Delivered' = Delivered
    PROVE  Queue!Next
<1>1. [q \in Rows |-> TicketState(q)]' # [q \in Rows |-> TicketState(q)]
  <2>1. TicketState(r)' # TicketState(r)
    OBVIOUS
  <2> QED BY <2>1
<1>2. r \in Queue!Taken
  BY DEF Queue!Taken, Rows
<1>3. CASE TicketState(r)' = "waiting"
  <2>1. \A q \in Rows : TicketState(q)' = CASE q \in {r} -> "waiting"
                                           [] q \in {} -> "given_up"
                                           [] OTHER    -> TicketState(q)
    BY <1>3 DEF Keeps
  <2>2. Queue!Return({r}, {})
    BY <1>2, <2>1 DEF Queue!Return, KeepsDocs, Rows
  <2>3. {r} \in SUBSET Queue!Taken /\ {} \in SUBSET (Queue!Taken \ {r})
    BY <1>2
  <2> QED BY <1>1, <2>2, <2>3 DEF Queue!Next, Rows
<1>4. CASE TicketState(r)' = "given_up"
  <2>1. \A q \in Rows : TicketState(q)' = CASE q \in {} -> "waiting"
                                           [] q \in {r} -> "given_up"
                                           [] OTHER     -> TicketState(q)
    BY <1>4 DEF Keeps
  <2>2. Queue!Return({}, {r})
    BY <1>2, <2>1 DEF Queue!Return, KeepsDocs, Rows
  <2>3. {} \in SUBSET Queue!Taken /\ {r} \in SUBSET (Queue!Taken \ {})
    BY <1>2
  <2> QED BY <1>1, <2>2, <2>3 DEF Queue!Next, Rows
<1> QED BY <1>3, <1>4

LEMMA Delivers ==
    ASSUME NEW r \in Rows, NEW d \in Doc, DocOf(r) = d, d \notin Delivered,
           Delivered' = Delivered \cup {d}, KeepsDocs, Keeps(Rows)
    PROVE  Queue!Next
<1>1. Queue!Deliver(d)
  BY DEF Queue!Deliver, KeepsDocs, Keeps, Rows
<1> QED BY <1>1 DEF Queue!Next

-----------------------------------------------------------------------------

LEMMA InitRefines == Init => Queue!Init
<1> SUFFICES ASSUME Init PROVE Queue!Init
  OBVIOUS
<1>1. rows = <<>> /\ DOMAIN rows = {}
  BY DEF Init
<1>2. \A r \in Rows : DocOf(r) = None /\ TicketState(r) = "none"
  BY <1>1 DEF DocOf, TicketState, IsUpload
<1>3. Delivered = {}
  <2>1. \A s \in Folder \X Name : files[s] = None
    BY DEF Init
  <2>2. \A d \in Doc, f \in Folder : <<f, NameOf[d]>> \in Folder \X Name
    OBVIOUS
  <2> QED BY <2>1, <2>2 DEF Delivered, Holds
<1> QED BY <1>2, <1>3 DEF Queue!Init, Rows

\* The ticket a row stands for, by the status of the row.
LEMMA States ==
    ASSUME NEW r \in DOMAIN rows, rows[r] \in RowType
    PROVE  /\ IsUpload(r) <=> rows[r].job.doc \in Doc
           /\ IsUpload(r) => DocOf(r) = rows[r].job.doc
           /\ ~ IsUpload(r) => DocOf(r) = None /\ TicketState(r) = "none"
           /\ IsUpload(r) =>
                 /\ rows[r].status \in {"pending", "failed"} => TicketState(r) = "waiting"
                 /\ rows[r].status = "in_progress" => TicketState(r) = "taken"
                 /\ rows[r].status = "done" => TicketState(r) = "finished"
                 /\ rows[r].status = "dead" => TicketState(r) = "given_up"
<1>1. rows[r].job \in Jobs /\ None \notin Doc
  BY DEF RowType
<1>2. IsUpload(r) <=> rows[r].job.doc \in Doc
  BY <1>1 DEF IsUpload, Jobs
<1> QED BY <1>2 DEF IsUpload, DocOf, TicketState, QueueState

\* A row that is not changed stands for the same.
LEMMA SameRow ==
    ASSUME NEW r, r \in DOMAIN rows <=> r \in DOMAIN rows', rows'[r] = rows[r]
    PROVE  DocOf(r)' = DocOf(r) /\ TicketState(r)' = TicketState(r)
BY DEF IsUpload, DocOf, TicketState, QueueState

\* A new row is a ticket, if it uploads a document.
LEMMA AppendRefines ==
    ASSUME RowsOK, RowsOK', Delivered' = Delivered, NEW job \in Jobs, Append1(job)
    PROVE  [Queue!Next]_(Queue!vars)
<1>1. /\ DOMAIN rows = 1 .. Len(rows) /\ Len(rows) \in Nat /\ Len(rows) < MaxRow
      /\ rows \in Seq(RowType) /\ rows' = Append(rows, Row(job))
  BY RowsAre DEF Append1, RowsOK
<1>2. PICK n \in Rows : n = Len(rows) + 1
  BY <1>1 DEF Rows
<1>3. rows'[n] = Row(job) /\ DOMAIN rows' = 1 .. n /\ \A q \in 1 .. Len(rows) : rows'[q] = rows[q]
  <2>1. Row(job) \in RowType
    BY DEF Row, RowType, Statuses
  <2> HIDE DEF Row
  <2>2. /\ rows' \in Seq(RowType) /\ Len(rows') = n /\ rows'[n] = Row(job)
        /\ \A q \in 1 .. Len(rows) : rows'[q] = rows[q]
    BY <1>1, <1>2, <2>1, AppendProperties
  <2> QED BY <1>2, <2>2, LenProperties
<1>4. n \in Rows /\ n \notin DOMAIN rows /\ n \in DOMAIN rows' /\ MaxRow \in Nat
  BY <1>1, <1>2, <1>3 DEF Rows
<1>5. ASSUME NEW q \in Rows, q # n PROVE DocOf(q)' = DocOf(q) /\ TicketState(q)' = TicketState(q)
  <2>1. q \in DOMAIN rows <=> q \in DOMAIN rows'
    BY <1>1, <1>2, <1>3, <1>5 DEF Rows
  <2>2. CASE q \in DOMAIN rows
    <3>1. rows'[q] = rows[q]
      BY <1>1, <1>3, <2>2
    <3> QED BY <2>1, <3>1, SameRow
  <2>3. CASE q \notin DOMAIN rows
    BY <2>1, <2>3 DEF DocOf, TicketState, IsUpload
  <2> QED BY <2>2, <2>3
<1>6. DocOf(n) = None /\ TicketState(n) = "none"
  BY <1>4 DEF DocOf, TicketState, IsUpload
<1>7. rows'[n].job = job /\ rows'[n].status = "pending"
  BY <1>3 DEF Row
<1>8. CASE job.kind = "upload"
  <2>1. job.doc \in Doc
    BY <1>8 DEF Jobs
  <2>2. DocOf(n)' = job.doc /\ TicketState(n)' = "waiting"
    BY <1>4, <1>7, <1>8 DEF DocOf, TicketState, IsUpload, QueueState
  <2>3. Keeps(Rows \ {n}) /\ \A q \in Rows \ {n} : DocOf(q)' = DocOf(q)
    BY <1>5 DEF Keeps
  <2> QED BY <1>4, <1>6, <2>1, <2>2, <2>3, Submits
<1>9. CASE job.kind # "upload"
  <2>1. DocOf(n)' = None /\ TicketState(n)' = "none"
    BY <1>7, <1>9 DEF DocOf, TicketState, IsUpload
  <2>2. KeepsDocs /\ Keeps(Rows)
    BY <1>5, <1>6, <2>1 DEF KeepsDocs, Keeps
  <2> QED BY <2>2, Stutters
<1> QED BY <1>8, <1>9

\* A row that changes moves its ticket as the queue does.
LEMMA ChangeRefines ==
    ASSUME RowsOK, RowsOK', Delivered' = Delivered, FilesOK,
           NEW r \in DOMAIN rows, NEW row \in RowType, Becomes(r, row)
    PROVE  [Queue!Next]_(Queue!vars)
<1>1. /\ DOMAIN rows = 1 .. Len(rows) /\ Len(rows) \in Nat /\ rows[r] \in RowType
      /\ MaxRow \in Nat /\ Len(rows) <= MaxRow
  BY RowsAre DEF RowsOK
<1>2. r \in Rows
  BY <1>1 DEF Rows
<1>3. /\ rows'[r] = row /\ DOMAIN rows' = DOMAIN rows
      /\ \A q \in Rows \ {r} : (q \in DOMAIN rows <=> q \in DOMAIN rows') /\ rows'[q] = rows[q]
  BY DEF Becomes
<1>4. \A q \in Rows \ {r} : DocOf(q)' = DocOf(q) /\ TicketState(q)' = TicketState(q)
  BY <1>3, SameRow
<1>5. /\ IsUpload(r)' <=> IsUpload(r)
      /\ DocOf(r)' = DocOf(r)
  BY <1>1, <1>3, States DEF Becomes, IsUpload, DocOf, RowType, Jobs
<1>6. KeepsDocs /\ Keeps(Rows \ {r})
  BY <1>4, <1>5 DEF KeepsDocs, Keeps
<1>7. CASE ~ IsUpload(r)
  <2>1. TicketState(r)' = TicketState(r)
    BY <1>5, <1>7 DEF TicketState
  <2>2. Keeps(Rows)
    BY <1>6, <2>1 DEF Keeps
  <2> QED BY <1>6, <2>2, Stutters
<1>8. CASE IsUpload(r)
  <2>1. rows[r].job \in Jobs /\ rows[r].job.kind = "upload" /\ DocOf(r) = rows[r].job.doc
    BY <1>1, <1>8 DEF IsUpload, DocOf, RowType
  <2>2. /\ rows[r].status \in {"pending", "failed"} => TicketState(r) = "waiting"
        /\ rows[r].status = "in_progress" => TicketState(r) = "taken"
    BY <1>1, <1>8, States
  <2>3. /\ row.status = "failed" => TicketState(r)' = "waiting"
        /\ row.status = "in_progress" => TicketState(r)' = "taken"
        /\ row.status = "done" => TicketState(r)' = "finished"
        /\ row.status = "dead" => TicketState(r)' = "given_up"
    BY <1>3, <1>5, <1>8 DEF TicketState, QueueState
  <2>4. CASE row.status = rows[r].status
    <3>1. TicketState(r)' = TicketState(r)
      BY <1>3, <1>5, <2>4 DEF TicketState
    <3>2. Keeps(Rows)
      BY <1>6, <3>1 DEF Keeps
    <3> QED BY <1>6, <3>2, Stutters
  <2>5. CASE rows[r].status \in {"pending", "failed"} /\ row.status = "in_progress"
    BY <1>2, <1>6, <2>2, <2>3, <2>5, Takes
  <2>6. CASE rows[r].status = "in_progress" /\ row.status \in {"failed", "dead"}
    BY <1>2, <1>6, <2>2, <2>3, <2>6, Returns
  <2>7. CASE rows[r].status = "in_progress" /\ row.status = "done" /\ Filed(rows[r].job)
    <3> DEFINE d == rows[r].job.doc
               f == rows[r].job.folder
    <3>1. d \in Doc /\ f \in Folder /\ files[<<f, NameOf[d]>>] = [content |-> d, registered |-> d]
      BY <2>1, <2>7 DEF Jobs, Filed, Slot
    <3> HIDE DEF d, f
    <3>2. [content |-> d, registered |-> d] # None
      <4>1. [content |-> d, registered |-> d] \in File
        BY <3>1 DEF File
      <4> QED BY <4>1
    <3>3. d \in Delivered
      BY <3>1, <3>2 DEF Delivered, Holds
    <3>4. DocOf(r) \in Delivered
      BY <2>1, <3>3 DEF d
    <3> QED BY <1>2, <1>6, <2>2, <2>3, <2>7, <3>4, Finishes
  <2> QED BY <2>1, <2>4, <2>5, <2>6, <2>7 DEF Becomes, StatusMoves
<1> QED BY <1>7, <1>8

LEMMA StepRefines ==
    ASSUME Typed, Typed', FolderInv, FiledInv, TicketInv, NamesOwn, Next
    PROVE  [Queue!Next]_(Queue!vars)
<1>1. RowsOK /\ RowsOK' /\ FilesOK
  BY DEF Typed
<1>2. files' = files => Delivered' = Delivered
  BY DEF Delivered
<1>3. CASE files' = files /\ \E job \in Jobs : Append1(job)
  BY <1>1, <1>2, <1>3, AppendRefines
<1>4. CASE files' = files /\ \E r \in DOMAIN rows, row \in RowType : Becomes(r, row)
  BY <1>1, <1>2, <1>4, ChangeRefines
<1>5. CASE rows' = rows
  <2>1. KeepsDocs /\ Keeps(Rows)
    BY <1>5, SameRow DEF KeepsDocs, Keeps
  <2>2. CASE Delivered' = Delivered
    BY <2>1, <2>2, Stutters
  <2>3. ASSUME NEW r \in DOMAIN rows, IsUpload(r), rows[r].job.doc \notin Delivered,
               Delivered' = Delivered \cup {rows[r].job.doc}
        PROVE  Queue!Next
    <3>1. r \in Rows /\ rows[r] \in RowType
      BY <1>1, RowsAre DEF RowsOK, Rows
    <3>2. rows[r].job.doc \in Doc /\ DocOf(r) = rows[r].job.doc
      BY <2>3, <3>1, States
    <3> QED BY <2>1, <2>3, <3>1, <3>2, Delivers
  <2> QED BY <2>2, <2>3, DeliveredStep
<1> QED BY <1>3, <1>4, <1>5, TableStep DEF TableMoves

LEMMA TicketInvHolds == NamesOwn => (Spec => []TicketInv)
<1> SUFFICES ASSUME NamesOwn PROVE Spec => []TicketInv
  OBVIOUS
<1>1. Init => TicketInv
  BY DEF Init, TicketInv, Idle
<1>2. ASSUME Typed /\ FolderInv, FiledInv, TicketInv, [Next]_vars PROVE TicketInv'
  <2>1. CASE UNCHANGED vars
    BY <1>2, <2>1 DEF TicketInv, vars
  <2> QED BY <1>2, <2>1, TicketStep
<1> QED BY <1>1, <1>2, TypedHolds, FiledHolds, PTL DEF Spec

(* The uploads of the outbox are a durable at-least-once queue: a row is     *)
(* submitted once, taken only while it waits, put back or given up only by   *)
(* the worker that owns it or by the reclaim, done only when its document is *)
(* filed, never taken back once it is done; and no document that was filed   *)
(* is unfiled. The hypothesis excludes bills whose attachments share a name; *)
(* none is made about the locks.                                             *)
THEOREM UploadsAreDurable == NamesOwn => (Spec => ImplementsDurableQueue)
<1> SUFFICES ASSUME NamesOwn PROVE Spec => ImplementsDurableQueue
  OBVIOUS
<1>1. ASSUME Typed /\ FolderInv, (Typed /\ FolderInv)', FiledInv, TicketInv, [Next]_vars
      PROVE  [Queue!Next]_(Queue!vars)
  <2>1. CASE UNCHANGED vars
    <3>1. rows' = rows /\ files' = files
      BY <2>1 DEF vars
    <3>2. Delivered' = Delivered /\ KeepsDocs /\ Keeps(Rows)
      BY <3>1, SameRow DEF Delivered, KeepsDocs, Keeps
    <3> QED BY <3>2, Stutters
  <2> QED BY <1>1, <2>1, StepRefines
<1> QED BY <1>1, InitRefines, TypedHolds, FiledHolds, TicketInvHolds, PTL
        DEF Spec, ImplementsDurableQueue, Queue!Spec
=============================================================================
