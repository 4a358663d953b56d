--------------------------- MODULE PurchaseRecode ---------------------------
(***************************************************************************)
(* The coding suggestion of one QBO Purchase: an operator (or a completed  *)
(* expense) approves the items of its uncategorised lines, and a drain of  *)
(* the outbox writes them to QBO.  A later completion may repoint lines    *)
(* that this system wrote.  Accountants edit the same purchase in QBO.     *)
(*                                                                         *)
(* The drain is one process: the tick that holds "qbo_outbox_drain".  That *)
(* a claimed row has one live worker is LiveClaim of QboOutbox; debounce   *)
(* and back-off are left to that module too.  A row's id stands for its    *)
(* RequestId.  A sub cost code is identified with the QBO item it maps to. *)
(***************************************************************************)
EXTENDS Integers

CONSTANTS
    Line,          \* lines of the purchase
    Item,          \* QBO items (sub cost codes)
    NoItem,        \* an uncoded local line; no item
    Placeholder,   \* a line on account 58999, "NEED TO CATEGORIZE"
    Elsewhere,     \* a line somebody has put on another account, or deleted
    Confirmer,     \* request threads: the confirm endpoint and expense completion
    MaxRow,        \* bound: outbox rows ever inserted
    MaxRev,        \* bound: recorded confirmations
    RequestIdAlone, \* QBO answers a known request id from memory whatever the request says
    MaxTrouble     \* bound: faults, and interventions by others, in one behaviour

Drain   == "drain"
Nobody  == "nobody"
None    == 0                     \* no row, no token
Row     == 1 .. MaxRow
Content == Item \cup {Placeholder, Elsewhere}

ASSUME ConstantsAssumption ==
    /\ NoItem \notin Content
    /\ {Placeholder, Elsewhere} \cap Item = {}
    /\ Placeholder # Elsewhere
    /\ {Drain, Nobody} \cap Confirmer = {}
    /\ {MaxRow, MaxRev, MaxTrouble} \subseteq Nat
    /\ RequestIdAlone \in BOOLEAN

VARIABLES
    purchase,    \* the purchase in QBO: its lines, its SyncToken, who set a line last
    replies,     \* the updates QBO remembers: request id, SyncToken sent, SyncToken answered
    staging,     \* qbo.Purchase and qbo.PurchaseLine: SyncToken, the lines labelled with
                 \* the placeholder account, the lines that have an item
    local,       \* dbo.ExpenseLineItem: the coding of every line
    sug,         \* the dbo.CodingSuggestion row
    rows,        \* outbox rows of kind recode_purchase_line
    lock,        \* owner of the applock qbo_coding_suggestion:<public id>
    confirm,     \* Confirmer -> the local variables of its call
    drain,       \* the local variables of the tick
    asked,       \* history: the last first write the drain looked up: which revision of
                 \* the suggestion, the lines it was to write and their local coding
    writesOpen,  \* ALLOW_QBO_WRITES and ALLOW_EXPENSE_RECODE_WRITES are on
    troubles     \* how many there have been

qb     == <<purchase, replies>>
mirror == <<staging, local>>
limits == <<writesOpen, troubles>>
vars   == <<purchase, replies, staging, local, sug, rows, lock, confirm, drain, asked,
            writesOpen, troubles>>

Nothing == [l \in {} |-> NoItem]                                   \* the empty function
Coding  == UNION {[S -> Item] : S \in SUBSET Line}                 \* line -> item, partial
Target  == UNION {[S -> [to : Item, from : Item \cup {NoItem}]] : S \in SUBSET Line}

Status  == {"suggested", "flagged", "confirmed", "enqueued", "written", "changed_in_qbo",
            "error", "resolved_externally"}
Pending == {"confirmed", "enqueued"}
Source  == {"none", "endpoint", "submit", "repoint"}

Suggestion == [status : Status, seq : Nat, source : Source, code : Item \cup {NoItem},
               expected : Nat, targets : Target, wToken : Nat, wLines : Coding]

Image == [lines : [Line -> Content], token : Nat]

NoImage == [lines |-> [l \in Line |-> Placeholder], token |-> None]

\* A suggestion nothing has been approved for.
Unapproved == [status |-> "suggested", seq |-> 0, source |-> "none", code |-> NoItem,
               expected |-> None, targets |-> Nothing, wToken |-> None, wLines |-> Nothing]

IdleConfirm == [pc |-> "idle", op |-> "none", code |-> NoItem, seq |-> 0, token |-> None,
                lines |-> Nothing, targets |-> Nothing]

IdleDrain == [pc |-> "idle", row |-> None, seen |-> Unapproved, specs |-> Nothing, got |-> NoImage,
              verdict |-> "none", token |-> None, lines |-> Nothing, result |-> "done"]

ConfirmPc == {"idle", "submit", "compute", "record", "find", "insert", "mark"}
DrainPc   == {"idle", "lock", "read", "get", "post", "mark", "unlock", "settle"}

TypeOK ==
    /\ purchase \in [lines : [Line -> Content], token : Nat, by : [Line -> {"us", "human"}]]
    /\ replies \subseteq [key : Row, base : Nat, token : Nat]
    /\ staging \in [uncoded : SUBSET Line, itemed : SUBSET Line, token : Nat]
    /\ local \in [Line -> Item \cup {NoItem}]
    /\ sug \in Suggestion
    /\ rows \in [Row -> {"absent", "waiting", "in_progress", "done", "dead_letter"}]
    /\ lock \in Confirmer \cup {Drain, Nobody}
    /\ confirm \in [Confirmer -> [pc : ConfirmPc, op : Source, code : Item \cup {NoItem},
                                  seq : Nat, token : Nat, lines : Coding, targets : Target]]
    /\ drain.pc \in DrainPc
    /\ drain.row \in Row \cup {None}
    /\ drain.seen \in Suggestion
    /\ drain.specs \in Target
    /\ drain.got \in Image
    /\ drain.verdict \in Status \cup {"none"}
    /\ drain.token \in Nat
    /\ drain.lines \in Coding
    /\ drain.result \in {"done", "park", "retry", "dead"}
    /\ asked \in [seq : Nat, coding : UNION {[S -> Item \cup {NoItem}] : S \in SUBSET Line}]
    /\ writesOpen \in BOOLEAN
    /\ troubles \in 0 .. MaxTrouble

Uncoded(lines) == {l \in Line : lines[l] = Placeholder}
Itemed(lines)  == {l \in Line : lines[l] \in Item}

\* A purchase with lines on the placeholder, pulled, with a suggestion and nothing
\* approved.
Init ==
    /\ \E lines \in [Line -> Content] :
          /\ Uncoded(lines) # {}
          /\ purchase = [lines |-> lines, token |-> 1, by |-> [l \in Line |-> "human"]]
          /\ staging = [uncoded |-> Uncoded(lines), itemed |-> Itemed(lines), token |-> 1]
    /\ replies = {}
    /\ local \in [Line -> Item]
    /\ sug = Unapproved
    /\ rows = [r \in Row |-> "absent"]
    /\ lock = Nobody
    /\ confirm = [p \in Confirmer |-> IdleConfirm]
    /\ drain = IdleDrain
    /\ asked = [seq |-> 0, coding |-> Nothing]
    /\ writesOpen = TRUE
    /\ troubles = 0

\* f overridden by g where g is defined: _merge_written_lines.
Merge(f, g) == [x \in DOMAIN f \cup DOMAIN g |-> IF x \in DOMAIN g THEN g[x] ELSE f[x]]

\* Faults, and what others do, all count against one bound.
Trouble == troubles < MaxTrouble /\ troubles' = troubles + 1

Release(owner) == lock' = IF lock = owner THEN Nobody ELSE lock

----------------------------------------------------------------------------
(* Confirming: the endpoint, and a completion that tries a repoint first.  *)
(* confirm() holds the suggestion's lock from its first read to the end of *)
(* enqueue(); a lock that cannot be had means busy, with nothing written.  *)

Set(p, record) == confirm' = [confirm EXCEPT ![p] = record]
Goto(p, label) == confirm' = [confirm EXCEPT ![p].pc = label]

TakeLock(p) == lock = Nobody /\ lock' = p

EndConfirm(p) == Set(p, IdleConfirm) /\ Release(p)

\* POST .../confirm, in whatever status the suggestion is, for a purchase with one
\* uncategorised line: the staging token stands for what the operator has seen.
ConfirmByHand(p, i) ==
    /\ confirm[p].pc = "idle"
    /\ writesOpen
    /\ TakeLock(p)
    /\ \A k, l \in staging.uncoded : k = l
    /\ Set(p, [IdleConfirm EXCEPT !.pc = "record", !.op = "endpoint", !.code = i,
                                  !.token = staging.token])
    /\ UNCHANGED <<qb, mirror, sug, rows, drain, asked, limits>>

\* enqueue_coding_recode_on_submit decides on a status it reads without the lock ...
CheckSubmit(p) ==
    /\ confirm[p].pc = "idle"
    /\ sug.status \notin {"written", "resolved_externally", "enqueued"}
    /\ ~ (sug.status = "confirmed" /\ sug.source = "repoint")
    /\ writesOpen
    /\ \E l \in staging.uncoded :
          /\ local[l] # NoItem
          /\ Set(p, [IdleConfirm EXCEPT !.pc = "submit", !.op = "submit", !.code = local[l]])
    /\ UNCHANGED <<qb, mirror, sug, rows, lock, drain, asked, limits>>

\* ... and confirms afterwards.
ConfirmSubmit(p) ==
    /\ confirm[p].pc = "submit"
    /\ \/ /\ TakeLock(p)
          /\ Set(p, [confirm[p] EXCEPT !.pc = "record", !.token = staging.token])
       \/ lock # Nobody /\ EndConfirm(p)
    /\ UNCHANGED <<qb, mirror, sug, rows, drain, asked, limits>>

PendingRepoint == sug.status \in Pending /\ sug.source = "repoint"

\* A completion probes for a repoint: it reads the suggestion first, under the lock, ...
Probe(p) ==
    /\ confirm[p].pc = "idle"
    /\ sug.status = "written" \/ PendingRepoint
    /\ TakeLock(p)
    /\ Set(p, [IdleConfirm EXCEPT !.pc = "compute", !.op = "repoint", !.seq = sug.seq,
                                  !.token = sug.wToken, !.lines = sug.wLines])
    /\ UNCHANGED <<qb, mirror, sug, rows, drain, asked, limits>>

\* ... and the local lines afterwards: those whose item is not the written one any more.
Targets(written) == LET diverged == {l \in DOMAIN written : local[l] # written[l]} IN
                    [l \in diverged |-> [to |-> local[l], from |-> written[l]]]

\* Targets are good only for the written record they were computed from.
Stale(p, targets) ==
    \/ sug.wToken = None \/ sug.wToken # confirm[p].token
    \/ \E l \in DOMAIN targets : l \notin DOMAIN sug.wLines \/ targets[l].from # sug.wLines[l]

\* confirm(repoint=True): a new repoint of a written suggestion, a new revision of a
\* pending one, or the recovery of one that was recorded and never enqueued.  A line
\* that cannot be judged, a closed gate, a suggestion that has moved on: nothing.
ComputeRepoint(p) ==
    LET targets   == Targets(confirm[p].lines)
        replacing == PendingRepoint /\ targets # sug.targets
        valid     == /\ \A l \in DOMAIN confirm[p].lines : local[l] # NoItem
                     /\ writesOpen
                     /\ sug.seq = confirm[p].seq
                     /\ ~ Stale(p, targets)
        approve   == replacing \/ (sug.status = "written" /\ targets # Nothing)
        recover   == PendingRepoint /\ ~ replacing /\ sug.status = "confirmed"
    IN  /\ confirm[p].pc = "compute"
        /\ \/ valid /\ approve /\ UNCHANGED lock
              /\ Set(p, [confirm[p] EXCEPT !.pc = "record", !.targets = targets])
           \/ valid /\ recover /\ UNCHANGED lock /\ Goto(p, "find")
           \/ ~ (valid /\ (approve \/ recover)) /\ EndConfirm(p)
        /\ UNCHANGED <<qb, mirror, sug, rows, drain, asked, limits>>

\* RecordCodingSuggestionConfirmation: a repoint lands only on the revision it was
\* computed from, a first write on anything.
MayRecord(p) ==
    confirm[p].op = "repoint" => /\ sug.seq = confirm[p].seq
                                 /\ sug.status \in Pending \cup {"written"}

Recorded(p, token) ==
    [sug EXCEPT !.status = "confirmed", !.seq = @ + 1, !.source = confirm[p].op,
                !.code = IF confirm[p].op = "repoint" THEN @ ELSE confirm[p].code,
                !.expected = token, !.targets = confirm[p].targets]

RecordConfirmation(p) ==
    /\ confirm[p].pc = "record"
    /\ IF MayRecord(p) /\ sug.seq < MaxRev
       THEN /\ sug' = Recorded(p, confirm[p].token)
            /\ Set(p, [confirm[p] EXCEPT !.pc = "find", !.seq = sug.seq + 1])
            /\ UNCHANGED lock
       ELSE EndConfirm(p) /\ UNCHANGED sug
    /\ UNCHANGED <<qb, mirror, rows, drain, asked, limits>>

\* The SyncToken of a first write could not be read: the one on record, of an earlier
\* approval, stays.
RecordWithOldToken(p) ==
    /\ confirm[p].pc = "record"
    /\ confirm[p].op # "repoint"
    /\ sug.seq < MaxRev
    /\ Trouble
    /\ sug' = Recorded(p, sug.expected)
    /\ Set(p, [confirm[p] EXCEPT !.pc = "find", !.seq = sug.seq + 1])
    /\ UNCHANGED <<qb, mirror, rows, lock, drain, asked, writesOpen>>

\* Fault: an approval is coalesced into a row that is being drained already.
CoalesceAlsoClaimed(p) ==
    /\ confirm[p].pc = "find"
    /\ Goto(p, IF \E r \in Row : rows[r] \in {"waiting", "in_progress"}
               THEN "mark" ELSE "insert")
    /\ UNCHANGED <<qb, mirror, sug, rows, lock, drain, asked, limits>>

\* enqueue(): coalesce into a waiting row, ...
FindRow(p) ==
    /\ confirm[p].pc = "find"
    /\ Goto(p, IF \E r \in Row : rows[r] = "waiting" THEN "mark" ELSE "insert")
    /\ UNCHANGED <<qb, mirror, sug, rows, lock, drain, asked, limits>>

\* ... or refuse because of a dead letter (the approval stays recorded), or insert.
InsertRow(p) ==
    /\ confirm[p].pc = "insert"
    /\ IF \E r \in Row : rows[r] = "dead_letter"
       THEN EndConfirm(p) /\ UNCHANGED rows
       ELSE \E r \in Row :
            /\ \A s \in Row : rows[s] = "absent" <=> s >= r
            /\ rows' = [rows EXCEPT ![r] = "waiting"]
            /\ Goto(p, "mark")
            /\ UNCHANGED lock
    /\ UNCHANGED <<qb, mirror, sug, drain, asked, limits>>

\* MarkCodingSuggestionEnqueued, fenced on the revision.
MarkEnqueued(p) ==
    /\ confirm[p].pc = "mark"
    /\ sug' = IF sug.seq = confirm[p].seq /\ sug.status \in Pending
              THEN [sug EXCEPT !.status = "enqueued"] ELSE sug
    /\ EndConfirm(p)
    /\ UNCHANGED <<qb, mirror, rows, drain, asked, limits>>

\* The request dies, and its session with it.
ConfirmCrash(p) ==
    /\ confirm[p].pc # "idle"
    /\ Trouble
    /\ EndConfirm(p)
    /\ UNCHANGED <<qb, mirror, sug, rows, drain, asked, writesOpen>>

----------------------------------------------------------------------------
(* Draining: _handle_recode_purchase_line.                                 *)

DrainGoto(label) == drain' = [drain EXCEPT !.pc = label]

\* The handler is over: how the row is to be marked, once the lock is released.
Finish(result) ==
    drain' = [IdleDrain EXCEPT !.pc = "unlock", !.row = drain.row, !.result = result]

\* The suggestion is to be marked with a status; a written one with what was written
\* and, unless it stays, the token of that write.
Conclude(seen, status, token, lines) ==
    drain' = [IdleDrain EXCEPT !.pc = "mark", !.row = drain.row, !.seen = seen,
                               !.verdict = status, !.token = token, !.lines = lines]

ClaimRow(r) ==
    /\ drain.pc = "idle"
    /\ rows[r] = "waiting"
    /\ rows' = [rows EXCEPT ![r] = "in_progress"]
    /\ drain' = [IdleDrain EXCEPT !.pc = "lock", !.row = r]
    /\ UNCHANGED <<qb, mirror, sug, lock, confirm, asked, limits>>

\* The kill switch is honoured before any read or mark: the row is parked.
DrainParks ==
    /\ drain.pc = "lock"
    /\ ~ writesOpen
    /\ drain' = [drain EXCEPT !.pc = "settle", !.result = "park"]
    /\ UNCHANGED <<qb, mirror, sug, rows, lock, confirm, asked, limits>>

\* CodingSuggestionBusyError: the lock was held for the 5 s the drain waits for it.
DrainFindsLocked ==
    /\ drain.pc = "lock"
    /\ lock # Nobody
    /\ Trouble
    /\ drain' = [drain EXCEPT !.pc = "settle", !.result = "park"]
    /\ UNCHANGED <<qb, mirror, sug, rows, lock, confirm, asked, writesOpen>>

DrainLocks ==
    /\ drain.pc = "lock"
    /\ writesOpen
    /\ lock = Nobody
    /\ lock' = Drain
    /\ DrainGoto("read")
    /\ UNCHANGED <<qb, mirror, sug, rows, confirm, asked, limits>>

Resolved(specs) == drain' = [drain EXCEPT !.pc = "get", !.seen = sug, !.specs = specs]

\* Fault: a line of the submission that is not coded is written all the same.
ResolveUncodedToo ==
    LET single == \A k, l \in staging.uncoded : k = l
        code   == [l \in staging.uncoded |-> IF single THEN sug.code ELSE local[l]]
    IN  CASE staging.uncoded = {} -> Conclude(sug, "error", None, Nothing)
          [] ~ single /\ sug.source # "submit" -> Conclude(sug, "changed_in_qbo", None, Nothing)
          [] OTHER -> Resolved([l \in staging.uncoded |-> [to |-> code[l], from |-> NoItem]])

\* A first write: the confirmed code for a single line, the local codes for a
\* purchase that was submitted with several.
ResolveFirstWrite ==
    LET single == \A k, l \in staging.uncoded : k = l
        code   == [l \in staging.uncoded |-> IF single THEN sug.code ELSE local[l]]
    IN  CASE staging.uncoded = {} -> Conclude(sug, "error", None, Nothing)
          [] ~ single /\ sug.source # "submit" -> Conclude(sug, "changed_in_qbo", None, Nothing)
          [] \E l \in staging.uncoded : code[l] = NoItem -> Conclude(sug, "error", None, Nothing)
          [] OTHER -> Resolved([l \in staging.uncoded |-> [to |-> code[l], from |-> NoItem]])

\* A repoint writes what was approved, if those lines are still on our record; a
\* target that already is the written item is dropped.
ResolveRepoint ==
    LET ours(l) == l \in DOMAIN sug.wLines /\ sug.wLines[l] = sug.targets[l].from
        differ  == {l \in DOMAIN sug.targets : sug.targets[l].to # sug.targets[l].from}
    IN  IF \A l \in DOMAIN sug.targets : ours(l)
        THEN Resolved([l \in differ |-> sug.targets[l]])
        ELSE Conclude(sug, "error", None, Nothing)

\* The drain reads the suggestion under its lock and works out what to write.
ReadSuggestion ==
    /\ drain.pc = "read"
    /\ \/ sug.status \notin Pending /\ Finish("done") /\ UNCHANGED asked
       \/ sug.status \in Pending /\ sug.source = "repoint" /\ ResolveRepoint /\ UNCHANGED asked
       \/ /\ sug.status \in Pending /\ sug.source # "repoint"
          /\ ResolveFirstWrite
          /\ asked' = [seq |-> sug.seq, coding |-> [l \in staging.uncoded |-> local[l]]]
    /\ UNCHANGED <<qb, mirror, sug, rows, lock, confirm, limits>>

IsRepoint == drain.seen.source = "repoint"
Specs     == drain.specs

\* Lines of the live purchase that still have to be written, and those of them that
\* are neither on the placeholder nor carry the item we wrote.
ToWrite(image) == {l \in DOMAIN Specs : image.lines[l] # Specs[l].to}
Foreign(image) == {l \in ToWrite(image) : image.lines[l] \notin {Placeholder, Specs[l].from}}

\* Fault: the local coding of the lines is recorded instead of what was sent.
RecordLocally(image) == [l \in {k \in DOMAIN image.lines : local[k] # NoItem} |-> local[l]]

\* The written record: a repoint adds to the one it was fenced on, a first write
\* replaces it.
Record(image) ==
    LET items(S) == [l \in S |-> Specs[l].to] IN
    IF IsRepoint THEN Merge(drain.seen.wLines, items(DOMAIN Specs)) ELSE items(ToWrite(image))

\* recode_purchase_lines and verify_purchase_untouched, from the GET to the decision:
\* a repoint needs an untouched purchase whatever it finds, a first write only if
\* there is something to write.
GetPurchase ==
    LET image == [lines |-> purchase.lines, token |-> purchase.token]
        same  == image.token = IF Specs = Nothing THEN drain.seen.wToken ELSE drain.seen.expected
    IN  /\ drain.pc = "get"
        /\ IF (IsRepoint /\ ~ same) \/ Foreign(image) # {} \/ (ToWrite(image) # {} /\ ~ same)
           THEN Conclude(drain.seen, "changed_in_qbo", None, Nothing)
           ELSE IF ToWrite(image) = {}
           THEN Conclude(drain.seen, "written", None, Record(image))
           ELSE drain' = [drain EXCEPT !.pc = "post", !.got = image]
        /\ UNCHANGED <<qb, mirror, sug, rows, lock, confirm, asked, limits>>

\* A GET, or the store behind any read, fails.
DrainReadFails ==
    /\ drain.pc \in {"read", "get"}
    /\ Trouble
    /\ Finish("retry")
    /\ UNCHANGED <<qb, mirror, sug, rows, lock, confirm, asked, writesOpen>>

\* The answers QBO gives from memory: by the request id alone, or only to the request
\* that was sent with it (a request carries the SyncToken it was built on).
Remembered == {a \in replies : a.key = drain.row /\ (RequestIdAlone \/ a.base = drain.got.token)}

QboUpdates ==
    LET written == ToWrite(drain.got) IN
    /\ Remembered = {}
    /\ drain.got.token = purchase.token
    /\ purchase' = [lines |-> Merge(purchase.lines, [l \in written |-> Specs[l].to]),
                    token |-> purchase.token + 1,
                    by    |-> Merge(purchase.by, [l \in written |-> "us"])]
    /\ replies' = replies \cup
         {[key |-> drain.row, base |-> drain.got.token, token |-> purchase.token + 1]}

\* Fault: a SyncToken that is no longer current is fetched anew and the update resent.
PostOnFreshToken ==
    /\ drain.pc = "post"
    /\ writesOpen
    /\ purchase' = [lines |-> Merge(purchase.lines, [l \in ToWrite(drain.got) |-> Specs[l].to]),
                    token |-> purchase.token + 1,
                    by    |-> Merge(purchase.by, [l \in ToWrite(drain.got) |-> "us"])]
    /\ Conclude(drain.seen, "written", purchase.token + 1, Record(drain.got))
    /\ UNCHANGED <<replies, mirror, sug, rows, lock, confirm, asked, limits>>

PostUpdate ==
    /\ drain.pc = "post"
    /\ writesOpen
    /\ \/ /\ QboUpdates
          /\ Conclude(drain.seen, "written", purchase.token + 1, Record(drain.got))
       \/ /\ \E a \in Remembered : Conclude(drain.seen, "written", a.token, Record(drain.got))
          /\ UNCHANGED qb
       \/ /\ Remembered = {} /\ drain.got.token # purchase.token
          /\ Conclude(drain.seen, "changed_in_qbo", None, Nothing)
          /\ UNCHANGED qb
    /\ UNCHANGED <<mirror, sug, rows, lock, confirm, asked, limits>>

\* QBO updates the purchase and the answer is lost: the client resends, or gives up.
PostAnswerLost ==
    /\ drain.pc = "post"
    /\ Trouble
    /\ writesOpen
    /\ QboUpdates
    /\ UNCHANGED drain \/ Finish("retry")
    /\ UNCHANGED <<mirror, sug, rows, lock, confirm, asked, writesOpen>>

\* The call fails unprocessed, or is rejected for good.
PostFails ==
    /\ drain.pc = "post"
    /\ Trouble
    /\ Finish("retry") \/ Finish("dead")
    /\ UNCHANGED <<qb, mirror, sug, rows, lock, confirm, asked, writesOpen>>

\* The write gate refuses the call.
PostRefused ==
    /\ drain.pc = "post"
    /\ ~ writesOpen
    /\ Finish("park")
    /\ UNCHANGED <<qb, mirror, sug, rows, lock, confirm, asked, limits>>

\* Fault: a terminal mark lands on whatever revision the suggestion is at.
MarkAnyRevision ==
    /\ drain.pc = "mark"
    /\ sug' = [sug EXCEPT !.status = drain.verdict,
                          !.wToken = IF drain.token # None THEN drain.token ELSE @,
                          !.wLines = IF drain.lines # Nothing THEN drain.lines ELSE @]
    /\ Finish("done")
    /\ UNCHANGED <<qb, mirror, rows, lock, confirm, asked, limits>>

\* MarkCodingSuggestionWritten / ...ChangedInQbo / ...Error, fenced on the revision
\* the drain read; a mark that finds another one is skipped without a word.
MarkSuggestion ==
    /\ drain.pc = "mark"
    /\ sug' = IF sug.seq = drain.seen.seq /\ sug.status \in Pending
              THEN [sug EXCEPT !.status = drain.verdict,
                               !.wToken = IF drain.token # None THEN drain.token ELSE @,
                               !.wLines = IF drain.lines # Nothing THEN drain.lines ELSE @]
              ELSE sug
    /\ Finish("done")
    /\ UNCHANGED <<qb, mirror, rows, lock, confirm, asked, limits>>

MarkSuggestionFails ==
    /\ drain.pc = "mark"
    /\ Trouble
    /\ Finish("retry")
    /\ UNCHANGED <<qb, mirror, sug, rows, lock, confirm, asked, writesOpen>>

\* Fault: a handler that raises leaves its lock behind.
RaisingKeepsLock ==
    /\ drain.pc = "unlock"
    /\ IF drain.result = "done" THEN Release(Drain) ELSE UNCHANGED lock
    /\ DrainGoto("settle")
    /\ UNCHANGED <<qb, mirror, sug, rows, confirm, asked, limits>>

DrainUnlocks ==
    /\ drain.pc = "unlock"
    /\ Release(Drain)
    /\ DrainGoto("settle")
    /\ UNCHANGED <<qb, mirror, sug, rows, confirm, asked, limits>>

\* mark_done, mark_failed, mark_dead_letter; whether a retry is the last attempt is
\* QboOutbox's affair.
SettleRow ==
    /\ drain.pc = "settle"
    /\ \E status \in CASE drain.result = "done"  -> {"done"}
                       [] drain.result = "park"  -> {"waiting"}
                       [] drain.result = "retry" -> {"waiting", "dead_letter"}
                       [] OTHER                  -> {"dead_letter"} :
          rows' = [rows EXCEPT ![drain.row] = status]
    /\ drain' = IdleDrain
    /\ UNCHANGED <<qb, mirror, sug, lock, confirm, asked, limits>>

\* The worker dies: its row stays in_progress and the next tick reclaims it.
DrainCrash ==
    /\ drain.pc # "idle"
    /\ Trouble
    /\ drain' = IdleDrain
    /\ Release(Drain)
    /\ UNCHANGED <<qb, mirror, sug, rows, confirm, asked, writesOpen>>

ReclaimRow(r) ==
    /\ drain.pc = "idle"
    /\ rows[r] = "in_progress"
    /\ \E status \in {"waiting", "dead_letter"} : rows' = [rows EXCEPT ![r] = status]
    /\ UNCHANGED <<qb, mirror, sug, lock, confirm, drain, asked, limits>>

----------------------------------------------------------------------------
(* Everybody else.                                                         *)

\* The session of the lock's owner is closed while the owner goes on.
LockDrops ==
    /\ Trouble
    /\ lock # Nobody
    /\ lock' = Nobody
    /\ UNCHANGED <<qb, mirror, sug, rows, confirm, drain, asked, writesOpen>>

\* Somebody sets a line in QBO, or saves the purchase as it is.
HumanEdit(l, c) ==
    /\ Trouble
    /\ purchase' = [purchase EXCEPT !.lines[l] = c, !.token = @ + 1, !.by[l] = "human"]
    /\ UNCHANGED <<replies, mirror, sug, rows, lock, confirm, drain, asked, writesOpen>>

\* The purchase pull brings the staging tables up to date, but a column that has no
\* value in QBO keeps the one it had: a line that was given an item is still labelled
\* with the account it has left.
PullPurchase ==
    /\ staging' = [uncoded |-> Uncoded(purchase.lines)
                                 \cup (staging.uncoded \cap Itemed(purchase.lines)),
                   itemed  |-> staging.itemed \cup Itemed(purchase.lines),
                   token   |-> purchase.token]
    /\ UNCHANGED <<qb, local, sug, rows, lock, confirm, drain, asked, limits>>

\* A user, or the projection of a pull, changes the coding of a local line.
CodeLocally(l, i) ==
    /\ Trouble
    /\ local[l] # i
    /\ local' = [local EXCEPT ![l] = i]
    /\ UNCHANGED <<qb, staging, sug, rows, lock, confirm, drain, asked, writesOpen>>

\* RecordCodingSuggestionFlag takes no lock and looks at no status.
FlagSuggestion ==
    /\ Trouble
    /\ sug' = [sug EXCEPT !.status = "flagged"]
    /\ UNCHANGED <<qb, mirror, rows, lock, confirm, drain, asked, writesOpen>>

\* reconcile_externally_resolved closes what was categorised in QBO: no line has the
\* label and not an item as well.
ResolveExternally ==
    /\ sug.status \in {"suggested", "flagged", "changed_in_qbo"}
    /\ staging.uncoded \subseteq staging.itemed
    /\ sug' = [sug EXCEPT !.status = "resolved_externally"]
    /\ UNCHANGED <<qb, mirror, rows, lock, confirm, drain, asked, limits>>

BlockWrites ==
    /\ Trouble
    /\ writesOpen
    /\ writesOpen' = FALSE
    /\ UNCHANGED <<qb, mirror, sug, rows, lock, confirm, drain, asked>>

UnblockWrites ==
    /\ ~ writesOpen
    /\ writesOpen' = TRUE
    /\ UNCHANGED <<qb, mirror, sug, rows, lock, confirm, drain, asked, troubles>>

----------------------------------------------------------------------------

StartConfirm(p) ==
    CheckSubmit(p) \/ Probe(p) \/ \E i \in Item : ConfirmByHand(p, i)

GoOnConfirming(p) ==
    \/ ConfirmSubmit(p) \/ ComputeRepoint(p) \/ RecordConfirmation(p)
    \/ FindRow(p) \/ InsertRow(p) \/ MarkEnqueued(p)

ClaimOrReclaim == \E r \in Row : ClaimRow(r) \/ ReclaimRow(r)

Handle ==
    \/ ReadSuggestion \/ GetPurchase \/ DrainReadFails
    \/ PostUpdate \/ PostAnswerLost \/ PostFails \/ PostRefused
    \/ MarkSuggestion \/ MarkSuggestionFails \/ DrainUnlocks \/ SettleRow

Others ==
    \/ LockDrops \/ PullPurchase \/ FlagSuggestion \/ ResolveExternally
    \/ BlockWrites \/ UnblockWrites
    \/ \E l \in Line : \/ \E c \in Content : HumanEdit(l, c)
                       \/ \E i \in Item \cup {NoItem} : CodeLocally(l, i)

Next ==
    \/ \E p \in Confirmer : StartConfirm(p) \/ GoOnConfirming(p)
                            \/ RecordWithOldToken(p) \/ ConfirmCrash(p)
    \/ ClaimOrReclaim \/ DrainLocks \/ DrainParks \/ DrainFindsLocked \/ Handle \/ DrainCrash
    \/ Others

Spec == Init /\ [][Next]_vars

----------------------------------------------------------------------------

\* While QBO still has the SyncToken of our last write, our record of it is true.
RecordIsTrue ==
    sug.wToken = purchase.token =>
        \A l \in DOMAIN sug.wLines : purchase.lines[l] = sug.wLines[l]

\* A suggestion that reports its current revision as written, on a purchase nobody
\* has touched since, has the approved items in QBO, and not those of an earlier
\* revision: the targets of a repoint; the confirmed item of a purchase with one
\* uncategorised line; the local coding, as the drain of this very revision found it,
\* of the lines of a purchase that was submitted with several.
ApprovalIsWritten ==
    LET single == \A k, l \in DOMAIN asked.coding : k = l IN
    (sug.status = "written" /\ sug.wToken = purchase.token) =>
        CASE sug.source = "repoint" ->
               \A l \in DOMAIN sug.targets : purchase.lines[l] = sug.targets[l].to
          [] OTHER ->
               /\ asked.seq = sug.seq
               /\ \A l \in DOMAIN asked.coding :
                     purchase.lines[l] = IF single THEN sug.code ELSE asked.coding[l]

\* What somebody else set on a line in QBO is never overwritten by a drain.
HumanWorkSurvives ==
    [][drain' # drain => \A l \in Line :
          purchase.by[l] = "human" /\ purchase.lines[l] # Placeholder
             => purchase'.lines[l] = purchase.lines[l]]_vars

\* The drain has read the suggestion and its verdict will be about what it read.
Served(r) ==
    \/ drain.pc \in {"lock", "read"}
    \/ drain.pc \in {"get", "post", "mark"} /\ drain.seen.seq = sug.seq
    \/ drain.result # "done"

\* An approval that was reported as enqueued is on its way: some row will still be
\* drained for it, or an operator will find it among the dead letters.
EnqueuedIsServed ==
    sug.status = "enqueued" =>
        \E r \in Row : \/ rows[r] \in {"waiting", "dead_letter"}
                       \/ rows[r] = "in_progress" /\ (drain.row = r => Served(r))

----------------------------------------------------------------------------
(* Liveness.  Requests and ticks go on; a drain that waits for the lock, 5 s  *)
(* for calls that are short, gets it sooner or later; blocked writes are      *)
(* unblocked.                                                                 *)

Fairness ==
    /\ \A p \in Confirmer : WF_vars(GoOnConfirming(p))
    /\ WF_vars(ClaimOrReclaim)
    /\ SF_vars(DrainLocks)
    /\ WF_vars(DrainParks)
    /\ WF_vars(Handle)
    /\ WF_vars(UnblockWrites)

FairSpec == Spec /\ Fairness

\* An approval that was enqueued gets its verdict, or a person has to look at it.
ApprovalSettles ==
    sug.status = "enqueued" ~> \/ sug.status # "enqueued"
                               \/ \E r \in Row : rows[r] = "dead_letter"
=============================================================================
