------------------------ MODULE PurchaseRecodeProofs ------------------------
(***************************************************************************)
(* Proofs about PurchaseRecode, for any lines, items and calls and any     *)
(* bounds, in three parts: the types; the rows that serve an approval      *)
(* (RowInv); what was written and what is recorded of it (RecordInv).  The *)
(* third part supposes that QBO tells a request by all it says, and not by *)
(* its id alone (~ RequestIdAlone): without that its theorems are false.   *)
(***************************************************************************)
EXTENDS PurchaseRecode, TLAPS

USE ConstantsAssumption DEF Drain, Nobody, None

Results == {"done", "park", "retry", "dead"}

PurchaseOK == purchase \in [lines : [Line -> Content], token : Nat, by : [Line -> {"us", "human"}]]
RepliesOK  == replies \subseteq [key : Row, base : Nat, token : Nat]
StagingOK  == staging \in [uncoded : SUBSET Line, itemed : SUBSET Line, token : Nat]
LocalOK    == local \in [Line -> Item \cup {NoItem}]
RowsOK     == rows \in [Row -> {"absent", "waiting", "in_progress", "done", "dead_letter"}]
LockOK     == lock \in Confirmer \cup {Drain, Nobody}
Locals     == [pc : ConfirmPc, op : Source, code : Item \cup {NoItem}, seq : Nat, token : Nat,
               lines : Coding, targets : Target]
ConfirmOK  == confirm \in [Confirmer -> Locals]
AskedOK    == asked \in [seq : Nat, coding : UNION {[S -> Item \cup {NoItem}] : S \in SUBSET Line}]
LimitsOK   == writesOpen \in BOOLEAN /\ troubles \in 0 .. MaxTrouble
DrainOK    == drain \in [pc : DrainPc, row : Row \cup {None}, seen : Suggestion, specs : Target,
                         got : Image, verdict : Status \cup {"none"}, token : Nat,
                         lines : Coding, result : Results]
Verdict    == {"written", "changed_in_qbo", "error"}
BusyOK     == /\ drain.pc # "idle" => drain.row \in Row
              /\ drain.pc = "mark" => drain.verdict \in Verdict
              /\ drain.pc \notin {"unlock", "settle"} => drain.result = "done"

\* The conjuncts of TypeOK; a tick that is neither giving the lock back nor settling has
\* not failed.
Typed == /\ PurchaseOK /\ RepliesOK /\ StagingOK /\ LocalOK /\ sug \in Suggestion /\ RowsOK
         /\ LockOK /\ ConfirmOK /\ DrainOK /\ BusyOK /\ AskedOK /\ LimitsOK

\* The steps of calls, faults included.
Call(p) == StartConfirm(p) \/ GoOnConfirming(p) \/ RecordWithOldToken(p) \/ ConfirmCrash(p)

\* Typed is the type invariant of the model, with the tick's record as one set.
LEMMA TypedIsTypeOK == Typed => TypeOK
BY DEF Typed, TypeOK, PurchaseOK, RepliesOK, StagingOK, LocalOK, RowsOK, LockOK, Locals, ConfirmOK,
       LimitsOK, DrainOK, AskedOK, Results

\* A function from some lines to items is a Coding ...
LEMMA CodingIntro ==
    ASSUME NEW S \in SUBSET Line, NEW f \in [S -> Item]
    PROVE  f \in Coding
BY DEF Coding

\* ... and a Coding is nothing else.
LEMMA CodingElim ==
    ASSUME NEW f \in Coding
    PROVE  /\ DOMAIN f \subseteq Line
           /\ f = [l \in DOMAIN f |-> f[l]]
           /\ \A l \in DOMAIN f : f[l] \in Item
<1>1. PICK S \in SUBSET Line : f \in [S -> Item]
  BY DEF Coding
<1> QED BY <1>1

\* A function from some lines to pairs of items is a Target ...
LEMMA TargetIntro ==
    ASSUME NEW S \in SUBSET Line, NEW f \in [S -> [to : Item, from : Item \cup {NoItem}]]
    PROVE  f \in Target
BY DEF Target

\* ... and a Target is nothing else.
LEMMA TargetElim ==
    ASSUME NEW f \in Target
    PROVE  /\ DOMAIN f \subseteq Line
           /\ f = [l \in DOMAIN f |-> f[l]]
           /\ \A l \in DOMAIN f : f[l].to \in Item /\ f[l].from \in Item \cup {NoItem}
<1>1. PICK S \in SUBSET Line : f \in [S -> [to : Item, from : Item \cup {NoItem}]]
  BY DEF Target
<1> QED BY <1>1

\* The empty function is a Coding, and a Target.
LEMMA NothingTyped == Nothing \in Coding /\ Nothing \in Target /\ DOMAIN Nothing = {}
<1>1. Nothing \in [{} -> Item] /\ Nothing \in [{} -> [to : Item, from : Item \cup {NoItem}]]
  BY DEF Nothing
<1> QED BY <1>1, CodingIntro, TargetIntro DEF Nothing

\* Merging two codings gives a coding.
LEMMA MergeCoding ==
    ASSUME NEW f \in Coding, NEW g \in Coding
    PROVE  Merge(f, g) \in Coding
<1>1. DOMAIN f \cup DOMAIN g \in SUBSET Line
  BY CodingElim
<1>2. Merge(f, g) \in [DOMAIN f \cup DOMAIN g -> Item]
  BY CodingElim DEF Merge
<1> QED BY <1>1, <1>2, CodingIntro

\* The idle tick and the idle call are of their types.
LEMMA IdleTyped ==
    /\ IdleConfirm \in Locals
    /\ Unapproved \in Suggestion /\ NoImage \in Image
    /\ IdleDrain \in [pc : DrainPc, row : Row \cup {None}, seen : Suggestion, specs : Target,
                      got : Image, verdict : Status \cup {"none"}, token : Nat,
                      lines : Coding, result : Results]
<1>1. IdleConfirm \in Locals
  BY NothingTyped DEF IdleConfirm, Locals, ConfirmPc, Source
<1>2. Unapproved \in Suggestion
  BY NothingTyped DEF Unapproved, Suggestion, Status, Source
<1>3. NoImage \in Image
  BY DEF NoImage, Image, Content
<1> QED BY <1>1, <1>2, <1>3, NothingTyped DEF IdleDrain, DrainPc, Results

----------------------------------------------------------------------------

\* A call may be given any record of the type, ...
LEMMA SetTyped ==
    ASSUME ConfirmOK, NEW p \in Confirmer, NEW r \in Locals, Set(p, r)
    PROVE  ConfirmOK'
BY DEF Set, ConfirmOK

\* ... may end, ...
LEMMA EndTyped ==
    ASSUME ConfirmOK, NEW p \in Confirmer, EndConfirm(p)
    PROVE  ConfirmOK'
BY SetTyped, IdleTyped DEF EndConfirm

\* ... and may go on to any of its steps.
LEMMA GotoTyped ==
    ASSUME ConfirmOK, NEW p \in Confirmer, NEW label \in ConfirmPc, Goto(p, label)
    PROVE  ConfirmOK'
<1>1. [confirm[p] EXCEPT !.pc = label] \in Locals
  BY DEF ConfirmOK, Locals
<1>2. confirm' = [confirm EXCEPT ![p] = [confirm[p] EXCEPT !.pc = label]]
  BY DEF Goto, ConfirmOK
<1> QED BY <1>1, <1>2 DEF ConfirmOK

\* The targets of a repoint have the items that diverged, both coded.
LEMMA TargetsTyped ==
    ASSUME LocalOK, NEW written \in Coding, \A l \in DOMAIN written : local[l] # NoItem
    PROVE  Targets(written) \in Target
<1> DEFINE D == {l \in DOMAIN written : local[l] # written[l]}
<1>1. D \in SUBSET Line /\ \A l \in D : local[l] \in Item /\ written[l] \in Item
  BY CodingElim DEF LocalOK
<1>2. Targets(written) \in [D -> [to : Item, from : Item \cup {NoItem}]]
  BY <1>1 DEF Targets
<1> QED BY <1>1, <1>2, TargetIntro

\* The steps of calls keep the types of their local variables.
LEMMA ConfirmTyped ==
    ASSUME Typed, NEW p \in Confirmer, Call(p)
    PROVE  ConfirmOK'
<1>a. /\ ConfirmOK /\ LocalOK /\ StagingOK /\ LockOK
      /\ confirm[p] \in Locals /\ sug.seq + 1 \in Nat /\ sug.seq \in Nat
      /\ sug.wToken \in Nat /\ sug.wLines \in Coding
  BY DEF Typed, ConfirmOK, Suggestion
<1>0. {"idle", "submit", "compute", "record", "find", "insert", "mark"} \subseteq ConfirmPc
  BY DEF ConfirmPc
<1>1. ASSUME NEW i \in Item, ConfirmByHand(p, i) PROVE ConfirmOK'
  <2>1. [IdleConfirm EXCEPT !.pc = "record", !.op = "endpoint", !.code = i,
                            !.token = staging.token] \in Locals
    BY <1>a, IdleTyped DEF Locals, Source, StagingOK, ConfirmPc
  <2> QED BY <1>1, <1>a, <2>1, SetTyped DEF ConfirmByHand
<1>2. CASE CheckSubmit(p)
  <2>1. PICK l \in staging.uncoded :
          /\ local[l] # NoItem
          /\ Set(p, [IdleConfirm EXCEPT !.pc = "submit", !.op = "submit", !.code = local[l]])
    BY <1>2 DEF CheckSubmit
  <2>2. local[l] \in Item \cup {NoItem}
    BY <1>a DEF StagingOK, LocalOK
  <2>3. [IdleConfirm EXCEPT !.pc = "submit", !.op = "submit", !.code = local[l]] \in Locals
    BY <2>2, IdleTyped DEF Locals, Source, ConfirmPc
  <2> QED BY <1>a, <2>1, <2>3, SetTyped
<1>3. CASE Probe(p)
  <2>1. [IdleConfirm EXCEPT !.pc = "compute", !.op = "repoint", !.seq = sug.seq,
                            !.token = sug.wToken, !.lines = sug.wLines] \in Locals
    BY <1>a, IdleTyped DEF Locals, Source, ConfirmPc
  <2> QED BY <1>3, <1>a, <2>1, SetTyped DEF Probe
<1>4. CASE ConfirmSubmit(p)
  <2>1. [confirm[p] EXCEPT !.pc = "record", !.token = staging.token] \in Locals
    BY <1>a DEF Locals, StagingOK, ConfirmPc
  <2> QED BY <1>4, <1>a, <2>1, SetTyped, EndTyped DEF ConfirmSubmit
<1>5. CASE ComputeRepoint(p)
  <2>1. CASE /\ \A l \in DOMAIN confirm[p].lines : local[l] # NoItem
             /\ Set(p, [confirm[p] EXCEPT !.pc = "record", !.targets = Targets(confirm[p].lines)])
    <3>1. Targets(confirm[p].lines) \in Target
      BY <1>a, <2>1, TargetsTyped DEF Locals
    <3>2. [confirm[p] EXCEPT !.pc = "record", !.targets = Targets(confirm[p].lines)] \in Locals
      BY <1>a, <3>1 DEF Locals, ConfirmPc
    <3> QED BY <1>a, <2>1, <3>2, SetTyped
  <2>2. CASE Goto(p, "find") \/ EndConfirm(p)
    BY <1>a, <1>0, <2>2, GotoTyped, EndTyped
  <2> QED BY <1>5, <2>1, <2>2 DEF ComputeRepoint
<1>6. CASE RecordConfirmation(p) \/ RecordWithOldToken(p)
  <2>1. [confirm[p] EXCEPT !.pc = "find", !.seq = sug.seq + 1] \in Locals
    BY <1>a DEF Locals, ConfirmPc
  <2> QED BY <1>6, <1>a, <2>1, SetTyped, EndTyped DEF RecordConfirmation, RecordWithOldToken
<1>7. CASE FindRow(p)
  <2>1. Goto(p, "mark") \/ Goto(p, "insert")
    BY <1>7 DEF FindRow
  <2> QED BY <1>a, <1>0, <2>1, GotoTyped
<1>8. CASE InsertRow(p)
  <2>1. Goto(p, "mark") \/ EndConfirm(p)
    BY <1>8 DEF InsertRow
  <2> QED BY <1>a, <1>0, <2>1, GotoTyped, EndTyped
<1>9. CASE MarkEnqueued(p) \/ ConfirmCrash(p)
  BY <1>9, <1>a, EndTyped DEF MarkEnqueued, ConfirmCrash
<1> QED
  BY <1>1, <1>2, <1>3, <1>4, <1>5, <1>6, <1>7, <1>8, <1>9 DEF Call, StartConfirm, GoOnConfirming

\* The lock has an owner of its type after every step.
LEMMA LockTyped ==
    ASSUME LockOK, Next
    PROVE  LockOK'
<1>1. \/ lock' = lock \/ Release(Drain) \/ lock' \in {Nobody, Drain}
      \/ \E p \in Confirmer : Release(p) \/ TakeLock(p)
  BY DEF Next, StartConfirm, GoOnConfirming, ConfirmByHand, CheckSubmit, Probe, ConfirmSubmit,
         ComputeRepoint, RecordConfirmation, RecordWithOldToken, FindRow, InsertRow, MarkEnqueued, ConfirmCrash,
         EndConfirm, ClaimOrReclaim, ClaimRow, ReclaimRow, DrainLocks, DrainParks, DrainFindsLocked,
         Handle, ReadSuggestion, GetPurchase, DrainReadFails, PostUpdate, PostAnswerLost, PostFails,
         PostRefused, MarkSuggestion, MarkSuggestionFails, DrainUnlocks, SettleRow, DrainCrash,
         Others, LockDrops, PullPurchase, FlagSuggestion, ResolveExternally, BlockWrites,
         UnblockWrites, HumanEdit, CodeLocally
<1> QED BY <1>1 DEF LockOK, Release, TakeLock

\* The write gate and the count of troubles keep their types.
LEMMA LimitsTyped ==
    ASSUME LimitsOK, Next
    PROVE  LimitsOK'
<1>1. /\ writesOpen' = writesOpen \/ writesOpen' = TRUE \/ writesOpen' = FALSE
      /\ troubles' = troubles \/ Trouble
  BY DEF Next, StartConfirm, GoOnConfirming, ConfirmByHand, CheckSubmit, Probe, ConfirmSubmit,
         ComputeRepoint, RecordConfirmation, RecordWithOldToken, FindRow, InsertRow, MarkEnqueued, ConfirmCrash,
         ClaimOrReclaim, ClaimRow, ReclaimRow, DrainLocks, DrainParks, DrainFindsLocked,
         Handle, ReadSuggestion, GetPurchase, DrainReadFails, PostUpdate, PostAnswerLost, PostFails,
         PostRefused, MarkSuggestion, MarkSuggestionFails, DrainUnlocks, SettleRow, DrainCrash,
         Others, LockDrops, PullPurchase, FlagSuggestion, ResolveExternally, BlockWrites,
         UnblockWrites, HumanEdit, CodeLocally, limits
<1>2. writesOpen' \in BOOLEAN
  BY <1>1 DEF LimitsOK
<1>3. troubles' \in 0 .. MaxTrouble
  BY <1>1 DEF LimitsOK, Trouble
<1> QED BY <1>2, <1>3 DEF LimitsOK

\* The rows keep their types.
LEMMA RowsTyped ==
    ASSUME RowsOK, Next
    PROVE  RowsOK'
<1> DEFINE S == {"absent", "waiting", "in_progress", "done", "dead_letter"}
<1>1. rows' = rows \/ \E r, s : rows' = [rows EXCEPT ![r] = s] /\ s \in S
  BY DEF Next, StartConfirm, GoOnConfirming, ConfirmByHand, CheckSubmit, Probe, ConfirmSubmit,
         ComputeRepoint, RecordConfirmation, RecordWithOldToken, FindRow, InsertRow, MarkEnqueued, ConfirmCrash,
         ClaimOrReclaim, ClaimRow, ReclaimRow, DrainLocks, DrainParks, DrainFindsLocked,
         Handle, ReadSuggestion, GetPurchase, DrainReadFails, PostUpdate, PostAnswerLost, PostFails,
         PostRefused, MarkSuggestion, MarkSuggestionFails, DrainUnlocks, SettleRow, DrainCrash,
         Others, LockDrops, PullPurchase, FlagSuggestion, ResolveExternally, BlockWrites,
         UnblockWrites, HumanEdit, CodeLocally
<1> QED BY <1>1 DEF RowsOK

\* What a tick may write into drain.
LEMMA DrainTypes ==
    ASSUME DrainOK
    PROVE  /\ \A label \in DrainPc : DrainGoto(label) => DrainOK'
           /\ \A result \in Results : Finish(result) => DrainOK'
           /\ \A seen \in Suggestion, status \in Status, token \in Nat, lines \in Coding :
                 Conclude(seen, status, token, lines) => DrainOK'
<1>1. ASSUME NEW label \in DrainPc, DrainGoto(label) PROVE DrainOK'
  BY <1>1 DEF DrainGoto, DrainOK
<1>2. "unlock" \in DrainPc /\ "mark" \in DrainPc
  BY DEF DrainPc
<1>3. ASSUME NEW result \in Results, Finish(result) PROVE DrainOK'
  BY <1>2, <1>3, IdleTyped DEF Finish, DrainOK
<1>4. ASSUME NEW seen \in Suggestion, NEW status \in Status, NEW token \in Nat, NEW lines \in Coding,
             Conclude(seen, status, token, lines)
      PROVE  DrainOK'
  BY <1>2, <1>4, IdleTyped DEF Conclude, DrainOK
<1> QED BY <1>1, <1>3, <1>4

\* A tick that has resolved the suggestion is of its type.
LEMMA ResolvedType ==
    ASSUME DrainOK, sug \in Suggestion, NEW specs \in Target, Resolved(specs)
    PROVE  DrainOK'
<1>1. "get" \in DrainPc
  BY DEF DrainPc
<1> QED BY <1>1 DEF Resolved, DrainOK

\* What is recorded of an update is a coding, of lines that were specified.
LEMMA RecordType ==
    ASSUME DrainOK, NEW image
    PROVE  Record(image) \in Coding /\ ToWrite(image) \subseteq DOMAIN drain.specs
<1>1. drain.specs \in Target /\ drain.seen \in Suggestion
  BY DEF DrainOK
<1>2. ASSUME NEW S \in SUBSET DOMAIN drain.specs
      PROVE  [l \in S |-> drain.specs[l].to] \in Coding
  <2>1. S \in SUBSET Line /\ \A l \in S : drain.specs[l].to \in Item
    BY <1>1, TargetElim
  <2>2. [l \in S |-> drain.specs[l].to] \in [S -> Item]
    BY <2>1
  <2> QED BY <2>1, <2>2, CodingIntro
<1>3. ToWrite(image) \subseteq DOMAIN drain.specs
  BY DEF ToWrite, Specs
<1>4. drain.seen.wLines \in Coding
  BY <1>1 DEF Suggestion
<1>5. [l \in DOMAIN Specs |-> Specs[l].to] \in Coding /\ [l \in ToWrite(image) |-> Specs[l].to] \in Coding
  BY <1>2, <1>3 DEF Specs
<1> QED BY <1>3, <1>4, <1>5, MergeCoding DEF Record

\* Reading the suggestion leaves the tick in its type, ...
LEMMA ReadTyped ==
    ASSUME Typed, ReadSuggestion
    PROVE  DrainOK'
<1>1. DrainOK /\ sug \in Suggestion /\ LocalOK /\ StagingOK
  BY DEF Typed
<1>2. Nothing \in Coding /\ {"error", "changed_in_qbo"} \subseteq Status /\ "done" \in Results
  BY NothingTyped DEF Status, Results
<1>3. CASE Finish("done")
  BY <1>1, <1>2, <1>3, DrainTypes
<1>4. ASSUME NEW status \in {"error", "changed_in_qbo"}, Conclude(sug, status, None, Nothing)
      PROVE  DrainOK'
  BY <1>1, <1>2, <1>4, DrainTypes
<1>5. CASE ResolveRepoint
  <2> DEFINE D == {l \in DOMAIN sug.targets : sug.targets[l].to # sug.targets[l].from}
  <2>1. sug.targets \in Target
    BY <1>1 DEF Suggestion
  <2>2. D \in SUBSET Line /\ \A l \in D : sug.targets[l] \in [to : Item, from : Item \cup {NoItem}]
    <3>1. PICK S \in SUBSET Line : sug.targets \in [S -> [to : Item, from : Item \cup {NoItem}]]
      BY <2>1 DEF Target
    <3> QED BY <3>1
  <2>3. [l \in D |-> sug.targets[l]] \in [D -> [to : Item, from : Item \cup {NoItem}]]
    BY <2>2
  <2>4. [l \in D |-> sug.targets[l]] \in Target
    BY <2>2, <2>3, TargetIntro
  <2> QED BY <1>1, <1>4, <1>5, <2>4, ResolvedType DEF ResolveRepoint
<1>6. CASE ResolveFirstWrite
  <2> DEFINE single == \A k, l \in staging.uncoded : k = l
             code   == [l \in staging.uncoded |-> IF single THEN sug.code ELSE local[l]]
             specs  == [l \in staging.uncoded |-> [to |-> code[l], from |-> NoItem]]
  <2>1. staging.uncoded \in SUBSET Line /\ sug.code \in Item \cup {NoItem}
    BY <1>1 DEF StagingOK, Suggestion
  <2>2. \A l \in staging.uncoded : local[l] \in Item \cup {NoItem}
    BY <1>1, <2>1 DEF LocalOK
  <2>3. \/ Conclude(sug, "error", None, Nothing) \/ Conclude(sug, "changed_in_qbo", None, Nothing)
        \/ Resolved(specs) /\ \A l \in staging.uncoded : code[l] # NoItem
    BY <1>6 DEF ResolveFirstWrite
  <2>4. CASE Resolved(specs) /\ \A l \in staging.uncoded : code[l] # NoItem
    <3>1. \A l \in staging.uncoded : code[l] \in Item
      BY <2>1, <2>2, <2>4
    <3> HIDE DEF code
    <3>2. specs \in [staging.uncoded -> [to : Item, from : Item \cup {NoItem}]]
      BY <3>1
    <3>3. specs \in Target
      BY <2>1, <3>2, TargetIntro
    <3> QED BY <1>1, <2>4, <3>3, ResolvedType
  <2> QED BY <1>4, <2>3, <2>4
<1> QED BY <1>3, <1>5, <1>6 DEF ReadSuggestion

\* ... so does reading the purchase, ...
LEMMA GetTyped ==
    ASSUME Typed, GetPurchase
    PROVE  DrainOK'
<1> DEFINE image == [lines |-> purchase.lines, token |-> purchase.token]
<1>1. DrainOK /\ drain.seen \in Suggestion /\ image \in Image
  BY DEF Typed, DrainOK, PurchaseOK, Image
<1>2. /\ Nothing \in Coding /\ {"written", "changed_in_qbo"} \subseteq Status
      /\ Record(image) \in Coding /\ "post" \in DrainPc
  BY <1>1, NothingTyped, RecordType DEF Status, DrainPc
<1>3. \/ Conclude(drain.seen, "changed_in_qbo", None, Nothing)
      \/ Conclude(drain.seen, "written", None, Record(image))
      \/ drain' = [drain EXCEPT !.pc = "post", !.got = image]
  BY DEF GetPurchase
<1> HIDE DEF image
<1>4. CASE drain' = [drain EXCEPT !.pc = "post", !.got = image]
  BY <1>1, <1>2, <1>4 DEF DrainOK
<1> QED BY <1>1, <1>2, <1>3, <1>4, DrainTypes

\* ... and the update, which keeps the types of the purchase and of the answers too.
LEMMA PostTyped ==
    ASSUME Typed, PostUpdate \/ PostAnswerLost
    PROVE  DrainOK' /\ PurchaseOK' /\ RepliesOK'
<1>1. /\ DrainOK /\ PurchaseOK /\ RepliesOK /\ drain.seen \in Suggestion /\ drain.specs \in Target
      /\ purchase.token \in Nat /\ purchase.token + 1 \in Nat
      /\ drain.got.token \in Nat /\ drain.row \in Row \cup {None}
  BY DEF Typed, DrainOK, PurchaseOK, Image
<1>2. /\ Nothing \in Coding /\ {"written", "changed_in_qbo"} \subseteq Status
      /\ Record(drain.got) \in Coding /\ "retry" \in Results
  BY <1>1, NothingTyped, RecordType DEF Status, Results
<1>3. DrainOK'
  <2>1. ASSUME NEW a \in Remembered, Conclude(drain.seen, "written", a.token, Record(drain.got))
        PROVE  DrainOK'
    <3>1. a.token \in Nat
      BY <1>1 DEF Remembered, RepliesOK
    <3> QED BY <1>1, <1>2, <2>1, <3>1, DrainTypes
  <2>2. CASE \/ Conclude(drain.seen, "written", purchase.token + 1, Record(drain.got))
             \/ Conclude(drain.seen, "changed_in_qbo", None, Nothing)
             \/ Finish("retry")
    BY <1>1, <1>2, <2>2, DrainTypes
  <2>3. CASE UNCHANGED drain
    BY <1>1, <2>3 DEF DrainOK
  <2> QED BY <2>1, <2>2, <2>3 DEF PostUpdate, PostAnswerLost
<1>4. UNCHANGED qb \/ QboUpdates
  BY DEF PostUpdate, PostAnswerLost
<1>5. ASSUME QboUpdates PROVE PurchaseOK' /\ RepliesOK'
  <2>1. ToWrite(drain.got) \subseteq Line /\ \A l \in ToWrite(drain.got) : Specs[l].to \in Item
    BY <1>1, TargetElim DEF ToWrite, Specs
  <2>2. Merge(purchase.lines, [l \in ToWrite(drain.got) |-> Specs[l].to]) \in [Line -> Content]
    BY <1>1, <2>1 DEF Merge, PurchaseOK, Content
  <2>3. Merge(purchase.by, [l \in ToWrite(drain.got) |-> "us"]) \in [Line -> {"us", "human"}]
    BY <1>1, <2>1 DEF Merge, PurchaseOK
  <2>4. PurchaseOK'
    BY <1>1, <1>5, <2>2, <2>3 DEF QboUpdates, PurchaseOK
  <2>5. drain.row \in Row
    BY DEF Typed, BusyOK, PostUpdate, PostAnswerLost
  <2> QED BY <1>1, <1>5, <2>4, <2>5 DEF QboUpdates, RepliesOK
<1>6. ASSUME UNCHANGED qb PROVE PurchaseOK' /\ RepliesOK'
  BY <1>1, <1>6 DEF qb, PurchaseOK, RepliesOK
<1> QED BY <1>3, <1>4, <1>5, <1>6

\* Every step leaves the tick in its type.
LEMMA DrainTyped ==
    ASSUME Typed, Next
    PROVE  DrainOK'
<1>1. DrainOK /\ drain.seen \in Suggestion
  BY DEF Typed, DrainOK
<1>2. /\ {"done", "park", "retry", "dead"} \subseteq Results
      /\ {"read", "settle", "lock"} \subseteq DrainPc
  BY DEF Results, DrainPc
<1>3. CASE DrainReadFails \/ PostFails \/ PostRefused \/ MarkSuggestion \/ MarkSuggestionFails
  BY <1>1, <1>2, <1>3, DrainTypes
  DEF DrainReadFails, PostFails, PostRefused, MarkSuggestion, MarkSuggestionFails
<1>4. CASE DrainLocks \/ DrainUnlocks
  BY <1>1, <1>2, <1>4, DrainTypes DEF DrainLocks, DrainUnlocks
<1>5. CASE DrainParks \/ DrainFindsLocked
  <2>1. drain' = [drain EXCEPT !.pc = "settle", !.result = "park"]
    BY <1>5 DEF DrainParks, DrainFindsLocked
  <2> QED BY <1>1, <1>2, <2>1 DEF DrainOK
<1>6. CASE SettleRow \/ DrainCrash
  <2>1. drain' = IdleDrain
    BY <1>6 DEF SettleRow, DrainCrash
  <2> QED BY <2>1, IdleTyped DEF DrainOK
<1>7. CASE ClaimOrReclaim
  <2>1. ASSUME NEW r \in Row, ClaimRow(r) PROVE DrainOK'
    <3>1. drain' = [IdleDrain EXCEPT !.pc = "lock", !.row = r]
      BY <2>1 DEF ClaimRow
    <3> QED BY <1>2, <3>1, IdleTyped DEF DrainOK
  <2>2. ASSUME NEW r \in Row, ReclaimRow(r) PROVE DrainOK'
    BY <1>1, <2>2 DEF ReclaimRow, DrainOK
  <2> QED BY <1>7, <2>1, <2>2 DEF ClaimOrReclaim
<1>8. CASE UNCHANGED drain
  BY <1>1, <1>8 DEF DrainOK
<1>9. ASSUME NEW p \in Confirmer, Call(p)
      PROVE  UNCHANGED drain
  BY <1>9 DEF Call, StartConfirm, GoOnConfirming, ConfirmByHand, CheckSubmit, Probe, ConfirmSubmit,
         ComputeRepoint, RecordConfirmation, RecordWithOldToken, FindRow, InsertRow, MarkEnqueued, ConfirmCrash
<1>10. Others => UNCHANGED drain
  BY DEF Others, LockDrops, PullPurchase, FlagSuggestion, ResolveExternally, BlockWrites,
         UnblockWrites, HumanEdit, CodeLocally
<1> QED
  BY <1>3, <1>4, <1>5, <1>6, <1>7, <1>8, <1>9, <1>10, ReadTyped, GetTyped, PostTyped
  DEF Next, Call, Handle

\* A tick at work has a row, and one that marks has a verdict.
LEMMA BusyTyped ==
    ASSUME Typed, Next
    PROVE  BusyOK'
<1>1. DrainOK /\ BusyOK
  BY DEF Typed
<1>2. CASE \/ DrainLocks \/ DrainParks \/ DrainFindsLocked \/ DrainReadFails \/ PostFails
           \/ PostRefused \/ MarkSuggestion \/ MarkSuggestionFails \/ DrainUnlocks \/ PostAnswerLost
           \/ ReadSuggestion \/ GetPurchase \/ PostUpdate
  <2> DEFINE Good == /\ drain'.row = drain.row
                     /\ drain'.pc = "mark" => drain'.verdict \in Verdict
                     /\ drain'.pc \notin {"unlock", "settle"} => drain'.result = "done"
  <2>1. drain.pc # "idle" /\ Good
    <3>1. drain.pc # "idle"
      BY <1>2 DEF DrainLocks, DrainParks, DrainFindsLocked, DrainReadFails, PostFails,
         PostRefused, MarkSuggestion, MarkSuggestionFails, DrainUnlocks, PostAnswerLost,
         ReadSuggestion, GetPurchase, PostUpdate
    <3>2. ASSUME NEW result, Finish(result) PROVE Good
      BY <3>2 DEF Finish, IdleDrain
    <3>3. ASSUME NEW seen, NEW status \in Verdict, NEW token, NEW lines,
                 Conclude(seen, status, token, lines)
          PROVE  Good
      BY <3>3 DEF Conclude, IdleDrain
    <3>4. ASSUME NEW label, label # "mark", DrainGoto(label),
                 drain.pc \notin {"unlock", "settle"} \/ label = "settle"
          PROVE Good
      BY <1>1, <3>4 DEF DrainGoto, DrainOK, BusyOK
    <3>5. ASSUME NEW specs, drain.pc = "read", Resolved(specs) PROVE Good
      BY <1>1, <3>5 DEF Resolved, DrainOK, BusyOK
    <3>0. {"written", "changed_in_qbo", "error"} \subseteq Verdict
      BY DEF Verdict
    <3>6. CASE DrainLocks \/ DrainUnlocks \/ DrainReadFails \/ PostFails \/ PostRefused
               \/ MarkSuggestion \/ MarkSuggestionFails \/ PostAnswerLost
      BY <1>1, <3>2, <3>4, <3>6 DEF DrainLocks, DrainUnlocks, DrainReadFails, PostFails, PostRefused,
         MarkSuggestion, MarkSuggestionFails, PostAnswerLost, BusyOK
    <3>7. CASE DrainParks \/ DrainFindsLocked
      BY <1>1, <3>7 DEF DrainParks, DrainFindsLocked, DrainOK
    <3>8. CASE ReadSuggestion
      BY <3>0, <3>2, <3>3, <3>5, <3>8 DEF ReadSuggestion, ResolveRepoint, ResolveFirstWrite
    <3>9. CASE PostUpdate
      BY <3>0, <3>3, <3>9 DEF PostUpdate
    <3>10. CASE GetPurchase
      <4>1. ASSUME NEW image, drain' = [drain EXCEPT !.pc = "post", !.got = image] PROVE Good
        BY <1>1, <3>10, <4>1 DEF DrainOK, BusyOK, GetPurchase
      <4> QED BY <3>0, <3>3, <3>10, <4>1 DEF GetPurchase
    <3> QED BY <1>2, <3>1, <3>6, <3>7, <3>8, <3>9, <3>10
  <2> QED BY <1>1, <2>1 DEF BusyOK
<1>3. CASE SettleRow \/ DrainCrash
  BY <1>3 DEF SettleRow, DrainCrash, IdleDrain, BusyOK
<1>4. ASSUME NEW r \in Row, ClaimRow(r) PROVE BusyOK'
  BY <1>4 DEF ClaimRow, IdleDrain, BusyOK
<1>5. CASE UNCHANGED drain
  BY <1>1, <1>5 DEF BusyOK
<1>6. ASSUME NEW p \in Confirmer, Call(p)
      PROVE  UNCHANGED drain
  BY <1>6 DEF Call, StartConfirm, GoOnConfirming, ConfirmByHand, CheckSubmit, Probe, ConfirmSubmit,
         ComputeRepoint, RecordConfirmation, RecordWithOldToken, FindRow, InsertRow, MarkEnqueued, ConfirmCrash
<1>7. Others \/ (\E r \in Row : ReclaimRow(r)) => UNCHANGED drain
  BY DEF Others, LockDrops, PullPurchase, FlagSuggestion, ResolveExternally, BlockWrites,
         UnblockWrites, HumanEdit, CodeLocally, ReclaimRow
<1> QED BY <1>2, <1>3, <1>4, <1>5, <1>6, <1>7 DEF Next, Call, Handle, ClaimOrReclaim

\* The suggestion keeps its type.
LEMMA SugTyped ==
    ASSUME Typed, Next
    PROVE  (sug \in Suggestion)'
<1>1. sug \in Suggestion /\ DrainOK /\ ConfirmOK
  BY DEF Typed
<1>2. {"confirmed", "enqueued", "flagged", "resolved_externally"} \subseteq Status
  BY DEF Status
<1>3. ASSUME NEW p \in Confirmer, RecordConfirmation(p) \/ RecordWithOldToken(p)
      PROVE  sug' \in Suggestion
  <2>1. confirm[p] \in Locals
    BY <1>1 DEF ConfirmOK
  <2>2. /\ confirm[p].op \in Source /\ confirm[p].code \in Item \cup {NoItem}
        /\ confirm[p].token \in Nat /\ confirm[p].targets \in Target
        /\ sug.seq + 1 \in Nat /\ sug.code \in Item \cup {NoItem} /\ sug.expected \in Nat
    BY <1>1, <2>1 DEF Suggestion, Locals
  <2>3. ASSUME NEW c \in Item \cup {NoItem}, NEW token \in Nat
        PROVE  [sug EXCEPT !.status = "confirmed", !.seq = @ + 1, !.source = confirm[p].op, !.code = c,
                           !.expected = token, !.targets = confirm[p].targets] \in Suggestion
    BY <1>1, <1>2, <2>2 DEF Suggestion
  <2>4. \A token \in Nat : Recorded(p, token) \in Suggestion
    BY <2>2, <2>3 DEF Recorded
  <2> QED BY <1>1, <1>3, <2>2, <2>4 DEF RecordConfirmation, RecordWithOldToken
<1>4. ASSUME NEW status \in Status, sug' = [sug EXCEPT !.status = status] PROVE sug' \in Suggestion
  BY <1>1, <1>4 DEF Suggestion
<1>5. CASE MarkSuggestion
  <2>1. /\ drain.verdict \in Status \cup {"none"} /\ drain.token \in Nat /\ drain.lines \in Coding
    BY <1>1 DEF DrainOK
  <2>2. drain.verdict \in Status
    BY <1>5 DEF Typed, BusyOK, MarkSuggestion, Verdict, Status
  <2>3. ASSUME NEW token \in Nat, NEW lines \in Coding, NEW status \in Status,
               sug' = [sug EXCEPT !.status = status, !.wToken = token, !.wLines = lines]
        PROVE  sug' \in Suggestion
    BY <1>1, <2>3 DEF Suggestion
  <2>4. sug.wToken \in Nat /\ sug.wLines \in Coding
    BY <1>1 DEF Suggestion
  <2> QED BY <1>1, <1>5, <2>1, <2>2, <2>3, <2>4 DEF MarkSuggestion
<1>6. ASSUME NEW p \in Confirmer, MarkEnqueued(p) PROVE sug' \in Suggestion
  BY <1>1, <1>2, <1>4, <1>6 DEF MarkEnqueued
<1>7. CASE FlagSuggestion \/ ResolveExternally
  BY <1>2, <1>4, <1>7 DEF FlagSuggestion, ResolveExternally
<1>8. \/ \E p \in Confirmer : RecordConfirmation(p) \/ RecordWithOldToken(p) \/ MarkEnqueued(p)
      \/ MarkSuggestion \/ FlagSuggestion \/ ResolveExternally \/ sug' = sug
  BY DEF Next, StartConfirm, GoOnConfirming, ConfirmByHand, CheckSubmit, Probe, ConfirmSubmit,
         ComputeRepoint, FindRow, InsertRow, ConfirmCrash,
         ClaimOrReclaim, ClaimRow, ReclaimRow, DrainLocks, DrainParks, DrainFindsLocked,
         Handle, ReadSuggestion, GetPurchase, DrainReadFails, PostUpdate, PostAnswerLost, PostFails,
         PostRefused, MarkSuggestionFails, DrainUnlocks, SettleRow, DrainCrash,
         Others, LockDrops, PullPurchase, BlockWrites, UnblockWrites, HumanEdit, CodeLocally
<1> QED BY <1>1, <1>3, <1>5, <1>6, <1>7, <1>8

\* The purchase and the remembered answers keep their types.
LEMMA QboTyped ==
    ASSUME Typed, Next
    PROVE  PurchaseOK' /\ RepliesOK'
<1>1. PurchaseOK /\ RepliesOK
  BY DEF Typed
<1>2. CASE PostUpdate \/ PostAnswerLost
  BY <1>2, PostTyped
<1>3. ASSUME NEW l \in Line, NEW c \in Content, HumanEdit(l, c) PROVE PurchaseOK' /\ RepliesOK'
  <2>1. [purchase.lines EXCEPT ![l] = c] \in [Line -> Content]
    BY <1>1 DEF PurchaseOK
  <2>2. [purchase.by EXCEPT ![l] = "human"] \in [Line -> {"us", "human"}]
    BY <1>1 DEF PurchaseOK
  <2>3. purchase' = [lines |-> [purchase.lines EXCEPT ![l] = c], token |-> purchase.token + 1,
                     by    |-> [purchase.by EXCEPT ![l] = "human"]]
    BY <1>1, <1>3 DEF HumanEdit, PurchaseOK
  <2> QED BY <1>1, <1>3, <2>1, <2>2, <2>3 DEF HumanEdit, PurchaseOK, RepliesOK
<1>4. CASE UNCHANGED qb
  BY <1>1, <1>4 DEF qb, PurchaseOK, RepliesOK
<1>5. \/ \E l \in Line : \E c \in Content : HumanEdit(l, c)
      \/ PostUpdate \/ PostAnswerLost \/ UNCHANGED qb
  BY DEF Next, StartConfirm, GoOnConfirming, ConfirmByHand, CheckSubmit, Probe, ConfirmSubmit,
         ComputeRepoint, FindRow, InsertRow, ConfirmCrash, RecordConfirmation, RecordWithOldToken, MarkEnqueued,
         ClaimOrReclaim, ClaimRow, ReclaimRow, DrainLocks, DrainParks, DrainFindsLocked,
         Handle, ReadSuggestion, GetPurchase, DrainReadFails, PostFails, MarkSuggestion,
         PostRefused, MarkSuggestionFails, DrainUnlocks, SettleRow, DrainCrash, FlagSuggestion,
         Others, LockDrops, PullPurchase, BlockWrites, UnblockWrites, ResolveExternally, CodeLocally
<1> QED BY <1>2, <1>3, <1>4, <1>5

\* The staging table and the local lines keep their types.
LEMMA MirrorTyped ==
    ASSUME Typed, Next
    PROVE  StagingOK' /\ LocalOK'
<1>1. StagingOK /\ LocalOK /\ PurchaseOK
  BY DEF Typed
<1>2. CASE PullPurchase
  BY <1>1, <1>2 DEF PullPurchase, StagingOK, LocalOK, PurchaseOK, Uncoded, Itemed
<1>3. ASSUME NEW l \in Line, NEW i \in Item \cup {NoItem}, CodeLocally(l, i)
      PROVE  StagingOK' /\ LocalOK'
  BY <1>1, <1>3 DEF CodeLocally, StagingOK, LocalOK
<1>4. CASE UNCHANGED mirror
  BY <1>1, <1>4 DEF mirror, StagingOK, LocalOK
<1>5. \/ \E l \in Line : \E i \in Item \cup {NoItem} : CodeLocally(l, i)
      \/ PullPurchase \/ UNCHANGED mirror
  BY DEF Next, StartConfirm, GoOnConfirming, ConfirmByHand, CheckSubmit, Probe, ConfirmSubmit,
         ComputeRepoint, FindRow, InsertRow, ConfirmCrash, RecordConfirmation, RecordWithOldToken, MarkEnqueued,
         ClaimOrReclaim, ClaimRow, ReclaimRow, DrainLocks, DrainParks, DrainFindsLocked,
         Handle, ReadSuggestion, GetPurchase, DrainReadFails, PostFails, MarkSuggestion,
         PostRefused, MarkSuggestionFails, DrainUnlocks, SettleRow, DrainCrash, FlagSuggestion,
         Others, LockDrops, BlockWrites, UnblockWrites, ResolveExternally, HumanEdit, PostUpdate,
         PostAnswerLost
<1> QED BY <1>2, <1>3, <1>4, <1>5

\* The local variables of calls keep their types, whoever moves.
LEMMA ConfirmStep ==
    ASSUME Typed, Next
    PROVE  ConfirmOK'
<1>1. \/ \E p \in Confirmer : Call(p)
      \/ confirm' = confirm
  BY DEF Next, Call, ClaimOrReclaim, ClaimRow, ReclaimRow, DrainLocks, DrainParks, DrainFindsLocked,
         Handle, ReadSuggestion, GetPurchase, DrainReadFails, PostFails, MarkSuggestion,
         PostRefused, MarkSuggestionFails, DrainUnlocks, SettleRow, DrainCrash, FlagSuggestion,
         Others, LockDrops, BlockWrites, UnblockWrites, ResolveExternally, HumanEdit, PostUpdate,
         PostAnswerLost, PullPurchase, CodeLocally
<1>2. confirm' = confirm => ConfirmOK'
  BY DEF Typed, ConfirmOK
<1> QED BY <1>1, <1>2, ConfirmTyped

\* So does the memory of the last first write.
LEMMA AskedTyped ==
    ASSUME Typed, Next
    PROVE  AskedOK'
<1>1. AskedOK /\ StagingOK /\ LocalOK /\ sug.seq \in Nat
  BY DEF Typed, Suggestion
<1>2. asked' = asked \/ asked' = [seq |-> sug.seq, coding |-> [l \in staging.uncoded |-> local[l]]]
  BY DEF Next, StartConfirm, GoOnConfirming, ConfirmByHand, CheckSubmit, Probe, ConfirmSubmit,
         ComputeRepoint, FindRow, InsertRow, ConfirmCrash, RecordConfirmation, RecordWithOldToken,
         ClaimOrReclaim, ClaimRow, ReclaimRow, DrainLocks, DrainParks, DrainFindsLocked, MarkEnqueued,
         Handle, ReadSuggestion, GetPurchase, DrainReadFails, PostFails, MarkSuggestion,
         PostRefused, MarkSuggestionFails, DrainUnlocks, SettleRow, DrainCrash, FlagSuggestion,
         Others, LockDrops, BlockWrites, UnblockWrites, ResolveExternally, HumanEdit, PostUpdate,
         PostAnswerLost, PullPurchase, CodeLocally
<1>3. [l \in staging.uncoded |-> local[l]] \in [staging.uncoded -> Item \cup {NoItem}]
  BY <1>1 DEF StagingOK, LocalOK
<1>4. staging.uncoded \in SUBSET Line
  BY <1>1 DEF StagingOK
<1> QED BY <1>1, <1>2, <1>3, <1>4 DEF AskedOK

\* Every step keeps the types, ...
LEMMA TypeStep ==
    ASSUME Typed, Next
    PROVE  Typed'
<1>1. LockOK /\ LimitsOK /\ RowsOK
  BY DEF Typed
<1> QED BY <1>1, QboTyped, MirrorTyped, SugTyped, RowsTyped, LockTyped, ConfirmStep, DrainTyped,
        BusyTyped, AskedTyped, LimitsTyped DEF Typed

\* ... which the initial states have, ...
LEMMA TypeInit ==
    ASSUME Init
    PROVE  Typed
<1>1. PICK lines \in [Line -> Content] :
        /\ purchase = [lines |-> lines, token |-> 1, by |-> [l \in Line |-> "human"]]
        /\ staging = [uncoded |-> Uncoded(lines), itemed |-> Itemed(lines), token |-> 1]
  BY DEF Init
<1>2. PurchaseOK /\ StagingOK
  BY <1>1 DEF PurchaseOK, StagingOK, Uncoded, Itemed
<1>3. RepliesOK /\ LocalOK /\ RowsOK /\ LockOK
  BY DEF Init, RepliesOK, LocalOK, RowsOK, LockOK
<1>4. ConfirmOK /\ sug \in Suggestion
  BY IdleTyped DEF Init, ConfirmOK
<1>5. DrainOK /\ BusyOK
  <2>1. drain = IdleDrain /\ drain.pc = "idle" /\ drain.result = "done"
    BY DEF Init, IdleDrain
  <2> QED BY <2>1, IdleTyped DEF DrainOK, BusyOK
<1>6. LimitsOK
  BY DEF Init, LimitsOK
<1>7. AskedOK
  <2>1. Nothing \in [{} -> Item \cup {NoItem}] /\ {} \in SUBSET Line
    BY DEF Nothing
  <2> QED BY <2>1 DEF Init, AskedOK
<1> QED BY <1>2, <1>3, <1>4, <1>5, <1>6, <1>7 DEF Typed

\* ... so they always hold.
LEMMA TypedHolds == Spec => []Typed
<1>1. Typed /\ UNCHANGED vars => Typed'
  BY DEF vars, Typed, PurchaseOK, RepliesOK, StagingOK, LocalOK, RowsOK, LockOK, ConfirmOK, DrainOK,
         BusyOK, AskedOK, LimitsOK
<1>2. Typed /\ [Next]_vars => Typed'
  BY <1>1, TypeStep
<1> QED BY <1>2, TypeInit, PTL DEF Spec

\* Every variable of the recode, the calls and the tick included, keeps its type.
THEOREM RecodeTypeCorrect == Spec => []TypeOK
BY TypedHolds, TypedIsTypeOK, PTL

----------------------------------------------------------------------------
(* Approvals and outbox rows.                                              *)

\* The row a tick works on stays its own: nobody else touches a row that is in progress.
DrainHasRow == drain.pc # "idle" => rows[drain.row] = "in_progress"

\* No call works for a revision that was not recorded.
Behind == \A p \in Confirmer : confirm[p].seq <= sug.seq

\* The current revision is reported as enqueued, or a call is about to report it.
Reporting(p) == confirm[p].pc = "mark" /\ confirm[p].seq = sug.seq

Owed == \/ sug.status = "enqueued"
        \/ sug.status \in Pending /\ \E p \in Confirmer : Reporting(p)

\* Row r will be drained for the current revision, or shows up as a dead letter.
OnItsWay(r) == \/ rows[r] \in {"waiting", "dead_letter"}
               \/ rows[r] = "in_progress" /\ (drain.row = r => Served(r))

RowInv == DrainHasRow /\ Behind /\ (Owed => \E r \in Row : OnItsWay(r))

\* Revisions can be compared.
LEMMA SugTypes ==
    ASSUME Typed
    PROVE  /\ sug.seq \in Nat
           /\ \A p \in Confirmer : confirm[p].seq \in Nat
BY DEF Typed, Suggestion, ConfirmOK, Locals

\* Steps that leave suggestion and rows alone, and whose tick goes on serving.
LEMMA ServingKeeps ==
    ASSUME RowInv, UNCHANGED <<sug, confirm, rows>>, drain.pc # "idle",
           drain'.pc = "idle" \/ drain'.row = drain.row,
           drain'.pc = "idle" => drain'.row = None,
           (Owed /\ Served(drain.row)) => Served(drain.row)' \/ drain'.pc = "idle",
           drain.row \in Row
    PROVE  RowInv'
<1>1. DrainHasRow' /\ Behind'
  BY DEF RowInv, DrainHasRow, Behind
<1>2. Owed' = Owed
  BY DEF Owed, Reporting
<1>3. ASSUME Owed, NEW r \in Row, OnItsWay(r) PROVE OnItsWay(r)'
  <2>1. CASE drain'.pc = "idle"
    BY <1>3, <2>1 DEF OnItsWay, Row
  <2>2. CASE drain'.pc # "idle" /\ drain.row # r
    BY <1>3, <2>2 DEF OnItsWay
  <2>3. CASE drain'.pc # "idle" /\ drain.row = r
    <3>1. Served(drain.row)
      BY <1>3, <2>3 DEF OnItsWay, RowInv, DrainHasRow
    <3>2. Served(drain.row)'
      BY <1>3, <2>3, <3>1
    <3>3. Served(r)'
      BY <2>3, <3>2
    <3> QED BY <1>3, <3>3 DEF OnItsWay
  <2> QED BY <2>1, <2>2, <2>3
<1> QED BY <1>1, <1>2, <1>3 DEF RowInv

\* Steps of a call or of others that leave the tick alone and owe nothing new.
LEMMA ConfirmingKeeps ==
    ASSUME RowInv, UNCHANGED <<drain, rows>>, Behind',
           Owed' => Owed /\ sug'.seq = sug.seq
    PROVE  RowInv'
<1>1. DrainHasRow'
  BY DEF RowInv, DrainHasRow
<1>2. ASSUME Owed', NEW r \in Row, OnItsWay(r) PROVE OnItsWay(r)'
  BY <1>2 DEF OnItsWay, Served
<1> QED BY <1>1, <1>2 DEF RowInv

\* The other calls stay as they are.
LEMMA CallChanges ==
    ASSUME ConfirmOK, NEW p \in Confirmer,
           Call(p)
    PROVE  \A q \in Confirmer \ {p} : confirm'[q] = confirm[q]
<1>1. ASSUME NEW r, Set(p, r) PROVE \A q \in Confirmer \ {p} : confirm'[q] = confirm[q]
  BY <1>1 DEF Set, ConfirmOK
<1>2. ASSUME NEW label, Goto(p, label) PROVE \A q \in Confirmer \ {p} : confirm'[q] = confirm[q]
  BY <1>2 DEF Goto, ConfirmOK
<1>3. EndConfirm(p) => \A q \in Confirmer \ {p} : confirm'[q] = confirm[q]
  BY <1>1 DEF EndConfirm
<1> QED BY <1>1, <1>2, <1>3
        DEF Call, StartConfirm, GoOnConfirming, ConfirmByHand, CheckSubmit, Probe, ConfirmSubmit,
            ComputeRepoint, RecordConfirmation, RecordWithOldToken, FindRow, InsertRow, MarkEnqueued, ConfirmCrash

\* What a confirmation, a completion or its death does keeps the rows that serve approvals.
LEMMA CallRowStep ==
    ASSUME Typed, RowInv, NEW p \in Confirmer,
           Call(p)
    PROVE  RowInv'
<1>1. ConfirmOK /\ \A q \in Confirmer \ {p} : confirm'[q] = confirm[q]
  BY CallChanges DEF Typed
<1>2. \A r : Set(p, r) => confirm'[p] = r
  BY <1>1 DEF Set, ConfirmOK
<1>3. EndConfirm(p) => confirm'[p].pc = "idle" /\ confirm'[p].seq = 0
  BY <1>2 DEF EndConfirm, IdleConfirm
<1>4. \A label : Goto(p, label) => confirm'[p].pc = label /\ confirm'[p].seq = confirm[p].seq
  BY <1>1 DEF Goto, ConfirmOK, Locals
<1>5. ASSUME sug' = sug, confirm'[p].pc # "mark", confirm'[p].seq <= sug.seq, UNCHANGED <<drain, rows>>
      PROVE  RowInv'
  <2>1. Behind'
    BY <1>1, <1>5 DEF RowInv, Behind
  <2>2. \A q \in Confirmer : Reporting(q)' => Reporting(q)
    BY <1>1, <1>5 DEF Reporting
  <2> QED BY <1>5, <2>1, <2>2, ConfirmingKeeps DEF Owed
<1>6. 0 <= sug.seq /\ confirm[p].seq <= sug.seq /\ sug.seq <= sug.seq
  BY SugTypes DEF RowInv, Behind
<1>7. CASE StartConfirm(p) \/ ConfirmCrash(p)
  <2>1. UNCHANGED <<sug, drain, rows>>
    BY <1>7 DEF StartConfirm, ConfirmByHand, CheckSubmit, Probe, ConfirmCrash
  <2>2. ASSUME NEW i \in Item, ConfirmByHand(p, i) PROVE confirm'[p].pc # "mark" /\ confirm'[p].seq <= sug.seq
    BY <2>2, <1>2, <1>6 DEF ConfirmByHand, IdleConfirm
  <2>3. CASE CheckSubmit(p)
    BY <2>1, <2>3, <1>2, <1>5, <1>6 DEF CheckSubmit, IdleConfirm
  <2>4. CASE Probe(p)
    BY <2>1, <2>4, <1>2, <1>5, <1>6 DEF Probe, IdleConfirm
  <2>5. CASE ConfirmCrash(p)
    BY <2>1, <2>5, <1>3, <1>5, <1>6 DEF ConfirmCrash
  <2> QED BY <1>5, <1>7, <2>1, <2>2, <2>3, <2>4, <2>5 DEF StartConfirm
<1>8. CASE ConfirmSubmit(p)
  <2>1. [confirm[p] EXCEPT !.pc = "record", !.token = staging.token].pc = "record"
        /\ [confirm[p] EXCEPT !.pc = "record", !.token = staging.token].seq = confirm[p].seq
    BY <1>1 DEF ConfirmOK, Locals
  <2> QED BY <2>1, <1>8, <1>2, <1>3, <1>5, <1>6 DEF ConfirmSubmit
<1>9. CASE ComputeRepoint(p)
  <2>2. \/ \E t : Set(p, [confirm[p] EXCEPT !.pc = "record", !.targets = t])
        \/ Goto(p, "find") \/ EndConfirm(p)
    BY <1>9 DEF ComputeRepoint
  <2>3. confirm'[p].pc # "mark" /\ confirm'[p].seq <= sug.seq
    <3>1. ASSUME NEW t, Set(p, [confirm[p] EXCEPT !.pc = "record", !.targets = t])
          PROVE  confirm'[p].pc = "record" /\ confirm'[p].seq = confirm[p].seq
      <4> DEFINE c == [confirm[p] EXCEPT !.pc = "record", !.targets = t]
      <4>1. c.pc = "record" /\ c.seq = confirm[p].seq
        BY <1>1 DEF ConfirmOK, Locals
      <4>2. confirm'[p] = c
        BY <3>1, <1>2
      <4> HIDE DEF c
      <4> QED BY <4>1, <4>2
    <3>2. CASE \E t : Set(p, [confirm[p] EXCEPT !.pc = "record", !.targets = t])
      <4>1. PICK t : Set(p, [confirm[p] EXCEPT !.pc = "record", !.targets = t])
        BY <3>2
      <4>2. confirm'[p].pc = "record" /\ confirm'[p].seq = confirm[p].seq
        BY <3>1, <4>1
      <4> QED BY <4>2, <1>6
    <3>3. CASE Goto(p, "find") \/ EndConfirm(p)
      BY <3>3, <1>3, <1>4, <1>6
    <3> QED BY <2>2, <3>2, <3>3
  <2> QED BY <2>3, <1>5, <1>9 DEF ComputeRepoint
<1>10. CASE RecordConfirmation(p) \/ RecordWithOldToken(p)
  <2>0. UNCHANGED <<rows, drain>>
    BY <1>10 DEF RecordConfirmation, RecordWithOldToken
  <2>1. CASE EndConfirm(p) /\ UNCHANGED sug
    BY <2>0, <2>1, <1>3, <1>5, <1>6
  <2>2. ASSUME NEW token, sug' = Recorded(p, token),
               Set(p, [confirm[p] EXCEPT !.pc = "find", !.seq = sug.seq + 1])
        PROVE  RowInv'
    <3>1. confirm'[p].pc = "find" /\ confirm'[p].seq = sug.seq + 1
      BY <1>1, <1>2, <2>2 DEF ConfirmOK, Locals
    <3>2. sug'.seq = sug.seq + 1 /\ sug'.status = "confirmed"
      BY <2>2 DEF Typed, Recorded, Suggestion
    <3>3. \A q \in Confirmer : ~ Reporting(q)' /\ confirm'[q].seq <= sug'.seq
      BY <1>1, <3>1, <3>2, SugTypes DEF Reporting, RowInv, Behind
    <3> QED BY <2>0, <3>2, <3>3, ConfirmingKeeps DEF Behind, Owed
  <2> QED BY <1>10, <2>1, <2>2 DEF RecordConfirmation, RecordWithOldToken
<1>11. ASSUME UNCHANGED <<sug, drain>>, DrainHasRow',
              confirm'[p].seq <= sug.seq, NEW r \in Row, rows'[r] = "waiting"
       PROVE  RowInv'
  <2>1. Behind'
    BY <1>1, <1>11 DEF RowInv, Behind
  <2> QED BY <1>11, <2>1 DEF RowInv, OnItsWay
<1>12. CASE FindRow(p)
  <2>1. CASE \E r \in Row : rows[r] = "waiting"
    <3>1. /\ UNCHANGED <<sug, drain, rows>> /\ Goto(p, "mark")
      BY <1>12, <2>1 DEF FindRow
    <3> QED BY <2>1, <3>1, <1>4, <1>6, <1>11 DEF RowInv, DrainHasRow
  <2>2. CASE ~ \E r \in Row : rows[r] = "waiting"
    <3>1. UNCHANGED <<sug, drain, rows>> /\ Goto(p, "insert")
      BY <1>12, <2>2 DEF FindRow
    <3> QED BY <3>1, <1>4, <1>5, <1>6
  <2> QED BY <2>1, <2>2
<1>13. CASE InsertRow(p)
  <2>1. CASE EndConfirm(p) /\ UNCHANGED rows
    BY <1>13, <2>1, <1>3, <1>5, <1>6 DEF InsertRow
  <2>2. ASSUME NEW r \in Row, \A s \in Row : rows[s] = "absent" <=> s >= r,
               rows' = [rows EXCEPT ![r] = "waiting"], Goto(p, "mark")
        PROVE  RowInv'
    <3>1. rows'[r] = "waiting" /\ rows[r] = "absent" /\ \A s \in Row \ {r} : rows'[s] = rows[s]
      BY <2>2 DEF Typed, RowsOK, Row
    <3>2. UNCHANGED <<sug, drain>>
      BY <1>13 DEF InsertRow
    <3>3. DrainHasRow'
      BY <3>1, <3>2 DEF RowInv, DrainHasRow, Typed, BusyOK
    <3> QED BY <2>2, <3>1, <3>2, <3>3, <1>4, <1>6, <1>11
  <2> QED BY <1>13, <2>1, <2>2 DEF InsertRow
<1>14. CASE MarkEnqueued(p)
  <2>1. CASE sug' = sug
    BY <1>14, <2>1, <1>3, <1>5, <1>6 DEF MarkEnqueued
  <2>2. CASE /\ sug.seq = confirm[p].seq /\ sug.status \in Pending
             /\ sug' = [sug EXCEPT !.status = "enqueued"]
    <3>1. Owed
      BY <1>14, <2>2 DEF Owed, Reporting, MarkEnqueued
    <3>2. sug'.seq = sug.seq
      BY <2>2 DEF Typed, Suggestion
    <3>3. Behind'
      BY <1>1, <1>3, <1>6, <1>14, <3>2 DEF RowInv, Behind, MarkEnqueued
    <3> QED BY <1>14, <3>1, <3>2, <3>3, ConfirmingKeeps DEF MarkEnqueued
  <2> QED BY <1>14, <2>1, <2>2 DEF MarkEnqueued
<1> QED
  BY <1>7, <1>8, <1>9, <1>10, <1>12, <1>13, <1>14 DEF Call, GoOnConfirming

\* So does what the drain does: it settles a row for the revision it has read.
LEMMA TickRowStep ==
    ASSUME Typed, RowInv,
           ClaimOrReclaim \/ DrainLocks \/ DrainParks \/ DrainFindsLocked \/ Handle \/ DrainCrash
    PROVE  RowInv'
<1>1. /\ DrainOK /\ RowsOK
      /\ drain.pc # "idle" => drain.row \in Row /\ rows[drain.row] = "in_progress"
      /\ drain.pc \notin {"unlock", "settle"} => drain.result = "done"
      /\ drain.pc = "mark" => drain.verdict \in Verdict
  BY DEF Typed, BusyOK, RowInv, DrainHasRow
<1>2. ASSUME UNCHANGED <<sug, confirm, rows>>, drain.pc # "idle", drain'.pc # "idle",
             drain'.row = drain.row, (Owed /\ Served(drain.row)) => Served(drain.row)'
      PROVE  RowInv'
  BY <1>1, <1>2, ServingKeeps
<1>3. ASSUME NEW result \in {"park", "retry", "dead"}, UNCHANGED <<sug, confirm, rows>>,
             drain.pc # "idle", Finish(result)
      PROVE  RowInv'
  <2>1. drain'.pc = "unlock" /\ drain'.row = drain.row /\ drain'.result = result
    BY <1>3 DEF Finish, IdleDrain
  <2> QED BY <1>2, <1>3, <2>1 DEF Served
<1>4. ASSUME NEW seen, NEW status, NEW token, NEW lines, UNCHANGED <<sug, confirm, rows>>,
             drain.pc # "idle", Conclude(seen, status, token, lines),
             (Owed /\ Served(drain.row)) => seen.seq = sug.seq
      PROVE  RowInv'
  <2>1. drain'.pc = "mark" /\ drain'.row = drain.row /\ drain'.seen = seen
    BY <1>4 DEF Conclude, IdleDrain
  <2> QED BY <1>2, <1>4, <2>1 DEF Served
<1>5. CASE DrainLocks
  <2>1. drain'.pc = "read" /\ drain'.row = drain.row
    BY <1>1, <1>5 DEF DrainLocks, DrainGoto, DrainOK
  <2> QED BY <1>2, <1>5, <2>1 DEF Served, DrainLocks
<1>6. CASE DrainParks \/ DrainFindsLocked
  <2>1. drain'.pc = "settle" /\ drain'.row = drain.row /\ drain'.result = "park"
    BY <1>1, <1>6 DEF DrainParks, DrainFindsLocked, DrainOK
  <2> QED BY <1>2, <1>6, <2>1 DEF Served, DrainParks, DrainFindsLocked
<1>7. CASE DrainReadFails \/ PostFails \/ PostRefused \/ MarkSuggestionFails
  BY <1>3, <1>7 DEF DrainReadFails, PostFails, PostRefused, MarkSuggestionFails
<1>8. CASE ReadSuggestion
  <2>0. UNCHANGED <<sug, confirm, rows>> /\ drain.pc = "read"
    BY <1>8 DEF ReadSuggestion
  <2>1. CASE sug.status \notin Pending /\ Finish("done")
    <3>1. drain'.pc = "unlock" /\ drain'.row = drain.row
      BY <2>1 DEF Finish, IdleDrain
    <3>2. ~ Owed
      BY <2>1 DEF Owed, Pending
    <3> QED BY <1>2, <2>0, <3>1, <3>2
  <2>2. ASSUME NEW status, Conclude(sug, status, None, Nothing) PROVE RowInv'
    BY <1>4, <2>0, <2>2
  <2>3. ASSUME NEW specs, Resolved(specs) PROVE RowInv'
    <3>1. drain'.pc = "get" /\ drain'.row = drain.row /\ drain'.seen = sug
      BY <1>1, <2>3 DEF Resolved, DrainOK
    <3> QED BY <1>2, <2>0, <3>1 DEF Served
  <2> QED BY <1>8, <2>1, <2>2, <2>3 DEF ReadSuggestion, ResolveRepoint, ResolveFirstWrite
<1>9. CASE GetPurchase
  <2>0. UNCHANGED <<sug, confirm, rows>> /\ drain.pc = "get"
    BY <1>9 DEF GetPurchase
  <2>1. Served(drain.row) => drain.seen.seq = sug.seq
    BY <1>1, <2>0 DEF Served
  <2>2. ASSUME NEW image, drain' = [drain EXCEPT !.pc = "post", !.got = image] PROVE RowInv'
    <3>1. drain'.pc = "post" /\ drain'.row = drain.row /\ drain'.seen = drain.seen
      BY <1>1, <2>2 DEF DrainOK
    <3> QED BY <1>2, <2>0, <2>1, <3>1 DEF Served
  <2> QED BY <1>4, <1>9, <2>0, <2>1, <2>2 DEF GetPurchase
<1>10. CASE PostUpdate \/ PostAnswerLost
  <2>0. UNCHANGED <<sug, confirm, rows>> /\ drain.pc = "post"
    BY <1>10 DEF PostUpdate, PostAnswerLost
  <2>1. Served(drain.row) => drain.seen.seq = sug.seq
    BY <1>1, <2>0 DEF Served
  <2>2. CASE UNCHANGED drain
    BY <1>2, <2>0, <2>2 DEF Served
  <2> QED BY <1>3, <1>4, <1>10, <2>0, <2>1, <2>2 DEF PostUpdate, PostAnswerLost
<1>11. CASE MarkSuggestion
  <2>0. /\ UNCHANGED <<confirm, rows>> /\ drain.pc = "mark"
        /\ drain'.pc = "unlock" /\ drain'.row = drain.row
    BY <1>11 DEF MarkSuggestion, Finish, IdleDrain
  <2>1. CASE sug' = sug /\ ~ (sug.seq = drain.seen.seq /\ sug.status \in Pending)
    <3>1. Owed => ~ Served(drain.row)
      BY <1>1, <2>0, <2>1 DEF Owed, Served, Pending
    <3> QED BY <1>2, <2>0, <2>1, <3>1
  <2>2. CASE sug'.status = drain.verdict /\ sug'.seq = sug.seq
    <3>1. ~ Owed'
      BY <1>1, <2>0, <2>2 DEF Owed, Verdict, Pending
    <3>2. Behind' /\ DrainHasRow'
      BY <2>0, <2>2 DEF RowInv, Behind, DrainHasRow
    <3> QED BY <3>1, <3>2 DEF RowInv
  <2>3. sug \in Suggestion
    BY DEF Typed
  <2> QED BY <1>11, <2>1, <2>2, <2>3 DEF MarkSuggestion, Suggestion
<1>12. CASE DrainUnlocks
  <2>1. drain.pc = "unlock" /\ drain'.pc = "settle" /\ drain'.row = drain.row /\ drain'.result = drain.result
    BY <1>1, <1>12 DEF DrainUnlocks, DrainGoto, DrainOK
  <2> QED BY <1>2, <1>12, <2>1 DEF Served, DrainUnlocks
<1>13. CASE SettleRow
  <2>1. PICK status \in {"done", "waiting", "dead_letter"} :
          rows' = [rows EXCEPT ![drain.row] = status] /\ (drain.result # "done" => status # "done")
    BY <1>1, <1>13 DEF SettleRow, DrainOK, Results
  <2>2. drain'.pc = "idle" /\ drain'.row = None /\ UNCHANGED <<sug, confirm>> /\ drain.pc = "settle"
    BY <1>13 DEF SettleRow, IdleDrain
  <2>3. /\ rows'[drain.row] = status
        /\ \A r \in Row \ {drain.row} : rows'[r] = rows[r]
    BY <1>1, <2>1, <2>2 DEF RowsOK
  <2>4. Owed' = Owed
    BY <2>2 DEF Owed, Reporting
  <2>5. ASSUME NEW r \in Row, OnItsWay(r) PROVE OnItsWay(r)'
    <3>1. CASE r = drain.row
      <4>1. drain.result # "done"
        BY <1>1, <2>2, <2>5, <3>1 DEF OnItsWay, Served
      <4>2. rows'[r] \in {"waiting", "dead_letter"}
        BY <2>1, <2>3, <3>1, <4>1
      <4> QED BY <4>2 DEF OnItsWay
    <3>2. CASE r # drain.row
      BY <2>2, <2>3, <2>5, <3>2 DEF OnItsWay, Row
    <3> QED BY <3>1, <3>2
  <2>6. Behind' /\ DrainHasRow'
    BY <2>2 DEF RowInv, Behind, DrainHasRow
  <2> QED BY <2>4, <2>5, <2>6 DEF RowInv
<1>14. CASE DrainCrash
  <2>1. drain'.pc = "idle" /\ drain'.row = None /\ UNCHANGED <<sug, confirm, rows>> /\ drain.pc # "idle"
    BY <1>14 DEF DrainCrash, IdleDrain
  <2> QED BY <1>1, <2>1, ServingKeeps
<1>15. ASSUME NEW r \in Row, ClaimRow(r) PROVE RowInv'
  <2>1. /\ drain'.pc = "lock" /\ drain'.row = r /\ UNCHANGED <<sug, confirm>> /\ drain.pc = "idle"
        /\ rows'[r] = "in_progress" /\ \A s \in Row \ {r} : rows'[s] = rows[s]
    BY <1>1, <1>15 DEF ClaimRow, IdleDrain, RowsOK
  <2>2. Owed' = Owed
    BY <2>1 DEF Owed, Reporting
  <2>3. ASSUME NEW s \in Row, OnItsWay(s) PROVE OnItsWay(s)'
    BY <2>1, <2>3 DEF OnItsWay, Served
  <2>4. Behind' /\ DrainHasRow'
    BY <2>1 DEF RowInv, Behind, DrainHasRow
  <2> QED BY <2>2, <2>3, <2>4 DEF RowInv
<1>16. ASSUME NEW r \in Row, ReclaimRow(r) PROVE RowInv'
  <2>1. /\ UNCHANGED <<sug, confirm, drain>> /\ drain.pc = "idle"
        /\ rows'[r] \in {"waiting", "dead_letter"} /\ \A s \in Row \ {r} : rows'[s] = rows[s]
    BY <1>1, <1>16 DEF ReclaimRow, RowsOK
  <2>2. Owed' = Owed
    BY <2>1 DEF Owed, Reporting
  <2>3. ASSUME NEW s \in Row, OnItsWay(s) PROVE OnItsWay(s)'
    BY <2>1, <2>3 DEF OnItsWay, Served
  <2>4. Behind' /\ DrainHasRow'
    BY <2>1 DEF RowInv, Behind, DrainHasRow
  <2> QED BY <2>2, <2>3, <2>4 DEF RowInv
<1> QED
  BY <1>5, <1>6, <1>7, <1>8, <1>9, <1>10, <1>11, <1>12, <1>13, <1>14, <1>15, <1>16
  DEF Handle, ClaimOrReclaim

\* Others touch no row and report nothing as enqueued.
LEMMA OthersRowStep ==
    ASSUME Typed, RowInv, Others
    PROVE  RowInv'
<1>1. UNCHANGED <<confirm, rows, drain>>
  BY DEF Others, LockDrops, PullPurchase, FlagSuggestion, ResolveExternally, BlockWrites,
         UnblockWrites, HumanEdit, CodeLocally
<1>2. \/ UNCHANGED sug
      \/ \E status \in {"flagged", "resolved_externally"} : sug' = [sug EXCEPT !.status = status]
  BY DEF Others, LockDrops, PullPurchase, FlagSuggestion, ResolveExternally, BlockWrites,
         UnblockWrites, HumanEdit, CodeLocally
<1>3. CASE UNCHANGED sug
  BY <1>1, <1>3, ConfirmingKeeps DEF Owed, Reporting, RowInv, Behind
<1>4. ASSUME NEW status \in {"flagged", "resolved_externally"}, sug' = [sug EXCEPT !.status = status]
      PROVE  RowInv'
  <2>1. sug'.status = status /\ sug'.seq = sug.seq
    BY <1>4 DEF Typed, Suggestion
  <2> QED BY <1>1, <2>1, ConfirmingKeeps DEF Owed, Pending, RowInv, Behind
<1> QED BY <1>2, <1>3, <1>4

\* RowInv is an invariant.
LEMMA RowInvHolds == Spec => []RowInv
<1>1. Init => RowInv
  BY DEF Init, RowInv, DrainHasRow, Behind, Owed, Reporting, Pending, IdleDrain, IdleConfirm, Unapproved
<1>2. RowInv /\ UNCHANGED vars => RowInv'
  BY DEF vars, RowInv, DrainHasRow, Behind, Owed, Reporting, OnItsWay, Served
<1>3. Typed /\ RowInv /\ [Next]_vars => RowInv'
  BY <1>2, CallRowStep, TickRowStep, OthersRowStep DEF Next, Call
<1> QED BY <1>1, <1>3, TypedHolds, PTL DEF Spec

\* An approval that confirm() reported as enqueued has a row: one that waits, one that is a
\* dead letter, or one in progress whose tick will judge that very revision.  Coalescing
\* into a waiting row, claims, crashes and settlements never leave it without.
THEOREM EnqueuedApprovalsAreServed == Spec => []EnqueuedIsServed
<1>1. RowInv => EnqueuedIsServed
  BY DEF RowInv, Owed, OnItsWay, EnqueuedIsServed
<1> QED BY <1>1, RowInvHolds, PTL

----------------------------------------------------------------------------
(* The record of what was written.                                         *)

Handling == drain.pc \in {"get", "post", "mark"}
Deciding == drain.pc \in {"get", "post"}

\* The lines are ours and carry what f says, and nothing is left to categorise.
KeptIn(lines, by, f) ==
    /\ \A l \in DOMAIN f : lines[l] = f[l] /\ by[l] = "us"
    /\ Uncoded(lines) = {}

Kept(f) == KeptIn(purchase.lines, purchase.by, f)

\* What the last first write was to put on a line, code being the confirmed item.
AskedItem(coding, l, code) ==
    IF \A j, k \in DOMAIN coding : j = k THEN code ELSE coding[l]

\* The lines are those that seen approves.
ApprovedIn(lines, seen) ==
    /\ seen.source = "repoint" => \A l \in DOMAIN seen.targets : lines[l] = seen.targets[l].to
    /\ seen.source # "repoint" =>
          /\ asked.seq = seen.seq
          /\ \A l \in DOMAIN asked.coding : lines[l] = AskedItem(asked.coding, l, seen.code)

TokenOrder ==
    /\ sug.wToken <= purchase.token /\ purchase.token # None
    /\ staging.token <= purchase.token
    /\ staging.token = purchase.token => Uncoded(purchase.lines) \subseteq staging.uncoded
    /\ \A a \in replies : a.token = a.base + 1 /\ a.token <= purchase.token

\* A repoint was computed from the record or an earlier one; a first write from what the
\* staging table knew, or with the fence of an earlier approval.
Fenced(source, token) ==
    /\ source = "repoint" => token <= sug.wToken
    /\ source # "repoint" => token <= staging.token \/ token <= sug.wToken

CallFenced(p) ==
    /\ Fenced(confirm[p].op, confirm[p].token)
    /\ confirm[p].pc = "submit" => confirm[p].op = "submit"

FenceOrder == Fenced(sug.source, sug.expected) /\ \A p \in Confirmer : CallFenced(p)

\* What the tick has read of the suggestion: its record is still the current one, and
\* so is its approval unless there is a later revision.
SeenOK(seen) ==
    /\ seen.wToken = sug.wToken /\ seen.wLines = sug.wLines
    /\ Fenced(seen.source, seen.expected)
    /\ seen.seq <= sug.seq
    /\ seen.seq = sug.seq => /\ seen.source = sug.source
                             /\ seen.code = sug.code
                             /\ seen.targets = sug.targets

SeenIsSug == Handling => SeenOK(drain.seen)

\* A repoint writes the targets that differ from our record ...
RepointSpecs(seen, specs) ==
    \A l \in Line :
        /\ l \in DOMAIN specs => l \in DOMAIN seen.targets /\ specs[l] = seen.targets[l]
        /\ l \in DOMAIN seen.targets =>
              /\ l \in DOMAIN seen.wLines /\ seen.wLines[l] = seen.targets[l].from
              /\ l \notin DOMAIN specs => seen.targets[l].to = seen.targets[l].from

\* ... and a first write what was asked for, which is all that is still uncategorised.
FirstSpecs(seen, specs, ask) ==
    /\ ask.seq = seen.seq
    /\ DOMAIN specs = DOMAIN ask.coding
    /\ \A l \in DOMAIN specs : /\ specs[l].from = NoItem
                               /\ specs[l].to = AskedItem(ask.coding, l, seen.code)
    /\ seen.expected = purchase.token => Uncoded(purchase.lines) \subseteq DOMAIN specs

SpecsFit(seen, specs, ask) ==
    /\ seen.source = "repoint" => RepointSpecs(seen, specs)
    /\ seen.source # "repoint" => FirstSpecs(seen, specs, ask)

SpecsOK == Deciding => SpecsFit(drain.seen, drain.specs, asked)

Written == Merge(drain.got.lines, [l \in ToWrite(drain.got) |-> Specs[l].to])

Base == drain.got.token

\* What was read of the purchase before the update.
GotOK ==
    /\ Base <= purchase.token /\ Base = drain.seen.expected /\ drain.seen.wToken <= Base
    /\ ToWrite(drain.got) # {} /\ Foreign(drain.got) = {}
    /\ IsRepoint => \A l \in DOMAIN drain.seen.wLines : drain.got.lines[l] = drain.seen.wLines[l]
    /\ Uncoded(drain.got.lines) \subseteq DOMAIN Specs
    /\ purchase.token = Base =>
          /\ purchase.lines = drain.got.lines
          /\ IsRepoint => \A l \in DOMAIN drain.seen.wLines : purchase.by[l] = "us"

\* An update whose answer was lost left the purchase as it was to be written.
LostAnswersOK ==
    \A a \in replies : (a.base = Base /\ a.token = purchase.token) =>
        purchase.lines = Written /\ Kept(Record(drain.got))

PostOK == drain.pc = "post" => GotOK /\ LostAnswersOK

\* What the mark will leave in the suggestion.
NewToken == IF drain.token # None THEN drain.token ELSE drain.seen.wToken
NewLines == IF drain.lines # Nothing THEN drain.lines ELSE drain.seen.wLines

MarkOK ==
    drain.pc = "mark" =>
        /\ drain.seen.wToken <= NewToken /\ NewToken <= purchase.token
        /\ NewToken = purchase.token =>
              /\ Kept(NewLines)
              /\ drain.verdict = "written" => ApprovedIn(purchase.lines, drain.seen)

SugOK ==
    sug.wToken = purchase.token =>
        /\ Kept(sug.wLines)
        /\ sug.status = "written" => ApprovedIn(purchase.lines, sug)

RecordInv == TokenOrder /\ FenceOrder /\ SeenIsSug /\ SpecsOK /\ PostOK /\ MarkOK /\ SugOK

\* The tokens that are compared.
LEMMA RecordTypes ==
    ASSUME Typed
    PROVE  /\ sug.wToken \in Nat /\ sug.expected \in Nat /\ sug.seq \in Nat
           /\ sug.wLines \in Coding /\ sug.targets \in Target /\ sug \in Suggestion
           /\ purchase.token \in Nat /\ staging.token \in Nat
           /\ purchase.lines \in [Line -> Content] /\ purchase.by \in [Line -> {"us", "human"}]
           /\ staging.uncoded \subseteq Line
           /\ drain.got.token \in Nat /\ drain.got.lines \in [Line -> Content]
           /\ drain.token \in Nat /\ drain.lines \in Coding
           /\ drain.specs \in Target /\ drain.seen \in Suggestion
           /\ drain.seen.wToken \in Nat /\ drain.seen.expected \in Nat /\ drain.seen.seq \in Nat
           /\ drain.seen.wLines \in Coding /\ drain.seen.targets \in Target
           /\ \A a \in replies : a.base \in Nat /\ a.token \in Nat
           /\ \A p \in Confirmer : confirm[p].token \in Nat
BY DEF Typed, Suggestion, PurchaseOK, StagingOK, DrainOK, Image, RepliesOK, ConfirmOK, Locals

\* What is to be written depends on what the tick holds, and on nothing else.
LEMMA PlanIsDrains ==
    ASSUME UNCHANGED drain
    PROVE  /\ UNCHANGED <<Record(drain.got), Written, ToWrite(drain.got), Foreign(drain.got)>>
           /\ UNCHANGED <<Specs, IsRepoint, Base>>
<1>1. UNCHANGED <<Specs, IsRepoint, Base>>
  BY DEF Specs, IsRepoint, Base
<1>2. UNCHANGED ToWrite(drain.got)
  BY DEF ToWrite, Specs
<1>3. UNCHANGED Foreign(drain.got)
  BY DEF Foreign, ToWrite, Specs
<1>4. UNCHANGED Written
  BY DEF Written, Merge, ToWrite, Specs
<1>5. UNCHANGED Record(drain.got)
  BY DEF Record, Merge, ToWrite, Specs, IsRepoint
<1> QED BY <1>1, <1>2, <1>3, <1>4, <1>5

\* So steps that leave the purchase and the tick alone keep what was read before the update.
LEMMA PostFrame ==
    ASSUME PostOK, UNCHANGED <<purchase, replies, drain>>
    PROVE  PostOK'
<1>1. GotOK => GotOK'
  BY PlanIsDrains DEF GotOK
<1>2. Kept(Record(drain.got)) => Kept(Record(drain.got))'
  BY PlanIsDrains DEF Kept
<1>3. LostAnswersOK => LostAnswersOK'
  BY PlanIsDrains, <1>2 DEF LostAnswersOK
<1> QED BY <1>1, <1>3 DEF PostOK

\* Steps of calls, and of those who touch neither purchase, mirror, record nor tick.
LEMMA QuietKeeps ==
    ASSUME RecordInv, UNCHANGED <<purchase, replies, staging, sug, drain, asked>>,
           \A p \in Confirmer : CallFenced(p)'
    PROVE  RecordInv'
<1> USE DEF RecordInv
<1>1. TokenOrder'
  BY DEF TokenOrder
<1>2. FenceOrder'
  BY DEF FenceOrder, Fenced
<1>3. SeenIsSug' /\ SpecsOK'
  BY DEF SeenIsSug, SeenOK, Fenced, Handling, SpecsOK, Deciding, SpecsFit, RepointSpecs, FirstSpecs,
         AskedItem
<1>4. PostOK'
  BY PostFrame
<1>5. MarkOK' /\ SugOK'
  BY DEF MarkOK, SugOK, NewToken, NewLines, Kept, ApprovedIn, AskedItem
<1> QED BY <1>1, <1>2, <1>3, <1>4, <1>5

\* Steps of the tick that decide nothing.
LEMMA IdleKeeps ==
    ASSUME RecordInv, UNCHANGED <<purchase, replies, staging, sug, confirm, asked>>, ~ Handling'
    PROVE  RecordInv'
<1> USE DEF RecordInv
<1>1. TokenOrder'
  BY DEF TokenOrder
<1>2. FenceOrder'
  BY DEF FenceOrder, Fenced, CallFenced
<1>3. SeenIsSug' /\ SpecsOK' /\ PostOK' /\ MarkOK'
  BY DEF SeenIsSug, Handling, SpecsOK, Deciding, PostOK, MarkOK
<1>4. SugOK'
  BY DEF SugOK, Kept, ApprovedIn, AskedItem
<1> QED BY <1>1, <1>2, <1>3, <1>4

\* Steps of the tick that conclude: the mark will leave a true record.
LEMMA ConcludeKeeps ==
    ASSUME RecordInv, UNCHANGED <<purchase, replies, staging, sug, confirm>>,
           UNCHANGED asked \/ sug.status # "written",
           NEW seen, NEW status, NEW token, NEW lines, Conclude(seen, status, token, lines),
           SeenOK(seen), MarkOK'
    PROVE  RecordInv'
<1> USE DEF RecordInv
<1>1. drain'.pc = "mark" /\ drain'.seen = seen
  BY DEF Conclude, IdleDrain
<1>2. TokenOrder'
  BY DEF TokenOrder
<1>3. FenceOrder'
  BY DEF FenceOrder, Fenced, CallFenced
<1>4. SeenOK(seen)'
  BY DEF SeenOK, Fenced
<1>5. SeenIsSug'
  BY <1>1, <1>4 DEF SeenIsSug
<1>6. SpecsOK' /\ PostOK'
  BY <1>1 DEF SpecsOK, Deciding, PostOK
<1>7. SugOK'
  BY DEF SugOK, Kept, ApprovedIn, AskedItem
<1> QED BY <1>2, <1>3, <1>5, <1>6, <1>7

\* A conclusion that leaves the record as it is and reports nothing as written.
LEMMA GiveUpKeeps ==
    ASSUME Typed, RecordInv, UNCHANGED <<purchase, replies, staging, sug, confirm>>,
           UNCHANGED asked \/ sug.status # "written",
           NEW seen, NEW status, status # "written", Conclude(seen, status, None, Nothing),
           SeenOK(seen)
    PROVE  RecordInv'
<1>1. /\ drain'.pc = "mark" /\ drain'.seen = seen /\ drain'.token = None /\ drain'.lines = Nothing
      /\ drain'.verdict = status
  BY DEF Conclude, IdleDrain
<1>2. NewToken' = sug.wToken /\ NewLines' = sug.wLines
  BY <1>1 DEF NewToken, NewLines, SeenOK
<1>3. sug.wToken <= sug.wToken
  BY RecordTypes
<1>4. MarkOK'
  BY <1>1, <1>2, <1>3 DEF MarkOK, SeenOK, RecordInv, SugOK, TokenOrder, Kept
<1> QED BY <1>4, ConcludeKeeps

\* Steps that change the status alone, and not to written.
LEMMA StatusKeeps ==
    ASSUME Typed, RecordInv, UNCHANGED <<purchase, replies, staging, drain, asked>>,
           NEW status, status # "written", sug' = [sug EXCEPT !.status = status],
           \A p \in Confirmer : CallFenced(p) => CallFenced(p)'
    PROVE  RecordInv'
<1> USE DEF RecordInv
<1>1. /\ sug'.status = status /\ sug'.wToken = sug.wToken /\ sug'.wLines = sug.wLines
      /\ sug'.source = sug.source /\ sug'.expected = sug.expected /\ sug'.seq = sug.seq
      /\ sug'.code = sug.code /\ sug'.targets = sug.targets
  BY RecordTypes DEF Suggestion
<1>2. TokenOrder'
  BY <1>1 DEF TokenOrder
<1>3. FenceOrder'
  BY <1>1 DEF FenceOrder, Fenced
<1>4. SeenIsSug'
  BY <1>1 DEF SeenIsSug, SeenOK, Fenced, Handling
<1>5. SpecsOK'
  BY DEF SpecsOK, Deciding, SpecsFit, RepointSpecs, FirstSpecs, AskedItem
<1>6. PostOK'
  BY PostFrame
<1>7. MarkOK' /\ SugOK'
  BY <1>1 DEF MarkOK, SugOK, NewToken, NewLines, Kept, ApprovedIn, AskedItem
<1> QED BY <1>2, <1>3, <1>4, <1>5, <1>6, <1>7

\* The steps of calls: an approval is fenced on a record or a staging row that exists.
LEMMA CallRecordStep ==
    ASSUME Typed, RecordInv, NEW p \in Confirmer,
           Call(p)
    PROVE  RecordInv'
<1>1. ConfirmOK /\ \A q \in Confirmer \ {p} : confirm'[q] = confirm[q]
  BY CallChanges DEF Typed
<1>2. \A r : Set(p, r) => confirm'[p] = r
  BY <1>1 DEF Set, ConfirmOK
<1>3. EndConfirm(p) => confirm'[p].pc = "idle" /\ confirm'[p].op = "none" /\ confirm'[p].token = None
  BY <1>2 DEF EndConfirm, IdleConfirm
<1>4. \A label : Goto(p, label) => /\ confirm'[p].pc = label
                                   /\ confirm'[p].op = confirm[p].op
                                   /\ confirm'[p].token = confirm[p].token
  BY <1>1 DEF Goto, ConfirmOK, Locals
<1>5. UNCHANGED <<purchase, replies, staging, drain, asked>>
  BY DEF Call, StartConfirm, GoOnConfirming, ConfirmByHand, CheckSubmit, Probe, ConfirmSubmit, qb, mirror,
         ComputeRepoint, RecordConfirmation, RecordWithOldToken, FindRow, InsertRow, MarkEnqueued, ConfirmCrash
<1>6. \A q \in Confirmer : CallFenced(q)
  BY DEF RecordInv, FenceOrder
<1>7. \A q \in Confirmer \ {p} : sug'.wToken = sug.wToken => CallFenced(q)'
  BY <1>1, <1>5, <1>6 DEF CallFenced, Fenced
<1>8. ASSUME sug' = sug, CallFenced(p)' PROVE RecordInv'
  BY <1>5, <1>7, <1>8, QuietKeeps
<1>9. /\ 0 <= sug.wToken /\ 0 <= staging.token
      /\ sug.wToken <= sug.wToken /\ staging.token <= staging.token
  BY RecordTypes
<1>10. ASSUME confirm'[p].pc # "submit", confirm'[p].op = confirm[p].op,
              confirm'[p].token = confirm[p].token, sug'.wToken = sug.wToken
       PROVE  CallFenced(p)'
  BY <1>5, <1>6, <1>10 DEF CallFenced, Fenced
<1>11. EndConfirm(p) /\ sug'.wToken = sug.wToken => CallFenced(p)'
  BY <1>3, <1>5, <1>9 DEF CallFenced, Fenced
<1>12. ASSUME NEW i \in Item, ConfirmByHand(p, i) PROVE RecordInv'
  <2>1. sug' = sug /\ confirm'[p].pc = "record" /\ confirm'[p].op = "endpoint"
        /\ confirm'[p].token = staging.token
    BY <1>2, <1>12 DEF ConfirmByHand, IdleConfirm
  <2> QED BY <1>5, <1>8, <1>9, <2>1 DEF CallFenced, Fenced
<1>13. CASE CheckSubmit(p)
  <2>1. sug' = sug /\ confirm'[p].pc = "submit" /\ confirm'[p].op = "submit" /\ confirm'[p].token = None
    BY <1>2, <1>13 DEF CheckSubmit, IdleConfirm
  <2> QED BY <1>5, <1>8, <1>9, <2>1 DEF CallFenced, Fenced
<1>14. CASE Probe(p)
  <2>1. sug' = sug /\ confirm'[p].pc = "compute" /\ confirm'[p].op = "repoint"
        /\ confirm'[p].token = sug.wToken
    BY <1>2, <1>14 DEF Probe, IdleConfirm
  <2> QED BY <1>5, <1>8, <1>9, <2>1 DEF CallFenced, Fenced
<1>15. CASE ConfirmSubmit(p)
  <2>1. CASE Set(p, [confirm[p] EXCEPT !.pc = "record", !.token = staging.token])
    <3>1. confirm[p].pc = "submit" /\ sug' = sug
      BY <1>15 DEF ConfirmSubmit
    <3>2. confirm[p].op = "submit"
      BY <1>6, <3>1 DEF CallFenced
    <3>3. confirm'[p] = [confirm[p] EXCEPT !.pc = "record", !.token = staging.token]
      BY <1>2, <2>1
    <3>4. /\ confirm'[p].pc = "record" /\ confirm'[p].op = "submit"
          /\ confirm'[p].token = staging.token
      BY <1>1, <3>2, <3>3 DEF ConfirmOK, Locals
    <3> QED BY <1>5, <1>8, <1>9, <3>1, <3>4 DEF CallFenced, Fenced
  <2> QED BY <1>8, <1>11, <1>15, <2>1 DEF ConfirmSubmit
<1>16. CASE ComputeRepoint(p)
  <2>1. CASE Set(p, [confirm[p] EXCEPT !.pc = "record", !.targets = Targets(confirm[p].lines)])
    <3>1. /\ confirm'[p].pc = "record" /\ confirm'[p].op = confirm[p].op
          /\ confirm'[p].token = confirm[p].token
      BY <1>1, <1>2, <2>1 DEF ConfirmOK, Locals
    <3> QED BY <1>8, <1>10, <1>16, <3>1 DEF ComputeRepoint
  <2>2. CASE Goto(p, "find") \/ EndConfirm(p)
    BY <1>4, <1>8, <1>10, <1>11, <1>16, <2>2 DEF ComputeRepoint
  <2> QED BY <1>16, <2>1, <2>2 DEF ComputeRepoint
<1>17. CASE RecordConfirmation(p) \/ RecordWithOldToken(p)
  <2>1. CASE EndConfirm(p) /\ sug' = sug
    BY <1>8, <1>11, <2>1
  <2>2. ASSUME NEW token, sug' = Recorded(p, token), Fenced(confirm[p].op, token),
               Set(p, [confirm[p] EXCEPT !.pc = "find", !.seq = sug.seq + 1])
        PROVE  RecordInv'
    <3>1. /\ confirm'[p].pc = "find" /\ confirm'[p].op = confirm[p].op
          /\ confirm'[p].token = confirm[p].token
      BY <1>1, <1>2, <2>2 DEF ConfirmOK, Locals
    <3>2. /\ sug'.status = "confirmed" /\ sug'.seq = sug.seq + 1
          /\ sug'.wToken = sug.wToken /\ sug'.wLines = sug.wLines
          /\ sug'.source = confirm[p].op /\ sug'.expected = token
      BY <2>2, RecordTypes DEF Recorded, Suggestion
    <3>3. CallFenced(p)'
      BY <1>10, <3>1, <3>2
    <3>4. TokenOrder'
      BY <1>5, <3>2 DEF RecordInv, TokenOrder
    <3>5. FenceOrder'
      <4>1. Fenced(sug.source, sug.expected)'
        BY <1>5, <2>2, <3>2 DEF Fenced
      <4> QED BY <1>7, <3>2, <3>3, <4>1 DEF FenceOrder
    <3>6. SeenIsSug'
      <4>1. SUFFICES ASSUME SeenIsSug, Handling PROVE SeenOK(drain.seen)'
        BY <1>5 DEF SeenIsSug, Handling, RecordInv
      <4>2. drain.seen.seq \in Nat /\ sug.seq \in Nat /\ drain.seen.seq <= sug.seq
        BY <4>1, RecordTypes DEF SeenIsSug, SeenOK
      <4>3. drain.seen.seq <= sug'.seq /\ drain.seen.seq # sug'.seq
        BY <3>2, <4>2
      <4> QED BY <1>5, <3>2, <4>1, <4>3 DEF SeenIsSug, SeenOK, Fenced
    <3>7. SpecsOK'
      BY <1>5 DEF RecordInv, SpecsOK, Deciding, SpecsFit, RepointSpecs, FirstSpecs, AskedItem
    <3>8. PostOK'
      BY <1>5, PostFrame DEF RecordInv
    <3>9. MarkOK' /\ SugOK'
      BY <1>5, <3>2 DEF RecordInv, MarkOK, SugOK, NewToken, NewLines, Kept, ApprovedIn, AskedItem
    <3> QED BY <3>4, <3>5, <3>6, <3>7, <3>8, <3>9 DEF RecordInv
  <2>3. Fenced(confirm[p].op, confirm[p].token)
    BY <1>6 DEF CallFenced
  <2>4. confirm[p].op # "repoint" => Fenced(confirm[p].op, sug.expected)
    BY DEF RecordInv, FenceOrder, Fenced
  <2> QED BY <1>17, <2>1, <2>2, <2>3, <2>4 DEF RecordConfirmation, RecordWithOldToken
<1>18. CASE FindRow(p)
  <2>1. sug' = sug /\ (Goto(p, "mark") \/ Goto(p, "insert"))
    BY <1>18 DEF FindRow
  <2> QED BY <1>4, <1>8, <1>10, <2>1
<1>19. CASE InsertRow(p)
  <2>1. sug' = sug /\ (Goto(p, "mark") \/ EndConfirm(p))
    BY <1>19 DEF InsertRow
  <2> QED BY <1>4, <1>8, <1>10, <1>11, <2>1
<1>20. CASE MarkEnqueued(p)
  <2>1. CASE sug' = sug
    BY <1>8, <1>11, <1>20, <2>1 DEF MarkEnqueued
  <2>2. CASE sug' = [sug EXCEPT !.status = "enqueued"]
    <3>1. sug'.wToken = sug.wToken
      BY <2>2, RecordTypes DEF Suggestion
    <3> QED BY <1>5, <1>7, <1>11, <1>20, <2>2, <3>1, StatusKeeps DEF MarkEnqueued
  <2> QED BY <1>20, <2>1, <2>2 DEF MarkEnqueued
<1>21. CASE ConfirmCrash(p)
  BY <1>8, <1>11, <1>21 DEF ConfirmCrash
<1> QED
  BY <1>12, <1>13, <1>14, <1>15, <1>16, <1>17, <1>18, <1>19, <1>20, <1>21
  DEF Call, StartConfirm, GoOnConfirming

\* A resolved suggestion: the tick holds its approval and what it is going to write.
LEMMA ResolvedKeeps ==
    ASSUME Typed, RecordInv, UNCHANGED <<purchase, replies, staging, sug, confirm>>,
           UNCHANGED asked \/ sug.status # "written",
           NEW specs, Resolved(specs), SpecsFit(sug, specs, asked')
    PROVE  RecordInv'
<1>1. drain'.pc = "get" /\ drain'.seen = sug /\ drain'.specs = specs
  BY DEF Resolved, Typed, DrainOK
<1>2. TokenOrder'
  BY DEF RecordInv, TokenOrder
<1>3. FenceOrder'
  BY DEF RecordInv, FenceOrder, Fenced, CallFenced
<1>4. SeenOK(sug)'
  <2>1. sug.seq <= sug.seq
    BY RecordTypes
  <2> QED BY <1>3, <2>1 DEF SeenOK, FenceOrder
<1>5. SeenIsSug'
  BY <1>1, <1>4 DEF SeenIsSug, SeenOK
<1>6. SpecsOK'
  BY <1>1 DEF SpecsOK, SpecsFit, RepointSpecs, FirstSpecs, AskedItem
<1>7. PostOK' /\ MarkOK'
  BY <1>1 DEF PostOK, MarkOK
<1>8. SugOK'
  BY DEF RecordInv, SugOK, Kept, ApprovedIn, AskedItem
<1> QED BY <1>2, <1>3, <1>5, <1>6, <1>7, <1>8 DEF RecordInv

\* The tick reads the suggestion and resolves it.
LEMMA ReadRecordStep ==
    ASSUME Typed, RecordInv, ReadSuggestion
    PROVE  RecordInv'
<1>1. UNCHANGED <<purchase, replies, staging, sug, confirm>>
  BY DEF ReadSuggestion, qb, mirror
<1>2. SeenOK(sug)
  <2>1. sug.seq <= sug.seq
    BY RecordTypes
  <2> QED BY <2>1 DEF SeenOK, RecordInv, FenceOrder
<1>3. CASE Finish("done") /\ UNCHANGED asked
  BY <1>1, <1>3, IdleKeeps DEF Finish, IdleDrain, Handling
<1>4. ASSUME NEW status \in {"error", "changed_in_qbo"}, Conclude(sug, status, None, Nothing),
             UNCHANGED asked \/ sug.status # "written"
      PROVE  RecordInv'
  BY <1>1, <1>2, <1>4, GiveUpKeeps
<1>5. CASE sug.source = "repoint" /\ ResolveRepoint /\ UNCHANGED asked
  <2> DEFINE D     == {l \in DOMAIN sug.targets : sug.targets[l].to # sug.targets[l].from}
             specs == [l \in D |-> sug.targets[l]]
  <2>1. CASE /\ Resolved(specs)
             /\ \A l \in DOMAIN sug.targets : /\ l \in DOMAIN sug.wLines
                                              /\ sug.wLines[l] = sug.targets[l].from
    <3>1. DOMAIN specs = D /\ \A l \in D : specs[l] = sug.targets[l]
      OBVIOUS
    <3>2. RepointSpecs(sug, specs)
      <4>1. \A l : l \in D <=> l \in DOMAIN sug.targets /\ sug.targets[l].to # sug.targets[l].from
        OBVIOUS
      <4> HIDE DEF D, specs
      <4> QED BY <2>1, <3>1, <4>1 DEF RepointSpecs
    <3> HIDE DEF D, specs
    <3>3. SpecsFit(sug, specs, asked')
      BY <1>5, <3>2 DEF SpecsFit
    <3> QED BY <1>1, <1>5, <2>1, <3>3, ResolvedKeeps
  <2>2. CASE Conclude(sug, "error", None, Nothing)
    BY <1>4, <1>5, <2>2
  <2> QED BY <1>5, <2>1, <2>2 DEF ResolveRepoint
<1>6. CASE /\ sug.source # "repoint" /\ sug.status \in Pending /\ ResolveFirstWrite
           /\ asked' = [seq |-> sug.seq, coding |-> [l \in staging.uncoded |-> local[l]]]
  <2> DEFINE single == \A k, l \in staging.uncoded : k = l
             code   == [l \in staging.uncoded |-> IF single THEN sug.code ELSE local[l]]
             specs  == [l \in staging.uncoded |-> [to |-> code[l], from |-> NoItem]]
  <2>1. \/ Conclude(sug, "error", None, Nothing) \/ Conclude(sug, "changed_in_qbo", None, Nothing)
        \/ Resolved(specs)
    BY <1>6 DEF ResolveFirstWrite
  <2>2. sug.status # "written"
    BY <1>6 DEF Pending
  <2>3. CASE Resolved(specs)
    <3>1. /\ asked'.seq = sug.seq /\ DOMAIN asked'.coding = staging.uncoded
          /\ \A l \in staging.uncoded : asked'.coding[l] = local[l]
      BY <1>6
    <3>2. /\ DOMAIN specs = staging.uncoded
          /\ \A l \in staging.uncoded : /\ specs[l].from = NoItem
                                        /\ specs[l].to = IF single THEN sug.code ELSE local[l]
      OBVIOUS
    <3>3. \A l \in staging.uncoded : specs[l].to = AskedItem(asked'.coding, l, sug.code)
      BY <3>1, <3>2 DEF AskedItem
    <3> HIDE DEF single, code, specs
    <3>4. sug.expected = purchase.token => Uncoded(purchase.lines) \subseteq staging.uncoded
      <4>1. /\ sug.expected \in Nat /\ staging.token \in Nat /\ purchase.token \in Nat /\ sug.wToken \in Nat
            /\ sug.expected <= staging.token \/ sug.expected <= sug.wToken
            /\ staging.token <= purchase.token /\ sug.wToken <= purchase.token
        BY <1>6, RecordTypes DEF RecordInv, FenceOrder, Fenced, TokenOrder
      <4>2. CASE staging.token = purchase.token
        BY <4>2 DEF RecordInv, TokenOrder
      <4>3. CASE sug.wToken = purchase.token
        BY <4>3 DEF RecordInv, SugOK, Kept, KeptIn
      <4> QED BY <4>1, <4>2, <4>3
    <3>5. FirstSpecs(sug, specs, asked')
      BY <3>1, <3>2, <3>3, <3>4 DEF FirstSpecs
    <3>6. SpecsFit(sug, specs, asked')
      BY <1>6, <3>5 DEF SpecsFit
    <3> QED BY <1>1, <2>2, <2>3, <3>6, ResolvedKeeps
  <2> QED BY <1>4, <2>1, <2>2, <2>3
<1> QED BY <1>3, <1>5, <1>6 DEF ReadSuggestion

\* What the record is made of.
LEMMA RecordParts ==
    ASSUME Typed, NEW image
    PROVE  /\ IsRepoint =>
                /\ DOMAIN Record(image) = DOMAIN drain.seen.wLines \cup DOMAIN drain.specs
                /\ \A l \in DOMAIN drain.specs : Record(image)[l] = drain.specs[l].to
                /\ \A l \in DOMAIN drain.seen.wLines :
                      l \notin DOMAIN drain.specs => Record(image)[l] = drain.seen.wLines[l]
           /\ ~ IsRepoint =>
                /\ DOMAIN Record(image) = ToWrite(image)
                /\ \A l \in ToWrite(image) : Record(image)[l] = drain.specs[l].to
                /\ ToWrite(image) = {} => Record(image) = Nothing
BY DEF Record, Merge, Specs, Nothing

\* The purchase carries what was approved already: the record needs no correction.
LEMMA NothingToWriteKeeps ==
    ASSUME Typed, RecordInv, UNCHANGED <<purchase, replies, staging, sug, confirm, asked>>,
           drain.pc = "get", NEW image, image.lines = purchase.lines, ToWrite(image) = {},
           Conclude(drain.seen, "written", None, Record(image))
    PROVE  RecordInv'
<1> DEFINE seen == drain.seen
           f    == Record(image)
           new  == IF f # Nothing THEN f ELSE seen.wLines
<1>1. SeenOK(seen) /\ SpecsFit(seen, drain.specs, asked)
  BY DEF RecordInv, SeenIsSug, Handling, SpecsOK, Deciding
<1>2. \A l \in DOMAIN drain.specs : purchase.lines[l] = drain.specs[l].to
  BY DEF ToWrite, Specs
<1>3. /\ drain'.pc = "mark" /\ drain'.seen = seen /\ drain'.token = None /\ drain'.lines = f
      /\ drain'.verdict = "written"
  BY DEF Conclude, IdleDrain
<1>4. NewToken' = seen.wToken /\ NewLines' = new
  BY <1>3 DEF NewToken, NewLines
<1>5. seen.wToken <= seen.wToken /\ seen.wToken <= purchase.token
  BY <1>1, RecordTypes DEF SeenOK, RecordInv, TokenOrder
<1>6. DOMAIN drain.specs \subseteq Line /\ DOMAIN seen.targets \subseteq Line
  BY RecordTypes, TargetElim
<1>7. ASSUME seen.wToken = purchase.token
      PROVE  Kept(new) /\ ApprovedIn(purchase.lines, seen)
  <2>1. Kept(seen.wLines)
    BY <1>1, <1>7 DEF SeenOK, RecordInv, SugOK
  <2>2. CASE IsRepoint
    <3>1. RepointSpecs(seen, drain.specs)
      BY <1>1, <2>2 DEF SpecsFit, IsRepoint
    <3>2. DOMAIN drain.specs \subseteq DOMAIN seen.wLines
      BY <1>6, <3>1 DEF RepointSpecs
    <3>3. /\ DOMAIN f = DOMAIN seen.wLines
          /\ \A l \in DOMAIN f : f[l] = purchase.lines[l]
      <4>1. DOMAIN f = DOMAIN seen.wLines
        BY <2>2, <3>2, RecordParts
      <4>2. ASSUME NEW l \in DOMAIN drain.specs PROVE f[l] = purchase.lines[l]
        BY <1>2, <2>2, RecordParts
      <4>3. ASSUME NEW l \in DOMAIN seen.wLines, l \notin DOMAIN drain.specs
            PROVE  f[l] = purchase.lines[l]
        <5>1. f[l] = seen.wLines[l]
          BY <2>2, <4>3, RecordParts
        <5>2. purchase.lines[l] = seen.wLines[l]
          BY <2>1, <4>3 DEF Kept, KeptIn
        <5> QED BY <5>1, <5>2
      <4> QED BY <4>1, <4>2, <4>3
    <3>4. Kept(f)
      BY <2>1, <3>3 DEF Kept, KeptIn
    <3>5. \A l \in DOMAIN seen.targets : purchase.lines[l] = seen.targets[l].to
      BY <1>2, <1>6, <2>1, <3>1 DEF RepointSpecs, Kept, KeptIn
    <3>6. seen.source = "repoint"
      BY <2>2 DEF IsRepoint
    <3> QED BY <2>1, <3>4, <3>5, <3>6 DEF ApprovedIn
  <2>3. CASE ~ IsRepoint
    <3>1. seen.source # "repoint" /\ new = seen.wLines
      BY <2>3, RecordParts DEF IsRepoint
    <3>2. FirstSpecs(seen, drain.specs, asked)
      BY <1>1, <3>1 DEF SpecsFit
    <3>3. \A l \in DOMAIN asked.coding : purchase.lines[l] = AskedItem(asked.coding, l, seen.code)
      BY <1>2, <3>2 DEF FirstSpecs
    <3> QED BY <2>1, <3>1, <3>2, <3>3 DEF ApprovedIn, FirstSpecs
  <2> QED BY <2>2, <2>3
<1> HIDE DEF new, f, seen
<1>8. MarkOK'
  BY <1>3, <1>4, <1>5, <1>7 DEF MarkOK, Kept, ApprovedIn, AskedItem
<1> QED BY <1>1, <1>8, ConcludeKeeps DEF seen, f

\* The tick goes on to the update.
LEMMA GoOnKeeps ==
    ASSUME Typed, RecordInv, UNCHANGED <<purchase, replies, staging, sug, confirm, asked>>,
           drain.pc = "get", NEW image, image.lines = purchase.lines, image.token = purchase.token,
           Foreign(image) = {}, ToWrite(image) # {}, purchase.token = drain.seen.expected,
           drain' = [drain EXCEPT !.pc = "post", !.got = image]
    PROVE  RecordInv'
<1> DEFINE seen == drain.seen
<1>1. SeenOK(seen) /\ SpecsFit(seen, drain.specs, asked)
  BY DEF RecordInv, SeenIsSug, Handling, SpecsOK, Deciding
<1>2. drain'.pc = "post" /\ drain'.seen = seen /\ drain'.specs = drain.specs /\ drain'.got = image
  BY DEF Typed, DrainOK
<1>3. TokenOrder'
  BY DEF RecordInv, TokenOrder
<1>4. FenceOrder'
  BY DEF RecordInv, FenceOrder, Fenced, CallFenced
<1>5. SeenIsSug'
  BY <1>1, <1>2 DEF SeenIsSug, SeenOK, Fenced
<1>6. SpecsOK'
  BY <1>1, <1>2 DEF SpecsOK, SpecsFit, RepointSpecs, FirstSpecs, AskedItem
<1>7. MarkOK' /\ SugOK'
  BY <1>2 DEF MarkOK, RecordInv, SugOK, Kept, ApprovedIn, AskedItem
<1>8. DOMAIN drain.specs \subseteq Line /\ ToWrite(image) \subseteq DOMAIN drain.specs
  BY RecordTypes, TargetElim DEF ToWrite, Specs
<1>9. /\ IsRepoint => \A l \in DOMAIN seen.wLines :
                        purchase.lines[l] = seen.wLines[l] /\ purchase.by[l] = "us"
      /\ Uncoded(purchase.lines) \subseteq DOMAIN drain.specs
  <2>1. CASE IsRepoint
    <3>1. seen.source = "repoint" /\ RepointSpecs(seen, drain.specs)
      BY <1>1, <2>1 DEF SpecsFit, IsRepoint
    <3>2. sug.wToken = purchase.token
      <4>1. seen.expected <= sug.wToken /\ sug.wToken <= purchase.token
        BY <1>1, <3>1 DEF SeenOK, Fenced, RecordInv, TokenOrder
      <4> QED BY <4>1, RecordTypes
    <3>3. Kept(seen.wLines)
      BY <1>1, <3>2 DEF RecordInv, SugOK, SeenOK
    <3> QED BY <2>1, <3>3 DEF Kept, KeptIn
  <2>2. CASE ~ IsRepoint
    <3>1. seen.source # "repoint" /\ FirstSpecs(seen, drain.specs, asked)
      BY <1>1, <2>2 DEF SpecsFit, IsRepoint
    <3> QED BY <2>2, <3>1 DEF FirstSpecs
  <2> QED BY <2>1, <2>2
<1>10. /\ ToWrite(drain.got)' = ToWrite(image) /\ IsRepoint' = IsRepoint /\ Specs' = drain.specs
       /\ Base' = purchase.token
  BY <1>2 DEF ToWrite, IsRepoint, Specs, Base
<1>11. Foreign(drain.got)' = Foreign(image)
  BY <1>2, <1>10 DEF Foreign, Specs
<1>12. purchase.token <= purchase.token /\ seen.wToken <= purchase.token
  BY <1>1, RecordTypes DEF SeenOK, RecordInv, TokenOrder
<1> HIDE DEF seen
<1>13. GotOK'
  BY <1>2, <1>9, <1>10, <1>11, <1>12 DEF GotOK, seen
<1>14. LostAnswersOK'
  <2>1. ASSUME NEW a \in replies PROVE a.base # purchase.token
    BY RecordTypes DEF RecordInv, TokenOrder
  <2> QED BY <1>10, <2>1 DEF LostAnswersOK
<1> QED BY <1>3, <1>4, <1>5, <1>6, <1>7, <1>13, <1>14 DEF RecordInv, PostOK

\* The tick reads the purchase and decides.
LEMMA GetRecordStep ==
    ASSUME Typed, RecordInv, GetPurchase
    PROVE  RecordInv'
<1> DEFINE image == [lines |-> purchase.lines, token |-> purchase.token]
           same  == image.token = IF Specs = Nothing THEN drain.seen.wToken ELSE drain.seen.expected
<1>1. drain.pc = "get" /\ UNCHANGED <<purchase, replies, staging, sug, confirm, asked>>
  BY DEF GetPurchase, qb, mirror
<1>2. SeenOK(drain.seen)
  BY <1>1 DEF RecordInv, SeenIsSug, Handling
<1>3. \/ Conclude(drain.seen, "changed_in_qbo", None, Nothing)
      \/ ToWrite(image) = {} /\ Conclude(drain.seen, "written", None, Record(image))
      \/ /\ ToWrite(image) # {} /\ Foreign(image) = {} /\ same
         /\ drain' = [drain EXCEPT !.pc = "post", !.got = image]
  BY DEF GetPurchase
<1>4. image.lines = purchase.lines /\ image.token = purchase.token
  OBVIOUS
<1>5. ToWrite(image) # {} => Specs # Nothing
  BY NothingTyped DEF ToWrite
<1> HIDE DEF image
<1>6. CASE Conclude(drain.seen, "changed_in_qbo", None, Nothing)
  BY <1>1, <1>2, <1>6, GiveUpKeeps
<1>7. CASE ToWrite(image) = {} /\ Conclude(drain.seen, "written", None, Record(image))
  BY <1>1, <1>4, <1>7, NothingToWriteKeeps
<1>8. CASE /\ ToWrite(image) # {} /\ Foreign(image) = {} /\ same
           /\ drain' = [drain EXCEPT !.pc = "post", !.got = image]
  BY <1>1, <1>4, <1>5, <1>8, GoOnKeeps
<1> QED BY <1>3, <1>6, <1>7, <1>8

\* What an update writes is what was approved, and our record will say so.
LEMMA WrittenIsApproved ==
    ASSUME Typed, RecordInv, drain.pc = "post"
    PROVE  /\ \A l \in DOMAIN Record(drain.got) : Written[l] = Record(drain.got)[l]
           /\ Uncoded(Written) = {}
           /\ ApprovedIn(Written, drain.seen)
           /\ Record(drain.got) # Nothing
           /\ IsRepoint  => DOMAIN Record(drain.got) = DOMAIN drain.seen.wLines
           /\ ~ IsRepoint => DOMAIN Record(drain.got) = ToWrite(drain.got)
<1> DEFINE seen == drain.seen
           got  == drain.got
           f    == Record(got)
<1>1. GotOK /\ SpecsFit(seen, drain.specs, asked)
  BY DEF RecordInv, PostOK, SpecsOK, Deciding
<1>2. got.lines \in [Line -> Content]
  BY RecordTypes
<1>3. /\ ToWrite(got) \subseteq DOMAIN drain.specs /\ DOMAIN drain.specs \subseteq Line
      /\ \A l \in DOMAIN drain.specs : drain.specs[l].to \in Item
      /\ DOMAIN seen.targets \subseteq Line /\ DOMAIN seen.wLines \subseteq Line
  BY RecordTypes, TargetElim, CodingElim DEF ToWrite, Specs
<1>4. /\ \A l \in ToWrite(got) : Written[l] = drain.specs[l].to
      /\ \A l \in Line \ ToWrite(got) : Written[l] = got.lines[l]
  BY <1>2, <1>3 DEF Written, Merge, Specs
<1>5. \A l \in DOMAIN drain.specs : Written[l] = drain.specs[l].to
  <2>1. \A l \in DOMAIN drain.specs : l \notin ToWrite(got) => got.lines[l] = drain.specs[l].to
    BY DEF ToWrite, Specs
  <2> QED BY <1>3, <1>4, <2>1
<1>6. Uncoded(got.lines) \subseteq DOMAIN drain.specs
  BY <1>1 DEF GotOK, Specs
<1>7. Uncoded(Written) = {}
  <2>1. ASSUME NEW l \in Line, Written[l] = Placeholder PROVE FALSE
    <3>1. l \notin DOMAIN drain.specs
      BY <1>3, <1>5, <2>1
    <3>2. got.lines[l] = Placeholder
      BY <1>3, <1>4, <2>1, <3>1
    <3> QED BY <1>6, <3>1, <3>2 DEF Uncoded
  <2> QED BY <2>1 DEF Uncoded
<1>8. CASE IsRepoint
  <2>1. seen.source = "repoint" /\ RepointSpecs(seen, drain.specs)
    BY <1>1, <1>8 DEF SpecsFit, IsRepoint
  <2>2. DOMAIN drain.specs \subseteq DOMAIN seen.wLines
    BY <1>3, <2>1 DEF RepointSpecs
  <2>3. DOMAIN f = DOMAIN seen.wLines
    BY <1>8, <2>2, RecordParts
  <2>4. ASSUME NEW l \in DOMAIN seen.wLines, l \notin DOMAIN drain.specs
        PROVE  Written[l] = seen.wLines[l]
    <3>1. got.lines[l] = seen.wLines[l]
      BY <1>1, <1>8 DEF GotOK
    <3> QED BY <1>3, <1>4, <2>4, <3>1
  <2>5. \A l \in DOMAIN f : Written[l] = f[l]
    <3>1. ASSUME NEW l \in DOMAIN drain.specs PROVE Written[l] = f[l]
      BY <1>5, <1>8, RecordParts
    <3>2. ASSUME NEW l \in DOMAIN seen.wLines, l \notin DOMAIN drain.specs PROVE Written[l] = f[l]
      <4>1. f[l] = seen.wLines[l]
        BY <1>8, <3>2, RecordParts
      <4> QED BY <2>4, <3>2, <4>1
    <3> QED BY <2>3, <3>1, <3>2
  <2>6. \A l \in DOMAIN seen.targets : Written[l] = seen.targets[l].to
    BY <1>3, <1>5, <2>1, <2>4 DEF RepointSpecs
  <2>7. f # Nothing
    BY <1>1, <1>3, <2>2, <2>3, NothingTyped DEF GotOK
  <2> QED BY <1>7, <1>8, <2>1, <2>3, <2>5, <2>6, <2>7 DEF ApprovedIn
<1>9. CASE ~ IsRepoint
  <2>1. seen.source # "repoint" /\ FirstSpecs(seen, drain.specs, asked)
    BY <1>1, <1>9 DEF SpecsFit, IsRepoint
  <2>2. DOMAIN f = ToWrite(got) /\ \A l \in ToWrite(got) : f[l] = drain.specs[l].to
    BY <1>9, RecordParts
  <2>3. f # Nothing
    BY <1>1, <2>2, NothingTyped DEF GotOK
  <2>4. \A l \in DOMAIN asked.coding : Written[l] = AskedItem(asked.coding, l, seen.code)
    BY <1>5, <2>1 DEF FirstSpecs
  <2> QED BY <1>4, <1>7, <1>9, <2>1, <2>2, <2>3, <2>4 DEF ApprovedIn, FirstSpecs
<1> QED BY <1>8, <1>9

\* A purchase that has moved on: the record speaks of an earlier one, whoever moved it.
LEMMA PurchaseMoves ==
    ASSUME Typed, RecordInv, UNCHANGED <<staging, sug, confirm>>,
           purchase'.token = purchase.token + 1,
           \A a \in replies' :
              a \in replies \/ (a.base = purchase.token /\ a.token = purchase.token + 1)
    PROVE  TokenOrder' /\ FenceOrder' /\ SugOK'
<1>1. /\ purchase.token \in Nat /\ sug.wToken \in Nat /\ staging.token \in Nat
      /\ \A a \in replies : a.base \in Nat /\ a.token \in Nat
  BY RecordTypes
<1>2. TokenOrder'
  BY <1>1 DEF RecordInv, TokenOrder
<1>3. FenceOrder'
  BY DEF RecordInv, FenceOrder, Fenced, CallFenced
<1>4. sug.wToken # purchase'.token
  BY <1>1 DEF RecordInv, TokenOrder
<1> QED BY <1>2, <1>3, <1>4 DEF SugOK

\* A tick that goes on with what it has read before.
LEMMA TickIsPassed ==
    ASSUME Typed, RecordInv, UNCHANGED <<staging, sug, drain, asked>>,
           purchase'.token = purchase.token + 1
    PROVE  SeenIsSug' /\ SpecsOK' /\ MarkOK' /\ (drain.pc = "post" => GotOK')
<1>1. /\ purchase.token \in Nat /\ sug.wToken \in Nat /\ staging.token \in Nat
      /\ drain.seen.expected \in Nat /\ drain.seen.wToken \in Nat /\ drain.got.token \in Nat
      /\ drain.token \in Nat
  BY RecordTypes
<1>2. SeenIsSug'
  BY DEF RecordInv, SeenIsSug, SeenOK, Fenced, Handling
<1>3. SpecsOK'
  <2>1. SUFFICES ASSUME Deciding PROVE SpecsFit(drain.seen, drain.specs, asked)'
    BY DEF SpecsOK, Deciding
  <2>2. SeenOK(drain.seen) /\ SpecsFit(drain.seen, drain.specs, asked)
    BY <2>1 DEF RecordInv, SeenIsSug, Handling, SpecsOK, Deciding
  <2>3. drain.seen.source # "repoint" => drain.seen.expected # purchase'.token
    BY <1>1, <2>2 DEF SeenOK, Fenced, RecordInv, TokenOrder
  <2> QED BY <2>2, <2>3 DEF SpecsFit, RepointSpecs, FirstSpecs, AskedItem
<1>4. MarkOK'
  <2>1. NewToken' = NewToken /\ NewToken \in Nat
    BY <1>1 DEF NewToken
  <2> QED BY <1>1, <2>1 DEF RecordInv, MarkOK
<1>5. ASSUME drain.pc = "post" PROVE GotOK'
  <2>1. GotOK /\ Base \in Nat
    BY <1>1, <1>5 DEF RecordInv, PostOK, Base
  <2>2. Base <= purchase'.token /\ purchase'.token # Base
    BY <1>1, <2>1 DEF GotOK
  <2> QED BY <2>1, <2>2, PlanIsDrains DEF GotOK
<1> QED BY <1>2, <1>3, <1>4, <1>5

\* An update that QBO makes: the purchase is as approved, under a new SyncToken.
LEMMA UpdateIsKept ==
    ASSUME Typed, RecordInv, drain.pc = "post", QboUpdates, UNCHANGED <<staging, sug, confirm>>
    PROVE  /\ purchase'.token = purchase.token + 1 /\ purchase.token = Base
           /\ purchase'.lines = Written
           /\ KeptIn(purchase'.lines, purchase'.by, Record(drain.got))
           /\ TokenOrder' /\ FenceOrder' /\ SugOK'
<1> DEFINE f == Record(drain.got)
<1>1. /\ GotOK /\ purchase.token = Base /\ purchase.lines = drain.got.lines
      /\ purchase.by \in [Line -> {"us", "human"}]
  BY RecordTypes DEF RecordInv, PostOK, QboUpdates, GotOK, Base
<1>2. /\ purchase'.token = purchase.token + 1 /\ purchase'.lines = Written
      /\ purchase'.by = Merge(purchase.by, [l \in ToWrite(drain.got) |-> "us"])
  BY <1>1 DEF QboUpdates, Written
<1>3. \A a \in replies' :
         a \in replies \/ (a.base = purchase.token /\ a.token = purchase.token + 1)
  BY <1>1 DEF QboUpdates, Base
<1>4. TokenOrder' /\ FenceOrder' /\ SugOK'
  BY <1>2, <1>3, PurchaseMoves
<1>5. ToWrite(drain.got) \subseteq Line /\ DOMAIN drain.seen.wLines \subseteq Line
  BY RecordTypes, TargetElim, CodingElim DEF ToWrite, Specs
<1>6. \A l \in DOMAIN f : purchase'.by[l] = "us"
  <2>1. \A l \in ToWrite(drain.got) : purchase'.by[l] = "us"
    BY <1>2 DEF Merge
  <2>2. CASE IsRepoint
    <3>1. \A l \in DOMAIN drain.seen.wLines : purchase.by[l] = "us"
      BY <1>1, <2>2 DEF GotOK
    <3>2. \A l \in Line : l \notin ToWrite(drain.got) => purchase'.by[l] = purchase.by[l]
      BY <1>1, <1>2 DEF Merge
    <3> QED BY <1>5, <2>1, <2>2, <3>1, <3>2, WrittenIsApproved
  <2>3. CASE ~ IsRepoint
    BY <2>1, <2>3, WrittenIsApproved
  <2> QED BY <2>2, <2>3
<1>7. Uncoded(Written) = {} /\ \A l \in DOMAIN f : Written[l] = f[l]
  BY WrittenIsApproved
<1> HIDE DEF f
<1>8. KeptIn(purchase'.lines, purchase'.by, f)
  BY <1>2, <1>6, <1>7 DEF KeptIn
<1> QED BY <1>1, <1>2, <1>4, <1>8 DEF f

\* The tick concludes with the answer of an update, its own or a remembered one.
LEMMA AnswerKeeps ==
    ASSUME Typed, RecordInv, drain.pc = "post", UNCHANGED <<staging, sug, confirm, asked>>,
           TokenOrder', FenceOrder', SugOK',
           NEW token \in Nat, token # None, drain.seen.wToken <= token, token <= purchase'.token,
           token = purchase'.token =>
               /\ purchase'.lines = Written
               /\ KeptIn(purchase'.lines, purchase'.by, Record(drain.got)),
           Conclude(drain.seen, "written", token, Record(drain.got))
    PROVE  RecordInv'
<1> DEFINE f == Record(drain.got)
<1>1. f # Nothing /\ ApprovedIn(Written, drain.seen)
  BY WrittenIsApproved
<1>2. SeenOK(drain.seen)
  BY DEF RecordInv, SeenIsSug, Handling
<1> HIDE DEF f
<1>3. /\ drain'.pc = "mark" /\ drain'.seen = drain.seen /\ drain'.token = token
      /\ drain'.lines = f
  BY DEF Conclude, IdleDrain, f
<1>4. NewToken' = token /\ NewLines' = f
  BY <1>1, <1>3 DEF NewToken, NewLines
<1>5. token = purchase'.token =>
         /\ KeptIn(purchase'.lines, purchase'.by, f)
         /\ ApprovedIn(purchase.lines, drain.seen)'
  BY <1>1, <1>3 DEF f, ApprovedIn, AskedItem
<1>6. MarkOK'
  BY <1>3, <1>4, <1>5 DEF MarkOK, Kept
<1>7. SeenIsSug'
  BY <1>2, <1>3 DEF SeenIsSug, SeenOK, Fenced
<1>8. SpecsOK' /\ PostOK'
  BY <1>3 DEF SpecsOK, Deciding, PostOK
<1> QED BY <1>6, <1>7, <1>8 DEF RecordInv

\* The update, when QBO tells a request by all it says.
LEMMA PostRecordStep ==
    ASSUME Typed, RecordInv, ~ RequestIdAlone, PostUpdate
    PROVE  RecordInv'
<1>1. drain.pc = "post" /\ UNCHANGED <<staging, sug, confirm, asked>>
  BY DEF PostUpdate, mirror
<1>2. SeenOK(drain.seen) /\ GotOK /\ LostAnswersOK
  BY <1>1 DEF RecordInv, SeenIsSug, Handling, PostOK
<1>3. /\ drain.seen.wToken \in Nat /\ purchase.token \in Nat /\ Base \in Nat
      /\ \A a \in replies : a.base \in Nat /\ a.token \in Nat
  BY RecordTypes DEF Base
<1>4. CASE QboUpdates /\ Conclude(drain.seen, "written", purchase.token + 1, Record(drain.got))
  <2> DEFINE token == purchase.token + 1
  <2>1. /\ purchase'.token = token /\ purchase.token = Base /\ purchase'.lines = Written
        /\ KeptIn(purchase'.lines, purchase'.by, Record(drain.got))
        /\ TokenOrder' /\ FenceOrder' /\ SugOK'
    BY <1>1, <1>4, UpdateIsKept
  <2>2. token \in Nat /\ token # None /\ drain.seen.wToken <= token /\ token <= purchase'.token
    BY <1>2, <1>3, <2>1 DEF GotOK
  <2> HIDE DEF token
  <2>3. Conclude(drain.seen, "written", token, Record(drain.got))
    BY <1>4 DEF token
  <2> QED BY <1>1, <2>1, <2>2, <2>3, AnswerKeeps
<1>5. ASSUME UNCHANGED qb, NEW a \in Remembered,
             Conclude(drain.seen, "written", a.token, Record(drain.got))
      PROVE  RecordInv'
  <2>1. UNCHANGED <<purchase, replies>>
    BY <1>5 DEF qb
  <2>2. a \in replies /\ a.base = Base
    BY DEF Remembered, Base
  <2>3. /\ a.token \in Nat /\ a.token # None /\ drain.seen.wToken <= a.token
        /\ a.token <= purchase'.token
    <3>1. a.token = Base + 1 /\ a.token <= purchase.token
      BY <2>2 DEF RecordInv, TokenOrder
    <3> QED BY <1>2, <1>3, <2>1, <3>1 DEF GotOK
  <2>4. a.token = purchase.token => purchase.lines = Written /\ Kept(Record(drain.got))
    BY <1>2, <2>2 DEF LostAnswersOK
  <2>5. a.token = purchase'.token =>
           /\ purchase'.lines = Written
           /\ KeptIn(purchase'.lines, purchase'.by, Record(drain.got))
    BY <2>1, <2>4 DEF Kept
  <2>6. TokenOrder' /\ SugOK'
    BY <1>1, <2>1 DEF RecordInv, TokenOrder, SugOK, Kept, ApprovedIn, AskedItem
  <2>7. FenceOrder'
    BY <1>1, <2>1 DEF RecordInv, FenceOrder, Fenced, CallFenced
  <2> QED BY <1>1, <1>5, <2>3, <2>5, <2>6, <2>7, AnswerKeeps
<1>6. CASE UNCHANGED qb /\ Conclude(drain.seen, "changed_in_qbo", None, Nothing)
  BY <1>1, <1>2, <1>6, GiveUpKeeps DEF qb
<1> QED BY <1>4, <1>5, <1>6 DEF PostUpdate

\* The update whose answer is lost: what it did is remembered.
LEMMA LostRecordStep ==
    ASSUME Typed, RecordInv, PostAnswerLost
    PROVE  RecordInv'
<1>1. drain.pc = "post" /\ QboUpdates /\ UNCHANGED <<staging, sug, confirm, asked>>
  BY DEF PostAnswerLost, mirror
<1>2. /\ purchase'.token = purchase.token + 1 /\ purchase.token = Base /\ purchase'.lines = Written
      /\ KeptIn(purchase'.lines, purchase'.by, Record(drain.got))
      /\ TokenOrder' /\ FenceOrder' /\ SugOK'
  BY <1>1, UpdateIsKept
<1>3. CASE Finish("retry")
  <2>1. drain'.pc = "unlock"
    BY <1>3 DEF Finish, IdleDrain
  <2> QED BY <1>2, <2>1
          DEF RecordInv, SeenIsSug, Handling, SpecsOK, Deciding, PostOK, MarkOK
<1>4. CASE UNCHANGED drain
  <2>1. SeenIsSug' /\ SpecsOK' /\ MarkOK' /\ GotOK'
    BY <1>1, <1>2, <1>4, TickIsPassed
  <2>2. KeptIn(purchase'.lines, purchase'.by, Record(drain.got)')
    BY <1>1, <1>2, <1>4, PlanIsDrains
  <2>3. Kept(Record(drain.got))'
    BY <2>2 DEF Kept
  <2>4. LostAnswersOK'
    BY <1>2, <1>4, <2>3, PlanIsDrains DEF LostAnswersOK
  <2> QED BY <1>2, <2>1, <2>4 DEF RecordInv, PostOK
<1> QED BY <1>3, <1>4 DEF PostAnswerLost

\* The mark: it is fenced on the revision, so the verdict is about what the row says.
LEMMA MarkRecordStep ==
    ASSUME Typed, RecordInv, MarkSuggestion
    PROVE  RecordInv'
<1>1. drain.pc = "mark" /\ UNCHANGED <<purchase, replies, staging, confirm, asked>> /\ drain'.pc = "unlock"
  BY DEF MarkSuggestion, qb, mirror, Finish, IdleDrain
<1>2. CASE sug' = sug
  BY <1>1, <1>2, IdleKeeps DEF Handling
<1>3. CASE /\ sug.seq = drain.seen.seq
           /\ sug' = [sug EXCEPT !.status = drain.verdict,
                                 !.wToken = IF drain.token # None THEN drain.token ELSE @,
                                 !.wLines = IF drain.lines # Nothing THEN drain.lines ELSE @]
  <2>1. SeenOK(drain.seen)
    BY <1>1 DEF RecordInv, SeenIsSug, Handling
  <2>2. /\ sug'.status = drain.verdict /\ sug'.wToken = NewToken /\ sug'.wLines = NewLines
        /\ sug'.source = sug.source /\ sug'.expected = sug.expected /\ sug'.seq = sug.seq
        /\ sug'.code = sug.code /\ sug'.targets = sug.targets
    BY <1>3, <2>1, RecordTypes DEF Suggestion, NewToken, NewLines, SeenOK
  <2>3. /\ sug.wToken <= NewToken /\ NewToken <= purchase.token
        /\ NewToken = purchase.token =>
              /\ Kept(NewLines)
              /\ drain.verdict = "written" => ApprovedIn(purchase.lines, drain.seen)
    BY <1>1, <2>1 DEF RecordInv, MarkOK, SeenOK
  <2>4. /\ NewToken \in Nat /\ sug.wToken \in Nat /\ sug.expected \in Nat
        /\ \A p \in Confirmer : confirm[p].token \in Nat
    BY RecordTypes DEF NewToken
  <2>5. TokenOrder'
    BY <1>1, <2>2, <2>3 DEF RecordInv, TokenOrder
  <2>6. Fenced(sug.source, sug.expected)'
    BY <1>1, <2>2, <2>3, <2>4 DEF RecordInv, FenceOrder, Fenced
  <2>7. ASSUME NEW p \in Confirmer PROVE CallFenced(p)'
    <3>1. CallFenced(p)
      BY DEF RecordInv, FenceOrder
    <3> QED BY <1>1, <2>2, <2>3, <2>4, <3>1 DEF CallFenced, Fenced
  <2>8. SugOK'
    <3>1. drain.seen.source = sug.source /\ drain.seen.code = sug.code
          /\ drain.seen.targets = sug.targets
      BY <1>3, <2>1 DEF SeenOK
    <3>2. ASSUME NewToken = purchase.token
          PROVE  KeptIn(purchase'.lines, purchase'.by, sug'.wLines)
      BY <1>1, <2>2, <2>3, <3>2 DEF Kept
    <3>3. ASSUME NewToken = purchase.token, sug'.status = "written"
          PROVE  ApprovedIn(purchase.lines, sug)'
      BY <1>1, <1>3, <2>2, <2>3, <3>1, <3>3 DEF ApprovedIn, AskedItem
    <3> QED BY <1>1, <2>2, <3>2, <3>3 DEF SugOK, Kept
  <2>9. FenceOrder'
    BY <2>6, <2>7 DEF FenceOrder
  <2> QED BY <1>1, <2>5, <2>8, <2>9
          DEF RecordInv, SeenIsSug, Handling, SpecsOK, Deciding, PostOK, MarkOK
<1> QED BY <1>2, <1>3 DEF MarkSuggestion

\* The rest of the tick: it decides nothing, or nothing but its row and its lock.
LEMMA TickRecordStep ==
    ASSUME Typed, RecordInv, ~ RequestIdAlone,
           \/ ClaimOrReclaim \/ DrainLocks \/ DrainParks \/ DrainFindsLocked \/ Handle \/ DrainCrash
    PROVE  RecordInv'
<1>1. \A result : Finish(result) => drain'.pc = "unlock"
  BY DEF Finish, IdleDrain
<1>2. \A label : DrainGoto(label) => drain'.pc = label
  BY DEF DrainGoto, Typed, DrainOK
<1>3. \A p \in Confirmer : CallFenced(p)
  BY DEF RecordInv, FenceOrder
<1>4. ASSUME NEW r \in Row, ClaimRow(r) \/ ReclaimRow(r) PROVE RecordInv'
  <2>1. UNCHANGED <<purchase, replies, staging, sug, confirm, asked>>
    BY <1>4 DEF ClaimRow, ReclaimRow, qb, mirror
  <2>2. ~ Handling'
    <3>1. drain'.pc = "lock" \/ drain'.pc = "idle"
      BY <1>4 DEF ClaimRow, ReclaimRow, IdleDrain
    <3> QED BY <3>1 DEF Handling
  <2> QED BY <2>1, <2>2, IdleKeeps
<1>5. CASE DrainLocks \/ DrainUnlocks
  <2>1. /\ UNCHANGED <<purchase, replies, staging, sug, confirm, asked>>
        /\ drain'.pc = "read" \/ drain'.pc = "settle"
    BY <1>2, <1>5 DEF DrainLocks, DrainUnlocks, qb, mirror
  <2> QED BY <2>1, IdleKeeps DEF Handling
<1>6. CASE DrainParks \/ DrainFindsLocked
  <2>1. UNCHANGED <<purchase, replies, staging, sug, confirm, asked>> /\ drain'.pc = "settle"
    BY <1>6 DEF DrainParks, DrainFindsLocked, qb, mirror, Typed, DrainOK
  <2> QED BY <2>1, IdleKeeps DEF Handling
<1>7. CASE SettleRow \/ DrainCrash
  <2>1. UNCHANGED <<purchase, replies, staging, sug, confirm, asked>> /\ drain'.pc = "idle"
    BY <1>7 DEF SettleRow, DrainCrash, qb, mirror, IdleDrain
  <2> QED BY <2>1, IdleKeeps DEF Handling
<1>8. CASE DrainReadFails \/ PostFails \/ PostRefused \/ MarkSuggestionFails
  <2>1. UNCHANGED <<purchase, replies, staging, sug, confirm, asked>> /\ drain'.pc = "unlock"
    BY <1>1, <1>8 DEF DrainReadFails, PostFails, PostRefused, MarkSuggestionFails, qb, mirror
  <2> QED BY <2>1, IdleKeeps DEF Handling
<1>9. CASE ReadSuggestion \/ GetPurchase \/ PostUpdate \/ PostAnswerLost \/ MarkSuggestion
  BY <1>9, ReadRecordStep, GetRecordStep, PostRecordStep, LostRecordStep, MarkRecordStep
<1> QED BY <1>4, <1>5, <1>6, <1>7, <1>8, <1>9 DEF ClaimOrReclaim, Handle

\* A pull makes the staging table agree with the purchase.
LEMMA PullRecordStep ==
    ASSUME Typed, RecordInv, PullPurchase
    PROVE  RecordInv'
<1>1. /\ UNCHANGED <<purchase, replies, sug, confirm, drain, asked>>
      /\ Uncoded(purchase.lines) \subseteq staging'.uncoded /\ staging'.token = purchase.token
  BY DEF PullPurchase, qb
<1>2. /\ purchase.token \in Nat /\ staging.token \in Nat /\ staging.token <= purchase.token
      /\ sug.expected \in Nat /\ drain.seen.expected \in Nat
      /\ \A p \in Confirmer : confirm[p].token \in Nat
  BY RecordTypes DEF RecordInv, TokenOrder
<1>3. TokenOrder'
  BY <1>1, <1>2 DEF RecordInv, TokenOrder
<1>4. \A source : \A token \in Nat : Fenced(source, token) => Fenced(source, token)'
  BY <1>1, <1>2 DEF Fenced
<1>5. FenceOrder'
  <2>1. Fenced(sug.source, sug.expected)'
    BY <1>1, <1>2 DEF RecordInv, FenceOrder, Fenced
  <2>2. ASSUME NEW p \in Confirmer PROVE CallFenced(p)'
    <3>1. CallFenced(p)
      BY DEF RecordInv, FenceOrder
    <3> QED BY <1>1, <1>2, <3>1 DEF CallFenced, Fenced
  <2> QED BY <2>1, <2>2 DEF FenceOrder
<1>6. SeenIsSug'
  BY <1>1, <1>2 DEF RecordInv, SeenIsSug, SeenOK, Fenced, Handling
<1>7. SpecsOK'
  <2>1. FirstSpecs(drain.seen, drain.specs, asked) => FirstSpecs(drain.seen, drain.specs, asked)'
    BY <1>1 DEF FirstSpecs, AskedItem
  <2>2. RepointSpecs(drain.seen, drain.specs) => RepointSpecs(drain.seen, drain.specs)'
    BY <1>1 DEF RepointSpecs
  <2> QED BY <1>1, <2>1, <2>2 DEF RecordInv, SpecsOK, Deciding, SpecsFit
<1>8. MarkOK' /\ SugOK'
  BY <1>1 DEF RecordInv, MarkOK, SugOK, NewToken, NewLines, Kept, ApprovedIn, AskedItem
<1>9. PostOK'
  BY <1>1, PostFrame DEF RecordInv
<1> QED BY <1>3, <1>5, <1>6, <1>7, <1>8, <1>9 DEF RecordInv

\* A person's edit: no record speaks of the purchase any more.
LEMMA EditRecordStep ==
    ASSUME Typed, RecordInv, NEW l \in Line, NEW c \in Content, HumanEdit(l, c)
    PROVE  RecordInv'
<1>1. UNCHANGED <<replies, staging, sug, confirm, drain, asked>> /\ purchase'.token = purchase.token + 1
  BY DEF HumanEdit, mirror, Typed, PurchaseOK
<1>2. TokenOrder' /\ FenceOrder' /\ SugOK'
  BY <1>1, PurchaseMoves
<1>3. SeenIsSug' /\ SpecsOK' /\ MarkOK' /\ (drain.pc = "post" => GotOK')
  BY <1>1, TickIsPassed
<1>4. LostAnswersOK'
  <2>1. ASSUME NEW a \in replies PROVE a.token # purchase'.token
    <3>1. a.token \in Nat /\ purchase.token \in Nat /\ a.token <= purchase.token
      BY RecordTypes DEF RecordInv, TokenOrder
    <3> QED BY <1>1, <3>1
  <2> QED BY <1>1, <2>1 DEF LostAnswersOK
<1> QED BY <1>1, <1>2, <1>3, <1>4 DEF RecordInv, PostOK

\* Everybody else.
LEMMA OthersRecordStep ==
    ASSUME Typed, RecordInv, Others
    PROVE  RecordInv'
<1>1. ASSUME UNCHANGED <<confirm, staging>>, sug'.wToken = sug.wToken
      PROVE  \A p \in Confirmer : CallFenced(p) => CallFenced(p)'
  BY <1>1 DEF CallFenced, Fenced
<1>2. \A p \in Confirmer : CallFenced(p)
  BY DEF RecordInv, FenceOrder
<1>3. CASE LockDrops \/ BlockWrites \/ UnblockWrites
  <2>1. UNCHANGED <<purchase, replies, staging, sug, drain, confirm, asked>>
    BY <1>3 DEF LockDrops, BlockWrites, UnblockWrites, qb, mirror
  <2> QED BY <1>1, <1>2, <2>1, QuietKeeps
<1>4. ASSUME NEW l \in Line, NEW i \in Item \cup {NoItem}, CodeLocally(l, i) PROVE RecordInv'
  <2>1. UNCHANGED <<purchase, replies, staging, sug, drain, confirm, asked>>
    BY <1>4 DEF CodeLocally, qb
  <2> QED BY <1>1, <1>2, <2>1, QuietKeeps
<1>5. CASE FlagSuggestion
  <2>1. /\ UNCHANGED <<purchase, replies, staging, drain, confirm, asked>>
        /\ sug' = [sug EXCEPT !.status = "flagged"]
    BY <1>5 DEF FlagSuggestion, qb, mirror
  <2>2. sug'.wToken = sug.wToken
    BY <2>1, RecordTypes DEF Suggestion
  <2> QED BY <1>1, <2>1, <2>2, StatusKeeps
<1>6. CASE ResolveExternally
  <2>1. /\ UNCHANGED <<purchase, replies, staging, drain, confirm, asked>>
        /\ sug' = [sug EXCEPT !.status = "resolved_externally"]
    BY <1>6 DEF ResolveExternally, qb, mirror
  <2>2. sug'.wToken = sug.wToken
    BY <2>1, RecordTypes DEF Suggestion
  <2> QED BY <1>1, <2>1, <2>2, StatusKeeps
<1> QED BY <1>3, <1>4, <1>5, <1>6, PullRecordStep, EditRecordStep DEF Others

\* Nothing is recorded to begin with, ...
LEMMA RecordInit == Init => RecordInv
<1> SUFFICES ASSUME Init PROVE RecordInv
  OBVIOUS
<1>1. /\ drain.pc = "idle" /\ sug.wToken = None /\ sug.source = "none" /\ sug.expected = None
      /\ purchase.token = 1 /\ staging.token = 1 /\ staging.uncoded = Uncoded(purchase.lines)
      /\ replies = {}
      /\ \A p \in Confirmer : /\ confirm[p].op = "none" /\ confirm[p].token = None
                              /\ confirm[p].pc = "idle"
  BY DEF Init, IdleDrain, IdleConfirm, Unapproved
<1>2. TokenOrder
  BY <1>1 DEF TokenOrder
<1>3. FenceOrder
  BY <1>1 DEF FenceOrder, CallFenced, Fenced
<1>4. SeenIsSug /\ SpecsOK /\ PostOK /\ MarkOK
  BY <1>1 DEF SeenIsSug, Handling, SpecsOK, Deciding, PostOK, MarkOK
<1>5. SugOK
  BY <1>1 DEF SugOK
<1> QED BY <1>2, <1>3, <1>4, <1>5 DEF RecordInv

\* ... every step keeps the record true, ...
LEMMA RecordStep ==
    ASSUME Typed, RecordInv, ~ RequestIdAlone, [Next]_vars
    PROVE  RecordInv'
<1>1. CASE UNCHANGED vars
  <2>1. UNCHANGED <<purchase, replies, staging, sug, drain, confirm, asked>>
    BY <1>1 DEF vars
  <2>2. \A p \in Confirmer : CallFenced(p)'
    BY <2>1 DEF RecordInv, FenceOrder, CallFenced, Fenced
  <2> QED BY <2>1, <2>2, QuietKeeps
<1> QED BY <1>1, CallRecordStep, TickRecordStep, OthersRecordStep DEF Next, Call

\* ... so RecordInv is an invariant when QBO tells a request by all it says.
LEMMA RecordInvHolds == ~ RequestIdAlone => (Spec => []RecordInv)
<1> SUFFICES ASSUME ~ RequestIdAlone PROVE Spec => []RecordInv
  OBVIOUS
<1>1. Typed /\ RecordInv /\ [Next]_vars => RecordInv'
  BY RecordStep
<1> QED BY <1>1, RecordInit, TypedHolds, PTL DEF Spec

\* While QBO still has the SyncToken of our last write, written_lines of the suggestion is
\* what the purchase carries: through lost answers, resends, crashes, and marks that are
\* skipped because the revision has moved on.
THEOREM WrittenRecordIsTrue == ~ RequestIdAlone => (Spec => []RecordIsTrue)
<1> SUFFICES ASSUME ~ RequestIdAlone PROVE Spec => []RecordIsTrue
  OBVIOUS
<1>1. RecordInv => RecordIsTrue
  BY DEF RecordInv, SugOK, Kept, KeptIn, RecordIsTrue
<1> QED BY <1>1, RecordInvHolds, PTL

\* A suggestion that says written, on a purchase nobody has touched since, has in QBO what
\* its current revision approved: the targets of a repoint, the confirmed item of a single
\* line, or the local coding of every line of a submission, as the tick that served this
\* revision found it.  recode_purchase_lines never reports an earlier approval for a later.
THEOREM WrittenMeansApproved == ~ RequestIdAlone => (Spec => []ApprovalIsWritten)
<1> SUFFICES ASSUME ~ RequestIdAlone PROVE Spec => []ApprovalIsWritten
  OBVIOUS
<1>1. RecordInv => ApprovalIsWritten
  BY DEF RecordInv, SugOK, ApprovedIn, AskedItem, ApprovalIsWritten
<1> QED BY <1>1, RecordInvHolds, PTL

\* No step of the drain changes a line that somebody categorised in QBO: the check of the
\* foreign lines and the SyncToken fence stop every update that would.
THEOREM PeoplesWorkSurvives == ~ RequestIdAlone => (Spec => HumanWorkSurvives)
<1> SUFFICES ASSUME ~ RequestIdAlone PROVE Spec => HumanWorkSurvives
  OBVIOUS
<1> DEFINE Survives == \A l \in Line : purchase.by[l] = "human" /\ purchase.lines[l] # Placeholder
                                          => purchase'.lines[l] = purchase.lines[l]
<1>1. ASSUME Typed, RecordInv, QboUpdates, drain.pc = "post" PROVE Survives
  <2>1. SUFFICES ASSUME NEW l \in Line, purchase.by[l] = "human", purchase.lines[l] # Placeholder
                 PROVE  purchase'.lines[l] = purchase.lines[l]
    OBVIOUS
  <2>2. /\ GotOK /\ SpecsFit(drain.seen, drain.specs, asked) /\ purchase.token = Base
        /\ purchase.lines \in [Line -> Content] /\ purchase.lines = drain.got.lines
    BY <1>1, RecordTypes DEF RecordInv, PostOK, SpecsOK, Deciding, QboUpdates, GotOK, Base
  <2>3. l \notin ToWrite(drain.got)
    <3>1. SUFFICES ASSUME l \in ToWrite(drain.got) PROVE FALSE
      OBVIOUS
    <3>2. l \in DOMAIN drain.specs /\ purchase.lines[l] = drain.specs[l].from
      BY <2>1, <2>2, <3>1 DEF GotOK, Foreign, ToWrite, Specs
    <3>3. CASE IsRepoint
      <4>1. l \in DOMAIN drain.seen.wLines
        BY <2>2, <3>2, <3>3 DEF SpecsFit, RepointSpecs, IsRepoint
      <4> QED BY <2>1, <2>2, <3>3, <4>1 DEF GotOK
    <3>4. CASE ~ IsRepoint
      <4>1. purchase.lines[l] = NoItem
        BY <2>2, <3>2, <3>4 DEF SpecsFit, FirstSpecs, IsRepoint
      <4> QED BY <2>2, <4>1
    <3> QED BY <3>3, <3>4
  <2>4. purchase'.lines = Merge(purchase.lines, [k \in ToWrite(drain.got) |-> Specs[k].to])
    BY <1>1 DEF QboUpdates
  <2> QED BY <2>2, <2>3, <2>4 DEF Merge
<1>2. Next /\ drain' # drain => UNCHANGED purchase \/ (QboUpdates /\ drain.pc = "post")
  BY DEF Next, StartConfirm, GoOnConfirming, ConfirmByHand, CheckSubmit, Probe, ConfirmSubmit,
         ComputeRepoint, RecordConfirmation, RecordWithOldToken, FindRow, InsertRow, MarkEnqueued, ConfirmCrash,
         ClaimOrReclaim, ClaimRow, ReclaimRow, DrainLocks, DrainParks, DrainFindsLocked, Handle,
         ReadSuggestion, GetPurchase, DrainReadFails, PostUpdate, PostAnswerLost, PostFails,
         PostRefused, MarkSuggestion, MarkSuggestionFails, DrainUnlocks, SettleRow, DrainCrash,
         Others, LockDrops, PullPurchase, FlagSuggestion, ResolveExternally, BlockWrites,
         UnblockWrites, HumanEdit, CodeLocally, qb
<1>3. Typed /\ RecordInv /\ [Next]_vars => [drain' # drain => Survives]_vars
  BY <1>1, <1>2
<1> QED BY <1>3, RecordInvHolds, TypedHolds, PTL DEF Spec, HumanWorkSurvives
=============================================================================
