--------------------------- MODULE ArchiveProofs ---------------------------
(***************************************************************************)
(* For every set of documents and names: no document is lost, whatever     *)
(* fails; and, as long as nothing but the mark of an undo and transfers    *)
(* within a drive fail, the ledger and the disk stay aligned.              *)
(***************************************************************************)
EXTENDS Archive, SequenceTheorems, TLAPS

-----------------------------------------------------------------------------
(* Types.                                                                    *)

Outcome == Placed \union {"error"}
Signatures == Paths \X Docs
Places == Paths \union {NoPath}
Row == [doc : Docs, signature : Signatures \union {NoSignature}, outcome : Outcome,
        destination : Places, reverted : BOOLEAN]
Job == [task : {"none", "file", "undo", "restore", "missing"},
        step : {"done", "place", "transfer", "copying", "unlink", "record", "remember", "mark"},
        source : Places, target : Places, origin : Places,
        doc : Docs \union {Nothing}, outcome : Outcome, row : Nat]

(* Which fields a job has at which step.                                     *)
JobShape ==
    /\ job.step = "done" <=> job.task = "none"
    /\ job.step \in {"place", "transfer", "copying", "unlink"} =>
          /\ job.task \in {"file", "undo", "restore"} /\ job.source \in Paths
          /\ job.task = "file" => job.outcome \in Placed
    /\ job.step \in {"transfer", "copying", "unlink"} => job.target \in Paths
    /\ job.step \in {"record", "remember"} => job.task = "file"
    /\ job.step = "mark" => job.task \in {"undo", "missing"}
    /\ job.task = "file" => job.source \in Paths /\ job.doc \in Docs
    /\ job.task = "undo" /\ job.step = "mark" => job.target \in Paths
    /\ job.task \in {"undo", "restore"} => job.origin \in Paths
    /\ job.task = "restore" => job.step \in {"place", "transfer", "copying", "unlink"}

TypeOK ==
    /\ disk \in [Paths -> Docs \union {Nothing}]
    /\ torn \subseteq Paths
    /\ rows \in Seq(Row) /\ marks \subseteq Signatures
    /\ durable \in [rows : Seq(Row), marks : SUBSET Signatures]
    /\ memory \subseteq Signatures
    /\ monitor \in {"off"} \union Modes
    /\ job \in Job
    /\ kept \subseteq Docs

-----------------------------------------------------------------------------
(* Nothing is lost: the strengthening.                                       *)

(* Only what is there is torn; the target of a transfer is free until it is  *)
(* written; from then on it holds what the source holds, and all of it       *)
(* before the source goes, unless the user deleted the document.             *)
Transferred ==
    /\ \A p \in torn : disk[p] # Nothing
    /\ job.step = "transfer" => disk[job.target] = Nothing
    /\ job.step \in {"copying", "unlink"} /\ Exists(job.source) /\ disk[job.source] \in kept =>
          job.target # job.source /\ disk[job.target] = disk[job.source]
    /\ job.step = "unlink" /\ Exists(job.source) /\ disk[job.source] \in kept
          /\ job.source \notin torn => job.target \notin torn

Shape == TypeOK /\ JobShape /\ Transferred

(* Nobody writes where the engine is about to write.                         *)
Uncollided == ~MayCollide \/ Placeable = {}

-----------------------------------------------------------------------------
(* The ledger and the disk: the strengthening.                               *)

(* What may fail: transfers within a drive and the mark of an undo.          *)
Undisturbed ==
    /\ ~CrossDrive /\ ~RecordMayFail /\ ~CommitMayFail /\ ~MayCrash /\ ~UserMayClear
    /\ Placeable = {}

(* The target of a filing whose row is still to come.                        *)
Fresh == {p \in {job.target} : job.task = "file" /\ job.step \in {"copying", "record"}}

Committed == durable = [rows |-> rows, marks |-> marks]

(* A row has a destination if the file was placed, in the outcome's folder.  *)
RowShape == \A i \in DOMAIN rows :
    /\ rows[i].destination = NoPath <=> rows[i].outcome = "error"
    /\ rows[i].outcome # "error" =>
          FolderOf(rows[i].destination) = FolderOfOutcome[rows[i].outcome]

Complete(p) == p \in Paths \ torn /\ disk[p] # Nothing

(* The row of the file at a path: the newest one that names the path and, in *)
(* the archive, the newest one of its invoice.                               *)
Covers(i, p) ==
    /\ i \in Undoable /\ rows[i].destination = p /\ rows[i].doc = disk[p]
    /\ \A j \in Undoable : rows[j].destination = p => j <= i
    /\ FolderOf(p) = "archive" =>
          \A j \in Undoable : rows[j].outcome = "filed" /\ SameInvoice(rows[j].doc, disk[p]) => j <= i

Covered == \A p \in Paths :
    Complete(p) /\ FolderOf(p) # "input" /\ p \notin Fresh => \E i \in DOMAIN rows : Covers(i, p)

(* A filing: what the source and the target hold; and that no complete       *)
(* download of the same invoice is in the archive.                           *)
FileJob == job.task = "file" =>
    /\ job.step \in {"place", "transfer", "copying", "record", "remember"}
    /\ FolderOf(job.source) \in {"input"} \union Pending
    /\ job.step \in {"place", "transfer", "copying", "record"} => disk[job.source] \in {job.doc, Nothing}
    /\ job.step = "record" => (job.target = NoPath <=> job.outcome = "error")
    /\ job.step \in {"transfer", "copying", "record"} /\ job.outcome # "error" =>
          FolderOf(job.target) = FolderOfOutcome[job.outcome]
    /\ job.step = "copying" => /\ disk[job.target] = Nothing \/ job.target \in torn
                              /\ ~Moves /\ job.target # job.source
    /\ job.step \in {"copying", "record"} /\ job.target # NoPath => disk[job.target] \in {job.doc, Nothing}

NoTwin == job.task = "file" /\ job.step # "remember" /\ job.outcome = "filed" =>
    \A q \in {"archive"} \X Slots : Complete(q) /\ q \notin Fresh => ~SameInvoice(disk[q], job.doc)

(* An undo: its row is the newest one, and the file is at the source or at   *)
(* the target, the place the row names being empty as soon as it is moved.   *)
UndoJob ==
    /\ job.task \in {"undo", "restore", "missing"} =>
          /\ LastUndoable(job.row) /\ job.row \in DOMAIN rows
          /\ rows[job.row].destination = job.origin
    /\ job.task = "undo" =>
          /\ job.step \in {"place", "transfer", "mark"}
          /\ job.source = job.origin
          /\ job.step \in {"transfer", "mark"} => FolderOf(job.target) = "input"
          /\ job.step = "mark" /\ Complete(job.target) => disk[job.target] = rows[job.row].doc
    /\ job.task = "restore" =>
          /\ job.step \in {"place", "transfer"}
          /\ FolderOf(job.source) = "input"
          /\ Complete(job.source) => disk[job.source] = rows[job.row].doc
          /\ job.step = "transfer" => job.target = job.origin
    /\ job.task \in {"restore", "missing"} \/ (job.task = "undo" /\ job.step = "mark") => ~Exists(job.origin)

AlignedInv == Committed /\ RowShape /\ Covered /\ FileJob /\ NoTwin /\ UndoJob

-----------------------------------------------------------------------------
(* What an undo forgets: the strengthening.                                  *)

Signed(i) == i \in Undoable /\ rows[i].signature # NoSignature

(* A row with a signature placed a file; one of a file that stayed in a      *)
(* pending folder names that file.                                           *)
SignatureShape == \A i \in DOMAIN rows : rows[i].signature # NoSignature =>
    /\ rows[i].outcome # "error"
    /\ FolderOf(rows[i].signature[1]) \in {"input"} \union Pending
    /\ FolderOf(rows[i].signature[1]) \in Pending => rows[i].destination = rows[i].signature[1]

(* j is the row that decides about the signature once i is undone.           *)
Below(j, i) ==
    /\ Signed(i) /\ Signed(j) /\ j < i /\ rows[j].signature = rows[i].signature
    /\ \A l \in DOMAIN rows : Signed(l) /\ rows[l].signature = rows[i].signature /\ l < i => l <= j

(* What lies where it points was put there by a row that goes before i.      *)
Superseded == \A i, j \in DOMAIN rows :
    Below(j, i) /\ Exists(rows[j].destination) =>
        \/ rows[j].destination \in Fresh
        \/ \E k \in Undoable : k >= i /\ rows[k].destination = rows[j].destination

(* A filing that leaves its source there: a copy that was not seen, or a     *)
(* file that stays where it is.                                              *)
CopyJob == job.task = "file" =>
    /\ job.step = "record" /\ Exists(job.source) =>
          \/ job.target = job.source /\ FolderOf(job.source) \in Pending
          \/ monitor = "copy" /\ FolderOf(job.source) = "input" /\ job.target # NoPath
    /\ job.step # "remember" /\ monitor = "copy" /\ FolderOf(job.source) = "input" =>
          \A j \in DOMAIN rows :
             /\ Signed(j) /\ rows[j].signature = <<job.source, job.doc>>
             /\ \A l \in DOMAIN rows : Signed(l) /\ rows[l].signature = <<job.source, job.doc>> => l <= j
             /\ Exists(rows[j].destination)
             => rows[j].destination \in Fresh

ForgetInv == SignatureShape /\ Superseded /\ CopyJob
USE DEF files, ledger, archiveVars

-----------------------------------------------------------------------------
(* Types.                                                                    *)

LEMMA Constants ==
  /\ Nothing \notin Docs /\ NoPath \notin Paths /\ NoSignature \notin Signatures
  /\ Modes \subseteq {"move", "copy"} /\ Twins \subseteq Docs
BY ArchiveConstants DEF Signatures

LEMMA AppendType ==
  ASSUME NEW S, NEW seq \in Seq(S), NEW e \in S
  PROVE  /\ Append(seq, e) \in Seq(S)
         /\ DOMAIN Append(seq, e) = DOMAIN seq \union {Len(seq) + 1}
         /\ \A i \in DOMAIN seq : Append(seq, e)[i] = seq[i] /\ i <= Len(seq)
         /\ Append(seq, e)[Len(seq) + 1] = e
         /\ Len(seq) + 1 \notin DOMAIN seq
OBVIOUS

(* A sequence rewritten place by place is one.                               *)
LEMMA SameLength ==
  ASSUME NEW S, NEW seq \in Seq(S), NEW new, DOMAIN new = DOMAIN seq, new = [i \in DOMAIN seq |-> new[i]],
         \A i \in DOMAIN seq : new[i] \in S
  PROVE  new \in Seq(S)
<1>1. DOMAIN seq = 1 .. Len(seq) /\ Len(seq) \in Nat
  OBVIOUS
<1>2. new \in [1 .. Len(seq) -> S]
  BY <1>1
<1> QED
  BY <1>1, <1>2, SeqDef

LEMMA RevertedType ==
  ASSUME TypeOK
  PROVE  /\ Reverted \in Seq(Row) /\ DOMAIN Reverted = DOMAIN rows
         /\ \A i \in DOMAIN rows : Reverted[i] = [rows[i] EXCEPT !.reverted = @ \/ i = job.row]
<1> DEFINE new == [i \in DOMAIN rows |-> [rows[i] EXCEPT !.reverted = @ \/ i = job.row]]
<1>1. \A i \in DOMAIN rows : rows[i] \in Row
  BY DEF TypeOK
<1>2. \A i \in DOMAIN rows : new[i] \in Row
  <2> TAKE i \in DOMAIN rows
  <2>1. (rows[i].reverted \/ i = job.row) \in BOOLEAN
    OBVIOUS
  <2> QED
    BY <1>1, <2>1 DEF Row
<1>3. new \in Seq(Row)
  BY <1>2, SameLength DEF TypeOK
<1> QED
  BY <1>3 DEF Reverted

LEMMA TargetFolders ==
  ASSUME TypeOK, JobShape, job.step = "place"
  PROVE  TargetFolder \in Folders
<1>1. CASE job.task = "file"
  <2>1. job.outcome \in Placed
    BY <1>1 DEF JobShape
  <2> QED
    BY <1>1, <2>1 DEF TargetFolder, FolderOfOutcome, Placed, Folders
<1>2. CASE job.task = "undo"
  BY <1>2 DEF TargetFolder, Folders
<1>3. CASE job.task = "restore"
  <2>1. job.origin \in Paths
    BY <1>3 DEF JobShape
  <2>2. FolderOf(job.origin) \in Folders
    BY <2>1 DEF FolderOf, Paths
  <2> QED
    BY <1>3, <2>2 DEF TargetFolder
<1> QED
  BY <1>1, <1>2, <1>3 DEF JobShape

LEMMA FreeTargets ==
  ASSUME TypeOK, JobShape, job.step = "place", NEW p \in Targets
  PROVE  /\ p \in Paths /\ disk[p] = Nothing
         /\ FolderOf(p) = TargetFolder
         /\ job.task = "restore" /\ disk[job.origin] = Nothing => p = job.origin
<1>1. \A q \in FreeNames(TargetFolder) : q \in Paths /\ disk[q] = Nothing /\ FolderOf(q) = TargetFolder
  BY TargetFolders DEF FreeNames, Paths, FolderOf
<1>2. p \in FreeNames(TargetFolder)
  BY DEF Targets
<1>3. job.task = "restore" => job.origin \in Paths /\ TargetFolder = FolderOf(job.origin)
  BY DEF JobShape, TargetFolder
<1>4. job.task = "restore" => job.origin \in {FolderOf(job.origin)} \X Slots
  BY <1>3 DEF FolderOf, Paths
<1>5. job.task = "restore" /\ disk[job.origin] = Nothing => job.origin \in FreeNames(TargetFolder)
  BY <1>3, <1>4 DEF FreeNames
<1> QED
  BY <1>1, <1>2, <1>5 DEF Targets

(* The fields of a job that changes.                                         *)
LEMMA JobFields ==
  ASSUME TypeOK
  PROVE  /\ NoJob \in Job /\ NoJob.step = "done" /\ NoJob.task = "none"
         /\ AfterPlacing \in Job \/ job.task \notin {"file", "undo", "restore"}
         /\ \A p \in Places : [job EXCEPT !.target = p] \in Job
<1>1. NoJob \in Job /\ NoJob.step = "done" /\ NoJob.task = "none"
  BY DEF NoJob, Job, Outcome, Places
<1>2. job \in Job
  BY DEF TypeOK
<1>3. AfterPlacing \in Job \/ job.task \notin {"file", "undo", "restore"}
  BY <1>1, <1>2 DEF AfterPlacing, Job
<1>4. ASSUME NEW p \in Places PROVE [job EXCEPT !.target = p] \in Job
  BY <1>2 DEF Job
<1> QED
  BY <1>1, <1>3, <1>4

LEMMA JobStep == TypeOK /\ JobShape /\ [ArchiveNext]_archiveVars => (job \in Job)' /\ JobShape'
<1> SUFFICES ASSUME TypeOK, JobShape, [ArchiveNext]_archiveVars PROVE (job \in Job)' /\ JobShape'
  OBVIOUS
<1>0. job \in Job
  BY DEF TypeOK
<1> USE <1>0 DEF Job, Places, Outcome, JobShape
<1>1. CASE ChooseTarget
  <2>1. PICK p \in Targets : job' = [job EXCEPT !.step = "transfer", !.target = p]
    BY <1>1 DEF ChooseTarget
  <2>2. p \in Paths /\ job.step = "place"
    BY <1>1, <2>1, FreeTargets DEF ChooseTarget
  <2> QED
    BY <2>1, <2>2
<1>2. CASE StayInPlace
  <2>1. job' = [AfterPlacing EXCEPT !.target = job.source] /\ job.step = "place"
    BY <1>2 DEF StayInPlace
  <2> QED
    BY <2>1 DEF AfterPlacing, NoJob
<1>3. CASE Rename \/ BeginCopy \/ EndCopy \/ Unlink
  <2>1. job.step \in {"transfer", "copying", "unlink"}
    BY <1>3 DEF Rename, BeginCopy, EndCopy, Unlink
  <2>2. \/ job' = AfterPlacing
        \/ job' = [job EXCEPT !.step = "copying"] \/ job' = [job EXCEPT !.step = "unlink"]
    BY <1>3, Zenon DEF Rename, BeginCopy, EndCopy, Unlink
  <2> QED
    BY <2>1, <2>2 DEF AfterPlacing, NoJob
<1>4. CASE TransferFails
  <2>1. job.step \in {"place", "transfer", "copying", "unlink"}
    BY <1>4 DEF TransferFails
  <2>2. \/ job' = NoJob
        \/ job.task = "file" /\ job' = [job EXCEPT !.step = "place", !.outcome = "quarantined", !.target = NoPath]
        \/ job.task = "file" /\ job' = [job EXCEPT !.step = "record", !.outcome = "error", !.target = NoPath]
    BY <1>4, Zenon DEF TransferFails
  <2>3. CASE job' = NoJob
    BY <2>3 DEF NoJob
  <2>4. CASE job.task = "file" /\ job' = [job EXCEPT !.step = "place", !.outcome = "quarantined", !.target = NoPath]
    BY <2>4 DEF Placed
  <2>5. CASE job.task = "file" /\ job' = [job EXCEPT !.step = "record", !.outcome = "error", !.target = NoPath]
    BY <2>5
  <2> QED
    BY <2>2, <2>3, <2>4, <2>5
<1>5. ASSUME NEW p \in Paths, TakeFile(p) PROVE (job \in Job)' /\ JobShape'
  <2>1. PICK outcome \in Outcomes(p) :
           job' = [NoJob EXCEPT !.task = "file", !.step = "place", !.source = p,
                                !.doc = disk[p], !.outcome = outcome]
    BY <1>5 DEF TakeFile
  <2>2. outcome \in Placed
    BY DEF Outcomes, Placed
  <2>3. disk[p] \in Docs
    BY <1>5 DEF TakeFile, Exists, TypeOK
  <2> QED
    BY <2>1, <2>2, <2>3 DEF NoJob
<1>6. CASE RecordResult \/ Remember \/ MarkReverted \/ StartMonitor \/ StopMonitor \/ Clear \/ Crash
  <2>1. \/ job' = NoJob \/ job' = job
        \/ job.task = "file" /\ job' = [job EXCEPT !.step = "remember"]
    BY <1>6, Zenon
       DEF RecordResult, Remember, MarkReverted, StartMonitor, StopMonitor, Clear, Crash
  <2> QED
    BY <2>1 DEF NoJob
<1>7. CASE BeginUndo
  <2>1. PICK i \in DOMAIN rows :
           /\ i \in Undoable
           /\ \/ job' = [NoJob EXCEPT !.row = i, !.source = rows[i].destination,
                                     !.origin = rows[i].destination, !.task = "undo", !.step = "place"]
              \/ job' = [NoJob EXCEPT !.row = i, !.source = rows[i].destination,
                                     !.origin = rows[i].destination, !.task = "missing", !.step = "mark"]
    BY <1>7 DEF BeginUndo, LastUndoable, Newest
  <2>2. rows[i].destination \in Paths /\ i \in Nat
    <3>1. rows[i] \in Row /\ i \in Nat
      BY DEF TypeOK
    <3> QED
      BY <2>1, <3>1 DEF Undoable, Row
  <2>3. CASE job' = [NoJob EXCEPT !.row = i, !.source = rows[i].destination,
                                  !.origin = rows[i].destination, !.task = "undo", !.step = "place"]
    BY <2>2, <2>3 DEF NoJob
  <2>4. CASE job' = [NoJob EXCEPT !.row = i, !.source = rows[i].destination,
                                  !.origin = rows[i].destination, !.task = "missing", !.step = "mark"]
    BY <2>2, <2>4 DEF NoJob
  <2> QED
    BY <2>1, <2>3, <2>4
<1>8. CASE MarkFails
  <2>1. /\ job.step = "mark"
        /\ \/ job' = NoJob
           \/ job.task = "undo" /\ job' = [job EXCEPT !.task = "restore", !.step = "place",
                                                   !.source = job.target, !.target = NoPath]
    BY <1>8, Zenon DEF MarkFails
  <2>2. CASE job' = NoJob
    BY <2>2 DEF NoJob
  <2>3. CASE job.task = "undo" /\ job' = [job EXCEPT !.task = "restore", !.step = "place",
                                                   !.source = job.target, !.target = NoPath]
    BY <2>1, <2>3
  <2> QED
    BY <2>1, <2>2, <2>3
<1>9. ASSUME NEW p \in Paths, Remove(p) \/ \E d \in Docs : Arrive(d, p) \/ PutByHand(d, p)
      PROVE  job' = job
  BY <1>9 DEF Remove, Arrive, PutByHand
<1> QED
  BY <1>1, <1>2, <1>3, <1>4, <1>5, <1>6, <1>7, <1>8, <1>9
     DEF ArchiveNext, Transfer, WorkerStep, UndoStep, Surroundings

LedgerType ==
    /\ rows \in Seq(Row) /\ marks \subseteq Signatures
    /\ durable \in [rows : Seq(Row), marks : SUBSET Signatures]

LEMMA WriteType ==
  ASSUME LedgerType, NEW newRows \in Seq(Row), NEW newMarks \in SUBSET Signatures,
         Commit(newRows, newMarks) \/ WriteFails(newRows, newMarks)
  PROVE  LedgerType'
BY DEF LedgerType, Commit, WriteFails

LEMMA SignatureType ==
  ASSUME TypeOK, NEW p \in Places
  PROVE  /\ Signature(p) \in Signatures \union {NoSignature}
         /\ Exists(p) => p \in Paths /\ Signature(p) \in Signatures /\ Signature(p) = <<p, disk[p]>>
BY DEF TypeOK, Places, Signature, Exists, Signatures

LEMMA LedgerStep == TypeOK /\ JobShape /\ [ArchiveNext]_archiveVars => LedgerType'
<1> SUFFICES ASSUME TypeOK, JobShape, [ArchiveNext]_archiveVars PROVE LedgerType'
  OBVIOUS
<1>0. LedgerType
  BY DEF TypeOK, LedgerType
<1>a. rows \in Seq(Row) /\ marks \in SUBSET Signatures
  BY <1>0 DEF LedgerType
<1>b. job.source \in Places /\ job.target \in Places /\ job.outcome \in Outcome
  BY DEF TypeOK, Job
<1>1. CASE RecordResult
  <2> DEFINE row == [doc |-> job.doc, signature |-> Signature(job.source), outcome |-> job.outcome,
                     destination |-> job.target, reverted |-> FALSE]
  <2>1. job.doc \in Docs
    BY <1>1 DEF RecordResult, JobShape
  <2>2. row \in Row
    BY <1>b, <2>1, SignatureType DEF Row
  <2>3. Append(rows, row) \in Seq(Row)
    BY <1>a, <2>2, AppendType
  <2>4. Commit(Append(rows, row), marks) \/ WriteFails(Append(rows, row), marks)
    BY <1>1 DEF RecordResult
  <2> QED
    BY <1>0, <1>a, <2>3, <2>4, WriteType
<1>2. CASE Remember
  <2>1. CASE UNCHANGED ledger
    BY <1>0, <2>1 DEF LedgerType
  <2>2. CASE ~UNCHANGED ledger
    <3>1. /\ Exists(job.source)
          /\ \/ Commit(rows, marks \union {Signature(job.source)})
             \/ WriteFails(rows, marks \union {Signature(job.source)})
      BY <1>2, <2>2 DEF Remember
    <3>2. marks \union {Signature(job.source)} \in SUBSET Signatures
      BY <1>a, <1>b, <3>1, SignatureType
    <3> QED
      BY <1>0, <1>a, <3>1, <3>2, WriteType
  <2> QED
    BY <2>1, <2>2
<1>3. CASE MarkReverted \/ MarkFails
  <2>1. Commit(Reverted, MarksAfterRevert) \/ WriteFails(Reverted, MarksAfterRevert)
    BY <1>3 DEF MarkReverted, MarkFails
  <2>2. MarksAfterRevert \in SUBSET Signatures
    BY <1>a DEF MarksAfterRevert
  <2> QED
    BY <1>0, <2>1, <2>2, RevertedType, WriteType
<1>4. CASE Clear
  <2>1. Commit(<<>>, {})
    BY <1>4 DEF Clear
  <2>2. <<>> \in Seq(Row) /\ {} \in SUBSET Signatures
    OBVIOUS
  <2> QED
    BY <1>0, <2>1, <2>2, WriteType
<1>5. CASE Crash
  BY <1>0, <1>5 DEF LedgerType, Crash
<1>6. CASE Transfer \/ BeginUndo \/ StartMonitor \/ StopMonitor \/ UNCHANGED archiveVars
  <2>1. UNCHANGED ledger
    BY <1>6 DEF Transfer, BeginUndo, StartMonitor, StopMonitor, ChooseTarget, StayInPlace, Rename,
                BeginCopy, EndCopy, Unlink, TransferFails
  <2> QED
    BY <1>0, <2>1 DEF LedgerType
<1>7. ASSUME NEW p \in Paths, TakeFile(p) \/ Remove(p) \/ \E d \in Docs : Arrive(d, p) \/ PutByHand(d, p)
      PROVE  LedgerType'
  BY <1>0, <1>7 DEF LedgerType, TakeFile, Remove, Arrive, PutByHand
<1> QED
  BY <1>1, <1>2, <1>3, <1>4, <1>5, <1>6, <1>7 DEF ArchiveNext, WorkerStep, UndoStep, Surroundings

FilesType ==
    /\ disk \in [Paths -> Docs \union {Nothing}]
    /\ torn \subseteq Paths /\ kept \subseteq Docs
    /\ memory \subseteq Signatures /\ monitor \in {"off"} \union Modes

LEMMA FilesStep == TypeOK /\ JobShape /\ [ArchiveNext]_archiveVars => FilesType'
<1> SUFFICES ASSUME TypeOK, JobShape, [ArchiveNext]_archiveVars PROVE FilesType'
  OBVIOUS
<1>0. FilesType
  BY DEF TypeOK, FilesType
<1> USE DEF FilesType
<1>1. CASE Rename \/ BeginCopy \/ EndCopy \/ Unlink
  <2>1. job.source \in Paths /\ job.target \in Paths
    BY <1>1 DEF Rename, BeginCopy, EndCopy, Unlink, JobShape
  <2> QED
    BY <1>0, <1>1, <2>1 DEF Rename, BeginCopy, EndCopy, Unlink
<1>2. CASE Remember
  <2>1. job.source \in Places
    BY DEF TypeOK, Job
  <2>2. UNCHANGED <<disk, torn, monitor, kept>>
    BY <1>2 DEF Remember
  <2>3. memory' = memory \/ (Exists(job.source) /\ memory' = memory \union {Signature(job.source)})
    BY <1>2 DEF Remember
  <2> QED
    BY <1>0, <2>1, <2>2, <2>3, SignatureType
<1>3. ASSUME NEW p \in Paths, TakeFile(p) \/ Remove(p) \/ \E d \in Docs : Arrive(d, p) \/ PutByHand(d, p)
      PROVE  FilesType'
  BY <1>0, <1>3 DEF TakeFile, Remove, Arrive, PutByHand
<1>4. CASE \/ ChooseTarget \/ StayInPlace \/ TransferFails \/ RecordResult \/ UndoStep
           \/ Clear \/ StartMonitor \/ StopMonitor \/ Crash \/ UNCHANGED archiveVars
  BY <1>0, <1>4
     DEF ChooseTarget, StayInPlace, TransferFails, RecordResult, UndoStep, BeginUndo, MarkReverted,
         MarkFails, Clear, StartMonitor, StopMonitor, Crash
<1> QED
  BY <1>1, <1>2, <1>3, <1>4 DEF ArchiveNext, Transfer, WorkerStep, Surroundings

LEMMA TypeStep == TypeOK /\ JobShape /\ [ArchiveNext]_archiveVars => TypeOK' /\ JobShape'
BY JobStep, LedgerStep, FilesStep DEF TypeOK, LedgerType, FilesType

LEMMA TypeInit == ArchiveInit => TypeOK /\ JobShape
<1> SUFFICES ASSUME ArchiveInit PROVE TypeOK /\ JobShape
  OBVIOUS
<1>1. <<>> \in Seq(Row)
  OBVIOUS
<1>2. job \in Job
  BY DEF ArchiveInit, NoJob, Job, Outcome, Places
<1>3. JobShape
  BY DEF ArchiveInit, NoJob, JobShape
<1> QED
  BY <1>1, <1>2, <1>3 DEF ArchiveInit, TypeOK

-----------------------------------------------------------------------------
(* Nothing is lost.                                                          *)

(* What a step that leaves the files alone does to the job.                  *)
LEMMA QuietSteps ==
  ASSUME TypeOK, JobShape,
         \/ StayInPlace \/ TransferFails \/ (\E p \in Paths : TakeFile(p)) \/ RecordResult
         \/ Remember \/ UndoStep \/ Clear \/ StartMonitor \/ StopMonitor \/ Crash
  PROVE  /\ UNCHANGED <<files, kept>>
         /\ job' = job \/ job'.step \notin {"transfer", "copying", "unlink"}
<1> USE DEF TypeOK, Job, NoJob
<1>1. CASE StayInPlace
  <2>1. job' = [AfterPlacing EXCEPT !.target = job.source] /\ job.task \in {"file", "undo", "restore"}
    BY <1>1 DEF StayInPlace, JobShape
  <2> QED
    BY <1>1, <2>1 DEF StayInPlace, AfterPlacing
<1>2. CASE TransferFails
  BY <1>2 DEF TransferFails
<1>3. CASE \E p \in Paths : TakeFile(p)
  BY <1>3 DEF TakeFile
<1>4. CASE RecordResult \/ Remember \/ MarkReverted \/ Clear \/ StartMonitor \/ StopMonitor \/ Crash
  BY <1>4 DEF RecordResult, Remember, MarkReverted, Clear, StartMonitor, StopMonitor, Crash
<1>5. CASE BeginUndo
  BY <1>5 DEF BeginUndo
<1>6. CASE MarkFails
  BY <1>6 DEF MarkFails
<1> QED
  BY <1>1, <1>2, <1>3, <1>4, <1>5, <1>6 DEF UndoStep

LEMMA TransferredStep ==
  ASSUME Shape, Uncollided, [ArchiveNext]_archiveVars
  PROVE  Transferred'
<1>0. TypeOK /\ JobShape /\ Transferred
  BY DEF Shape
<1>t. job \in Job /\ disk \in [Paths -> Docs \union {Nothing}] /\ Nothing \notin Docs /\ NoPath \notin Paths
  BY <1>0, Constants DEF TypeOK
<1> USE <1>t DEF Job, Exists, Transferred
<1>1. CASE ChooseTarget
  <2>1. PICK p \in Targets : job' = [job EXCEPT !.step = "transfer", !.target = p]
    BY <1>1 DEF ChooseTarget
  <2>2. disk[p] = Nothing
    BY <1>0, <1>1, FreeTargets DEF ChooseTarget
  <2>3. UNCHANGED <<disk, torn>> /\ job'.step = "transfer" /\ job'.target = p
    BY <1>1, <2>1 DEF ChooseTarget
  <2> QED
    BY <1>0, <2>2, <2>3
<1>2. CASE Rename
  <2>1. job.source \in Paths /\ job.target \in Paths /\ disk[job.source] # Nothing /\ disk[job.target] = Nothing
    BY <1>0, <1>2 DEF Rename, JobShape
  <2>2. /\ disk' = [disk EXCEPT ![job.target] = disk[job.source], ![job.source] = Nothing]
        /\ torn' = {p \in torn \ {job.source} : p # job.target} \union {p \in {job.target} : job.source \in torn}
        /\ job' = AfterPlacing /\ job.task \in {"file", "undo", "restore"}
    BY <1>0, <1>2 DEF Rename, JobShape
  <2>3. job'.step \notin {"transfer", "copying", "unlink"}
    BY <2>2 DEF AfterPlacing, NoJob
  <2>4. \A p \in torn' : p \in Paths /\ disk'[p] # Nothing
    BY <1>0, <2>1, <2>2 DEF TypeOK
  <2> QED
    BY <2>3, <2>4
<1>3. CASE BeginCopy
  <2>1. job.source \in Paths /\ job.target \in Paths /\ disk[job.source] # Nothing /\ disk[job.target] = Nothing
    BY <1>0, <1>3 DEF BeginCopy, JobShape
  <2>2. /\ disk' = [disk EXCEPT ![job.target] = disk[job.source]] /\ torn' = torn \union {job.target}
        /\ job'.step = "copying" /\ job'.source = job.source /\ job'.target = job.target
    BY <1>3 DEF BeginCopy
  <2> QED
    BY <1>0, <2>1, <2>2 DEF TypeOK
<1>4. CASE EndCopy
  <2>1. /\ job.step = "copying" /\ job.source \in Paths /\ job.task \in {"file", "undo", "restore"}
        /\ UNCHANGED <<disk, kept>>
        /\ torn' = IF job.source \in torn THEN torn ELSE torn \ {job.target}
    BY <1>0, <1>4 DEF EndCopy, JobShape
  <2>2. job' = [job EXCEPT !.step = "unlink"] \/ job' = AfterPlacing
    BY <1>4 DEF EndCopy
  <2>3. CASE job' = AfterPlacing
    BY <1>0, <2>1, <2>3 DEF AfterPlacing, NoJob
  <2>4. CASE job' = [job EXCEPT !.step = "unlink"]
    BY <1>0, <2>1, <2>4
  <2> QED
    BY <2>2, <2>3, <2>4
<1>5. CASE Unlink
  <2>1. /\ job.source \in Paths /\ job.task \in {"file", "undo", "restore"}
        /\ disk' = [disk EXCEPT ![job.source] = Nothing] /\ torn' = torn \ {job.source} /\ job' = AfterPlacing
    BY <1>0, <1>5 DEF Unlink, JobShape
  <2> QED
    BY <1>0, <2>1 DEF AfterPlacing, NoJob, TypeOK
<1>6. ASSUME NEW p \in Paths, NEW d \in Docs, Arrive(d, p) \/ PutByHand(d, p) PROVE Transferred'
  <2>1. /\ UNCHANGED <<torn, job>> /\ disk' = [disk EXCEPT ![p] = d] /\ kept' = kept \union {d}
        /\ disk[p] = Nothing /\ ~Arrived(d)
    BY <1>6 DEF Arrive, PutByHand
  <2>2. p # job.source /\ p # job.target
    BY <1>6 DEF Arrive, PutByHand, Uncollided
  <2>3. \A q \in Paths : disk[q] # d
    BY <2>1 DEF Arrived
  <2>4. job.step \in {"transfer", "copying", "unlink"} => job.source \in Paths /\ job.target \in Paths
    BY <1>0 DEF JobShape
  <2> QED
    BY <1>0, <2>1, <2>2, <2>3, <2>4 DEF TypeOK
<1>7. ASSUME NEW p \in Paths, Remove(p) PROVE Transferred'
  <2>1. /\ UNCHANGED job /\ disk' = [disk EXCEPT ![p] = Nothing] /\ torn' = torn \ {p}
        /\ kept' = kept \ {disk[p]}
    BY <1>7 DEF Remove
  <2>2. job.step \in {"transfer", "copying", "unlink"} => job.source \in Paths /\ job.target \in Paths
    BY <1>0 DEF JobShape
  <2> QED
    BY <1>0, <2>1, <2>2 DEF TypeOK
<1>8. CASE UNCHANGED <<files, kept>> /\ (job' = job \/ job'.step \notin {"transfer", "copying", "unlink"})
  BY <1>0, <1>8
<1> QED
  BY <1>0, <1>1, <1>2, <1>3, <1>4, <1>5, <1>6, <1>7, <1>8, QuietSteps
     DEF ArchiveNext, Transfer, WorkerStep, Surroundings

LEMMA NothingLostStep ==
  ASSUME Shape, Uncollided, NothingLost, [ArchiveNext]_archiveVars
  PROVE  NothingLost'
<1>0. TypeOK /\ JobShape /\ Transferred
  BY DEF Shape
<1>t. disk \in [Paths -> Docs \union {Nothing}] /\ Nothing \notin Docs /\ NoPath \notin Paths /\ torn \subseteq Paths
      /\ kept \subseteq Docs
  BY <1>0, Constants DEF TypeOK
<1> USE <1>t DEF Exists, NothingLost
<1>1. CASE Rename
  <2>1. job.source \in Paths /\ job.target \in Paths /\ disk[job.source] # Nothing /\ disk[job.target] = Nothing
    BY <1>0, <1>1 DEF Rename, JobShape, Transferred
  <2>2. /\ disk' = [disk EXCEPT ![job.target] = disk[job.source], ![job.source] = Nothing]
        /\ torn' = {p \in torn \ {job.source} : p # job.target} \union {p \in {job.target} : job.source \in torn}
        /\ kept' = kept
    BY <1>1 DEF Rename
  <2> SUFFICES ASSUME NEW d \in kept PROVE \E p \in Paths : disk'[p] = d /\ p \notin torn'
    BY <2>2
  <2>3. PICK p \in Paths : disk[p] = d /\ p \notin torn
    OBVIOUS
  <2>4. CASE p = job.source
    <3>1. disk'[job.target] = d /\ job.target \notin torn'
      BY <2>1, <2>2, <2>3, <2>4
    <3> QED
      BY <2>1, <3>1
  <2>5. CASE p # job.source
    <3>1. disk'[p] = d /\ p \notin torn'
      BY <2>1, <2>2, <2>3, <2>5
    <3> QED
      BY <3>1
  <2> QED
    BY <2>4, <2>5
<1>2. CASE BeginCopy
  <2>1. job.source \in Paths /\ job.target \in Paths /\ disk[job.target] = Nothing
    BY <1>0, <1>2 DEF BeginCopy, JobShape, Transferred
  <2> QED
    BY <1>2, <2>1 DEF BeginCopy
<1>3. CASE EndCopy
  BY <1>3 DEF EndCopy
<1>4. CASE Unlink
  <2>1. job.source \in Paths /\ job.target \in Paths /\ disk[job.source] # Nothing
    BY <1>0, <1>4 DEF Unlink, JobShape
  <2>2. disk[job.source] \in kept /\ job.source \notin torn =>
           job.target # job.source /\ disk[job.target] = disk[job.source] /\ job.target \notin torn
    BY <1>0, <1>4, <2>1 DEF Unlink, Transferred
  <2>3. disk' = [disk EXCEPT ![job.source] = Nothing] /\ torn' = torn \ {job.source} /\ kept' = kept
    BY <1>4 DEF Unlink
  <2> SUFFICES ASSUME NEW d \in kept PROVE \E p \in Paths : disk'[p] = d /\ p \notin torn'
    BY <2>3
  <2>4. PICK p \in Paths : disk[p] = d /\ p \notin torn
    OBVIOUS
  <2>5. CASE p = job.source
    BY <2>1, <2>2, <2>3, <2>4, <2>5
  <2>6. CASE p # job.source
    BY <2>3, <2>4, <2>6
  <2> QED
    BY <2>5, <2>6
<1>5. ASSUME NEW p \in Paths, NEW d \in Docs, Arrive(d, p) \/ PutByHand(d, p) PROVE NothingLost'
  <2>1. /\ UNCHANGED torn /\ disk' = [disk EXCEPT ![p] = d] /\ kept' = kept \union {d} /\ disk[p] = Nothing
    BY <1>5 DEF Arrive, PutByHand
  <2>2. p \notin torn
    BY <1>0, <2>1 DEF Transferred
  <2> QED
    BY <2>1, <2>2
<1>6. ASSUME NEW p \in Paths, Remove(p) PROVE NothingLost'
  BY <1>6 DEF Remove
<1>7. CASE UNCHANGED <<files, kept>>
  BY <1>7
<1>8. CASE ChooseTarget
  BY <1>8, <1>7 DEF ChooseTarget
<1> QED
  BY <1>0, <1>1, <1>2, <1>3, <1>4, <1>5, <1>6, <1>7, <1>8, QuietSteps
     DEF ArchiveNext, Transfer, WorkerStep, Surroundings

LEMMA ShapeCorrect == Uncollided => (ArchiveSpec => []Shape)
<1> SUFFICES ASSUME Uncollided PROVE ArchiveSpec => []Shape
  OBVIOUS
<1>1. ArchiveInit => Shape
  BY TypeInit DEF Shape, ArchiveInit, Transferred, NoJob
<1>2. Shape /\ [ArchiveNext]_archiveVars => Shape'
  BY TypeStep, TransferredStep DEF Shape
<1> QED
  BY <1>1, <1>2, PTL DEF ArchiveSpec

(* Types, for any set of documents and any number of names.                 *)
THEOREM TypeCorrect == ArchiveSpec => []TypeOK
BY TypeInit, TypeStep, PTL DEF ArchiveSpec

(* Whatever fails and whenever the program ends, every document that arrived *)
(* and that the user did not delete lies complete at some path, if nobody    *)
(* takes the name the engine chose between the choice and the write.         *)
THEOREM NothingLostCorrect == ~MayCollide => (ArchiveSpec => []NothingLost)
<1> SUFFICES ASSUME ~MayCollide PROVE ArchiveSpec => []NothingLost
  OBVIOUS
<1>0. Uncollided
  BY DEF Uncollided
<1>1. ArchiveInit => NothingLost
  BY DEF ArchiveInit, NothingLost
<1>2. Shape /\ NothingLost /\ [ArchiveNext]_archiveVars => NothingLost'
  BY <1>0, NothingLostStep
<1> QED
  BY <1>0, <1>1, <1>2, ShapeCorrect, PTL DEF ArchiveSpec

-----------------------------------------------------------------------------
(* The ledger and the disk: what the steps do.                               *)

LEMMA Outcomes4 ==
  /\ Placed = {"filed", "duplicate", "needs_review", "quarantined"} /\ "error" \notin Placed
  /\ \A o \in Placed : FolderOfOutcome[o] # "input" /\ (FolderOfOutcome[o] = "archive" <=> o = "filed")
BY DEF Placed, FolderOfOutcome

(* The steps that are left, and a failed mark leaves the ledger alone.       *)
LEMMA StepsLeft ==
  ASSUME Undisturbed, Shape, Committed, FileJob, UndoJob, [ArchiveNext]_archiveVars
  PROVE  /\ MarkFails => UNCHANGED ledger
         /\ \/ ChooseTarget \/ StayInPlace \/ Rename \/ BeginCopy \/ EndCopy \/ TransferFails
            \/ (\E p \in Paths : TakeFile(p)) \/ RecordResult \/ Remember
            \/ BeginUndo \/ MarkReverted \/ MarkFails
            \/ (\E p \in Paths : Remove(p) \/ \E d \in Docs : Arrive(d, p))
            \/ StartMonitor \/ StopMonitor \/ UNCHANGED archiveVars
<1>1. ~Unlink
  BY DEF Unlink, Shape, JobShape, FileJob, UndoJob
<1>2. ~Clear /\ ~Crash /\ \A p, d : ~PutByHand(d, p)
  BY DEF Undisturbed, Clear, Crash, PutByHand
<1>3. MarkFails => UNCHANGED ledger
  BY DEF MarkFails, WriteFails, Undisturbed, Committed
<1> QED
  BY <1>1, <1>2, <1>3 DEF ArchiveNext, Transfer, WorkerStep, UndoStep, Surroundings

LEMMA CommittedStep ==
  ASSUME Undisturbed, Shape, Committed, FileJob, UndoJob, [ArchiveNext]_archiveVars
  PROVE  Committed'
<1>1. CASE RecordResult \/ Remember \/ MarkReverted
  <2>1. (\E r, m : Commit(r, m)) \/ UNCHANGED ledger
    BY <1>1, Zenon DEF RecordResult, Remember, MarkReverted, Undisturbed
  <2> QED
    BY <2>1 DEF Commit, Committed
<1>2. CASE ~(RecordResult \/ Remember \/ MarkReverted)
  <2>1. UNCHANGED ledger
    BY <1>2, StepsLeft
       DEF ChooseTarget, StayInPlace, Rename, BeginCopy, EndCopy, TransferFails, TakeFile, BeginUndo,
           Remove, Arrive, StartMonitor, StopMonitor
  <2> QED
    BY <2>1 DEF Committed
<1> QED
  BY <1>1, <1>2

(* The rows change with a record and with a mark, and with nothing else.     *)
LEMMA RowsStay ==
  ASSUME Undisturbed, Shape, Committed, FileJob, UndoJob, [ArchiveNext]_archiveVars,
         ~RecordResult, ~MarkReverted
  PROVE  rows' = rows
BY StepsLeft
   DEF Commit, ChooseTarget, StayInPlace, Rename, BeginCopy, EndCopy, TransferFails, TakeFile, BeginUndo,
       Remember, Remove, Arrive, StartMonitor, StopMonitor, Undisturbed

LEMMA UndoableSame ==
  ASSUME rows' = rows
  PROVE  /\ Undoable' = Undoable
         /\ \A i : LastUndoable(i)' <=> LastUndoable(i)
<1>1. Undoable' = Undoable
  BY DEF Undoable
<1> QED
  BY <1>1 DEF LastUndoable, Newest

(* What a new row does to what can be undone.                                *)
LEMMA Recorded ==
  ASSUME Undisturbed, Shape, FileJob, RecordResult
  PROVE  LET n == Len(rows) + 1 IN
         /\ DOMAIN rows' = DOMAIN rows \union {n} /\ n \notin DOMAIN rows
         /\ \A i \in DOMAIN rows : rows'[i] = rows[i] /\ i <= n
         /\ rows'[n] = [doc |-> job.doc, signature |-> Signature(job.source), outcome |-> job.outcome,
                        destination |-> job.target, reverted |-> FALSE]
         /\ job.outcome = "error" => Undoable' = Undoable
         /\ job.outcome # "error" => Undoable' = Undoable \union {n}
<1> DEFINE n == Len(rows) + 1
           row == [doc |-> job.doc, signature |-> Signature(job.source), outcome |-> job.outcome,
                   destination |-> job.target, reverted |-> FALSE]
<1>0. job.task = "file" /\ job.step = "record"
  BY DEF RecordResult
<1>1. job.source \in Places /\ job.target \in Places /\ job.outcome \in Outcome /\ job.doc \in Docs
  BY <1>0 DEF Shape, TypeOK, Job, JobShape
<1>2. row \in Row
  BY <1>1, SignatureType DEF Row, Shape
<1>3. rows' = Append(rows, row) /\ rows \in Seq(Row)
  BY DEF RecordResult, Commit, Undisturbed, Shape, TypeOK
<1> HIDE DEF row
<1>4. /\ DOMAIN rows' = DOMAIN rows \union {n} /\ n \notin DOMAIN rows /\ rows'[n] = row
      /\ \A i \in DOMAIN rows : rows'[i] = rows[i] /\ i <= n
  BY <1>2, <1>3, AppendType
<1>5. row.reverted = FALSE /\ row.outcome = job.outcome /\ row.destination = job.target
  BY DEF row
<1>6. job.target = NoPath <=> job.outcome = "error"
  BY <1>0 DEF FileJob
<1>7. job.outcome = "error" => Undoable' = Undoable
  <2>1. ASSUME job.outcome = "error", NEW i PROVE i \in Undoable' <=> i \in Undoable
    BY <1>4, <1>5, <2>1, Outcomes4 DEF Undoable
  <2> QED
    BY <2>1
<1>8. job.outcome # "error" => Undoable' = Undoable \union {n}
  <2>1. ASSUME job.outcome # "error", NEW i PROVE i \in Undoable' <=> i \in Undoable \union {n}
    BY <1>1, <1>4, <1>5, <1>6, <2>1 DEF Undoable, Outcome
  <2> QED
    BY <2>1
<1> QED
  BY <1>4, <1>7, <1>8 DEF row

(* ... and a reverted one.                                                   *)
LEMMA Unrecorded ==
  ASSUME Shape, UndoJob, MarkReverted
  PROVE  /\ DOMAIN rows' = DOMAIN rows
         /\ \A i \in DOMAIN rows :
               /\ rows'[i].doc = rows[i].doc /\ rows'[i].signature = rows[i].signature
               /\ rows'[i].outcome = rows[i].outcome /\ rows'[i].destination = rows[i].destination
         /\ \A i \in DOMAIN rows : rows'[i].reverted <=> rows[i].reverted \/ i = job.row
         /\ Undoable' = Undoable \ {job.row}
         /\ LastUndoable(job.row) /\ ~Exists(job.origin)
         /\ job.row \in DOMAIN rows /\ rows[job.row].destination = job.origin
<1>1. rows' = Reverted /\ \A i \in DOMAIN rows : rows[i] \in Row
  BY DEF MarkReverted, Commit, Shape, TypeOK
<1>2. DOMAIN rows' = DOMAIN rows
  BY <1>1, RevertedType DEF Shape
<1>3. \A i \in DOMAIN rows : rows'[i] = [rows[i] EXCEPT !.reverted = @ \/ i = job.row]
  BY <1>1, RevertedType DEF Shape
<1>4. ASSUME NEW k \in DOMAIN rows
      PROVE  /\ rows'[k].doc = rows[k].doc /\ rows'[k].signature = rows[k].signature
             /\ rows'[k].outcome = rows[k].outcome /\ rows'[k].destination = rows[k].destination
             /\ rows'[k].reverted <=> rows[k].reverted \/ k = job.row
  <2>1. rows[k] \in Row /\ rows'[k] = [rows[k] EXCEPT !.reverted = @ \/ k = job.row]
    BY <1>1, <1>3
  <2>2. rows'[k].doc = rows[k].doc /\ rows'[k].signature = rows[k].signature
    BY ONLY <2>1 DEF Row
  <2>3. rows'[k].outcome = rows[k].outcome /\ rows'[k].destination = rows[k].destination
    BY ONLY <2>1 DEF Row
  <2>4. rows'[k].reverted <=> rows[k].reverted \/ k = job.row
    BY ONLY <2>1 DEF Row
  <2> QED
    BY <2>2, <2>3, <2>4
<1>6. \A i : i \in Undoable' <=> i \in Undoable \ {job.row}
  BY <1>2, <1>4 DEF Undoable
<1>7. job.step = "mark" /\ job.task \in {"undo", "missing"}
  BY DEF MarkReverted, Shape, JobShape
<1> QED
  BY <1>2, <1>4, <1>6, <1>7 DEF UndoJob

LEMMA RowShapeStep ==
  ASSUME Undisturbed, Shape, AlignedInv, [ArchiveNext]_archiveVars
  PROVE  RowShape'
<1>0. Committed /\ RowShape /\ FileJob /\ UndoJob
  BY DEF AlignedInv
<1>1. CASE RecordResult
  <2> DEFINE n == Len(rows) + 1
  <2>1. /\ DOMAIN rows' = DOMAIN rows \union {n}
        /\ \A i \in DOMAIN rows : rows'[i] = rows[i]
        /\ rows'[n].outcome = job.outcome /\ rows'[n].destination = job.target
    BY <1>0, <1>1, Recorded
  <2>2. /\ job.target = NoPath <=> job.outcome = "error"
        /\ job.outcome # "error" => FolderOf(job.target) = FolderOfOutcome[job.outcome]
    BY <1>0, <1>1 DEF RecordResult, FileJob
  <2> HIDE DEF n
  <2> QED
    BY <1>0, <2>1, <2>2 DEF RowShape
<1>2. CASE MarkReverted
  BY <1>0, <1>2, Unrecorded DEF RowShape
<1>3. CASE ~RecordResult /\ ~MarkReverted
  BY <1>0, <1>3, RowsStay DEF RowShape
<1> QED
  BY <1>1, <1>2, <1>3

LEMMA RowFacts ==
  ASSUME Shape, RowShape
  PROVE  /\ \A i \in DOMAIN rows : rows[i] \in Row /\ i \in Nat
         /\ \A i \in Undoable :
               /\ i \in DOMAIN rows /\ rows[i].destination \in Paths /\ rows[i].outcome \in Placed
               /\ FolderOf(rows[i].destination) # "input"
               /\ FolderOf(rows[i].destination) = "archive" => rows[i].outcome = "filed"
<1>1. \A i \in DOMAIN rows : rows[i] \in Row /\ i \in Nat
  BY DEF Shape, TypeOK
<1>2. \A i \in Undoable : i \in DOMAIN rows /\ rows[i].destination # NoPath /\ rows[i].outcome \in Placed
  BY DEF Undoable
<1> QED
  BY <1>1, <1>2, Outcomes4 DEF RowShape, Row, Places

-----------------------------------------------------------------------------
(* The steps of a transfer, of a filing and of an undo.                      *)

(* No complete file appears in a folder of the engine but under Fresh.       *)
NothingNew == \A p \in Paths :
    Complete(p)' /\ FolderOf(p) # "input" /\ p \notin Fresh' =>
        Complete(p) /\ disk'[p] = disk[p] /\ p \notin Fresh

LEMMA StayEffect ==
  ASSUME Shape, AlignedInv, StayInPlace
  PROVE  /\ UNCHANGED files
         /\ job.task = "file" /\ job.step = "place" /\ Exists(job.source)
         /\ FolderOf(job.source) = FolderOfOutcome[job.outcome]
         /\ job' = [job EXCEPT !.step = "record", !.target = job.source]
<1>1. job.step = "place" /\ Exists(job.source) /\ FolderOf(job.source) = TargetFolder
  BY DEF StayInPlace
<1>2. job.task \in {"file", "undo", "restore"}
  BY <1>1 DEF Shape, JobShape
<1>3. job.task # "undo"
  <2> SUFFICES ASSUME job.task = "undo" PROVE FALSE
    OBVIOUS
  <2>1. LastUndoable(job.row) /\ rows[job.row].destination = job.source
    BY DEF AlignedInv, UndoJob
  <2>2. FolderOf(job.source) # "input"
    BY <2>1, RowFacts DEF LastUndoable, Newest, AlignedInv
  <2> QED
    BY <1>1, <2>2 DEF TargetFolder
<1>4. job.task # "restore"
  <2> SUFFICES ASSUME job.task = "restore" PROVE FALSE
    OBVIOUS
  <2>1. LastUndoable(job.row) /\ rows[job.row].destination = job.origin /\ FolderOf(job.source) = "input"
    BY DEF AlignedInv, UndoJob
  <2>2. FolderOf(job.origin) # "input"
    BY <2>1, RowFacts DEF LastUndoable, Newest, AlignedInv
  <2> QED
    BY <1>1, <2>1, <2>2 DEF TargetFolder
<1>5. AfterPlacing = [job EXCEPT !.step = "record"] /\ TargetFolder = FolderOfOutcome[job.outcome]
  BY <1>2, <1>3, <1>4 DEF AfterPlacing, TargetFolder
<1> QED
  BY <1>1, <1>2, <1>3, <1>4, <1>5 DEF StayInPlace, Shape, TypeOK, Job

LEMMA RenameEffect ==
  ASSUME Shape, AlignedInv, Rename
  PROVE  /\ job.step = "transfer" /\ job.source \in Paths /\ job.target \in Paths
         /\ job.source # job.target /\ disk[job.source] # Nothing /\ disk[job.target] = Nothing
         /\ disk' = [disk EXCEPT ![job.target] = disk[job.source], ![job.source] = Nothing]
         /\ torn' = {p \in torn \ {job.source} : p # job.target}
                        \union {p \in {job.target} : job.source \in torn}
         /\ \/ job.task = "file" /\ job' = [job EXCEPT !.step = "record"]
            \/ job.task = "undo" /\ job' = [job EXCEPT !.step = "mark"]
            \/ job.task = "restore" /\ job' = NoJob
<1>1. job.step = "transfer" /\ Exists(job.source)
  BY DEF Rename
<1>2. job.task \in {"file", "undo", "restore"} /\ job.source \in Paths /\ job.target \in Paths
  BY <1>1 DEF Shape, JobShape
<1>3. disk[job.target] = Nothing /\ disk[job.source] # Nothing
  BY <1>1 DEF Shape, Transferred, Exists
<1> QED
  BY <1>1, <1>2, <1>3 DEF Rename, AfterPlacing

LEMMA CopyEffect ==
  ASSUME Undisturbed, Shape, AlignedInv, BeginCopy
  PROVE  /\ job.task = "file" /\ job.step = "transfer" /\ ~Moves
         /\ job.source \in Paths /\ job.target \in Paths
         /\ job.source # job.target /\ disk[job.source] # Nothing /\ disk[job.target] = Nothing
         /\ disk' = [disk EXCEPT ![job.target] = disk[job.source]] /\ torn' = torn \union {job.target}
         /\ job' = [job EXCEPT !.step = "copying"] /\ UNCHANGED monitor
BY DEF BeginCopy, Undisturbed, Moves, Shape, JobShape, Transferred, Exists

LEMMA EndCopyEffect ==
  ASSUME Undisturbed, Shape, AlignedInv, EndCopy
  PROVE  /\ job.task = "file" /\ job.step = "copying" /\ ~Moves
         /\ job.source \in Paths /\ job.target \in Paths /\ job.source # job.target
         /\ UNCHANGED disk /\ torn' = IF job.source \in torn THEN torn ELSE torn \ {job.target}
         /\ job' = [job EXCEPT !.step = "record"]
<1>1. job.step = "copying"
  BY DEF EndCopy
<1>2. job.task = "file" /\ job.source \in Paths /\ job.target \in Paths
  BY <1>1 DEF Shape, JobShape, AlignedInv, UndoJob
<1>3. ~Moves /\ job.source # job.target
  BY <1>1, <1>2 DEF AlignedInv, FileJob
<1> QED
  BY <1>1, <1>2, <1>3 DEF EndCopy, AfterPlacing

LEMMA FailEffect ==
  ASSUME TransferFails
  PROVE  /\ UNCHANGED files /\ job.step \in {"place", "transfer", "copying", "unlink"}
         /\ TransferMayFail \/ (job.step # "copying" /\ ~Exists(job.source))
         /\ \/ job.task # "file" /\ job' = NoJob
            \/ /\ job.task = "file" /\ Exists(job.source)
               /\ job' = [job EXCEPT !.step = "place", !.outcome = "quarantined", !.target = NoPath]
            \/ /\ job.task = "file" /\ (job.outcome = "quarantined" \/ ~Exists(job.source))
               /\ job' = [job EXCEPT !.step = "record", !.outcome = "error", !.target = NoPath]
BY DEF TransferFails

LEMMA NothingNewSteps ==
  ASSUME Undisturbed, Shape, AlignedInv, [ArchiveNext]_archiveVars,
         ~RecordResult, ~(Rename /\ job.task = "restore")
  PROVE  NothingNew
<1>0. Committed /\ FileJob /\ UndoJob
  BY DEF AlignedInv
<1>t. job \in Job /\ disk \in [Paths -> Docs \union {Nothing}] /\ torn \subseteq Paths
  BY DEF Shape, TypeOK
<1> USE <1>t DEF Job, NothingNew, Complete, Fresh
<1>1. CASE ChooseTarget
  <2>1. UNCHANGED files /\ job.step = "place" /\ job'.step = "transfer"
    BY <1>1 DEF ChooseTarget
  <2> QED
    BY <2>1
<1>2. CASE StayInPlace
  <2>1. UNCHANGED files /\ job.step = "place"
    BY <1>2, StayEffect
  <2> QED
    BY <2>1
<1>3. CASE Rename /\ job.task = "file"
  <2>1. job'.task = "file" /\ job'.step = "record" /\ job'.target = job.target /\ job.step = "transfer"
    BY <1>3, RenameEffect
  <2>2. \A p \in Paths : p \notin Fresh' => p # job.target
    BY <2>1
  <2>3. \A p \in Paths : p # job.target /\ Complete(p)' => Complete(p) /\ disk'[p] = disk[p]
    BY <1>3, RenameEffect
  <2> QED
    BY <2>1, <2>2, <2>3
<1>4. CASE Rename /\ job.task = "undo"
  <2>1. FolderOf(job.target) = "input"
    BY <1>0, <1>4, RenameEffect DEF UndoJob
  <2>2. \A p \in Paths : p # job.target /\ Complete(p)' => Complete(p) /\ disk'[p] = disk[p]
    BY <1>4, RenameEffect
  <2> QED
    BY <1>4, <2>1, <2>2
<1>5. CASE BeginCopy
  <2>1. \A p \in Paths : p # job.target /\ Complete(p)' => Complete(p) /\ disk'[p] = disk[p]
    BY <1>5, CopyEffect
  <2>2. \A p \in Paths : Complete(p)' => p # job.target
    BY <1>5, CopyEffect
  <2>3. job.step = "transfer"
    BY <1>5, CopyEffect
  <2> QED
    BY <2>1, <2>2, <2>3
<1>6. CASE EndCopy
  <2>1. job'.task = "file" /\ job'.step = "record" /\ job'.target = job.target
        /\ job.task = "file" /\ job.step = "copying"
    BY <1>6, EndCopyEffect
  <2>2. \A p \in Paths : p # job.target /\ Complete(p)' => Complete(p) /\ disk'[p] = disk[p]
    BY <1>6, EndCopyEffect
  <2> QED
    BY <2>1, <2>2
<1>7. CASE TransferFails
  <2>1. job.step \in {"place", "transfer", "copying", "unlink"} /\ UNCHANGED files
    BY <1>7, FailEffect
  <2>2. job.task = "file" /\ job.step = "copying" => disk[job.target] = Nothing \/ job.target \in torn
    BY <1>0 DEF FileJob
  <2>3. \A p \in Paths : Complete(p)' => Complete(p) /\ disk'[p] = disk[p]
    BY <2>1
  <2>4. \A p \in Paths : Complete(p) => p \notin Fresh
    BY <2>1, <2>2
  <2> HIDE DEF Complete, Fresh
  <2> QED
    BY <2>3, <2>4
<1>8. CASE (\E p \in Paths : TakeFile(p)) \/ BeginUndo \/ StartMonitor \/ StopMonitor
  <2>1. UNCHANGED files /\ job = NoJob
    <3>1. ASSUME NEW p \in Paths, TakeFile(p) PROVE UNCHANGED files /\ job = NoJob
      BY <3>1 DEF TakeFile
    <3>2. ASSUME BeginUndo PROVE UNCHANGED files /\ job = NoJob
      BY <3>2 DEF BeginUndo
    <3> QED
      BY <1>8, <3>1, <3>2 DEF StartMonitor, StopMonitor
  <2>2. job.task = "none"
    BY <2>1 DEF NoJob
  <2> QED
    BY <2>1, <2>2
<1>9. CASE Remember \/ MarkReverted \/ MarkFails
  <2>1. UNCHANGED files /\ job.step \in {"remember", "mark"}
    BY <1>9 DEF Remember, MarkReverted, MarkFails
  <2> QED
    BY <2>1
<1>10. ASSUME NEW p \in Paths, Remove(p) \/ \E d \in Docs : Arrive(d, p) PROVE NothingNew
  <2>1. UNCHANGED job
    BY <1>10 DEF Remove, Arrive
  <2>2. \A q \in Paths : Complete(q)' /\ FolderOf(q) # "input" => Complete(q) /\ disk'[q] = disk[q]
    BY <1>10 DEF Remove, Arrive
  <2> QED
    BY <2>1, <2>2
<1>11. CASE UNCHANGED archiveVars
  BY <1>11
<1>12. CASE Rename
  BY <1>12, <1>3, <1>4, RenameEffect
<1> QED
  BY <1>0, <1>1, <1>2, <1>12, <1>5, <1>6, <1>7, <1>8, <1>9, <1>10, <1>11, StepsLeft

LEMMA CoveredStays ==
  ASSUME Covered, NothingNew, rows' = rows
  PROVE  Covered'
<1>1. Undoable' = Undoable
  BY UndoableSame
<1> SUFFICES ASSUME NEW p \in Paths, Complete(p)', FolderOf(p) # "input", p \notin Fresh'
             PROVE  \E i \in DOMAIN rows : Covers(i, p)'
  BY DEF Covered
<1>2. Complete(p) /\ disk'[p] = disk[p] /\ p \notin Fresh
  BY DEF NothingNew
<1>3. PICK i \in DOMAIN rows : Covers(i, p)
  BY <1>2 DEF Covered
<1>4. Covers(i, p)'
  BY <1>1, <1>2, <1>3 DEF Covers
<1> QED
  BY <1>4

LEMMA SameInvoiceFacts ==
  /\ \A d : SameInvoice(d, d)
  /\ \A d, e : SameInvoice(d, e) => SameInvoice(e, d)
  /\ \A d, e, f : SameInvoice(d, e) /\ SameInvoice(e, f) => SameInvoice(d, f)
BY DEF SameInvoice

LEMMA CoveredStep ==
  ASSUME Undisturbed, Shape, AlignedInv, [ArchiveNext]_archiveVars
  PROVE  Covered'
<1>0. Committed /\ RowShape /\ Covered /\ FileJob /\ NoTwin /\ UndoJob
  BY DEF AlignedInv
<1>t. job \in Job /\ disk \in [Paths -> Docs \union {Nothing}] /\ torn \subseteq Paths
  BY DEF Shape, TypeOK
<1>1. CASE RecordResult
  <2> DEFINE n == Len(rows) + 1
  <2>1. /\ DOMAIN rows' = DOMAIN rows \union {n} /\ n \notin DOMAIN rows
        /\ \A i \in DOMAIN rows : rows'[i] = rows[i] /\ i <= n
        /\ rows'[n].doc = job.doc /\ rows'[n].outcome = job.outcome /\ rows'[n].destination = job.target
        /\ job.outcome = "error" => Undoable' = Undoable
        /\ job.outcome # "error" => Undoable' = Undoable \union {n}
    BY <1>0, <1>1, Recorded
  <2>n. n \in Nat
    BY DEF Shape, TypeOK
  <2> HIDE DEF n
  <2>2. /\ UNCHANGED files /\ job.task = "file" /\ job.step = "record"
        /\ job.target = NoPath <=> job.outcome = "error"
        /\ job.target # NoPath => disk[job.target] \in {job.doc, Nothing}
        /\ job.outcome = "filed" =>
              \A q \in {"archive"} \X Slots : Complete(q) /\ q \notin Fresh => ~SameInvoice(disk[q], job.doc)
    BY <1>0, <1>1 DEF RecordResult, FileJob, NoTwin
  <2>u. Undoable \subseteq DOMAIN rows
    BY DEF Undoable
  <2> SUFFICES ASSUME NEW p \in Paths, Complete(p)', FolderOf(p) # "input"
               PROVE  \E i \in DOMAIN rows' : Covers(i, p)'
    BY DEF Covered
  <2>3. Complete(p) /\ disk'[p] = disk[p]
    BY <2>2 DEF Complete
  <2>4. p # NoPath
    BY Constants
  <2>5. CASE p = job.target
    <3>1. n \in Undoable' /\ rows'[n].destination = p /\ rows'[n].doc = disk'[p]
      BY <2>1, <2>2, <2>3, <2>4, <2>5 DEF Complete
    <3>2. \A j \in Undoable' : j <= n
      BY <2>1, <2>n, <2>u, <2>2, <2>4, <2>5
    <3> QED
      BY <2>1, <3>1, <3>2 DEF Covers
  <2>6. CASE p # job.target
    <3>1. p \notin Fresh
      BY <2>6 DEF Fresh
    <3>2. PICK i \in DOMAIN rows : Covers(i, p)
      BY <1>0, <2>3, <3>1 DEF Covered
    <3>3. /\ i \in Undoable' /\ rows'[i].destination = p /\ rows'[i].doc = disk'[p]
          /\ \A j \in Undoable' : rows'[j].destination = p => j <= i
      BY <2>1, <2>3, <2>6, <2>u, <3>2 DEF Covers
    <3>4. ASSUME FolderOf(p) = "archive", NEW j \in Undoable', rows'[j].outcome = "filed",
                 SameInvoice(rows'[j].doc, disk'[p])
          PROVE  j <= i
      <4>1. CASE j = n
        <5>1. p \in {"archive"} \X Slots
          BY <3>4 DEF FolderOf, Paths
        <5>2. job.outcome = "filed" /\ SameInvoice(disk[p], job.doc)
          BY <2>1, <2>3, <3>4, <4>1, SameInvoiceFacts
        <5> QED
          BY <2>2, <2>3, <3>1, <5>1, <5>2
      <4>2. CASE j # n
        BY <2>1, <2>3, <2>u, <3>2, <3>4, <4>2 DEF Covers
      <4> QED
        BY <4>1, <4>2
    <3> QED
      BY <2>1, <3>3, <3>4 DEF Covers
  <2> QED
    BY <2>5, <2>6
<1>2. CASE MarkReverted
  <2>1. NothingNew
    BY <1>0, <1>2, NothingNewSteps DEF MarkReverted, RecordResult, Rename
  <2> SUFFICES ASSUME NEW p \in Paths, Complete(p)', FolderOf(p) # "input", p \notin Fresh'
               PROVE  \E i \in DOMAIN rows' : Covers(i, p)'
    BY DEF Covered
  <2>2. Complete(p) /\ disk'[p] = disk[p] /\ p \notin Fresh
    BY <2>1 DEF NothingNew
  <2>3. PICK i \in DOMAIN rows : Covers(i, p)
    BY <1>0, <2>2 DEF Covered
  <2>4. i # job.row
    <3>1. rows[i].destination = p /\ p # NoPath /\ disk[p] # Nothing
      BY <2>2, <2>3, Constants DEF Covers, Complete
    <3>2. ~Exists(rows[job.row].destination)
      BY <1>0, <1>2, Unrecorded
    <3> QED
      BY <3>1, <3>2 DEF Exists
  <2>5. Undoable' \subseteq Undoable /\ Undoable \subseteq DOMAIN rows /\ i \in Undoable'
    BY <1>0, <1>2, <2>3, <2>4, Unrecorded DEF Covers, Undoable
  <2>6. /\ DOMAIN rows' = DOMAIN rows
        /\ \A j \in DOMAIN rows :
              /\ rows'[j].doc = rows[j].doc /\ rows'[j].outcome = rows[j].outcome
              /\ rows'[j].destination = rows[j].destination
    BY <1>0, <1>2, Unrecorded
  <2>7. Covers(i, p)'
    BY <2>2, <2>3, <2>5, <2>6 DEF Covers
  <2> QED
    BY <2>6, <2>7
<1>3. CASE Rename /\ job.task = "restore"
  <2>1. rows' = rows /\ Undoable' = Undoable
    BY <1>3, UndoableSame DEF Rename
  <2>2. job.target = job.origin /\ LastUndoable(job.row) /\ rows[job.row].destination = job.origin
        /\ job.row \in DOMAIN rows /\ (Complete(job.source) => disk[job.source] = rows[job.row].doc)
    BY <1>0, <1>3, RenameEffect DEF UndoJob
  <2> SUFFICES ASSUME NEW p \in Paths, Complete(p)', FolderOf(p) # "input", p \notin Fresh'
               PROVE  \E i \in DOMAIN rows : Covers(i, p)'
    BY <2>1 DEF Covered
  <2>3. CASE p = job.target
    <3>1. Complete(job.source) /\ disk'[p] = disk[job.source]
      BY <1>t, <1>3, <2>3, RenameEffect DEF Complete
    <3>2. job.row \in Undoable /\ \A j \in Undoable : j <= job.row
      BY <2>2 DEF LastUndoable, Newest
    <3>3. rows[job.row].destination = p /\ rows[job.row].doc = disk'[p]
      BY <2>2, <2>3, <3>1
    <3>4. \E i \in DOMAIN rows : i = job.row /\ Covers(i, p)'
      BY <2>1, <2>2, <3>2, <3>3 DEF Covers
    <3> QED
      BY <3>4
  <2>4. CASE p # job.target
    <3>1. Complete(p) /\ disk'[p] = disk[p]
      BY <1>t, <1>3, <2>4, RenameEffect DEF Complete
    <3>2. p \notin Fresh
      BY <1>3 DEF Fresh
    <3>3. PICK i \in DOMAIN rows : Covers(i, p)
      BY <1>0, <3>1, <3>2 DEF Covered
    <3>4. Covers(i, p)'
      BY <2>1, <3>1, <3>3 DEF Covers
    <3> QED
      BY <3>4
  <2> QED
    BY <2>3, <2>4
<1>4. CASE ~RecordResult /\ ~MarkReverted /\ ~(Rename /\ job.task = "restore")
  BY <1>0, <1>4, RowsStay, NothingNewSteps, CoveredStays
<1> QED
  BY <1>1, <1>2, <1>3, <1>4

LEMMA NoFiling ==
  ASSUME Shape, Remember \/ MarkReverted \/ BeginUndo \/ MarkFails
  PROVE  job'.task # "file" /\ UNCHANGED files
<1>t. job \in Job
  BY DEF Shape, TypeOK
<1> USE <1>t DEF Job, NoJob
<1>1. CASE Remember
  BY <1>1 DEF Remember
<1>2. CASE MarkReverted
  BY <1>2 DEF MarkReverted
<1>3. CASE BeginUndo
  <2>1. \E i \in DOMAIN rows :
           \/ job' = [NoJob EXCEPT !.row = i, !.source = rows[i].destination,
                                  !.origin = rows[i].destination, !.task = "undo", !.step = "place"]
           \/ job' = [NoJob EXCEPT !.row = i, !.source = rows[i].destination,
                                  !.origin = rows[i].destination, !.task = "missing", !.step = "mark"]
    BY <1>3 DEF BeginUndo
  <2> QED
    BY <1>3, <2>1 DEF BeginUndo
<1>4. CASE MarkFails
  BY <1>4 DEF MarkFails
<1> QED
  BY <1>1, <1>2, <1>3, <1>4

LEMMA FileJobStep ==
  ASSUME Undisturbed, Shape, AlignedInv, [ArchiveNext]_archiveVars
  PROVE  FileJob'
<1>0. Committed /\ FileJob /\ UndoJob
  BY DEF AlignedInv
<1>t. job \in Job /\ disk \in [Paths -> Docs \union {Nothing}] /\ torn \subseteq Paths /\ NoPath \notin Paths
  BY Constants DEF Shape, TypeOK
<1>s. job.task = "file" => job.source \in Paths /\ job.doc \in Docs
  BY DEF Shape, JobShape
<1> USE <1>t, <1>s DEF Job
<1>1. CASE ChooseTarget
  <2>1. PICK p \in Targets : job' = [job EXCEPT !.step = "transfer", !.target = p]
    BY <1>1 DEF ChooseTarget
  <2>2. job.step = "place" /\ FolderOf(p) = TargetFolder /\ UNCHANGED disk
    BY <1>1, FreeTargets DEF ChooseTarget, Shape
  <2>3. job.task = "file" => FolderOf(p) = FolderOfOutcome[job.outcome]
    BY <2>2 DEF TargetFolder
  <2> QED
    BY <1>0, <2>1, <2>2, <2>3 DEF FileJob
<1>2. CASE StayInPlace
  <2>1. job.source \in Paths /\ job.outcome # "error"
    BY <1>2, StayEffect, Outcomes4 DEF Shape, JobShape
  <2> QED
    BY <1>0, <1>2, <2>1, StayEffect DEF FileJob
<1>3. CASE Rename
  <2>1. CASE job.task = "file"
    <3>1. job.outcome # "error" /\ job.step = "transfer"
      BY <1>3, <2>1, RenameEffect, Outcomes4 DEF Shape, JobShape
    <3>2. job' = [job EXCEPT !.step = "record"]
      BY <1>3, <2>1, RenameEffect
    <3>3. disk'[job.source] = Nothing /\ disk'[job.target] = disk[job.source]
          /\ job.target \in Paths
      BY <1>3, RenameEffect
    <3> QED
      BY <1>0, <2>1, <3>1, <3>2, <3>3 DEF FileJob
  <2>2. CASE job.task # "file"
    BY <1>3, <2>2, RenameEffect DEF FileJob, NoJob
  <2> QED
    BY <2>1, <2>2
<1>4. CASE BeginCopy
  <2>1. Moves' <=> Moves
    BY <1>4, CopyEffect DEF Moves
  <2> QED
    BY <1>0, <1>4, <2>1, CopyEffect DEF FileJob
<1>5. CASE EndCopy
  <2>1. job.outcome # "error"
    BY <1>5, EndCopyEffect, Outcomes4 DEF Shape, JobShape
  <2> QED
    BY <1>0, <1>5, <2>1, EndCopyEffect DEF FileJob
<1>6. CASE TransferFails
  <2>1. UNCHANGED disk /\ job.step \in {"place", "transfer", "copying", "unlink"}
    BY <1>6, FailEffect
  <2>2. CASE job' = NoJob
    BY <2>2 DEF FileJob, NoJob
  <2>3. CASE job.task = "file" /\ job' = [job EXCEPT !.step = "place", !.outcome = "quarantined", !.target = NoPath]
    BY <1>0, <2>1, <2>3 DEF FileJob
  <2>4. CASE job.task = "file" /\ job' = [job EXCEPT !.step = "record", !.outcome = "error", !.target = NoPath]
    BY <1>0, <2>1, <2>4 DEF FileJob
  <2>5. \/ job' = NoJob
        \/ job.task = "file" /\ job' = [job EXCEPT !.step = "place", !.outcome = "quarantined", !.target = NoPath]
        \/ job.task = "file" /\ job' = [job EXCEPT !.step = "record", !.outcome = "error", !.target = NoPath]
    BY <1>6, FailEffect, Zenon
  <2> QED
    BY <2>2, <2>3, <2>4, <2>5
<1>7. ASSUME NEW p \in Paths, TakeFile(p) PROVE FileJob'
  <2>1. PICK outcome \in Outcomes(p) :
           job' = [NoJob EXCEPT !.task = "file", !.step = "place", !.source = p,
                                !.doc = disk[p], !.outcome = outcome]
    BY <1>7 DEF TakeFile
  <2>2. FolderOf(p) \in {"input"} \union Pending /\ UNCHANGED disk
    BY <1>7 DEF TakeFile
  <2> QED
    BY <2>1, <2>2 DEF FileJob, NoJob
<1>8. CASE RecordResult
  <2>1. job' = [job EXCEPT !.step = "remember"] /\ job.task = "file"
    BY <1>8 DEF RecordResult
  <2> QED
    BY <1>0, <2>1 DEF FileJob
<1>9. CASE Remember \/ MarkReverted \/ BeginUndo \/ MarkFails
  <2>1. job'.task # "file"
    BY <1>9, NoFiling
  <2> QED
    BY <2>1 DEF FileJob
<1>10. CASE StartMonitor \/ StopMonitor
  BY <1>10 DEF StartMonitor, StopMonitor, FileJob, NoJob
<1>11. ASSUME NEW p \in Paths, Remove(p) \/ \E d \in Docs : Arrive(d, p) PROVE FileJob'
  <2>1. UNCHANGED <<job, monitor>>
    BY <1>11 DEF Remove, Arrive
  <2>2. (p # job.source /\ p # job.target /\ UNCHANGED torn /\ \E d \in Docs : disk' = [disk EXCEPT ![p] = d])
        \/ (disk' = [disk EXCEPT ![p] = Nothing] /\ torn' = torn \ {p})
    BY <1>11 DEF Remove, Arrive
  <2>3. \A q \in Paths : q = job.source \/ q = job.target => disk'[q] = disk[q] \/ disk'[q] = Nothing
    BY <2>2
  <2>4. \A q \in Paths : q = job.target /\ q \in torn => q \in torn' \/ disk'[q] = Nothing
    BY <2>2
  <2>5. job.step = "copying" => job.target \in Paths
    BY DEF Shape, JobShape
  <2>6. job.target \in Places
    OBVIOUS
  <2>7. Moves' <=> Moves
    BY <2>1 DEF Moves
  <2> QED
    BY <1>0, <2>1, <2>3, <2>4, <2>5, <2>6, <2>7 DEF FileJob, Places
<1>12. CASE UNCHANGED archiveVars
  <2>1. Moves' <=> Moves
    BY <1>12 DEF Moves
  <2> QED
    BY <1>0, <1>12, <2>1 DEF FileJob
<1> QED
  BY <1>0, <1>1, <1>2, <1>3, <1>4, <1>5, <1>6, <1>7, <1>8, <1>9, <1>10, <1>11, <1>12, StepsLeft

(* The question the worker asks finds the file.                              *)
LEMMA DuplicateFound ==
  ASSUME Shape, RowShape, NEW q \in {"archive"} \X Slots, Complete(q),
         NEW i \in DOMAIN rows, Covers(i, q), NEW d, SameInvoice(disk[q], d)
  PROVE  IsDuplicate(d)
<1> DEFINE hits == {j \in DOMAIN rows : /\ ~rows[j].reverted /\ rows[j].outcome = "filed"
                                        /\ SameInvoice(rows[j].doc, d)}
<1>1. q \in Paths /\ FolderOf(q) = "archive" /\ q # NoPath
  BY Constants DEF Paths, Folders, FolderOf
<1>2. i \in Undoable /\ rows[i].destination = q /\ rows[i].doc = disk[q]
  BY DEF Covers
<1>3. rows[i].outcome = "filed" /\ ~rows[i].reverted
  BY <1>1, <1>2, RowFacts DEF Undoable
<1>4. i \in hits
  BY <1>2, <1>3
<1>5. \A j \in hits : j \in Undoable /\ SameInvoice(rows[j].doc, disk[q])
  <2> TAKE j \in hits
  <2>1. rows[j].destination # NoPath /\ "filed" \in Placed
    BY Outcomes4 DEF RowShape
  <2>2. SameInvoice(rows[j].doc, disk[q])
    BY SameInvoiceFacts
  <2> QED
    BY <2>1, <2>2 DEF Undoable
<1>6. Newest(i, hits)
  BY <1>1, <1>4, <1>5 DEF Newest, Covers
<1>7. Exists(rows[i].destination)
  BY <1>1, <1>2 DEF Exists, Complete
<1> QED
  BY <1>6, <1>7 DEF IsDuplicate

LEMMA FilingGoesOn ==
  ASSUME Undisturbed, Shape, AlignedInv, [ArchiveNext]_archiveVars, \A p \in Paths : ~TakeFile(p),
         job'.task = "file", job'.step # "remember"
  PROVE  /\ job.task = "file" /\ job.step # "remember" /\ (job'.outcome = "filed" => job.outcome = "filed")
         /\ job'.doc = job.doc /\ job'.source = job.source /\ ~RecordResult
<1>0. Committed /\ FileJob /\ UndoJob
  BY DEF AlignedInv
<1>t. job \in Job
  BY DEF Shape, TypeOK
<1> USE <1>t DEF Job
<1>1. CASE ChooseTarget
  <2>1. job.step = "place" /\ \E p \in Targets : job' = [job EXCEPT !.step = "transfer", !.target = p]
    BY <1>1 DEF ChooseTarget
  <2> QED
    BY <2>1 DEF RecordResult
<1>2. CASE StayInPlace
  BY <1>2, StayEffect DEF RecordResult
<1>3. CASE Rename
  BY <1>3, RenameEffect DEF RecordResult, NoJob
<1>4. CASE BeginCopy
  BY <1>4, CopyEffect DEF RecordResult
<1>5. CASE EndCopy
  BY <1>5, EndCopyEffect DEF RecordResult
<1>6. CASE TransferFails
  <2>1. \/ job' = NoJob
        \/ job' = [job EXCEPT !.step = "place", !.outcome = "quarantined", !.target = NoPath]
        \/ job' = [job EXCEPT !.step = "record", !.outcome = "error", !.target = NoPath]
    BY <1>6, FailEffect, Zenon
  <2>2. job' # NoJob
    BY DEF NoJob
  <2>3. job'.outcome # "filed" /\ job'.doc = job.doc /\ job'.source = job.source /\ job'.task = job.task
    BY <2>1, <2>2
  <2>4. job.step \in {"place", "transfer", "copying", "unlink"}
    BY <1>6, FailEffect
  <2> QED
    BY <2>3, <2>4 DEF RecordResult
<1>7. CASE RecordResult
  BY <1>7 DEF RecordResult
<1>8. CASE Remember \/ MarkReverted \/ BeginUndo \/ MarkFails
  BY <1>8, NoFiling
<1>9. CASE StartMonitor \/ StopMonitor
  BY <1>9 DEF StartMonitor, StopMonitor, NoJob
<1>10. CASE ~RecordResult /\ UNCHANGED job
  BY <1>10
<1>11. ASSUME NEW p \in Paths, Remove(p) \/ \E d \in Docs : Arrive(d, p) PROVE UNCHANGED job
  BY <1>11 DEF Remove, Arrive
<1> QED
  BY <1>0, <1>1, <1>2, <1>3, <1>4, <1>5, <1>6, <1>7, <1>8, <1>9, <1>10, <1>11, StepsLeft

LEMMA NoTwinStep ==
  ASSUME Undisturbed, Shape, AlignedInv, [ArchiveNext]_archiveVars
  PROVE  NoTwin'
<1>0. Committed /\ RowShape /\ Covered /\ FileJob /\ NoTwin /\ UndoJob
  BY DEF AlignedInv
<1>a. \A q \in {"archive"} \X Slots : q \in Paths /\ FolderOf(q) # "input"
  BY DEF Paths, Folders, FolderOf
<1>1. ASSUME NEW p \in Paths, TakeFile(p) PROVE NoTwin'
  <2>1. PICK outcome \in Outcomes(p) :
           job' = [NoJob EXCEPT !.task = "file", !.step = "place", !.source = p,
                                !.doc = disk[p], !.outcome = outcome]
    BY <1>1 DEF TakeFile
  <2>2. UNCHANGED files /\ job = NoJob
    BY <1>1 DEF TakeFile
  <2> SUFFICES ASSUME job'.outcome = "filed", NEW q \in {"archive"} \X Slots, Complete(q)'
               PROVE  ~SameInvoice(disk'[q], job'.doc)
    BY DEF NoTwin
  <2>3. ~IsDuplicate(disk[p]) /\ job'.doc = disk[p]
    <3>1. outcome = "filed" /\ job'.doc = disk[p]
      BY <2>1 DEF NoJob
    <3> QED
      BY <3>1 DEF Outcomes
  <2>4. Complete(q) /\ disk'[q] = disk[q] /\ q \notin Fresh
    BY <2>2 DEF Complete, Fresh, NoJob
  <2>5. PICK i \in DOMAIN rows : Covers(i, q)
    BY <1>0, <1>a, <2>4 DEF Covered
  <2> QED
    BY <1>0, <2>3, <2>4, <2>5, DuplicateFound
<1>2. CASE \A p \in Paths : ~TakeFile(p)
  <2> SUFFICES ASSUME job'.task = "file", job'.step # "remember", job'.outcome = "filed",
                      NEW q \in {"archive"} \X Slots, Complete(q)', q \notin Fresh'
               PROVE  ~SameInvoice(disk'[q], job'.doc)
    BY DEF NoTwin
  <2>1. /\ job.task = "file" /\ job.step # "remember" /\ job.outcome = "filed"
        /\ job'.doc = job.doc /\ ~RecordResult
    BY <1>2, FilingGoesOn
  <2>2. NothingNew
    BY <2>1, NothingNewSteps
  <2>3. Complete(q) /\ disk'[q] = disk[q] /\ q \notin Fresh
    BY <1>a, <2>2 DEF NothingNew
  <2> QED
    BY <1>0, <2>1, <2>3 DEF NoTwin
<1> QED
  BY <1>1, <1>2

LEMMA UndoFacts ==
  ASSUME Shape, AlignedInv, job.task \in {"undo", "restore", "missing"}
  PROVE  /\ job.row \in Undoable /\ (\A j \in Undoable : j <= job.row)
         /\ job.row \in DOMAIN rows /\ rows[job.row].destination = job.origin
         /\ job.origin \in Paths /\ FolderOf(job.origin) # "input"
BY RowFacts DEF AlignedInv, UndoJob, LastUndoable, Newest

LEMMA OwnFile ==
  ASSUME Shape, AlignedInv, job.task = "undo", Complete(job.source)
  PROVE  disk[job.source] = rows[job.row].doc
<1>1. job.source = job.origin
  BY DEF AlignedInv, UndoJob
<1>2. job.source \in Paths /\ FolderOf(job.source) # "input" /\ job.source \notin Fresh
  BY <1>1, UndoFacts DEF Fresh
<1>3. PICK i \in DOMAIN rows : Covers(i, job.source)
  BY <1>2 DEF AlignedInv, Covered
<1>4. i <= job.row /\ job.row <= i
  BY <1>1, <1>3, UndoFacts DEF Covers
<1>5. i \in Nat /\ job.row \in Nat
  BY RowFacts, UndoFacts DEF AlignedInv
<1> QED
  BY <1>3, <1>4, <1>5 DEF Covers

LEMMA UndoJobStep ==
  ASSUME Undisturbed, Shape, AlignedInv, [ArchiveNext]_archiveVars
  PROVE  UndoJob'
<1>0. Committed /\ FileJob /\ UndoJob
  BY DEF AlignedInv
<1>t. job \in Job /\ disk \in [Paths -> Docs \union {Nothing}] /\ torn \subseteq Paths /\ NoPath \notin Paths
  BY Constants DEF Shape, TypeOK
<1> USE <1>t DEF Job
<1>a. ASSUME job'.task \in {"none", "file"} PROVE UndoJob'
  BY <1>a DEF UndoJob
<1>b. ASSUME rows' = rows, job'.row = job.row, job'.origin = job.origin,
             job.task \in {"undo", "restore", "missing"}
      PROVE  LastUndoable(job.row)' /\ (job.row \in DOMAIN rows)' /\ (rows[job.row].destination = job.origin)'
  <2>1. \A i : LastUndoable(i)' <=> LastUndoable(i)
    BY <1>b, UndoableSame, Zenon
  <2>2. LastUndoable(job.row) /\ job.row \in DOMAIN rows /\ rows[job.row].destination = job.origin
    BY <1>0, <1>b DEF UndoJob
  <2> QED
    BY <1>b, <2>1, <2>2 DEF LastUndoable, Newest, Undoable
<1>1. CASE ChooseTarget
  <2>1. PICK p \in Targets : job' = [job EXCEPT !.step = "transfer", !.target = p]
    BY <1>1 DEF ChooseTarget
  <2>2. job.step = "place" /\ FolderOf(p) = TargetFolder /\ UNCHANGED <<disk, torn, rows>>
        /\ (job.task = "restore" /\ disk[job.origin] = Nothing => p = job.origin)
    BY <1>1, FreeTargets DEF ChooseTarget, Shape
  <2>3. CASE job.task = "undo"
    <3>1. FolderOf(p) = "input"
      BY <2>2, <2>3 DEF TargetFolder
    <3> QED
      BY <1>0, <1>b, <2>1, <2>2, <2>3, <3>1 DEF UndoJob
  <2>4. CASE job.task = "restore"
    <3>1. disk[job.origin] = Nothing
      BY <1>0, <2>4, UndoFacts DEF UndoJob, Exists
    <3>2. p = job.origin
      BY <2>2, <2>4, <3>1
    <3> QED
      BY <1>0, <1>b, <2>1, <2>2, <2>4, <3>1, <3>2 DEF UndoJob, Exists, Complete
  <2> QED
    BY <1>a, <2>1, <2>2, <2>3, <2>4 DEF Shape, JobShape
<1>2. CASE StayInPlace \/ BeginCopy \/ EndCopy
  BY <1>2, <1>a, StayEffect, CopyEffect, EndCopyEffect
<1>3. CASE Rename
  <2>1. CASE job.task = "undo"
    <3>1. job' = [job EXCEPT !.step = "mark"] /\ rows' = rows
      BY <1>3, <2>1, RenameEffect DEF Rename
    <3>2. job.source = job.origin /\ FolderOf(job.target) = "input"
      BY <1>0, <1>3, <2>1, RenameEffect DEF UndoJob
    <3>3. disk'[job.source] = Nothing /\ disk'[job.target] = disk[job.source]
          /\ (job.target \notin torn' => job.source \notin torn)
          /\ job.source \in Paths /\ job.target \in Paths
      BY <1>3, RenameEffect
    <3>4. job.target \notin torn' => disk'[job.target] = rows[job.row].doc
      BY <1>3, <2>1, <3>3, OwnFile, RenameEffect DEF Complete
    <3> QED
      BY <1>b, <2>1, <3>1, <3>2, <3>3, <3>4 DEF UndoJob, Exists, Complete
  <2>2. CASE job.task # "undo"
    BY <1>3, <1>a, <2>2, RenameEffect DEF NoJob
  <2> QED
    BY <2>1, <2>2
<1>4. CASE TransferFails
  <2>1. \/ job' = NoJob
        \/ job.task = "file" /\ job' = [job EXCEPT !.step = "place", !.outcome = "quarantined", !.target = NoPath]
        \/ job.task = "file" /\ job' = [job EXCEPT !.step = "record", !.outcome = "error", !.target = NoPath]
    BY <1>4, FailEffect, Zenon
  <2>2. CASE job' = NoJob
    BY <1>a, <2>2 DEF NoJob
  <2>3. CASE job.task = "file" /\ job' # NoJob
    <3>1. job'.task = job.task
      BY <2>1, <2>3
    <3> QED
      BY <1>a, <2>3, <3>1
  <2> QED
    BY <2>1, <2>2, <2>3
<1>5. ASSUME NEW p \in Paths, TakeFile(p) PROVE UndoJob'
  <2>1. job'.task = "file"
    BY <1>5 DEF TakeFile, NoJob
  <2> QED
    BY <1>a, <2>1
<1>6. CASE RecordResult
  BY <1>6, <1>a DEF RecordResult
<1>7. CASE Remember \/ MarkReverted
  BY <1>7, <1>a DEF Remember, MarkReverted, NoJob
<1>8. CASE BeginUndo
  <2>1. UNCHANGED <<disk, torn, rows>>
    BY <1>8 DEF BeginUndo
  <2>2. PICK i \in DOMAIN rows :
           /\ LastUndoable(i)
           /\ \/ job' = [NoJob EXCEPT !.row = i, !.source = rows[i].destination,
                                     !.origin = rows[i].destination, !.task = "undo", !.step = "place"]
              \/ /\ ~Exists(rows[i].destination)
                 /\ job' = [NoJob EXCEPT !.row = i, !.source = rows[i].destination,
                                        !.origin = rows[i].destination, !.task = "missing", !.step = "mark"]
    BY <1>8 DEF BeginUndo
  <2>3. \A j : LastUndoable(j)' <=> LastUndoable(j)
    BY <2>1, UndoableSame, Zenon
  <2>4. job'.row = i /\ job'.source = rows[i].destination /\ job'.origin = rows[i].destination
    BY <2>2 DEF NoJob
  <2>5. \/ job'.task = "undo" /\ job'.step = "place"
        \/ job'.task = "missing" /\ ~Exists(rows[i].destination)
    BY <2>2 DEF NoJob
  <2>6. LastUndoable(job.row)'
    BY <2>1, <2>2, <2>3, <2>4 DEF LastUndoable, Newest, Undoable
  <2> QED
    BY <2>1, <2>4, <2>5, <2>6 DEF UndoJob, Exists
<1>9. CASE MarkFails
  <2>1. /\ UNCHANGED <<disk, torn, rows>> /\ job.step = "mark"
        /\ \/ job' = NoJob
           \/ job.task = "undo" /\ job' = [job EXCEPT !.task = "restore", !.step = "place",
                                                   !.source = job.target, !.target = NoPath]
    BY <1>9, <1>0, StepsLeft DEF MarkFails
  <2>2. CASE job.task = "undo" /\ job' = [job EXCEPT !.task = "restore", !.step = "place",
                                                   !.source = job.target, !.target = NoPath]
    BY <1>0, <1>b, <2>1, <2>2 DEF UndoJob, Exists, Complete
  <2> QED
    BY <1>a, <2>1, <2>2 DEF NoJob
<1>10. CASE StartMonitor \/ StopMonitor
  BY <1>10, <1>a DEF StartMonitor, StopMonitor, NoJob
<1>11. ASSUME NEW p \in Paths, Remove(p) \/ \E d \in Docs : Arrive(d, p) PROVE UndoJob'
  <2>1. UNCHANGED <<job, rows>>
    BY <1>11 DEF Remove, Arrive
  <2>2. CASE job.task \in {"undo", "restore", "missing"}
    <3>1. job.origin \in Paths /\ FolderOf(job.origin) # "input"
      BY <2>2, UndoFacts
    <3>2. \/ /\ p # job.source /\ p # job.target /\ FolderOf(p) = "input" /\ UNCHANGED torn
             /\ \E d \in Docs : disk' = [disk EXCEPT ![p] = d]
          \/ disk' = [disk EXCEPT ![p] = Nothing] /\ torn' = torn \ {p}
      BY <1>11 DEF Remove, Arrive
    <3>3. disk[job.origin] = Nothing => disk'[job.origin] = Nothing
      BY <3>1, <3>2
    <3>4. \A q \in Paths : (q = job.source \/ q = job.target) /\ Complete(q)' => Complete(q) /\ disk'[q] = disk[q]
      BY <3>2 DEF Complete
    <3>5. Complete(job.source)' => Complete(job.source) /\ disk'[job.source] = disk[job.source]
      BY <2>1, <3>4 DEF Complete
    <3>6. Complete(job.target)' => Complete(job.target) /\ disk'[job.target] = disk[job.target]
      BY <2>1, <3>4 DEF Complete
    <3> HIDE DEF Complete
    <3> QED
      BY <1>0, <1>b, <2>1, <2>2, <3>1, <3>3, <3>5, <3>6 DEF UndoJob, Exists
  <2>3. CASE job.task \in {"none", "file"}
    BY <1>a, <2>1, <2>3
  <2> QED
    BY <2>2, <2>3
<1>12. CASE UNCHANGED archiveVars
  <2>1. CASE job.task \in {"undo", "restore", "missing"}
    BY <1>0, <1>b, <1>12, <2>1 DEF UndoJob, Exists, Complete
  <2> QED
    BY <1>12, <1>a, <2>1
<1> QED
  BY <1>0, <1>1, <1>2, <1>3, <1>4, <1>5, <1>6, <1>7, <1>8, <1>9, <1>10, <1>11, <1>12, StepsLeft

-----------------------------------------------------------------------------
(* The ledger and the disk: the theorems.                                    *)

LEMMA AlignedInit ==
  ASSUME ArchiveInit
  PROVE  AlignedInv
<1>1. DOMAIN rows = {} /\ job = NoJob /\ \A p \in Paths : disk[p] = Nothing
  BY DEF ArchiveInit
<1>2. Committed
  BY DEF ArchiveInit, Committed
<1>3. RowShape /\ Covered /\ FileJob /\ NoTwin /\ UndoJob
  BY <1>1 DEF RowShape, Covered, Complete, FileJob, NoTwin, UndoJob, NoJob
<1> QED
  BY <1>2, <1>3 DEF AlignedInv

LEMMA AlignedCorrect == Undisturbed => (ArchiveSpec => [](Shape /\ AlignedInv))
<1> SUFFICES ASSUME Undisturbed PROVE ArchiveSpec => [](Shape /\ AlignedInv)
  OBVIOUS
<1>1. Uncollided
  BY DEF Undisturbed, Uncollided
<1>2. ArchiveInit => AlignedInv
  BY AlignedInit
<1>3. Shape /\ AlignedInv /\ [ArchiveNext]_archiveVars => AlignedInv'
  <2> SUFFICES ASSUME Shape, AlignedInv, [ArchiveNext]_archiveVars PROVE AlignedInv'
    OBVIOUS
  <2>1. Committed /\ FileJob /\ UndoJob
    BY DEF AlignedInv
  <2> QED
    BY <2>1, CommittedStep, RowShapeStep, CoveredStep, FileJobStep, NoTwinStep, UndoJobStep DEF AlignedInv
<1> QED
  BY <1>1, <1>2, <1>3, ShapeCorrect, PTL DEF ArchiveSpec

(* The ledger and the disk stay aligned: as long as transfers within a drive *)
(* and the mark of an undo are all that fails, every complete file in a      *)
(* folder of the engine has, between jobs, a row that undo can find.         *)
THEOREM AccountedCorrect == Undisturbed => (ArchiveSpec => []Accounted)
<1> SUFFICES ASSUME Undisturbed PROVE ArchiveSpec => []Accounted
  OBVIOUS
<1>1. Shape /\ AlignedInv => Accounted
  <2> SUFFICES ASSUME AlignedInv, job = NoJob, NEW p \in Paths \ torn, disk[p] # Nothing, FolderOf(p) # "input"
               PROVE  \E i \in Undoable : rows[i].destination = p /\ rows[i].doc = disk[p]
    BY DEF Accounted
  <2>1. p \notin Fresh
    BY DEF Fresh, NoJob
  <2>2. PICK i \in DOMAIN rows : Covers(i, p)
    BY <2>1 DEF AlignedInv, Covered, Complete
  <2> QED
    BY <2>2 DEF Covers
<1> QED
  BY <1>1, AlignedCorrect, PTL

(* Undo moves the document its row is about: rows are undone newest first,   *)
(* and the newest row that names a path is the one of the file there.        *)
THEOREM UndoTakesItsOwnCorrect == Undisturbed => (ArchiveSpec => []UndoTakesItsOwn)
<1> SUFFICES ASSUME Undisturbed PROVE ArchiveSpec => []UndoTakesItsOwn
  OBVIOUS
<1>1. Shape /\ AlignedInv => UndoTakesItsOwn
  <2> SUFFICES ASSUME Shape, AlignedInv, job.task = "undo", Exists(job.source), job.source \notin torn
               PROVE  disk[job.source] = rows[job.row].doc
    BY DEF UndoTakesItsOwn
  <2>1. job.source \in Paths
    BY SignatureType DEF Shape, TypeOK, Job
  <2>2. Complete(job.source)
    BY <2>1 DEF Exists, Complete
  <2> QED
    BY <2>2, OwnFile
<1> QED
  BY <1>1, AlignedCorrect, PTL

(* The archive never holds two complete downloads of one invoice: the row of *)
(* a file there is the newest of its invoice, the one the duplicate check    *)
(* looks at, and the worker files one at a time.                             *)
THEOREM OneFiledCorrect == Undisturbed => (ArchiveSpec => []OneFiled)
<1> SUFFICES ASSUME Undisturbed PROVE ArchiveSpec => []OneFiled
  OBVIOUS
<1>1. Shape /\ AlignedInv => OneFiled
  <2> SUFFICES ASSUME Shape, AlignedInv, NEW p \in ({"archive"} \X Slots) \ torn,
                      NEW q \in ({"archive"} \X Slots) \ torn,
                      disk[p] # Nothing, disk[q] # Nothing, SameInvoice(disk[p], disk[q])
               PROVE  p = q
    BY DEF OneFiled
  <2>1. \A r \in {"archive"} \X Slots : r \in Paths /\ FolderOf(r) = "archive" /\ r # NoPath
    BY Constants DEF Paths, Folders, FolderOf
  <2>2. Complete(p) /\ Complete(q)
    BY <2>1 DEF Complete
  <2>3. ASSUME NEW r \in {"archive"} \X Slots, Complete(r), r \in Fresh,
               NEW s \in {"archive"} \X Slots, Complete(s), SameInvoice(disk[r], disk[s])
        PROVE  s \in Fresh
    <3>1. job.task = "file" /\ job.step \in {"copying", "record"} /\ r = job.target
      BY <2>3 DEF Fresh
    <3>2. disk[r] = job.doc /\ job.outcome # "error" /\ FolderOfOutcome[job.outcome] = "archive"
      <4>1. job.outcome # "error"
        BY <2>1, <3>1, Outcomes4 DEF AlignedInv, FileJob, Shape, JobShape
      <4> QED
        BY <2>1, <2>3, <3>1, <4>1 DEF AlignedInv, FileJob, Complete
    <3>3. job.outcome = "filed"
      BY <3>1, <3>2, Outcomes4 DEF Shape, TypeOK, Job, Outcome
    <3> QED
      BY <2>3, <3>1, <3>2, <3>3, SameInvoiceFacts DEF AlignedInv, NoTwin
  <2>4. CASE p \in Fresh \/ q \in Fresh
    <3>1. p \in Fresh /\ q \in Fresh
      BY <2>2, <2>3, <2>4, SameInvoiceFacts
    <3> QED
      BY <3>1 DEF Fresh
  <2>5. CASE p \notin Fresh /\ q \notin Fresh
    <3>1. PICK i \in DOMAIN rows : Covers(i, p)
      BY <2>1, <2>2, <2>5 DEF AlignedInv, Covered
    <3>2. PICK j \in DOMAIN rows : Covers(j, q)
      BY <2>1, <2>2, <2>5 DEF AlignedInv, Covered
    <3>3. rows[i].outcome = "filed" /\ rows[j].outcome = "filed"
      BY <2>1, <3>1, <3>2, RowFacts DEF AlignedInv, Covers
    <3>4. i <= j /\ j <= i /\ i \in Nat /\ j \in Nat
      BY <2>1, <3>1, <3>2, <3>3, SameInvoiceFacts, RowFacts DEF AlignedInv, Covers
    <3> QED
      BY <3>1, <3>2, <3>4 DEF Covers
  <2> QED
    BY <2>4, <2>5
<1> QED
  BY <1>1, AlignedCorrect, PTL

-----------------------------------------------------------------------------
(* What an undo forgets.                                                     *)

Everything == Shape /\ AlignedInv /\ ForgetInv

LEMMA Parts ==
  ASSUME Everything
  PROVE  /\ Shape /\ AlignedInv /\ Committed /\ RowShape /\ Covered /\ FileJob /\ UndoJob
         /\ SignatureShape /\ Superseded /\ CopyJob
         /\ job \in Job /\ disk \in [Paths -> Docs \union {Nothing}] /\ NoPath \notin Paths
BY Constants DEF Everything, AlignedInv, ForgetInv, Shape, TypeOK

(* No file, torn or not, appears in a folder of the engine but under Fresh.  *)
NothingThere == \A p \in Paths :
    disk'[p] # Nothing /\ FolderOf(p) # "input" /\ p \notin Fresh' => disk[p] # Nothing /\ p \notin Fresh

LEMMA NothingThereSteps ==
  ASSUME Undisturbed, ~TransferMayFail, Everything, [ArchiveNext]_archiveVars,
         ~RecordResult, ~(Rename /\ job.task = "restore")
  PROVE  NothingThere
<1>0. Shape /\ AlignedInv /\ Committed /\ FileJob /\ UndoJob
  BY Parts
<1>t. job \in Job /\ disk \in [Paths -> Docs \union {Nothing}]
  BY Parts
<1> USE <1>t DEF Job, NothingThere, Fresh
<1>1. CASE ChooseTarget
  <2>1. UNCHANGED disk /\ job.step = "place"
    BY <1>1 DEF ChooseTarget
  <2> QED
    BY <2>1
<1>2. CASE StayInPlace
  <2>1. UNCHANGED disk /\ job.step = "place"
    BY <1>0, <1>2, StayEffect
  <2> QED
    BY <2>1
<1>3. CASE Rename /\ job.task = "file"
  <2>1. job'.task = "file" /\ job'.step = "record" /\ job'.target = job.target /\ job.step = "transfer"
    BY <1>0, <1>3, RenameEffect
  <2>2. \A p \in Paths : p # job.target /\ disk'[p] # Nothing => disk[p] # Nothing
    BY <1>0, <1>3, RenameEffect
  <2> QED
    BY <2>1, <2>2
<1>4. CASE Rename /\ job.task = "undo"
  <2>1. FolderOf(job.target) = "input"
    BY <1>0, <1>4, RenameEffect DEF UndoJob
  <2>2. \A p \in Paths : p # job.target /\ disk'[p] # Nothing => disk[p] # Nothing
    BY <1>0, <1>4, RenameEffect
  <2> QED
    BY <1>4, <2>1, <2>2
<1>5. CASE BeginCopy
  <2>1. \A p \in Paths : p # job.target /\ disk'[p] # Nothing => disk[p] # Nothing
    BY <1>0, <1>5, CopyEffect
  <2>2. job.step = "transfer" /\ job'.task = "file" /\ job'.step = "copying" /\ job'.target = job.target
    BY <1>0, <1>5, CopyEffect
  <2> QED
    BY <2>1, <2>2
<1>6. CASE EndCopy
  <2>1. job'.task = "file" /\ job'.step = "record" /\ job'.target = job.target
        /\ job.task = "file" /\ job.step = "copying" /\ UNCHANGED disk
    BY <1>0, <1>6, EndCopyEffect
  <2> QED
    BY <2>1
<1>7. CASE TransferFails
  <2>1. job.step \in {"place", "transfer", "unlink"} /\ UNCHANGED disk
    BY <1>7, FailEffect
  <2> QED
    BY <2>1
<1>8. CASE (\E p \in Paths : TakeFile(p)) \/ BeginUndo \/ StartMonitor \/ StopMonitor
  <2>1. UNCHANGED files /\ job = NoJob
    <3>1. ASSUME NEW p \in Paths, TakeFile(p) PROVE UNCHANGED files /\ job = NoJob
      BY <3>1 DEF TakeFile
    <3>2. ASSUME BeginUndo PROVE UNCHANGED files /\ job = NoJob
      BY <3>2 DEF BeginUndo
    <3> QED
      BY <1>8, <3>1, <3>2 DEF StartMonitor, StopMonitor
  <2>2. job.task = "none"
    BY <2>1 DEF NoJob
  <2> QED
    BY <2>1, <2>2
<1>9. CASE Remember \/ MarkReverted \/ MarkFails
  <2>1. UNCHANGED files /\ job.step \in {"remember", "mark"}
    BY <1>9 DEF Remember, MarkReverted, MarkFails
  <2> QED
    BY <2>1
<1>10. ASSUME NEW p \in Paths, Remove(p) \/ \E d \in Docs : Arrive(d, p) PROVE NothingThere
  <2>1. UNCHANGED job
    BY <1>10 DEF Remove, Arrive
  <2>2. \A q \in Paths : disk'[q] # Nothing /\ FolderOf(q) # "input" => disk[q] # Nothing
    BY <1>10 DEF Remove, Arrive
  <2> QED
    BY <2>1, <2>2
<1>11. CASE UNCHANGED archiveVars
  BY <1>11
<1>12. CASE Rename
  BY <1>0, <1>12, <1>3, <1>4, RenameEffect
<1> QED
  BY <1>0, <1>1, <1>2, <1>12, <1>5, <1>6, <1>7, <1>8, <1>9, <1>10, <1>11, StepsLeft

LEMMA SignatureShapeStep ==
  ASSUME Undisturbed, Everything, [ArchiveNext]_archiveVars
  PROVE  SignatureShape'
<1>0. Shape /\ AlignedInv /\ Committed /\ FileJob /\ UndoJob /\ SignatureShape /\ CopyJob /\ job \in Job
  BY Parts
<1>1. CASE RecordResult
  <2> DEFINE n == Len(rows) + 1
  <2>1. /\ DOMAIN rows' = DOMAIN rows \union {n}
        /\ \A i \in DOMAIN rows : rows'[i] = rows[i]
        /\ rows'[n].outcome = job.outcome /\ rows'[n].destination = job.target
        /\ rows'[n].signature = Signature(job.source)
    BY <1>0, <1>1, Recorded
  <2> HIDE DEF n
  <2>2. job.task = "file" /\ job.step = "record"
    BY <1>1 DEF RecordResult
  <2>3. ASSUME Signature(job.source) # NoSignature
        PROVE  /\ job.outcome # "error" /\ FolderOf(job.source) \in {"input"} \union Pending
               /\ FolderOf(job.source) \in Pending => job.target = job.source
               /\ Signature(job.source)[1] = job.source
    <3>1. Exists(job.source)
      BY <2>3 DEF Signature
    <3>2. Signature(job.source)[1] = job.source
      BY <3>1 DEF Signature
    <3>3. job.source \in Paths
      BY <2>2 DEF Shape, JobShape, Everything
    <3>4. job.target # NoPath /\ (FolderOf(job.source) \in Pending => job.target = job.source)
      BY <1>0, <2>2, <3>1, <3>3, Constants DEF CopyJob, Pending
    <3> QED
      BY <1>0, <2>2, <3>2, <3>4 DEF FileJob
  <2> QED
    BY <1>0, <2>1, <2>3 DEF SignatureShape
<1>2. CASE MarkReverted
  BY <1>0, <1>2, Unrecorded DEF SignatureShape
<1>3. CASE ~RecordResult /\ ~MarkReverted
  BY <1>0, <1>3, RowsStay DEF SignatureShape
<1> QED
  BY <1>1, <1>2, <1>3

(* What the worker found in the ledger when it took a file in copy mode.     *)
LEMMA NotSeen ==
  ASSUME Everything, NEW sig \in Signatures, ~SourceSeen(sig),
         NEW j \in DOMAIN rows, Signed(j), rows[j].signature = sig,
         \A l \in DOMAIN rows : Signed(l) /\ rows[l].signature = sig => l <= j
  PROVE  ~Exists(rows[j].destination)
<1> DEFINE hits == {i \in DOMAIN rows : rows[i].signature = sig /\ ~rows[i].reverted}
<1>1. j \in hits
  BY DEF Signed, Undoable
<1>2. \A l \in hits : Signed(l)
  <2> TAKE l \in hits
  <2>1. rows[l].signature # NoSignature /\ rows[l] \in Row
    BY Constants DEF Everything, Shape, TypeOK
  <2>2. rows[l].outcome # "error" /\ rows[l].destination # NoPath
    BY <2>1, Parts DEF SignatureShape, RowShape
  <2> QED
    BY <2>1, <2>2 DEF Signed, Undoable, Row, Outcome
<1>3. Newest(j, hits)
  BY <1>1, <1>2 DEF Newest
<1> QED
  BY <1>1, <1>3 DEF SourceSeen

Undecided == \A j \in DOMAIN rows :
    /\ Signed(j) /\ rows[j].signature = <<job.source, job.doc>>
    /\ \A l \in DOMAIN rows : Signed(l) /\ rows[l].signature = <<job.source, job.doc>> => l <= j
    /\ Exists(rows[j].destination)
    => rows[j].destination \in Fresh

LEMMA UndecidedStays ==
  ASSUME Everything, NothingThere, rows' = rows, job'.source = job.source, job'.doc = job.doc, Undecided
  PROVE  Undecided'
<1>1. Undoable' = Undoable
  BY UndoableSame
<1>2. \A j \in DOMAIN rows : Signed(j) => rows[j].destination \in Paths /\ FolderOf(rows[j].destination) # "input"
  BY Parts, RowFacts DEF Signed
<1>3. \A j : Signed(j)' <=> Signed(j)
  BY <1>1 DEF Signed
<1> SUFFICES ASSUME NEW j \in DOMAIN rows, Signed(j), rows[j].signature = <<job.source, job.doc>>,
                    \A l \in DOMAIN rows : Signed(l) /\ rows[l].signature = <<job.source, job.doc>> => l <= j,
                    disk'[rows[j].destination] # Nothing, rows[j].destination \notin Fresh'
             PROVE  FALSE
  BY <1>3 DEF Undecided, Exists
<1>4. disk[rows[j].destination] # Nothing /\ rows[j].destination \notin Fresh
  BY <1>2 DEF NothingThere
<1>5. rows[j].destination # NoPath
  BY <1>2, Parts
<1> QED
  BY <1>4, <1>5 DEF Undecided, Exists

LEMMA CopyJobStep ==
  ASSUME Undisturbed, ~TransferMayFail, Everything, [ArchiveNext]_archiveVars
  PROVE  CopyJob'
<1>0. Shape /\ AlignedInv /\ Committed /\ FileJob /\ UndoJob /\ CopyJob /\ job \in Job
      /\ disk \in [Paths -> Docs \union {Nothing}] /\ NoPath \notin Paths
  BY Parts
<1> USE DEF Job
<1>a. ASSUME job'.task = "file", job'.step # "remember", monitor' = "copy", FolderOf(job'.source) = "input"
      PROVE  Undecided'
  <2>1. ASSUME NEW p \in Paths, TakeFile(p) PROVE Undecided'
    <3>1. PICK outcome \in Outcomes(p) :
             job' = [NoJob EXCEPT !.task = "file", !.step = "place", !.source = p,
                                  !.doc = disk[p], !.outcome = outcome]
      BY <2>1 DEF TakeFile
    <3>2. UNCHANGED <<disk, rows, monitor>> /\ Exists(p) /\ ~AlreadyProcessed(p)
      BY <2>1 DEF TakeFile
    <3>3. Signature(p) = <<p, disk[p]>> /\ Signature(p) \in Signatures /\ job'.source = p /\ job'.doc = disk[p]
      BY <1>0, <3>1, <3>2, SignatureType DEF Shape, NoJob, Places
    <3>4. ~SourceSeen(<<p, disk[p]>>) /\ <<p, disk[p]>> \in Signatures
      BY <1>a, <3>2, <3>3 DEF AlreadyProcessed
    <3>5. Undoable' = Undoable
      BY <3>2, UndoableSame
    <3>6. \A j : Signed(j)' <=> Signed(j)
      BY <3>2, <3>5 DEF Signed
    <3> SUFFICES ASSUME NEW j \in DOMAIN rows, Signed(j), rows[j].signature = <<p, disk[p]>>,
                        \A l \in DOMAIN rows : Signed(l) /\ rows[l].signature = <<p, disk[p]>> => l <= j,
                        Exists(rows[j].destination)
                 PROVE  FALSE
      BY <3>2, <3>3, <3>6 DEF Undecided, Exists
    <3> QED
      BY <3>4, NotSeen
  <2>2. CASE \A p \in Paths : ~TakeFile(p)
    <3>1. /\ job.task = "file" /\ job.step # "remember" /\ job'.doc = job.doc /\ job'.source = job.source
          /\ ~RecordResult
      BY <1>0, <1>a, <2>2, FilingGoesOn
    <3>2. monitor' = monitor /\ rows' = rows
      <4>1. job # NoJob
        BY <3>1 DEF NoJob
      <4>2. ~StartMonitor /\ ~StopMonitor /\ ~MarkReverted
        BY <4>1, <3>1 DEF StartMonitor, StopMonitor, MarkReverted, Shape, JobShape, Everything
      <4>3. rows' = rows
        BY <1>0, <3>1, <4>2, RowsStay
      <4>4. monitor' = monitor
        BY <1>0, <3>1, <4>2, StepsLeft
           DEF ChooseTarget, StayInPlace, Rename, BeginCopy, EndCopy, TransferFails, TakeFile, Remember,
               BeginUndo, MarkFails, Remove, Arrive
      <4> QED
        BY <4>3, <4>4
    <3>3. Undecided
      BY <1>0, <1>a, <3>1, <3>2 DEF CopyJob, Undecided
    <3>4. NothingThere
      BY <3>1, NothingThereSteps
    <3> QED
      BY <3>1, <3>2, <3>3, <3>4, UndecidedStays
  <2> QED
    BY <2>1, <2>2
<1>b. ASSUME job'.task = "file", job'.step = "record", job'.source \in Paths, disk'[job'.source] # Nothing
      PROVE  \/ job'.target = job'.source /\ FolderOf(job'.source) \in Pending
             \/ monitor' = "copy" /\ FolderOf(job'.source) = "input" /\ job'.target # NoPath
  <2>1. CASE StayInPlace
    <3>1. job'.target = job.source /\ job'.source = job.source /\ job.task = "file" /\ job.step = "place"
          /\ FolderOf(job.source) = FolderOfOutcome[job.outcome]
      BY <1>0, <2>1, StayEffect
    <3>2. FolderOf(job.source) # "input" /\ FolderOf(job.source) \in {"input"} \union Pending
      BY <1>0, <3>1, Outcomes4 DEF Shape, JobShape, FileJob
    <3> QED
      BY <3>1, <3>2
  <2>2. CASE Rename
    <3>1. job.source \in Paths /\ disk'[job.source] = Nothing
      BY <1>0, <2>2, RenameEffect
    <3>2. job' = NoJob \/ job'.source = job.source
      BY <1>0, <2>2, RenameEffect
    <3> QED
      BY <1>b, <3>1, <3>2 DEF NoJob
  <2>3. CASE EndCopy
    <3>1. job.task = "file" /\ job.step = "copying" /\ ~Moves /\ job.target \in Paths
          /\ job'.source = job.source /\ job'.target = job.target
      BY <1>0, <2>3, EndCopyEffect
    <3>2. monitor' = monitor
      BY <2>3 DEF EndCopy
    <3> QED
      BY <1>0, <3>1, <3>2 DEF Moves, FileJob
  <2>4. CASE TransferFails
    <3>1. ~Exists(job.source) /\ UNCHANGED disk
      BY <2>4, FailEffect
    <3>2. job' # NoJob
      BY <1>b DEF NoJob
    <3>3. job'.source = job.source
      <4>1. \/ job' = [job EXCEPT !.step = "place", !.outcome = "quarantined", !.target = NoPath]
            \/ job' = [job EXCEPT !.step = "record", !.outcome = "error", !.target = NoPath]
        BY <2>4, <3>2, FailEffect, Zenon
      <4> QED
        BY <1>0, <4>1
    <3> QED
      BY <1>0, <1>b, <3>1, <3>3 DEF Exists
  <2>5. ASSUME NEW p \in Paths, Remove(p) \/ \E d \in Docs : Arrive(d, p)
        PROVE  /\ UNCHANGED <<job, monitor>>
               /\ \A q \in Paths : q = job.source /\ disk'[q] # Nothing => disk[q] # Nothing
    BY <1>0, <2>5 DEF Remove, Arrive
  <2>6. CASE \E p \in Paths : Remove(p) \/ \E d \in Docs : Arrive(d, p)
    <3>1. UNCHANGED <<job, monitor>> /\ disk[job.source] # Nothing
      BY <1>b, <2>5, <2>6
    <3> QED
      BY <1>0, <1>b, <3>1 DEF CopyJob, Exists
  <2>7. CASE UNCHANGED archiveVars
    BY <1>0, <1>b, <2>7 DEF CopyJob, Exists
  <2>8. CASE \/ ChooseTarget \/ BeginCopy \/ (\E p \in Paths : TakeFile(p)) \/ RecordResult
             \/ StartMonitor \/ StopMonitor
    <3>1. ASSUME ChooseTarget PROVE FALSE
      BY <1>0, <1>b, <3>1 DEF ChooseTarget
    <3>2. ASSUME BeginCopy PROVE FALSE
      BY <1>0, <1>b, <3>2, CopyEffect
    <3>3. ASSUME NEW p \in Paths, TakeFile(p) PROVE FALSE
      BY <1>b, <3>3 DEF TakeFile, NoJob
    <3>4. ASSUME RecordResult PROVE FALSE
      BY <1>0, <1>b, <3>4 DEF RecordResult
    <3>5. ASSUME StartMonitor \/ StopMonitor PROVE FALSE
      BY <1>b, <3>5 DEF StartMonitor, StopMonitor, NoJob
    <3> QED
      BY <2>8, <3>1, <3>2, <3>3, <3>4, <3>5
  <2>9. CASE Remember \/ MarkReverted \/ BeginUndo \/ MarkFails
    BY <1>0, <1>b, <2>9, NoFiling
  <2> QED
    BY <1>0, <2>1, <2>2, <2>3, <2>4, <2>6, <2>7, <2>8, <2>9, StepsLeft
<1>c. job'.task = "file" => job'.source \in Paths
  BY <1>0, TypeStep DEF Shape, JobShape
<1> QED
  BY <1>a, <1>b, <1>c DEF CopyJob, Undecided, Exists

LEMMA SupersededStep ==
  ASSUME Undisturbed, ~TransferMayFail, Everything, [ArchiveNext]_archiveVars
  PROVE  Superseded'
<1>0. Shape /\ AlignedInv /\ Committed /\ RowShape /\ FileJob /\ UndoJob /\ SignatureShape /\ Superseded
      /\ CopyJob /\ job \in Job /\ disk \in [Paths -> Docs \union {Nothing}] /\ NoPath \notin Paths
  BY Parts
<1> USE DEF Job
<1>r. \A i \in DOMAIN rows : Signed(i) => /\ rows[i].destination \in Paths
                                          /\ FolderOf(rows[i].destination) # "input"
                                          /\ rows[i].destination # NoPath
  BY <1>0, RowFacts DEF Signed
<1>n. \A i \in DOMAIN rows : i \in Nat
  BY <1>0, RowFacts
<1>u. Undoable \subseteq DOMAIN rows
  BY DEF Undoable
<1>1. CASE RecordResult
  <2> DEFINE n == Len(rows) + 1
             sig == Signature(job.source)
  <2>1. /\ DOMAIN rows' = DOMAIN rows \union {n} /\ n \notin DOMAIN rows
        /\ \A i \in DOMAIN rows : rows'[i] = rows[i] /\ i <= n
        /\ rows'[n].signature = sig /\ rows'[n].destination = job.target
        /\ job.outcome = "error" => Undoable' = Undoable
        /\ job.outcome # "error" => Undoable' = Undoable \union {n}
    BY <1>0, <1>1, Recorded
  <2>n. n \in Nat
    BY DEF Everything, Shape, TypeOK
  <2> HIDE DEF n, sig
  <2>2. /\ UNCHANGED disk /\ job.task = "file" /\ job.step = "record"
        /\ job.target = NoPath <=> job.outcome = "error"
    BY <1>0, <1>1 DEF RecordResult, FileJob
  <2>3. \A i \in DOMAIN rows : Signed(i)' <=> Signed(i)
    BY <2>1, <1>u DEF Signed
  <2>4. ASSUME NEW p \in Paths, p \in Fresh
        PROVE  n \in Undoable' /\ rows'[n].destination = p
    BY <1>0, <2>1, <2>2, <2>4 DEF Fresh
  <2> SUFFICES ASSUME NEW i \in DOMAIN rows', NEW j \in DOMAIN rows', Below(j, i)',
                      Exists(rows[j].destination)'
               PROVE  \E k \in Undoable' : k >= i /\ rows'[k].destination = rows'[j].destination
    BY DEF Superseded
  <2>5. i <= n /\ i \in Nat /\ j \in DOMAIN rows /\ j < i
    BY <1>n, <2>1, <2>n DEF Below
  <2>6. Signed(j) /\ rows'[j] = rows[j] /\ rows[j].destination \in Paths /\ Exists(rows[j].destination)
    BY <1>r, <2>1, <2>2, <2>3, <2>5 DEF Below, Exists
  <2>7. CASE i \in DOMAIN rows
    <3>1. Below(j, i)
      BY <2>1, <2>3, <2>5, <2>7 DEF Below
    <3>2. \/ rows[j].destination \in Fresh
          \/ \E k \in Undoable : k >= i /\ rows[k].destination = rows[j].destination
      BY <1>0, <2>5, <2>6, <2>7, <3>1 DEF Superseded
    <3>3. CASE rows[j].destination \in Fresh
      BY <2>1, <2>4, <2>5, <2>6, <2>n, <3>3
    <3>4. CASE \E k \in Undoable : k >= i /\ rows[k].destination = rows[j].destination
      <4>1. PICK k \in Undoable : k >= i /\ rows[k].destination = rows[j].destination
        BY <3>4
      <4>2. k \in Undoable' /\ rows'[k] = rows[k]
        BY <2>1, <1>u
      <4> QED
        BY <2>6, <4>1, <4>2
    <3> QED
      BY <3>2, <3>3, <3>4
  <2>8. CASE i = n
    <3>1. Exists(job.source) /\ sig = <<job.source, disk[job.source]>> /\ sig # NoSignature
          /\ rows[j].signature = sig
      BY <2>1, <2>6, <2>8, Constants DEF Below, Signed, sig, Signature
    <3>2. /\ job.source \in Paths /\ disk[job.source] = job.doc
      <4>1. job.source \in Paths
        BY <2>2 DEF Everything, Shape, JobShape
      <4> QED
        BY <1>0, <2>2, <3>1, <4>1 DEF FileJob, Exists
    <3>3. \A l \in DOMAIN rows : Signed(l) /\ rows[l].signature = <<job.source, job.doc>> => l <= j
      <4> SUFFICES ASSUME NEW l \in DOMAIN rows, Signed(l), rows[l].signature = sig PROVE l <= j
        BY <3>1, <3>2
      <4>1. Signed(l)' /\ rows'[l].signature = rows'[i].signature /\ l < i
        BY <1>n, <2>1, <2>3, <2>8, <2>n
      <4> QED
        BY <2>1, <4>1 DEF Below
    <3>4. rows[j].destination = job.target
      <4>1. CASE job.target = job.source /\ FolderOf(job.source) \in Pending
        BY <1>0, <2>5, <3>1, <4>1 DEF SignatureShape
      <4>2. CASE monitor = "copy" /\ FolderOf(job.source) = "input"
        BY <1>0, <2>2, <2>5, <2>6, <3>1, <3>2, <3>3, <4>2 DEF CopyJob, Fresh
      <4> QED
        BY <1>0, <2>2, <3>1, <4>1, <4>2 DEF CopyJob
    <3>5. job.outcome # "error"
      BY <2>2, <2>6, <3>4, <1>0
    <3> QED
      BY <2>1, <2>6, <2>8, <2>n, <3>4, <3>5
  <2> QED
    BY <2>1, <2>7, <2>8
<1>2. CASE MarkReverted
  <2>1. /\ DOMAIN rows' = DOMAIN rows
        /\ \A l \in DOMAIN rows :
              rows'[l].signature = rows[l].signature /\ rows'[l].destination = rows[l].destination
        /\ Undoable' = Undoable \ {job.row}
        /\ LastUndoable(job.row) /\ ~Exists(job.origin)
        /\ job.row \in DOMAIN rows /\ rows[job.row].destination = job.origin
    BY <1>0, <1>2, Unrecorded
  <2>2. UNCHANGED disk /\ job.step = "mark"
    BY <1>2 DEF MarkReverted
  <2>3. \A l \in DOMAIN rows : Signed(l)' <=> Signed(l) /\ l # job.row
    BY <2>1 DEF Signed
  <2>4. job.row \in Nat /\ \A l \in Undoable : l <= job.row
    BY <2>1, <1>n DEF LastUndoable, Newest
  <2> SUFFICES ASSUME NEW i \in DOMAIN rows, NEW j \in DOMAIN rows, Below(j, i)',
                      Exists(rows[j].destination)'
               PROVE  \E k \in Undoable' : k >= i /\ rows'[k].destination = rows'[j].destination
    BY <2>1 DEF Superseded
  <2>5. Signed(i) /\ Signed(j) /\ Exists(rows[j].destination) /\ i < job.row
    <3>1. Signed(i) /\ Signed(j) /\ i # job.row
      BY <2>3 DEF Below
    <3>2. i <= job.row
      BY <2>4, <3>1 DEF Signed
    <3>3. Exists(rows[j].destination)
      BY <2>1, <2>2 DEF Exists
    <3> QED
      BY <1>n, <2>4, <3>1, <3>2, <3>3
  <2>6. Below(j, i)
    <3> SUFFICES ASSUME NEW l \in DOMAIN rows, Signed(l), rows[l].signature = rows[i].signature, l < i
                 PROVE  l <= j
      BY <2>1, <2>5 DEF Below
    <3>1. l # job.row
      BY <1>n, <2>4, <2>5
    <3> QED
      BY <2>1, <2>3, <3>1 DEF Below
  <2>7. rows[j].destination \notin Fresh
    BY <2>2 DEF Fresh
  <2>8. PICK k \in Undoable : k >= i /\ rows[k].destination = rows[j].destination
    BY <1>0, <2>5, <2>6, <2>7 DEF Superseded
  <2>9. k # job.row
    BY <2>1, <2>5, <2>8
  <2> QED
    BY <1>u, <2>1, <2>8, <2>9
<1>3. CASE Rename /\ job.task = "restore"
  <2>1. rows' = rows /\ Undoable' = Undoable
    BY <1>3, UndoableSame DEF Rename
  <2>2. job.target = job.origin /\ job.row \in Undoable /\ rows[job.row].destination = job.origin
        /\ \A j \in Undoable : j <= job.row
    BY <1>0, <1>3, UndoFacts, RenameEffect DEF UndoJob
  <2>3. \A p \in Paths : p # job.target /\ disk'[p] # Nothing => disk[p] # Nothing
    BY <1>0, <1>3, RenameEffect
  <2>4. \A i : Signed(i)' <=> Signed(i)
    BY <2>1 DEF Signed
  <2> SUFFICES ASSUME NEW i \in DOMAIN rows, NEW j \in DOMAIN rows, Below(j, i)',
                      Exists(rows[j].destination)'
               PROVE  \E k \in Undoable : k >= i /\ rows[k].destination = rows[j].destination
    BY <2>1 DEF Superseded
  <2>5. Below(j, i)
    BY <2>1, <2>4 DEF Below
  <2>6. disk'[rows[j].destination] # Nothing /\ rows[j].destination \in Paths
    BY <1>r, <2>1, <2>5 DEF Exists, Below
  <2>7. CASE rows[j].destination = job.target
    <3>1. job.row >= i
      BY <1>n, <1>u, <2>2, <2>5 DEF Below, Signed
    <3> QED
      BY <2>2, <2>7, <3>1
  <2>8. CASE rows[j].destination # job.target
    <3>1. Exists(rows[j].destination)
      BY <1>0, <2>3, <2>6, <2>8 DEF Exists
    <3>2. rows[j].destination \notin Fresh
      BY <1>3 DEF Fresh
    <3> QED
      BY <1>0, <2>5, <3>1, <3>2 DEF Superseded
  <2> QED
    BY <2>7, <2>8
<1>4. CASE ~RecordResult /\ ~MarkReverted /\ ~(Rename /\ job.task = "restore")
  <2>1. rows' = rows /\ NothingThere
    BY <1>0, <1>4, RowsStay, NothingThereSteps
  <2>2. Undoable' = Undoable
    BY <2>1, UndoableSame
  <2>3. \A i : Signed(i)' <=> Signed(i)
    BY <2>1, <2>2 DEF Signed
  <2> SUFFICES ASSUME NEW i \in DOMAIN rows, NEW j \in DOMAIN rows, Below(j, i)',
                      Exists(rows[j].destination)', rows[j].destination \notin Fresh'
               PROVE  \E k \in Undoable : k >= i /\ rows[k].destination = rows[j].destination
    BY <2>1, <2>2 DEF Superseded
  <2>4. Below(j, i)
    BY <2>1, <2>3 DEF Below
  <2>5. disk'[rows[j].destination] # Nothing
    BY <2>1 DEF Exists
  <2>6. disk[rows[j].destination] # Nothing /\ rows[j].destination \notin Fresh /\ rows[j].destination # NoPath
    BY <1>r, <2>1, <2>4, <2>5 DEF NothingThere, Below
  <2> QED
    BY <1>0, <2>4, <2>6 DEF Superseded, Exists
<1> QED
  BY <1>1, <1>2, <1>3, <1>4

LEMMA EverythingCorrect == Undisturbed /\ ~TransferMayFail => (ArchiveSpec => []Everything)
<1> SUFFICES ASSUME Undisturbed, ~TransferMayFail PROVE ArchiveSpec => []Everything
  OBVIOUS
<1>1. ArchiveInit => ForgetInv
  <2> SUFFICES ASSUME ArchiveInit PROVE ForgetInv
    OBVIOUS
  <2>1. DOMAIN rows = {} /\ job = NoJob
    BY DEF ArchiveInit
  <2> QED
    BY <2>1 DEF ForgetInv, SignatureShape, Superseded, CopyJob, NoJob
<1>2. Shape /\ AlignedInv /\ ForgetInv /\ [ArchiveNext]_archiveVars => ForgetInv'
  <2> SUFFICES ASSUME Shape, AlignedInv, ForgetInv, [ArchiveNext]_archiveVars PROVE ForgetInv'
    OBVIOUS
  <2>1. Everything
    BY DEF Everything
  <2> QED
    BY <2>1, SignatureShapeStep, SupersededStep, CopyJobStep DEF ForgetInv
<1>3. Shape /\ AlignedInv /\ ForgetInv => Everything
  BY DEF Everything
<1> QED
  BY <1>1, <1>2, <1>3, AlignedCorrect, PTL DEF ArchiveSpec

(* An undo forgets the copied original: of the rows that are left with its   *)
(* signature, the newest points to where nothing lies any more.              *)
THEOREM UndoForgetsCorrect == Undisturbed /\ ~TransferMayFail => (ArchiveSpec => UndoForgets)
<1> SUFFICES ASSUME Undisturbed, ~TransferMayFail PROVE ArchiveSpec => UndoForgets
  OBVIOUS
<1> DEFINE Forgets == \A signature \in Paths \X Docs :
              job.step = "mark" /\ job' = NoJob /\ rows' # rows
              /\ signature = rows[job.row].signature => ~SourceSeen(signature)'
<1>1. Everything /\ [ArchiveNext]_archiveVars => [Forgets]_archiveVars
  <2> SUFFICES ASSUME Everything, [ArchiveNext]_archiveVars, NEW sig \in Paths \X Docs,
                      job.step = "mark", rows' # rows, sig = rows[job.row].signature, SourceSeen(sig)'
               PROVE  FALSE
    OBVIOUS
  <2>0. Shape /\ AlignedInv /\ Committed /\ RowShape /\ FileJob /\ UndoJob /\ SignatureShape /\ Superseded
        /\ NoPath \notin Paths
    BY Parts
  <2>1. MarkReverted
    <3>1. ~RecordResult
      BY DEF RecordResult
    <3> QED
      BY <2>0, <3>1, RowsStay
  <2>2. /\ DOMAIN rows' = DOMAIN rows
        /\ \A l \in DOMAIN rows :
              rows'[l].signature = rows[l].signature /\ rows'[l].destination = rows[l].destination
        /\ \A l \in DOMAIN rows : rows'[l].reverted <=> rows[l].reverted \/ l = job.row
        /\ LastUndoable(job.row) /\ ~Exists(job.origin)
        /\ job.row \in DOMAIN rows /\ rows[job.row].destination = job.origin
    BY <2>0, <2>1, Unrecorded
  <2>3. marks' = MarksAfterRevert /\ UNCHANGED disk
    BY <2>1 DEF MarkReverted, Commit
  <2> DEFINE left == {l \in DOMAIN rows : rows[l].signature = sig /\ ~rows'[l].reverted}
  <2>4. \A l \in left : Signed(l) /\ l # job.row
    <3> TAKE l \in left
    <3>1. rows[l].signature # NoSignature /\ rows[l] \in Row
      BY Constants DEF Everything, Shape, TypeOK, Signatures
    <3>2. rows[l].outcome # "error" /\ rows[l].destination # NoPath
      BY <2>0, <3>1 DEF SignatureShape, RowShape
    <3> QED
      BY <2>2, <3>1, <3>2 DEF Signed, Undoable, Row, Outcome
  <2>5. sig \notin marks'
    BY <2>2, <2>3 DEF MarksAfterRevert
  <2>6. PICK j \in left : (\A l \in left : l <= j) /\ Exists(rows[j].destination)
    <3>1. left = {l \in DOMAIN rows' : rows'[l].signature = sig /\ ~rows'[l].reverted}
      BY <2>2
    <3>2. \E i \in DOMAIN rows' : Newest(i, left) /\ Exists(rows[i].destination)'
      BY <2>5, <3>1 DEF SourceSeen, Newest
    <3> QED
      BY <2>2, <2>3, <3>2 DEF Newest, Exists
  <2>7. /\ job.row \in Nat /\ \A l \in DOMAIN rows : l \in Nat
        /\ job.row \in Undoable /\ \A l \in Undoable : l <= job.row
    BY <2>0, <2>2, RowFacts DEF LastUndoable, Newest
  <2>8. Below(j, job.row)
    <3>1. Signed(job.row) /\ Signed(j) /\ j # job.row /\ j <= job.row
      BY <2>2, <2>4, <2>6, <2>7, Constants DEF Signed, Signatures
    <3>2. ASSUME NEW l \in DOMAIN rows, Signed(l), rows[l].signature = sig, l < job.row
          PROVE  l <= j
      <4>1. l \in left
        BY <2>2, <2>7, <3>2 DEF Signed, Undoable
      <4> QED
        BY <2>6, <4>1
    <3> QED
      BY <2>6, <2>7, <3>1, <3>2 DEF Below
  <2>9. rows[j].destination \notin Fresh
    BY DEF Fresh
  <2>10. PICK k \in Undoable : k >= job.row /\ rows[k].destination = rows[j].destination
    BY <2>0, <2>2, <2>6, <2>8, <2>9 DEF Superseded
  <2>11. k = job.row
    BY <2>7, <2>10 DEF Undoable
  <2> QED
    BY <2>2, <2>6, <2>10, <2>11
<1> QED
  BY <1>1, EverythingCorrect, PTL DEF ArchiveSpec, UndoForgets
=============================================================================
