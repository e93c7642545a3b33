------------------------------ MODULE Archive ------------------------------
(***************************************************************************)
(* Files on disk, the ledger in history.db and the two operations that     *)
(* keep them in step: the worker, which places a file and then records it, *)
(* and undo, which moves it back and then marks the row.  A transfer, a    *)
(* statement or the program may fail between any two steps.  Undo runs     *)
(* while the monitor is stopped (Monitor shows when it is not), so one job *)
(* is at work at a time.  Which name a file gets is left open: any free    *)
(* one, or its own if it is in the right folder already.                   *)
(***************************************************************************)
EXTENDS Naturals, Sequences

CONSTANTS
    Docs,            \* documents: what a PDF contains
    Nothing,         \* no file at a path
    Twins,           \* documents that are downloads of one invoice
    Slots,           \* file names
    NoPath,          \* a destination or a source that is None
    NoSignature,     \* file_signature of a path without a file
    Modes,           \* the configurations the user may start with, by copy_files
    CrossDrive,      \* whether shutil.move copies and unlinks
    TransferMayFail, \* whether a transfer may raise
    RecordMayFail,   \* whether the worker's writes to the ledger may raise,
    MarkMayFail,     \* ... those of an undo
    CommitMayFail,   \* ... and leave the transaction open, not rolled back
    MayCrash,
    Removable,       \* folders where the user may delete files
    Placeable,       \* folders of the engine where the user may put files,
    MayCollide,      \* ... also under the names the engine is working with
    UserMayClear,    \* whether the user may clear the history
    MaxRows          \* bound: rows at which the worker takes no more files

Folders == {"input", "review", "quarantine", "archive", "duplicates"}
Pending == {"review", "quarantine"}
Paths == Folders \X Slots
FolderOf(p) == p[1]

ASSUME ArchiveConstants ==
    /\ Nothing \notin Docs
    /\ NoPath \notin Paths
    /\ NoSignature \notin Paths \X Docs
    /\ Twins \subseteq Docs
    /\ MaxRows \in Nat
    /\ Modes \subseteq {"move", "copy"} /\ Removable \subseteq Folders
    /\ Placeable \subseteq Folders \ {"input"}
    /\ {CrossDrive, TransferMayFail, RecordMayFail, MarkMayFail,
        CommitMayFail, MayCrash, MayCollide, UserMayClear} \subseteq BOOLEAN

VARIABLES
    disk,     \* what lies at each path
    torn,     \* paths with part of a file only
    rows,     \* the records table, as the connection sees it
    marks,    \* processed_sources, as the connection sees it
    durable,  \* rows and marks as committed
    memory,   \* SourceMemory._seen_signatures
    monitor,  \* "off", or the mode of the engine that runs
    job,      \* the file the worker or undo is at
    kept      \* history: documents that arrived and that the user did not delete

ledger == <<rows, marks, durable>>
files == <<disk, torn>>
archiveVars == <<files, ledger, memory, monitor, job, kept>>

NoJob == [task |-> "none", step |-> "done", source |-> NoPath, target |-> NoPath,
          origin |-> NoPath, doc |-> Nothing, outcome |-> "error", row |-> 0]

ArchiveInit ==
    /\ disk = [p \in Paths |-> Nothing]
    /\ torn = {}
    /\ rows = <<>> /\ marks = {}
    /\ durable = [rows |-> <<>>, marks |-> {}]
    /\ memory = {}
    /\ monitor = "off"
    /\ job = NoJob
    /\ kept = {}

Exists(p) == p # NoPath /\ disk[p] # Nothing
Signature(p) == IF Exists(p) THEN <<p, disk[p]>> ELSE NoSignature

-----------------------------------------------------------------------------
(* What the ledger answers.                                                *)

\* ORDER BY id DESC LIMIT 1.
Newest(i, ids) == i \in ids /\ \A j \in ids : j <= i

\* ParsedInvoice.identity and issuer_identity: equal for downloads of one invoice.
SameInvoice(d, e) == d = e \/ {d, e} \subseteq Twins

\* Mutant: only the printed name is compared, which differs between downloads.
IsDuplicateByName(d) ==
    LET hits == {i \in DOMAIN rows : /\ ~rows[i].reverted /\ rows[i].outcome = "filed"
                                     /\ rows[i].doc = d}
    IN  \E i \in DOMAIN rows : Newest(i, hits) /\ Exists(rows[i].destination)

\* is_archived_duplicate: the newest row of the invoice that was filed and not
\* reverted, and its file is still there.
IsDuplicate(d) ==
    LET hits == {i \in DOMAIN rows : /\ ~rows[i].reverted /\ rows[i].outcome = "filed"
                                     /\ SameInvoice(rows[i].doc, d)}
    IN  \E i \in DOMAIN rows : Newest(i, hits) /\ Exists(rows[i].destination)

\* source_seen: the newest row of the signature that was not reverted decides; the
\* marks are asked only when there is none.
SourceSeen(signature) ==
    LET hits == {i \in DOMAIN rows : rows[i].signature = signature /\ ~rows[i].reverted}
    IN  IF hits = {} THEN signature \in marks
        ELSE \E i \in DOMAIN rows : Newest(i, hits) /\ Exists(rows[i].destination)

AlreadyProcessed(p) ==
    \/ Signature(p) \in memory
    \/ monitor = "copy" /\ SourceSeen(Signature(p))

Placed == {"filed", "duplicate", "needs_review", "quarantined"}
Undoable == {i \in DOMAIN rows : /\ ~rows[i].reverted /\ rows[i].outcome \in Placed
                                 /\ rows[i].destination # NoPath}

-----------------------------------------------------------------------------
(* Writes to the ledger.                                                   *)

Commit(newRows, newMarks) ==
    /\ rows' = newRows /\ marks' = newMarks
    /\ durable' = [rows |-> newRows, marks |-> newMarks]

\* The write raises: the open transaction is rolled back, or only the statement is, or
\* the statements went through and stay uncommitted, for the connection to see and
\* the next commit to keep.  The code never calls rollback.
WriteFails(newRows, newMarks) ==
    /\ \/ rows' = durable.rows /\ marks' = durable.marks
       \/ rows' = rows /\ marks' = marks
       \/ CommitMayFail /\ rows' = newRows /\ marks' = newMarks
    /\ UNCHANGED durable

-----------------------------------------------------------------------------
(* place_file and move_file.                                               *)

Moves == job.task # "file" \/ monitor # "copy" \/ FolderOf(job.source) \in Pending

FolderOfOutcome == [filed |-> "archive", duplicate |-> "duplicates",
                    needs_review |-> "review", quarantined |-> "quarantine"]

TargetFolder ==
    CASE job.task = "file" -> FolderOfOutcome[job.outcome]
      [] job.task = "undo" -> "input"
      [] job.task = "restore" -> FolderOf(job.origin)

\* Mutant: the name is not made unique.
AnyName(folder) == {folder} \X Slots

\* unique_destination.
FreeNames(folder) == {p \in {folder} \X Slots : disk[p] = Nothing}

\* A restore wants the path the file came from.
Targets ==
    LET free == FreeNames(TargetFolder)
    IN  IF job.task = "restore" /\ job.origin \in free THEN {job.origin} ELSE free

\* What follows a placement.
AfterPlacing ==
    CASE job.task = "file" -> [job EXCEPT !.step = "record"]
      [] job.task = "undo" -> [job EXCEPT !.step = "mark"]
      [] job.task = "restore" -> NoJob

\* _transfer up to the operation: the target is chosen before it is written.
ChooseTarget ==
    /\ job.step = "place"
    /\ \E p \in Targets : job' = [job EXCEPT !.step = "transfer", !.target = p]
    /\ UNCHANGED <<files, ledger, memory, monitor, kept>>

\* _already_at.
StayInPlace ==
    /\ job.step = "place"
    /\ Exists(job.source) /\ FolderOf(job.source) = TargetFolder
    /\ job' = [AfterPlacing EXCEPT !.target = job.source]
    /\ UNCHANGED <<files, ledger, memory, monitor, kept>>

\* shutil.move within a drive.
Rename ==
    /\ job.step = "transfer" /\ Moves /\ ~CrossDrive
    /\ Exists(job.source)
    /\ disk' = [disk EXCEPT ![job.target] = disk[job.source], ![job.source] = Nothing]
    /\ torn' = {p \in torn \ {job.source} : p # job.target}
                   \union {p \in {job.target} : job.source \in torn}
    /\ job' = AfterPlacing
    /\ UNCHANGED <<ledger, memory, monitor, kept>>

\* shutil.copy2, and shutil.move to another drive: the file grows at the target ...
BeginCopy ==
    /\ job.step = "transfer" /\ ~(Moves /\ ~CrossDrive)
    /\ Exists(job.source)
    /\ disk' = [disk EXCEPT ![job.target] = disk[job.source]]
    /\ torn' = torn \union {job.target}
    /\ job' = [job EXCEPT !.step = "copying"]
    /\ UNCHANGED <<ledger, memory, monitor, kept>>

\* ... is complete, unless the source is cut short ...
EndCopy ==
    /\ job.step = "copying"
    /\ torn' = IF job.source \in torn THEN torn ELSE torn \ {job.target}
    /\ job' = IF Moves THEN [job EXCEPT !.step = "unlink"] ELSE AfterPlacing
    /\ UNCHANGED <<disk, ledger, memory, monitor, kept>>

\* ... and the source goes.
Unlink ==
    /\ job.step = "unlink"
    /\ Exists(job.source)
    /\ disk' = [disk EXCEPT ![job.source] = Nothing]
    /\ torn' = torn \ {job.source}
    /\ job' = AfterPlacing
    /\ UNCHANGED <<ledger, memory, monitor, kept>>

\* The transfer raises.  A filing is tried again as a quarantine while the source
\* exists; a quarantine becomes an ERROR; an undo and a restore give up.
TransferFails ==
    /\ job.step \in {"place", "transfer", "copying", "unlink"}
    /\ TransferMayFail \/ (job.step # "copying" /\ ~Exists(job.source))
    /\ job' =
         IF job.task # "file" THEN NoJob
         ELSE IF job.outcome # "quarantined" /\ Exists(job.source)
         THEN [job EXCEPT !.step = "place", !.outcome = "quarantined", !.target = NoPath]
         ELSE [job EXCEPT !.step = "record", !.outcome = "error", !.target = NoPath]
    /\ UNCHANGED <<files, ledger, memory, monitor, kept>>

-----------------------------------------------------------------------------
(* The worker.                                                             *)

\* InvoiceProcessor.process up to _archive or _quarantine: a torn file cannot be
\* read, any other may turn out unreadable or unreliable, and what is left is a
\* duplicate or not.
Outcomes(p) ==
    IF p \in torn THEN {"quarantined"}
    ELSE {"quarantined", "needs_review", IF IsDuplicate(disk[p]) THEN "duplicate" ELSE "filed"}

TakeFile(p) ==
    /\ monitor # "off" /\ job = NoJob
    /\ Len(rows) < MaxRows
    /\ FolderOf(p) \in {"input"} \union Pending
    /\ Exists(p) /\ ~AlreadyProcessed(p)
    /\ \E outcome \in Outcomes(p) :
          job' = [NoJob EXCEPT !.task = "file", !.step = "place", !.source = p,
                               !.doc = disk[p], !.outcome = outcome]
    /\ UNCHANGED <<files, ledger, memory, monitor, kept>>

\* Mutant: the row of a quarantine names no destination.
RecordWithoutQuarantine ==
    /\ job.task = "file" /\ job.step = "record"
    /\ LET row == [doc |-> job.doc, signature |-> Signature(job.source), outcome |-> job.outcome,
                   destination |-> IF job.outcome = "quarantined" THEN NoPath ELSE job.target,
                   reverted |-> FALSE]
       IN  Commit(Append(rows, row), marks)
    /\ job' = [job EXCEPT !.step = "remember"]
    /\ UNCHANGED <<files, memory, monitor, kept>>

\* record_result: the signature is that of the source as it is now.  A failure is
\* logged and the work goes on.
RecordResult ==
    /\ job.task = "file" /\ job.step = "record"
    /\ LET row == [doc |-> job.doc, signature |-> Signature(job.source), outcome |-> job.outcome,
                   destination |-> job.target, reverted |-> FALSE]
       IN  \/ Commit(Append(rows, row), marks)
           \/ RecordMayFail /\ WriteFails(Append(rows, row), marks)
    /\ job' = [job EXCEPT !.step = "remember"]
    /\ UNCHANGED <<files, memory, monitor, kept>>

\* SourceMemory.remember and _mark_copied; the worker is done.
Remember ==
    /\ job.task = "file" /\ job.step = "remember"
    /\ IF monitor = "copy" /\ job.outcome \in Placed /\ Exists(job.source)
       THEN /\ memory' = memory \union {Signature(job.source)}
            /\ LET marked == marks \union {Signature(job.source)}
               IN  Commit(rows, marked) \/ (RecordMayFail /\ WriteFails(rows, marked))
       ELSE UNCHANGED <<memory, ledger>>
    /\ job' = NoJob
    /\ UNCHANGED <<files, monitor, kept>>

-----------------------------------------------------------------------------
(* Undo.                                                                   *)

\* Mutant: the oldest row first.
FirstUndoable(i) == i \in Undoable /\ \A j \in Undoable : i <= j

LastUndoable(i) == Newest(i, Undoable)

\* undo_last and perform_undo: a file that is gone is only marked.
BeginUndo ==
    /\ monitor = "off" /\ job = NoJob
    /\ \E i \in DOMAIN rows :
          LET path == rows[i].destination
              undo == [NoJob EXCEPT !.row = i, !.source = path, !.origin = path]
          IN  /\ LastUndoable(i)
              /\ job' = IF Exists(path) THEN [undo EXCEPT !.task = "undo", !.step = "place"]
                                        ELSE [undo EXCEPT !.task = "missing", !.step = "mark"]
    /\ UNCHANGED <<files, ledger, memory, monitor, kept>>

\* The row may be gone: an insert that was never committed, rolled back since.
Reverted == [i \in DOMAIN rows |-> [rows[i] EXCEPT !.reverted = @ \/ i = job.row]]

\* Mutant: the mark of the source is not deleted.
MarksAsTheyAre == marks

MarksAfterRevert == marks \ {rows[i].signature : i \in DOMAIN rows \intersect {job.row}}

\* mark_reverted.
MarkReverted ==
    /\ job.step = "mark"
    /\ Commit(Reverted, MarksAfterRevert)
    /\ job' = NoJob
    /\ UNCHANGED <<files, memory, monitor, kept>>

\* _mark_or_restore: the mark fails and the file goes back.
MarkFails ==
    /\ job.step = "mark"
    /\ MarkMayFail
    /\ WriteFails(Reverted, MarksAfterRevert)
    /\ job' = IF job.task = "undo"
              THEN [job EXCEPT !.task = "restore", !.step = "place", !.source = job.target,
                               !.target = NoPath]
              ELSE NoJob
    /\ UNCHANGED <<files, memory, monitor, kept>>

-----------------------------------------------------------------------------
(* The user, and the end of the program.                                   *)

Arrived(d) == \E p \in Paths : disk[p] = d

\* A download; not onto the path the worker is at, which is InboxOverwritten's.
Arrive(d, p) ==
    /\ FolderOf(p) = "input" /\ disk[p] = Nothing
    /\ p # job.source /\ p # job.target
    /\ d \notin kept /\ ~Arrived(d)
    /\ disk' = [disk EXCEPT ![p] = d]
    /\ kept' = kept \union {d}
    /\ UNCHANGED <<torn, ledger, memory, monitor, job>>

Remove(p) ==
    /\ FolderOf(p) \in Removable
    /\ Exists(p)
    /\ kept' = kept \ {disk[p]}
    /\ disk' = [disk EXCEPT ![p] = Nothing]
    /\ torn' = torn \ {p}
    /\ UNCHANGED <<ledger, memory, monitor, job>>

\* Somebody else writes a file into a folder of the engine.
PutByHand(d, p) ==
    /\ FolderOf(p) \in Placeable /\ disk[p] = Nothing
    /\ p \in {job.source, job.target} => MayCollide
    /\ d \notin kept /\ ~Arrived(d)
    /\ disk' = [disk EXCEPT ![p] = d]
    /\ kept' = kept \union {d}
    /\ UNCHANGED <<torn, ledger, memory, monitor, job>>

\* clear_history.
Clear ==
    /\ UserMayClear
    /\ monitor = "off" /\ job = NoJob
    /\ rows # <<>>
    /\ Commit(<<>>, {})
    /\ UNCHANGED <<files, memory, monitor, job, kept>>

\* A new generation forgets what it remembered.
StartMonitor ==
    /\ monitor = "off" /\ job = NoJob
    /\ monitor' \in Modes
    /\ memory' = {}
    /\ UNCHANGED <<files, ledger, job, kept>>

StopMonitor ==
    /\ monitor # "off" /\ job = NoJob
    /\ monitor' = "off"
    /\ UNCHANGED <<files, ledger, memory, job, kept>>

\* The program ends, in the middle of anything; what was not committed is gone.
Crash ==
    /\ MayCrash
    /\ rows' = durable.rows /\ marks' = durable.marks
    /\ memory' = {}
    /\ monitor' = "off"
    /\ job' = NoJob
    /\ UNCHANGED <<files, durable, kept>>

-----------------------------------------------------------------------------
Transfer ==
    \/ ChooseTarget \/ StayInPlace \/ Rename \/ BeginCopy \/ EndCopy \/ Unlink \/ TransferFails
WorkerStep == (\E p \in Paths : TakeFile(p)) \/ RecordResult \/ Remember
UndoStep == BeginUndo \/ MarkReverted \/ MarkFails
Surroundings ==
    \/ \E p \in Paths : Remove(p) \/ \E d \in Docs : Arrive(d, p) \/ PutByHand(d, p)
    \/ Clear \/ StartMonitor \/ StopMonitor \/ Crash

ArchiveNext == Transfer \/ WorkerStep \/ UndoStep \/ Surroundings

ArchiveSpec == ArchiveInit /\ [][ArchiveNext]_archiveVars

-----------------------------------------------------------------------------
(* Properties.                                                             *)

\* "No invoice is ever lost": a document that arrived, and that the user did not
\* delete, lies complete at some path, whatever fails and whenever the program ends.
NothingLost == \A d \in kept : \E p \in Paths : disk[p] = d /\ p \notin torn

\* One invoice is filed once: the archive never holds two complete downloads of it,
\* through undos, retries, copies and deletions.
OneFiled ==
    \A p, q \in ({"archive"} \X Slots) \ torn :
        /\ disk[p] # Nothing /\ disk[q] # Nothing
        /\ SameInvoice(disk[p], disk[q])
        => p = q

\* "The ledger and the disk stay aligned": between jobs, every complete file in a
\* folder of the engine has a row that undo can still find.
Accounted ==
    job = NoJob =>
        \A p \in Paths \ torn : disk[p] # Nothing /\ FolderOf(p) # "input" =>
            \E i \in Undoable : rows[i].destination = p /\ rows[i].doc = disk[p]

\* Undo moves the document its row is about, unless a failed copy left part of a
\* file there: paths are used again and again, and rows are undone newest first.
UndoTakesItsOwn ==
    job.task = "undo" /\ Exists(job.source) /\ job.source \notin torn => disk[job.source] = rows[job.row].doc

\* An undo forgets the copied original: nothing the ledger holds after it makes the
\* original count as seen.
UndoForgets ==
    [][\A signature \in Paths \X Docs :
          job.step = "mark" /\ job' = NoJob /\ rows' # rows
          /\ signature = rows[job.row].signature => ~SourceSeen(signature)']_archiveVars
=============================================================================
