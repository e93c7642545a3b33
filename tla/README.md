# Automator in TLA+

Automator is a desktop program (Python, customtkinter, watchdog, SQLite) that
watches a folder for PDF invoices, reads each one, decides which of our
companies bought and who issued it, and moves or copies it to
`<company>/<year>/<supplier>/…`, to a review folder (`_PARA_REVISAR`) or to a
quarantine (`_ERRORES`). This directory models its logic as TLA+ modules, checks
them with TLC on small instances, and proves with TLAPS, for every value of the
constants, the safety properties and the step properties that TLC checks. Paths below are relative to `src/src/automator/` unless they start with
`docs/`.

## 1. The system

### Components

| Component | State it keeps | Operations | Module |
|---|---|---|---|
| Engine: lifecycle and runtime (`services/engine/lifecycle.py`, `runtime.py`) | `_starting`, `_lock`, `_lifecycle_lock`, `_generation_id`, references to watcher, worker, rescanner, the stop event and work queue of the generation | `start`, `stop`, the failed launch, `halt_threads`, `join_threads` | `Lifecycle`, `Generations` |
| Engine: inbox (`services/engine/inbox.py`) | `_inflight`, `_input_unreadable` | `enqueue`, `requeue`, `process_existing`, `rescan_loop`, `reprocess_pending`, `clear` | `Inbox` |
| Engine: worker (`services/engine/worker.py`) | the generation's queue | `worker_loop`, `process_now`, `record_result`, `is_archived_duplicate` | `Inbox`, `Archive`, `Filing` |
| Engine: source memory (`services/engine/source_memory.py`) | signatures and paths seen | `already_processed`, `remember`, `clear` | `Inbox`, `Archive` |
| Engine: events | the queue to the interface | `_emit` with the generation | `Monitor` |
| Watcher (`services/watcher.py`) | watchdog's thread | start, callback, stop | an external source in `Inbox`; a thread reference in `Lifecycle` |
| File operations (`services/file_ops.py`) | the folders | `unique_destination`, move, copy, signature, wait | `Archive` |
| Processor (`services/processing/`) | none | `process`, `decide_filing`, placement | `Filing`, `Archive`, `Inbox` |
| Ledger (`services/ledger.py`, in `history.db`) | `records`, `processed_sources` | `record`, `archived_destination`, `source_seen`, `last_undoable`, `mark_reverted` | `Archive`, `Filing` |
| Undo (`services/undo.py`) | none | `undo_last` | `Archive`, `Monitor` |
| PDF reader and parser (`services/pdf_reader.py`, `domain/parser/`) | none | `extract_text`, `read_qr_payloads`, `unique_afip_qr`, `parse_invoice`, `detect_number`, `detect_voucher`, `merge_qr` | `Reading`, `Filing` |
| CUIT (`domain/cuit.py`) | none | `is_valid_cuit`, `coerce_cuit`, `require_valid_cuit` | `Cuit`; who is who among several in `Filing` |
| Destination folder (`domain/filing/destination.py`, `domain/filenames.py`) | none | `destination_dir`, `sanitize_component` | `Folders` |
| Buyer, supplier registry, filing policy, records (`domain/`) | none | `resolve_buyer`, `match`, `merge_supplier`, `decide_filing`, the identities | `Filing`, `Suppliers` |
| Supplier store and registry (`services/supplier_store.py`) | the table `suppliers`, the open transaction, the snapshot | `bulk_upsert`, `delete`, `clear`, `reload` | `Suppliers` |
| Excel import (`services/excel_import.py`) | none | `read_rows`, `parse_suppliers`, `parse_societies` | `Suppliers`, `Companies` |
| Configuration store (`config/store.py`) | `config.json`, its temporary file, the snapshot | `load_store`, `save_config`, `update` | `Settings` |
| Configuration model (`config/model.py`, `config/defaults.py`) | none | the validators, `society_folder`, `orders_base_for`, the default | `Folders`, `Configured` |
| Settings form (`ui/controllers/settings_form.py`) | the form, the list of companies, `_restart_after_save` | `persist`, `collect_and_save`, `consume_restart`; add, edit, remove and import companies | `Settings`, `Monitor`, `Companies` |
| Dialogs (`ui/dialogs/`, `ui/widgets/modal.py`) | the grab, what a dialog returns | open, save, cancel, close a report | `Companies` |
| Engine bridge (`ui/controllers/engine_bridge.py`) | `_generation`, the toggle | `toggle`, `start`, `stop`, `poll_events` and the handling of each event | `Monitor` |
| History actions (`ui/controllers/history_actions.py`) | `_retry_when_started` | undo, retry, clear, `on_engine_started` | `Monitor`, `Archive` |
| Suppliers controller (`ui/controllers/suppliers.py`) | what the view shows, the mailbox | import, delete, clear, report | `Suppliers` |
| Pending controller (`ui/controllers/pending.py`) | `_latest`, `_counting`, `_last` | the poll, the count, the notification | `Pending` |
| Shell (`ui/shell.py`) | the window, the open stores | boot, first run, close | `Monitor`, `Settings`, `Companies` |
| Views, widgets, paths, logging, migrations | – | – | not modelled, see section 7 |

### How they interact

- The **Tk thread** runs every callback of the interface. It never waits for the
  engine: `run_async` gives each `start` and `stop` a thread of its own, so
  these calls overlap, and what became of them comes back as events that
  `poll_events` drains from a queue.
- An engine **generation** is a work queue, a stop event and three threads
  (watcher, worker, rescanner). `start` also sweeps the input folder on its own
  thread, and a retry (`reprocess_pending`) sweeps the pending folders on
  another. All of them offer paths to one queue; the reservation `_inflight`,
  under a lock, keeps a path from being offered twice.
- The **worker** reads the registry snapshot and the configuration snapshot (both
  replaced by other threads), places the file, then writes the ledger. **Undo**
  moves the file back, then marks the row. Disk and ledger have no common
  transaction.
- `history.db` has two connections, the ledger's and the suppliers'. Each is
  shared by all threads under a lock of its store.
- Imports run in threads and report through a **mailbox** the Tk thread drains;
  removals run in the Tk thread.
- A callback that opens a **dialog** waits for it in a nested event loop, in which
  polls go on and other callbacks may begin; the dialog's grab is all that keeps
  the window's buttons from being clicked. The callback then goes on with what it
  knew before.
- What the user enters in the form is the **configuration**, if `AppConfig` accepts
  it; the folders it names meet the names read from documents only when one is
  archived.

### What is hard in it

Interleavings (offers of the same path, overlapping starts and stops,
overlapping reloads, the poll against the counting thread, dialogs on top of one
another), state that is stale
when used (`is_running` during a launch, the signature taken after the copy, an
event of another generation), steps of which one fails (a launch, a transfer, a
statement, an undo mark), crashes between the file and its row, joins that time
out, and rules whose cases meet (text against QR against registry, two keys of
one voucher, the numbers a text quotes beside its own). PROJECT.json lists them as hazards, each at its line, with the
property that would catch it.

### What makes each component correct

| Component | Correct when |
|---|---|
| Inbox | a path has one holder; no reservation leaks; every input PDF reaches the worker; a copied original is remembered; a source counts as seen only if that content was placed |
| Lifecycle | one start at a time; every live thread referenced and of the newest generation; halted threads end, calls return; it implements `Generations` |
| Monitor | the toggle comes back and tells the truth; a save while running ends in a running engine or an error, and no retry waits beside a running engine; no thread outlives the stores; undo and the clearing of the history run alone |
| Archive | no document is lost; an invoice is filed once; every file placed has a row undo can find; undo moves the file of its own row and lets the original be processed again |
| Filing | a moved file has an exact buyer and lies under its buyer and its issuer; a voucher is filed once; only a copy is called a duplicate |
| Reading | a page gives the number and type of its own voucher, not of one it quotes; what is missing is not made up |
| Settings | the file is never half-written; a save that returned is kept; memory and file agree; only what the user entered replaces a valid configuration |
| Folders | no document goes into the folder that is watched; none leaves the folders of the archive; what waits for a retry is not what was archived |
| Companies | an edit and a removal act on the company that was chosen; nothing else takes one away; a CUIT in the list is the one that was meant |
| Suppliers | an imported name stays known; the table holds only what was imported; the worker reads what the table holds and what the user sees; every import is answered |
| Pending | the banner never goes back in time and comes to show the folders; no count is lost; what is announced exists |

## 2. The modules

| Module | What it is |
|---|---|
| `Inbox` | the pipeline of a generation: the threads that discover PDFs, the reservation, the queue, the worker, the source memory |
| `InboxProofs` | theorems about `Inbox` |
| `Generations` | the abstract specification of start and stop |
| `Lifecycle` | start and stop with their locks, launches, failures, joins and time-outs; implements `Generations` |
| `Monitor` | `EXTENDS Lifecycle`: the window composed with the engine |
| `MonitorProofs` | theorems about `Lifecycle` and `Monitor` |
| `Archive` | files, ledger and undo, with failures and crashes |
| `ArchiveProofs` | theorems about `Archive` |
| `Filing` | the decision of where a document goes, and the keys of a voucher |
| `Reading` | `EXTENDS Filing`: from the sheets of a PDF to the page `Filing` decides about |
| `FilingProofs` | theorems about `Filing` |
| `Settings` | `config.json` and the three ways in which it is written |
| `Folders` | the validators of a configuration and the folder of a document, character by character |
| `Configured` | `EXTENDS Settings, Folders`: the configuration in memory decides where documents go |
| `SettingsProofs` | theorems about `Settings` and `Configured` |
| `Suppliers` | the table, the snapshot, imports and removals |
| `SuppliersProofs` | theorems about `Suppliers` |
| `Pending` | the counter of waiting PDFs |
| `PendingProofs` | theorems about `Pending` |
| `Cuit` | the check digit of a CUIT, the recovery of its zeros, and the slips of who types it |
| `Companies` | `EXTENDS Cuit`: the list of companies, the dialogs that change it and the import |
| `CompaniesProofs` | theorems about `Cuit` and `Companies` |
| `MC*` | the values of constants a cfg cannot write (sets of records, symmetry) |

They were built in this order: the engine first (`Inbox`, `Lifecycle`), then what
uses it (`Monitor`), then what it does to the files (`Archive`, `Filing`), then
the data it reads (`Settings`, `Suppliers`), the counter (`Pending`), and then what
enters the system from outside: companies as they are typed (`Cuit`, `Companies`),
folders as they are chosen (`Folders`, `Configured`), PDFs as they are read
(`Reading`).

An operator marked "Mutant" is a variant of the definition that follows it: the
code with a plausible bug. No specification uses it. PROJECT.json pairs each
property with a mutant that violates it, so that every property is known to
depend on the code it is about.

### Inbox

A step is what one thread does between two points where another may run. The
code holds `Inbox._lock` only across the reservation, so the test of
`already_processed`, the reservation and the put are three steps (`Check`,
`Reserve`, `Put`).

| TLA+ | Code |
|---|---|
| `pc`, `current`, `todo` per thread | where `enqueue`/`requeue` is, the path in hand, the paths still to offer |
| `List`, `Take`, `Finish` | the loops of `process_existing`, `rescan`, `reprocess_pending`; the watcher only takes |
| `inflight`, `queue` | `_inflight`, the generation's work queue with its sentinel |
| `WorkerGet`, `Process*`, `Record`, `Remember`, `Release` | `worker_loop`, `process`, `record_result`, `SourceMemory.remember`, the `finally` of `safe_process` |
| `seen`, `row`, `marks` | `SourceMemory`, the newest record of a source, `processed_sources` |
| `NewGeneration` … `StartThreads`, `Halt`, `PutSentinel`, `JoinThreads` | `start` and `stop` as the pipeline sees them |

What a PDF contains is the outcome `process` may reach. A signature
(path, size, mtime) is a path and a version. `placed` and `overlap` are history
variables; `overlap` says that `clear` forgot a reservation that a thread of the
previous generation still held, which happens by design of the code (a retry
thread is not joined) and is the one case `ReservedOnce` excludes.

### Lifecycle and Generations

`cpc[c]` is the control point of a caller in `start` or `stop`: `claim`,
`launch` (waiting for `_lifecycle_lock`), `folders`, `watcher`, `worker`,
`workerStarted`, `rescanner`, `rescannerStarted`, `announce`, `existing`, `release`,
and for a failure `cleanup`, `cleanupJoin`, `report`; `stop`, `halt`, `join`,
`stopped`. Each action is one of these points. `workerStarted` and
`rescannerStarted` lie between the start of the thread and the assignment of its
reference (`StartWorker`, `AssignWorker`): the thread lives, and `is_running`
does not know it. Threads are numbers of generations in `workers` and
`rescanners`; `workerRef` and `rescannerRef` are the references the engine
keeps. `Generations` says what is promised without any of it: numbers grow, one
generation is active at a time, a new one begins only when nothing is active,
and one announced as stopped does not come back. `Implements` is
`G!Spec` with `active <- workers \union rescanners`.

### Monitor

Adds the Tk thread, which runs one callback at a time: a click (`ClickToggle`,
`ClickSave`, `ClickRetry`, `ClickUndo`, `ClickClose`), one step of
`poll_events` (`Poll`, `Handle`, `EndPoll`), or one look of `_await_close`
(`FinishClose`). `Handle` is `HandleStarted`, `HandleStopped`,
`HandleDetected`, `HandleError` or `HandleStale`, the event of another
generation that the bridge drops. `Async` gives a call to a free thread;
the call of `on_close` has a thread of its own (`Closer`), so a start or a stop clicked
before may go on under it. A start may be refused with a message box before it reaches
the engine (`StartRefused`: no ledger, a form that is not valid or cannot be saved), and
for a retry that comes after its flag is set. `set_running` ends in questions to the
ledger; if they raise (`QueryMayFail`), the rest of the handler of STARTED or STOPPED is
lost, and `_safe_handle` logs it.
Undo spans two steps because it moves a file while the engine's threads go on, and
so does the clearing of the history: `ClickClear` tests the engine and asks,
`AnswerClear` is the answer, whenever it comes; the question is a box of the system
behind which polls go on. `wanted`, `missed`, `excused` and `hurried` are history: a save
while running whose restart has neither begun nor been answered with an error, a STARTED
whose handling failed before it served the retry, an undo or a question that began when
a start was to be expected, and stores that were closed during a launch.

### Archive

`disk` maps a path (folder and name) to a document; `torn` are the paths that
hold part of one; `rows` and `marks` are the tables as the connection sees
them, `durable` as committed. `job` is the file at hand and its next step:
`ChooseTarget` (`unique_destination`), `Rename` or `BeginCopy`, `EndCopy`,
`Unlink` (`shutil.move` within and across drives), `RecordResult`, `Remember`,
`MarkReverted`, and the failures `TransferFails`, `WriteFails`, `MarkFails`.
`process` falls back to quarantine on a failed transfer, `undo_last` restores
on a failed mark. The name of a file is any free name of its folder; if there is
none the transfer fails. `monitor` is the mode in which the engine runs, or
"off"; undo is only offered while it is off. `Removable` and `Placeable` are the
folders in which the user deletes and places files by hand, `MayCollide` lets
another program take the chosen name before the transfer does.

### Filing

One step, `Process`, is `process` from the parsed page to the row: `Buyer` is
`resolve_buyer` over `merge_qr`, `Match` the registry's rules in their order,
`Outcome` is `decide_filing` after the two duplicate queries, `Row` the row.
A page is what the readers return (valid CUITs, printed name, mentioned names,
QR, form of the number); names are model values and the text rules are
relations between them (`LooksLike`, `LongNames`). The user configures
companies, imports and deletes suppliers, undoes and deletes files in between.

### Reading

A PDF is a sequence of sheets; a sheet has a text, the modes in which it can be
read, and its QRs. A text is the sequence of what the patterns of the parser can
match, in reading order: which pattern (`is`), what it captures (`what`), what
stands before it (`after`) and whether a number has its eight digits (`full`). So
the regular expressions are abstracted to the items they match, and the rest of the
parser is kept: what is tried first, what must be unique, what is passed over.

| TLA+ | Code |
|---|---|
| `Text`, `Payloads` | `extract_text` with its two modes, `read_qr_payloads` of the first sheets |
| `ParseQr`, `UniqueQr` | `parse_afip_qr`, `unique_afip_qr` |
| `DetectVoucher`, `Kind`, `Letter` | `detect_voucher` and what it asks for |
| `Own` | `_is_reference`: the label before a number says it is that of another document |
| `DetectNumber`, `NumberIn` | `detect_number`: anchors, title, halves, shape |
| `Read`, `Legible` | `parse_factura` and `parse_order` beside the QR; `_extract` |

`ReadPages` is what is read of `Documents`; the instance puts it among the pages of
`Filing`, so that the properties of `Filing` are asked of what was read. That the
QR, when one is taken, is that of the voucher is an assumption of `Filing` and
stated as one (`OwnQrAssumption`).

### Settings

`save_config` is its calls of the operating system, one action each (`Write`,
`Sync`, `Replace`, `SyncDir`), any of which may be in `Failures`. `cut` is the
set of contents `config.json` may have after a power cut: the file before an
unsynced rename counts as well as the file after it. `LoadAbsent`, `LoadValid`,
`ReadFails`, `LoadDamaged` are the branches of `load_store`. `incidents` is
history: what happened that a property excuses ("damage", "misread",
"not synced", "sync failed"); each is cleared by the step that repairs it. When the
program ends, what it had in memory and in the form is gone (`Stopped`).

### Folders and Configured

A path is the sequence of its components, a name the sequence of its characters,
of which "/" stands for all that Windows refuses. `Accepted` is the validators of
`AppConfig`; `ArchiveDir` and `Destinations` are `destination_dir` over the base
that `archive_base`, review or duplicates give it; `SanitizeComponent` is
`sanitize_component` step by step, because what it lets through is what
`StaysBelow` is about. `Configured` makes the configurations of `Settings` those
that are accepted, and asks of the one in memory where it sends every document;
that is a function of the configuration, computed once for each (`ApartConfigs`,
`ContainedConfigs`).

### Cuit and Companies

A CUIT is a tuple of digits; `IsValidCuit` and `CoerceCuit` compute on them. The
slips (`LosesZeros`, `OneWrong`, `SwapsNeighbours`, `LosesDigit`) are what a
registry or a person may do to it.

`dialogs` is the stack of callbacks that wait in a nested loop, each with the index
it was given, `grab` the dialog that holds the grab. `Open` is a dialog up to the loop
of `wait_visibility` in `make_modal`, in which buttons still take clicks (`opening`);
`ShowModal` is the end of that loop and `grab_set`. `AskRemoval` is a box of the system,
`Close` a button of the dialog, and `Return…` the rest of the callback on top.
`ApplySocieties` is the callback of an import, run by the poll whatever waits, and the
report it opens; `ShowReport` shows it, and it takes the grab from whoever has it.
`behind` is history: what happened under an open dialog, an import that was applied
or another dialog opened before it had the grab. Of each company, `meant` is history: the CUIT of the
company the user or the sheet meant.

### Suppliers

`table` is what the connection sees, `durable` what was committed, `registry`
the snapshot the worker reads. An import is `ImportFrom`, `BulkUpsert` (any
prefix of the sheet if a statement fails), `Query`, `Publish`, `Report`; a
removal is `Delete`, `ReloadQuery`, `ReloadPublish` in the Tk thread. `Merge` is
`merge_supplier`. `Refresh` is `refresh` after a report, a removal or a search; it ends in
the query `count()`, and if that raises the view stays as it was (`RefreshFails`), and
with it goes the report that `_finish_import` would have shown. `lost` and `behind` are
history: the imports whose report never comes, and a last refresh that failed.

### Pending

`Flush` and `Apply` are the two statements of `_flush` (no lock protects
`_latest`), `Kick` the start of a count, `CountReview`, `CountQuarantine`,
`Store`, `Reset` the counting thread. `asOf`, `peak` and `announced` are
history.

## 3. The runs

Each run is a cfg of its own; PROJECT.json says in a sentence what it shows.
None takes more than about two minutes with two workers.

| Run | Module | What it asks |
|---|---|---|
| `Inbox` | `MCInbox` | does a path have one holder, and is no reservation lost, while four threads offer paths and a generation follows another? |
| `InboxLive` | `MCInbox` | does every PDF reach the worker, is every copy remembered, does a stop end the threads? |
| `Lifecycle` | `MCLifecycle` | do overlapping starts and stops keep one generation alive, implement `Generations`, and return? |
| `Monitor` | `MCMonitor` | does the window agree with the engine when all has settled, and do the toggle, the retry, the save and the close get what they wait for? |
| `Archive` | `MCArchive` | is an invoice filed once and undone exactly, over filing, undo, a failed mark and deletions? |
| `ArchiveLoss` | `MCArchive` | can a document be lost when anything fails, or the program ends, at any point? |
| `Filing` | `MCFiling` | does what is moved lie under its buyer, its issuer, its number and its type, is a voucher filed once, and is only a copy called a duplicate? |
| `Settings` | `MCSettings` | what can become of `config.json` and of the snapshot when calls fail, the program ends or power is lost, and where does what was accepted send a document? |
| `Suppliers` | `MCSuppliers` | do table, snapshot, view and report stay together over imports, removals, failures and restarts? |
| `Pending` | `MCPending` | does the banner come to show the folders and never go back in time? |
| `Companies` | `MCCompanies` | do dialogs on top of one another, imports and slips leave the list as the user meant it? |
| `InboxOverwritten` | `MCInbox` | is a source counted as seen only if that content was placed? It is not |

### Bounds, and why they are enough

| Run | Bounds | Why |
|---|---|---|
| `Inbox` | 1 input and 1 pending path, the watcher, the rescanner, the sweep of a start and 1 retry, 2 generations, lists that fail | what goes wrong with a reservation needs one path, two discoverers and a change of generation; paths do not interact otherwise; the retry is the thread that outlives its generation. Joins that time out are in `InboxLive`, and with two generations in `Lifecycle` |
| `InboxLive` | 1 path, no watcher, 1 generation, copy mode with a dry run switched off at any moment, marks that cannot be written, joins that time out | watchdog may miss any file, so liveness must hold without it; a stop may come at any moment |
| `Lifecycle` | 2 callers, each reused for any number of calls, 3 generations | a start, the stop that overtakes it and the next start, twice over |
| `Monitor` | 1 caller for the clicks and 1 for the close, 3 generations, 2 undelivered events, every button | a run, its restart and one more, with the close at any moment; see below for two callers that serve clicks |
| `Archive` | 2 downloads of one invoice, 2 names per folder, 3 rows, moves and copies | file, undo, file again; documents and names are symmetric |
| `ArchiveLoss` | 2 documents, 1 name per folder, 2 rows, across drives, a crash between any two steps, every failure | with one name per folder a second file meets the first; a full folder makes the transfer fail, which is one more failure to survive |
| `Filing` | 2 companies, 2 suppliers, 4 vouchers that share a number (a purchase from each, a note of one, a sale between the companies), every page the two layouts give of them, 1522 PDFs, 3 sets of companies, 4 registries; 3 rows if the first is an ordinary page (`Followers`) filed for one company, else 1 | the decision looks at one document; what the ledger adds needs a first, a second that is a duplicate or comes after an undo, and a third that shows what the second row hides |
| the PDFs of `Filing` | 2 sheets; per voucher 6 to 8 forms of its number, before or after 7 or 8 forms of another document's, 4 ways to give its type; for one text, each sheet readable in each subset of the modes and 5 sets of QRs; an order | what the parser decides depends on which patterns match and in what order, so each pattern occurs alone and beside one quoted number |
| `Settings` | 3 configurations that are accepted, of 6 that are entered; names of up to 4 of 4 characters, cut after 3 | the default and two the user chooses; every combination of what is removed, stripped and kept, and a cut that exposes a dot |
| `Companies` | 2 companies of which one has zeros to lose, 3 in the list, 2 dialogs and a report on top of them, 2 sheets and one that is refused, 1 import thread, reused | a list with a place before and after the one in hand; what can go wrong needs one dialog that is overtaken and one that overtakes it |
| `Suppliers` | 2 CUITs, 2 names, 4 files (one that names a supplier, one that renames it and names it twice, one refused, one corrupt), 1 import thread, reused | a name, its replacement, and back |
| `Pending` | 1 PDF per folder, 2 counting threads, 2 changes | the thread of the poll before and that of the poll after |

`MaxVersion`, `MaxGenerations`, `MaxQueue`, `MaxEvents`, `MaxRows`, `MaxFiles`,
`MaxChanges`, `MaxCompanies` and `MaxDialogs` are the only bounds in guards; `Followed`
in `MCFiling` is the only constraint, and cuts what follows a first document of another
kind than `Followers`. `MaxEvents` stops what is
optional (a click, a detected file) while that many events wait, never an event
the code emits. All runs set `CHECK_DEADLOCK FALSE`: the user may stop clicking,
the program may be closed, and the bounds run out.

### What the passing runs leave out

What the code does not survive, as the next section shows, is left out of the run
of the property it breaks. `Monitor` has one call at a time beside that of the close and no failing
launch; `Archive` has no crash and no failing commit, `ArchiveLoss` no other
program that takes the chosen name; `Filing` has no unregistered issuer
beside a registered third party, no sale to a registered customer, no electronic
credit invoices, no broken sheet that alone has what the others lack, and more than
one document only of pages that name their issuer; `Suppliers` has one import thread;
`Companies` no digit left out. `Settings` leaves nothing out: its properties name what
they excuse. So do `EditsItsOwn` and `OnlyChosenLeave` in `Companies` (an import applied, or a
dialog opened before the grab), `ShownIsRegistry` and `ImportIsAnswered` in `Suppliers`
(a refresh that cannot count), and `StoresOutliveThreads` in `Monitor` (a launch under
way when the stores are closed): the rows of the next table that change nothing in a cfg
show each excuse at work.

The rest is a matter of size or of sense. `Inbox` moves files and has no time-outs,
which are in `InboxLive` and `Lifecycle` and would multiply its states; `InboxLive` has no list that fails, for one
that fails for ever lets no PDF through; `Archive` moves within a drive without
failing transfers, which are in `ArchiveLoss`; `Settings` runs as on POSIX, with a
directory that may not open at any save, which is what Windows always does.

### Where code and documents disagree

`InboxOverwritten` is a run of its own, because it needs nothing but a download
that replaces a file: the signature of a copied source is taken after the copy,
so a download that replaces the original in between counts as seen although it
was never read (`docs/adr/0008-copy-mode-source-signatures.md:35` says the
opposite).

The others are stated as properties at the end of their modules, under
"Promises of the documentation that the code does not keep". To see one, change
the constants of a cfg as the table says, leave the properties of the cfg
away except the one named, and take the specification without fairness
(`Spec` for `FairSpec`) when the property is an invariant. TLC then shows the
behaviour. The row that says "with fairness" keeps its specification. For the rows marked (1), set also `Documents = {}` and
`SocietySets = {{own1}}`.

| cfg | Change | Violated | What the code does |
|---|---|---|---|
| `InboxOverwritten` | `MaxVersion = 1`, `Watchers = {w}` | `CopiedOnce` | a discoverer that tested the source memory before a copy re-queues the original after it, and it is copied twice |
| `InboxOverwritten` | `MaxVersion = 1`, `PendingPaths = {r}`, `Retriers = {y}` | `PendingIsRetried` | in copy mode a pending PDF that is filed where it lies covers itself, and later retries skip it |
| `InboxOverwritten` | `MaxVersion = 1`, `Modes <- CopyAfterDry` | `CoveredOnlyIfPlaced` | the destination of a dry run is recorded, and makes the source count as copied once a file lies there |
| `Lifecycle` | none | `RejectedUntilTheyDie` | after a stop that timed out, starts are rejected although the threads have died |
| `Monitor` | `StartMayFail = TRUE` | `ToggleSettles` | the ERROR of a failed launch is dropped as stale and the toggle stays disabled |
| `Monitor` | `StartMayFail = TRUE` | `NothingWaits` | a launch that fails after its worker began, whose join times out, leaves a monitor that runs without a STARTED: no retry is served by it |
| `Monitor` | `Callers = {c1, c2, c3}`, `Closer = c3` | `ToggleNeverLies` | STARTED is emitted outside the lock; STOPPED may come first, and the toggle shows a monitor that does not run |
| `Monitor` | `Callers = {c1, c2, c3}`, `Closer = c3`, `JoinMayTimeOut = FALSE`, `FolderMayFail = FALSE` | `NothingWaits` | the restart is rejected while the first start still lists the folder |
| `Monitor` | none | `UndoAlone` | `is_running` is false during a launch: undo runs beside a worker |
| `Monitor` | none | `ClearAlone` | the same, and the answer comes later than the test: the history is cleared beside a worker |
| `Monitor` | none | `NoWorkerWithoutStores` | `is_running` is false until `_worker` is assigned: the stores are closed under a start clicked before the close, whose worker starts afterwards or lives already (`ui/shell.py:186-190`, `services/engine/lifecycle.py:125`) |
| `Monitor` | none | `RetryServedAtOnce` | the flag of the retry is set before a start that may be refused, and waits for some later start (`ui/controllers/history_actions.py:96-97`, `ui/controllers/engine_bridge.py:63-70`) |
| `ArchiveLoss` | `MayCollide = TRUE` | `NothingLost` | the free name is tested before it is used |
| `Archive` | `CommitMayFail = TRUE` | `Accounted` | a commit that fails is not rolled back |
| `Archive` | `MayCrash = TRUE` | `OneFiled` | a file without its row is filed again |
| `Filing` (1) | `Pages <- StampedPages`, `Followers <- StampedPages`, no `CONSTRAINT` | `OncePerVoucher` | a page without the CUIT of its issuer is filed again after an import renamed the supplier |
| `Filing` (1) | `Vouchers <- WithFce`, `Pages <- CodePages`, `Followers <- CodePages`, no `CONSTRAINT` | `DuplicateIsSame` | electronic credit invoices share their label with plain ones, and so their keys |
| `Filing` (1) | `Pages <- CarrierPages`, `Followers = {}`, `Registries <- CarrierOnly` | `MovedIsRight` | a registered third party whose CUIT the page gives is taken for the unregistered issuer |
| `Filing` (1) | `Vouchers <- WithSale`, `Pages <- SoldPages`, `Followers = {}` | `MovedIsRight` | the registered customer of our own sale is taken for its issuer |
| `Filing` | `Documents <- Broken` | `MovedIsRight` | a note whose code is on a sheet that cannot be read is filed as an invoice A; `services/pdf_reader.py:40-42` says that the parser will flag it for review |
| `Settings` | `Entered <- MCEnteredBelow`, `Configs <- MCConfigsBelow` | `NoLoop` | only the folders of companies are compared with the watched folder; it may be the folder of a supplier, or the review (`docs/configuration.md:125-127`) |
| `Settings` | `Entered <- MCEnteredWide`, `Configs <- MCConfigsWide` | `RetriesOnlyPending` | the quarantine may be the output folder, and a retry then reprocesses the archive (`docs/features.md:91-93`) |
| `Companies` | none | `RemovesWhatItNamed` | the index of a removal is used after the question, while an import may have been applied (`ui/controllers/settings_form.py:126-134`) |
| `Companies` | none | `NoOtherDialogChanges` | `wait_visibility` runs an event loop before `grab_set` (`ui/widgets/modal.py:23-24`): a second button opens another dialog, whose callback changes the list under the index of the first |
| `Companies` | none | `WizardKeeps` | for the same reason, or by an import applied meanwhile, the wizard's configuration replaces companies entered behind it (`ui/shell.py:173-177`) |
| `Companies` | `Slips = {"exact", "lost"}` | `TypedIsMeant` | a CUIT with a digit left out may be rebuilt as that of another company (`domain/cuit.py:41-42` says that this never invents one) |
| `Suppliers` | `Imports = {i1, i2}`, `Failures = {}` | `RegistryIsTable` | of two reloads that overlap, the older query may be published last |
| `Suppliers` | `Failures = {"import"}` | `NothingElse` | the rows of an import that failed half-way are committed by the next removal |
| `Suppliers` | none | `ShownAlways` | a removal is published, and the refresh that follows cannot count: the view keeps the old list (`ui/controllers/suppliers.py:45`) |
| `Suppliers` | none, with fairness | `EveryImportIsAnswered` | the refresh before the report raises, or `openpyxl` does on a corrupt file: nobody is told (`ui/system_utils.py:32-35`) |
| `Pending` | none | `NoCountLost` | a count stored between the read and the reset of `_latest` is dropped |
| `Pending` | none | `AnnouncedIsReal` | a file that moves between the two listings is counted twice and announced |

Two more are excused inside a property that holds otherwise, and appear when
the excuse is deleted. `OnlyTypedReplaces` without "misread": after one failed
read the default overwrites a valid file at the next save. `MemoryIsFile`
without "sync failed": an error after the rename leaves the snapshot behind the
file. A query of the ledger that fails in `set_running` is excused the same way in
`NothingWaits` (`missed`, and the end of `wanted`).

## 4. Fairness

| Specification | Fairness | Why the code justifies it |
|---|---|---|
| `Inbox!FairSpec` | WF on the worker, each discovering thread, the rescanner's tick, the steps of a start and of a stop | each runs on a thread of its own, and waits only for a lock held for a few statements or for a timer; nothing is assumed of the user and the folders |
| `Lifecycle!FairSpec` | WF on each call, on the end of a halted worker and rescanner; SF on the taking of `_lifecycle_lock` | between two takings of the lock by other calls lies a click, so a waiting call is not overtaken for ever; the worker takes the sentinel and the rescanner looks at the stop event |
| `Monitor!MonitorFairSpec` | the same, SF on `Poll`, WF on the end of a callback | Tk runs a due timer between two clicks, however many there are |
| `SuppliersFairSpec` | WF on each import thread and on a reload under way, SF on the draining of the mailbox | as above |
| `PendingFairSpec` | WF on the poll and on each counting thread | both are timers and threads; that a count fails is bounded, not fair |

## 5. What is proved

Every invariant and every action property of a passing run, except those of section
6, is a theorem of its specification. A theorem holds for every value of the
constants its module's assumptions allow: any number of paths, threads, contents,
generations, callers and dialogs, failures and time-outs allowed or not, any
companies, suppliers, vouchers and pages. The assumptions are named in the modules that
declare the constants: kinds of paths and of threads are disjoint, pages and
registries have their types, bounds are naturals.

Where the code breaks a property in some circumstances (section 3), its theorem names
the circumstances in which it holds, as a hypothesis about the constants. The cfg of
the run satisfies each of them but `WholePurchases`, and most are much wider than it:

| Hypothesis | Theorems | What it leaves out |
|---|---|---|
| `~MayCollide` | `NothingLostCorrect` | another program that takes the name the engine has just chosen |
| `Undisturbed` | `AccountedCorrect`, `UndoTakesItsOwnCorrect`, `OneFiledCorrect` | crashes, failed records and commits, moves across drives, files put into the engine's folders by hand, a cleared history; marks and transfers may fail, and the user may delete anywhere |
| `Undisturbed /\ ~TransferMayFail` | `UndoForgetsCorrect` | failing transfers besides |
| `OneCall /\ ~StartMayFail` | `ToggleSettlesCorrect`, `NothingWaitsCorrect` | calls of the window that overlap, but for that of the close, and launches that fail; joins may time out, the folder may fail, starts may be refused, the ledger may be unreadable, generations and events are as many as you like |
| `Copying /\ MaxGenerations = 1` | `CopiedIsRememberedCorrect` | the next start, which clears the memory; `OnlyAStartForgets` says for any number of generations that nothing else does |
| `HonestPurchases` | `MovedIsRightCorrect` | names that two companies share, registered buyers, text that gives a third party; all 347 pages of the run, those read from PDFs among them, are honest |
| `WholePurchases` | `OncePerVoucherCorrect`, `DuplicateIsSameCorrect` | pages that do not name their issuer, an issuer that is one of ours, a buyer that is not configured any more, and vouchers that the keys do not tell apart; satisfied by the pages that may follow one another in the run (`OncePages`, filed for one company) |
| `SlipsCaught` | `TypedIsMeantCorrect` | a CUIT with a digit left out |

**Inbox.** `TypeCorrect` is by induction, one step per action (`TypeStep`).
`ReservationCorrect` needs two facts besides: no old thread lives while a generation is
being prepared (`QuietBetweenGenerations`), or an old worker could release a path that
the new one reserved; and the starting thread offers nothing meanwhile
(`StarterWaits`), which is what makes `ClearInbox` safe.
`NoLeakCorrect`: `inflight \subseteq Held`; the lemmas `HeldFrame` and
`HeldMoves` say that a path only passes from one holder to the next.
`CopiedIsRememberedCorrect`: `Recalled` adds the worker that has just copied and is
on its way to `Remember`; no step but `ClearMemory` breaks it (`RecalledStep`), and
in the first generation nothing has been placed by then (`FirstOne`).

**Lifecycle.** One strengthening serves all: who is at a point under
`_lifecycle_lock` holds it (`LockHeld`); the references name the newest
generation (`NewestReferenced`); a launch finds them empty (`LaunchClean`) and
its generation unannounced (`LaunchFresh`); a stop dropped them before it emits
STOPPED (`StopClean`); and `NoOrphan`. Without `LaunchClean` a second launch
could overwrite the reference of a live thread, which is what the invariant
`NoOrphan` excludes and is not inductive alone. From it follow
`OneStartCorrect`, `NoOrphanCorrect`, `OnlyNewestCorrect`, and
`ImplementsCorrect`: every step of the engine is `Begin`, `Run`, `End`,
`Announce` of `Generations` or leaves its variables alone.

**Monitor.** A step of the window leaves the engine alone, takes an event, or puts a
free call at its first point, so the invariant of `Lifecycle` holds here too. `StoresOutliveCorrect`
follows from it: without references nobody lives but the thread of a launch under way
(`StoresLast`), and no launch begins once the window has closed.
`MeetsOnlyAStartCorrect` needs `NoneComes`: under an undo or a question that is not
excused no call launches and no worker lives, and no restart waits for the question.
Both hold for any number of overlapping calls and launches that fail. `ToggleSettlesCorrect` and `NothingWaitsCorrect` are about what
will happen, and their invariant says who will bring it about: `Told`, the window is
right, or a call is under way or an event waits that will set it right; `RetryServed`
and `SaveServed`, the same of a retry and a save. An event sets something right only if
it is not stale by the time the poll comes to it (`Heard`). That rests on the order of
the events (`InOrder`), on STARTED being there before the window needs it (`Known`),
and on STOPPED following STARTED (`Followed`); the last is what overlapping
calls break.

**Archive.** `NothingLostCorrect` rests on `Transferred`: the target of a transfer is
free until it is written, and from then on holds what the source holds, complete
before the source goes. A crash at any step leaves one of the two.
The four others share `AlignedInv`. `Covered` gives every complete file the row that
is the newest of its path and, in the archive, of its invoice; that it is the newest
is what makes undo, which takes the last row, find it before an older row
that names the same path. `NoTwin` says of a filing at work that no complete
download of its invoice is in the archive; `UndoJob` where the file of an undo may be at each of its steps.
`UndoForgetsCorrect` needs `Superseded` besides: of the row that would decide about a
signature if the one at hand were undone, the destination is empty, or holds the file of a row that
goes before.

**Filing.** `TypeCorrect` says that every row of the ledger is one `process`
can have written; one lemma per operator of the decision gives the type of
its result (`KnownBuyerType`, `ParsedIssuerType`, `SupplierType`,
`SupplierNameType`, `RowTyped`). `MovedCorrect` says of every row what the
filing policy promises of a moved document. `Exact(row)` is that promise for one
row; `WrittenExact` shows it of the row `process` appends, `MarkedExact` that an
undo or a deletion by hand keeps it. Since companies and suppliers change while
rows stay, a row of the model also keeps the page and the companies it was decided
with; so stated, the invariant is inductive beside the types. The page has its own
number and label among any the parser can give, so that the theorems cover what
`Reading` makes of a PDF. `MovedIsRightCorrect` adds what the page is true of
(`Honest`), case by case: an exact buyer is one of the two parties (`ExactBuyer`), and
a name the file may lie under is one of the issuer's. `OncePerVoucherCorrect` and
`DuplicateIsSameCorrect` rest on `Faithful`: a row of a whole page is known by its issuer under one
key or the other, so the duplicate query finds it whatever the supplier was called
when it was filed.

**Cuit and Companies.** Arithmetic on eleven digits, for every one of them.
`OneWrongCaught` and `SwapCaught` say what a check digit is for; they rest on the
weights being invertible modulo 11 (`NoProduct`, `LeftMoves` … `SumMoves`).
`ZerosComeBack` and `NothingInvented` say both directions of `coerce_cuit`: a body that
lost one or two zeros is restored, and what is changed differs from what was typed by
zeros alone. That a digit left out cannot pass for such a zero is not a theorem: it
can. `TypedIsMeantCorrect` rests on these four: what gets past a dialog or out of a
sheet has the CUIT that was meant (`AcceptedIsMeant`), and an edit, an import or a
removal only rearranges what did (`AllMeant`). `EditsItsOwnCorrect` and
`OnlyChosenLeaveCorrect` need the grab: a dialog with nothing `behind` it is the one on top, and holds the grab
unless it is closed, still opening or a box of the system (`Fresh`). So a button that
opens another marks the first, and a callback that changes the list leaves only marked
ones behind. The wizard finds no company unless something is behind it (`FirstRun`).

**Settings.** `HalfWrittenNever` is inductive with the types and `Whole`, which says
how far a save has come: between two of its calls the temporary file holds what is
saved, synced before it replaces the other. `MemoryAligned` needs `Aligned` besides:
between saves the snapshot of a running program is the file, unless an incident is on
record. `SavedKept` needs `Keeping`: while nothing is lost, whatever the file may fall
back to, what is being saved and the snapshot are all among the configurations that
may stand (`candidates`). `TypedReplaces` needs to know who saves what (`Saving`) and that
what the form holds was entered or read from the file (`Entering`). `SnapshotAccepted`
says that the snapshot is always a configuration `AppConfig` accepts; from it and lemmas
about prefixes of paths (`BelowApart`, `Roots`, `AcceptedApart`) follows
`NothingIntoInput`: for all folders, names and documents, no document goes into the
watched folder if that is not below one of the archive's. It does not depend on what
`sanitize_component` makes of a name; `StaysBelowCorrect` does. `SanitizedProper` shows
of any text that its result is not empty, without a separator, and neither begins nor ends with a
dot or a blank, wherever the cut falls.

**Suppliers.** A sheet is read by recursion over its rows, and
`ParsedToFacts` and `OrderToFacts` are inductions over them: every name of a valid row
is in the result, under a CUIT of the order. `ImportedIsKeptCorrect` then needs that a
name is kept by the open transaction as well as by what is committed (`Kept`), for a
later import commits the one and a restart goes back to the other.
`ShownIsRegistryCorrect` needs `Refreshed`: the view lists the snapshot, or its last
refresh failed, or a thread is about to report, or its callback waits.

**Pending.** `NeverOlderCorrect` needs `OneCountsCorrect` (a count begins only after the
last has ended, though no lock says so) and `InOrder`: what is shown, what the poll took,
what lies in `_latest` and what is being counted began in this order.

Induction over rows and prefixes is done with the least row that fails (`Least`, from
the well-foundedness of `<`), a first-order argument the provers can follow. For the
same reason the models select by sets of places (`Firsts`, `Nth`, `At`) and by
recursive functions (`ParsedTo`, `OrderTo`), not by folds.

## 6. What is only model-checked

- Liveness under fairness (`InputHandled`, `StopReturns`, `HaltedEnds`,
  `CallsReturn`, `ToggleReturns`, `ImportIsAnswered`, `CountSettles`): the prover
  handles neither `ENABLED` nor fairness.
- The text of `Reading`, a sequence of matches that is filtered and folded: that what it
  makes of the PDFs of the cfg are honest pages is computed by TLC, by way of the
  properties of `Filing` over `ReadPages`.
- `OncePerVoucher` and `DuplicateIsSame` for a first document that is any page of the
  run, or whose buyer is not configured when it comes: `WholePurchases` is about whole pages
  of configured buyers. What the other hypotheses leave out is left out by the runs as
  well: mostly because the code breaks the property there (section 3), and for
  `Undisturbed` also moves across drives, what the user puts into the engine's folders
  and a cleared history, which `ArchiveLoss` and `NothingLostCorrect` include.

## 7. What is not modelled

- The regular expressions and the similarity of names: a text is what the patterns
  match, and which companies come close to a name is given. The date of a voucher,
  which no decision reads, and the decoding of a QR's base64 and JSON.
- `wait_until_stable`: one step that may fail.
- `ProcessingEngine.process_now`, which nothing under `src/automator` calls: it
  reserves a path without asking whether somebody holds it, and would break
  `ReservedOnce` if it ran beside the worker.
- A `config.json` that is not UTF-8: the read raises `UnicodeDecodeError`, which
  `load_config` does not catch there, so the program ends where the docstring promises
  the default (`config/store.py:22`). In `Settings` no step is taken, which no property
  tells from a program that was not started.
- Segments of a template that mix tokens and text, and templates for which
  `format_map` raises (`domain/filing/destination.py:20`).
- Clicks in the moment before the wizard of the first start opens (`_ONBOARDING_MS`),
  and drawing that fails in Tk.
- The wording of file names, long Windows paths, links between folders: a path is
  what the user chose, component by component.
- Views, widgets, notices, pickers, the log.
- Additive migrations of the two tables, and the marks of older versions.
- The write lock of `history.db` that the two stores share. An import that fails
  half-way keeps its transaction open (`NothingElse`), and the ledger's next write
  then waits for a lock until it gives up.
- Loss of power inside SQLite, whose durability is taken for granted.

What comes next, in this order: that what `Reading` makes of a sheet is an honest page;
the lock of `history.db` that ledger and suppliers share; what of `Monitor` holds with
two calls at once; the migrations.
