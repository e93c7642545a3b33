------------------------------- MODULE Inbox -------------------------------
(***************************************************************************)
(* The work pipeline of one ProcessingEngine: the threads that discover    *)
(* PDFs (watcher, start-up sweep, rescanner, retry), the in-flight         *)
(* reservation they share, the generation's work queue, the worker that    *)
(* drains it, and the memory of sources that stay in the input folder.     *)
(*                                                                         *)
(* A step is what one thread does between two points where another thread  *)
(* can run: the test in already_processed, the reservation under the lock  *)
(* and the put on the queue are three steps, because the code does not     *)
(* hold the lock across them.  What a PDF contains is abstracted to the    *)
(* outcome the processor may reach; a file signature (path|size|mtime) is  *)
(* a path and a version.                                                   *)
(***************************************************************************)
EXTENDS Naturals, Sequences, FiniteSets

CONSTANTS
    InputPaths,      \* PDFs that may appear in the input folder
    PendingPaths,    \* PDFs that may sit under the review and quarantine folders
    Watchers,        \* watchdog threads, one per generation
    Starter,         \* the thread that runs ProcessingEngine.start
    Rescanner,       \* the automator-rescan thread
    Retriers,        \* threads that run reprocess_pending
    Modes,           \* the configurations the user may save: [copy, dry]
    Sentinel,        \* the object halt puts on the work queue
    NoPath,
    NoThread,
    MaxVersion,      \* bound: contents a path holds during a behaviour
    MaxGenerations,  \* bound: starts during a behaviour
    MaxQueue,        \* bound: queue length at which stop is not called again
    ListMayFail,     \* whether listing a folder may raise OSError
    LedgerMayFail,   \* whether a ledger write may raise
    JoinMayTimeOut   \* whether the join of stop may time out

Paths == InputPaths \union PendingPaths
Threads == Watchers \union {Starter, Rescanner} \union Retriers
Versions == 0 .. MaxVersion
Signatures == Paths \X Versions

\* Where a result says the file went: an archive path, a pending path or None.
Archive == "archive"
NoDestination == "none"
Destinations == PendingPaths \union {Archive, NoDestination}
Outcomes == {"missing", "placed", "dry run", "error", "raised"}

ASSUME PathsAssumption ==
    /\ InputPaths \intersect PendingPaths = {}
    /\ Sentinel \notin Paths
    /\ NoPath \notin Paths
    /\ Archive \notin PendingPaths
    /\ NoDestination \notin PendingPaths
ASSUME ThreadsAssumption ==
    /\ Starter # Rescanner
    /\ Watchers \intersect ({Starter, Rescanner} \union Retriers) = {}
    /\ Retriers \intersect {Starter, Rescanner} = {}
    /\ NoThread \notin Threads
ASSUME BoundsAssumption ==
    /\ MaxVersion \in Nat \ {0}
    /\ MaxGenerations \in Nat
    /\ MaxQueue \in Nat
    /\ Modes \subseteq [copy : BOOLEAN, dry : BOOLEAN]
    /\ Modes # {}
    /\ {ListMayFail, LedgerMayFail, JoinMayTimeOut} \subseteq BOOLEAN

VARIABLES
    config,      \* what the config provider returns now
    present,     \* paths that exist on disk
    version,     \* version[p]: size and mtime of p's content
    placed,      \* history: how many times an input path's content was placed
    row,         \* row[p]: newest ledger record whose source_signature names p
    marks,       \* processed_sources: signatures marked as seen
    phase,       \* where start and stop are
    generation,
    stopping,    \* the generation's stop event
    watcher,     \* the watcher thread start_watcher assigned, or NoThread
    queue,       \* the generation's work queue
    inflight,    \* Inbox._inflight
    seen,        \* SourceMemory._seen_signatures
    overlap,     \* history: inbox.clear() ran while a thread held a reservation
    pc, current, todo,   \* per thread: control point, path in hand, paths listed
    wpc, job, result     \* the worker: control point, path and its result

disk == <<present, version, placed>>
ledger == <<row, marks>>
life == <<phase, generation, stopping, watcher>>
memory == <<inflight, seen, overlap>>
threads == <<pc, current, todo>>
worker == <<wpc, job, result>>
vars == <<config, disk, ledger, life, queue, memory, threads, worker>>

NoRow == [version |-> 0, destination |-> NoDestination]
NoResult == [outcome |-> "missing", destination |-> NoDestination]

Init ==
    /\ config \in Modes
    /\ present \in SUBSET InputPaths
    /\ version = [p \in Paths |-> IF p \in present THEN 1 ELSE 0]
    /\ placed = [p \in InputPaths |-> 0]
    /\ row = [p \in Paths |-> NoRow]
    /\ marks = {}
    /\ phase = "off"
    /\ generation = 0
    /\ stopping = FALSE
    /\ watcher = NoThread
    /\ queue = <<>>
    /\ inflight = {}
    /\ seen = {}
    /\ overlap = FALSE
    /\ pc = [t \in Threads |-> IF t \in Watchers THEN "next" ELSE "idle"]
    /\ current = [t \in Threads |-> NoPath]
    /\ todo = [t \in Threads |-> {}]
    /\ wpc = "dead"
    /\ job = NoPath
    /\ result = NoResult

-----------------------------------------------------------------------------
(* Source memory: SourceMemory and the ledger queries it makes.            *)

Signature(p) == <<p, version[p]>>

DestinationExists(d) == d = Archive \/ d \in present

\* Ledger.source_seen: the newest unreverted row of the signature decides; the
\* processed_sources table is asked only when there is no such row.
SourceSeen(p) ==
    IF row[p].version = version[p]
    THEN DestinationExists(row[p].destination)
    ELSE Signature(p) \in marks

AlreadyProcessed(p) ==
    /\ p \in present
    /\ \/ Signature(p) \in seen
       \/ config.copy /\ SourceSeen(p)

-----------------------------------------------------------------------------
(* The environment: the folders change and the user saves settings.        *)

\* A download completes (or replaces) an input PDF.  watchdog reports it to the
\* running watcher, or misses it.
Arrive(p) ==
    /\ p \in InputPaths
    /\ version[p] < MaxVersion
    /\ present' = present \union {p}
    /\ version' = [version EXCEPT ![p] = @ + 1]
    /\ placed' = [placed EXCEPT ![p] = 0]
    /\ \/ UNCHANGED todo
       \/ /\ watcher # NoThread
          /\ todo' = [todo EXCEPT ![watcher] = @ \union {p}]
    /\ UNCHANGED <<config, ledger, life, queue, memory, pc, current, worker>>

\* The user deletes a PDF by hand.
Remove(p) ==
    /\ p \in present
    /\ present' = present \ {p}
    /\ UNCHANGED <<config, version, placed, ledger, life, queue, memory, threads, worker>>

\* SettingsForm.persist: the provider returns the new snapshot at once, whatever
\* the worker is doing.
SaveConfig ==
    /\ config' \in Modes \ {config}
    /\ UNCHANGED <<disk, ledger, life, queue, memory, threads, worker>>

-----------------------------------------------------------------------------
(* Start and stop, as the pipeline sees them.                              *)

\* _claim_start succeeds and _launch assigns a new queue and stop event.
NewGeneration ==
    /\ phase = "off"
    /\ pc[Starter] = "idle"
    /\ generation < MaxGenerations
    /\ phase' = "clearing inbox"
    /\ generation' = generation + 1
    /\ queue' = <<>>
    /\ stopping' = FALSE
    /\ UNCHANGED <<config, disk, ledger, watcher, memory, threads, worker>>

\* Paths some thread took out of circulation: about to be put, queued or in the
\* worker's hands.
Putting == {t \in Threads : pc[t] = "put"}
Busy == wpc \notin {"dead", "get"}
Queued == {p \in Paths : \E i \in 1 .. Len(queue) : queue[i] = p}
Held == {current[t] : t \in Putting} \union Queued \union (IF Busy THEN {job} ELSE {})

\* Inbox.clear forgets every reservation, those of threads that outlived their
\* generation included (the retry thread and a watcher past its join timeout).
ClearInbox ==
    /\ phase = "clearing inbox"
    /\ phase' = "clearing memory"
    /\ inflight' = {}
    /\ overlap' = (Held # {})
    /\ UNCHANGED <<config, disk, ledger, generation, stopping, watcher, queue, seen,
                   threads, worker>>

ClearMemory ==
    /\ phase = "clearing memory"
    /\ phase' = "starting"
    /\ seen' = {}
    /\ UNCHANGED <<config, disk, ledger, generation, stopping, watcher, queue, inflight,
                   overlap, threads, worker>>

\* start_watcher, start_worker and start_rescanner; the starting thread goes on
\* to process_existing.
StartThreads ==
    /\ phase = "starting"
    /\ phase' = "on"
    /\ \E w \in Watchers \union {NoThread} :
          /\ w \in Watchers => pc[w] = "next" /\ todo[w] = {}
          /\ w = NoThread => Watchers = {}
          /\ watcher' = w
    /\ wpc' = "get"
    /\ pc' = [pc EXCEPT ![Starter] = "list"]
    /\ UNCHANGED <<config, disk, ledger, generation, stopping, queue, memory, current, todo,
                   job, result>>

\* halt: the stop event, then the watcher (the events it has not delivered are
\* dropped; the one in hand may outlive the join of the observer) ...
Halt ==
    /\ phase = "on"
    /\ Len(queue) < MaxQueue
    /\ phase' = "halting"
    /\ stopping' = TRUE
    /\ watcher' = NoThread
    /\ todo' = IF watcher = NoThread THEN todo ELSE [todo EXCEPT ![watcher] = {}]
    /\ UNCHANGED <<config, disk, ledger, generation, queue, memory, pc, current, worker>>

\* Mutant: halt puts nothing on the queue.
PutNothing ==
    /\ phase = "halting"
    /\ phase' = "joining"
    /\ UNCHANGED <<config, disk, ledger, generation, stopping, watcher, queue, memory, threads,
                   worker>>

\* ... and last the sentinel.
PutSentinel ==
    /\ phase = "halting"
    /\ phase' = "joining"
    /\ queue' = Append(queue, Sentinel)
    /\ UNCHANGED <<config, disk, ledger, generation, stopping, watcher, memory, threads, worker>>

\* join_threads and _clear_if_stopped: both threads are dead and the references
\* are dropped, or the join times out and they stay, so stop can be called again.
JoinThreads ==
    /\ phase = "joining"
    /\ \/ /\ wpc = "dead"
          /\ pc[Rescanner] = "idle"
          /\ phase' = "off"
       \/ /\ JoinMayTimeOut
          /\ wpc # "dead" \/ pc[Rescanner] # "idle"
          /\ phase' = "on"
    /\ UNCHANGED <<config, disk, ledger, generation, stopping, watcher, queue, memory, threads,
                   worker>>

-----------------------------------------------------------------------------
(* Discovery threads.                                                      *)

\* The rescanner's wait on the stop event times out.
Tick ==
    /\ phase = "on"
    /\ ~stopping
    /\ pc[Rescanner] = "idle"
    /\ pc' = [pc EXCEPT ![Rescanner] = "list"]
    /\ UNCHANGED <<config, disk, ledger, life, queue, memory, current, todo, worker>>

\* The user retries the pending files while is_running holds.
Retry(t) ==
    /\ t \in Retriers
    /\ phase \in {"on", "halting", "joining"}
    /\ pc[t] = "idle"
    /\ pc' = [pc EXCEPT ![t] = "list"]
    /\ UNCHANGED <<config, disk, ledger, life, queue, memory, current, todo, worker>>

\* process_existing and rescan list the input folder, reprocess_pending the
\* pending ones; a folder that cannot be listed ends the pass.  (The flag that
\* keeps rescan from reporting this twice is in Monitor, with the event.)
List(t) ==
    /\ pc[t] = "list"
    /\ \/ /\ pc' = [pc EXCEPT ![t] = "next"]
          /\ todo' = [todo EXCEPT ![t] =
                        present \intersect (IF t \in Retriers THEN PendingPaths ELSE InputPaths)]
       \/ /\ ListMayFail
          /\ pc' = [pc EXCEPT ![t] = "idle"]
          /\ UNCHANGED todo
    /\ UNCHANGED <<config, disk, ledger, life, queue, memory, current, worker>>

\* The for loop over the listed paths, or the watcher's next event.
Take(t) ==
    /\ pc[t] = "next"
    /\ \E p \in todo[t] :
          /\ todo' = [todo EXCEPT ![t] = @ \ {p}]
          /\ current' = [current EXCEPT ![t] = p]
    /\ pc' = [pc EXCEPT ![t] = "check"]
    /\ UNCHANGED <<config, disk, ledger, life, queue, memory, worker>>

Finish(t) ==
    /\ t \notin Watchers
    /\ pc[t] = "next"
    /\ todo[t] = {}
    /\ pc' = [pc EXCEPT ![t] = "idle"]
    /\ UNCHANGED <<config, disk, ledger, life, queue, memory, current, todo, worker>>

\* The thread is done with its path.
HandOver(t) ==
    /\ pc' = [pc EXCEPT ![t] = "next"]
    /\ current' = [current EXCEPT ![t] = NoPath]

\* The first half of enqueue and requeue: SourceMemory.already_processed.
Check(t) ==
    /\ pc[t] = "check"
    /\ IF AlreadyProcessed(current[t])
       THEN HandOver(t)
       ELSE pc' = [pc EXCEPT ![t] = "reserve"] /\ UNCHANGED current
    /\ UNCHANGED <<config, disk, ledger, life, queue, memory, todo, worker>>

\* Mutant: reserve does not look at the set.
ReserveAlways(t) ==
    /\ pc[t] = "reserve"
    /\ pc' = [pc EXCEPT ![t] = "put"]
    /\ inflight' = inflight \union {current[t]}
    /\ UNCHANGED <<config, disk, ledger, life, queue, seen, overlap, current, todo, worker>>

\* Inbox.reserve, under the lock.
Reserve(t) ==
    /\ pc[t] = "reserve"
    /\ IF current[t] \in inflight
       THEN HandOver(t) /\ UNCHANGED inflight
       ELSE /\ pc' = [pc EXCEPT ![t] = "put"]
            /\ inflight' = inflight \union {current[t]}
            /\ UNCHANGED current
    /\ UNCHANGED <<config, disk, ledger, life, queue, seen, overlap, todo, worker>>

\* DETECTED (for enqueue) and the put on the queue _get_queue returns.
Put(t) ==
    /\ pc[t] = "put"
    /\ queue' = Append(queue, current[t])
    /\ HandOver(t)
    /\ UNCHANGED <<config, disk, ledger, life, memory, todo, worker>>

-----------------------------------------------------------------------------
(* The worker: Worker.run, process_now and safe_process.                   *)

WorkerGet ==
    /\ wpc = "get"
    /\ queue # <<>>
    /\ queue' = Tail(queue)
    /\ IF Head(queue) = Sentinel
       THEN wpc' = "dead" /\ UNCHANGED job
       ELSE wpc' = "process" /\ job' = Head(queue)
    /\ UNCHANGED <<config, disk, ledger, life, memory, threads, result>>

Result(outcome, destination) == [outcome |-> outcome, destination |-> destination]

\* _copy_inbox_only: a PDF under review or quarantine is always moved.
CopyInboxOnly(p) == config.copy /\ p \notin PendingPaths

\* The file is gone: SKIPPED_MISSING.
ProcessMissing ==
    /\ job \notin present
    /\ result' = Result("missing", NoDestination)
    /\ UNCHANGED disk

\* dry_run: nothing moves.  The destination is the path the file would have
\* had; a file may be there already.  An unreadable PDF is an ERROR.
ProcessDry ==
    /\ job \in present /\ config.dry
    /\ result' \in {Result("dry run", NoDestination), Result("dry run", Archive),
                    Result("error", NoDestination)}
    /\ UNCHANGED disk

\* place_file, to the archive or to a name unique_destination finds free.
ProcessPlace ==
    /\ job \in present /\ ~config.dry
    /\ \E d \in {Archive} \union {q \in PendingPaths \ present : version[q] < MaxVersion} :
          /\ result' = Result("placed", d)
          /\ present' = ((present \union ({d} \intersect PendingPaths))
                            \ (IF CopyInboxOnly(job) THEN {} ELSE {job}))
          /\ version' = IF d = Archive THEN version ELSE [version EXCEPT ![d] = @ + 1]
          /\ placed' = [p \in InputPaths |-> placed[p] + (IF p = job THEN 1 ELSE 0)]

\* _already_at: a pending PDF that is filed where it lies stays there.
ProcessInPlace ==
    /\ job \in present \intersect PendingPaths /\ ~config.dry
    /\ result' = Result("placed", job)
    /\ UNCHANGED disk

\* Placement and quarantine both fail (ERROR), or the processor raises.
ProcessFail ==
    /\ job \in present
    /\ \/ ~config.dry /\ result' = Result("error", NoDestination)
       \/ result' = Result("raised", NoDestination)
    /\ UNCHANGED disk

Process ==
    /\ wpc = "process"
    /\ ProcessMissing \/ ProcessDry \/ ProcessPlace \/ ProcessInPlace \/ ProcessFail
    /\ wpc' = IF result'.outcome = "raised" THEN "release" ELSE "record"
    /\ UNCHANGED <<config, ledger, life, queue, memory, threads, job>>

\* record_result: SKIPPED_MISSING is not written; the signature is the one the
\* source has now, and a moved source has none; a failed write is only logged.
Record ==
    /\ wpc = "record"
    /\ \/ /\ row' = IF result.outcome # "missing" /\ job \in present
                    THEN [row EXCEPT ![job] = [version |-> version[job],
                                               destination |-> result.destination]]
                    ELSE row
       \/ LedgerMayFail /\ UNCHANGED row
    /\ wpc' = "remember"
    /\ UNCHANGED <<config, disk, marks, life, queue, memory, threads, job, result>>

\* Mutant: only a dry run is remembered in memory; copies rely on the ledger.
RememberDryRuns ==
    /\ wpc = "remember"
    /\ seen' = IF result.outcome = "dry run" /\ job \in present
               THEN seen \union {Signature(job)} ELSE seen
    /\ marks' = IF result.outcome = "placed" /\ config.copy /\ job \in present
                THEN marks \union {Signature(job)} ELSE marks
    /\ wpc' = "release"
    /\ UNCHANGED <<config, disk, row, life, queue, inflight, overlap, threads, job, result>>

\* SourceMemory.remember and _mark_copied, with the configuration of this moment.
Remember ==
    /\ wpc = "remember"
    /\ seen' = IF /\ result.outcome \in {"placed", "dry run"}
                  /\ config.dry \/ config.copy
                  /\ job \in present
               THEN seen \union {Signature(job)} ELSE seen
    /\ \/ marks' = IF result.outcome = "placed" /\ config.copy /\ job \in present
                   THEN marks \union {Signature(job)} ELSE marks
       \/ LedgerMayFail /\ UNCHANGED marks
    /\ wpc' = "release"
    /\ UNCHANGED <<config, disk, row, life, queue, inflight, overlap, threads, job,
                   result>>

\* Mutant: the release is not in a finally clause.
ReleaseOnReturn ==
    /\ wpc = "release"
    /\ inflight' = IF result.outcome = "raised" THEN inflight ELSE inflight \ {job}
    /\ wpc' = "get"
    /\ job' = NoPath
    /\ result' = NoResult
    /\ UNCHANGED <<config, disk, ledger, life, queue, seen, overlap, threads>>

\* The RESULT or ERROR event and the finally clause of safe_process.
Release ==
    /\ wpc = "release"
    /\ inflight' = inflight \ {job}
    /\ wpc' = "get"
    /\ job' = NoPath
    /\ result' = NoResult
    /\ UNCHANGED <<config, disk, ledger, life, queue, seen, overlap, threads>>

-----------------------------------------------------------------------------
Environment == SaveConfig \/ \E p \in Paths : Arrive(p) \/ Remove(p)
StartStop ==
    \/ NewGeneration \/ ClearInbox \/ ClearMemory \/ StartThreads
    \/ Halt \/ PutSentinel \/ JoinThreads
Discover(t) == List(t) \/ Take(t) \/ Finish(t) \/ Check(t) \/ Reserve(t) \/ Put(t)
Work == WorkerGet \/ Process \/ Record \/ Remember \/ Release

Next ==
    \/ Environment
    \/ StartStop
    \/ Tick
    \/ \E t \in Threads : Retry(t) \/ Discover(t)
    \/ Work

Spec == Init /\ [][Next]_vars

\* The scheduler runs every thread that can run; the rescanner's wait times out
\* again and again; a start or a stop under way goes on.  The user and the
\* folders owe nothing.
Fairness ==
    /\ WF_vars(Work)
    /\ WF_vars(Tick)
    /\ \A t \in Threads : WF_vars(Discover(t))
    /\ WF_vars(ClearInbox \/ ClearMemory \/ StartThreads)
    /\ WF_vars(PutSentinel \/ JoinThreads)

FairSpec == Spec /\ Fairness
-----------------------------------------------------------------------------
(* Properties.                                                             *)

ControlPoints == {"idle", "list", "next", "check", "reserve", "put"}
WorkerPoints == {"dead", "get", "process", "record", "remember", "release"}
Phases == {"off", "clearing inbox", "clearing memory", "starting", "on", "halting", "joining"}

TypeDisk ==
    /\ present \subseteq Paths
    /\ version \in [Paths -> Versions]
    /\ placed \in [InputPaths -> Nat]
TypeLedger ==
    /\ row \in [Paths -> [version : Versions, destination : Destinations]]
    /\ marks \subseteq Signatures
TypeLife ==
    /\ config \in Modes
    /\ phase \in Phases
    /\ generation \in 0 .. MaxGenerations
    /\ stopping \in BOOLEAN
    /\ watcher \in Watchers \union {NoThread}
TypeMemory ==
    /\ queue \in Seq(Paths \union {Sentinel})
    /\ inflight \subseteq Paths
    /\ seen \subseteq Signatures
    /\ overlap \in BOOLEAN
TypeThreads ==
    /\ pc \in [Threads -> ControlPoints]
    /\ current \in [Threads -> Paths \union {NoPath}]
    /\ todo \in [Threads -> SUBSET Paths]
    /\ \A t \in Threads : pc[t] \in {"check", "reserve", "put"} => current[t] \in Paths
TypeWorker ==
    /\ wpc \in WorkerPoints
    /\ job \in Paths \union {NoPath}
    /\ Busy => job \in Paths
    /\ result \in [outcome : Outcomes, destination : Destinations]

\* Every variable holds a value of its type, and a thread or the worker that
\* works on a path has one in hand (never the sentinel).
TypeOK == TypeDisk /\ TypeLedger /\ TypeLife /\ TypeMemory /\ TypeThreads /\ TypeWorker

\* "The same PDF is reserved once": a path is about to be put by one thread, or
\* queued once, or in the worker's hands, never two of these, and it is reserved
\* meanwhile.  The premise excludes the generations whose inbox.clear() forgot the
\* reservation of a thread that outlived the previous one.
PuttingOnce ==
    \A t \in Putting :
        /\ current[t] \in inflight
        /\ \A i \in 1 .. Len(queue) : queue[i] # current[t]
        /\ Busy => job # current[t]
        /\ \A u \in Putting : current[u] = current[t] => u = t
QueuedOnce ==
    \A i \in 1 .. Len(queue) : queue[i] # Sentinel =>
        /\ queue[i] \in inflight
        /\ Busy => job # queue[i]
        /\ \A j \in 1 .. Len(queue) : queue[j] = queue[i] => j = i
ProcessedOnce == Busy => job \in inflight
ReservedOnce ==
    phase # "clearing inbox" /\ ~overlap => PuttingOnce /\ QueuedOnce /\ ProcessedOnce

\* Worker.safe_process always releases: a reservation never outlives the work it
\* stands for, so no PDF becomes invisible to the rescanner.
NoLeakedReservation == phase # "clearing inbox" => inflight \subseteq Held

\* While its generation lasts, an original that stays in the input folder after
\* being copied is remembered, whatever happens to the ledger's writes.
CopiedIsRemembered ==
    \A p \in InputPaths \intersect present :
        placed[p] > 0 /\ ~(Busy /\ job = p) => Signature(p) \in seen

\* While the monitor runs, a PDF of the input folder reaches the worker, or is
\* known as processed, even if the watcher missed it.
InputHandled ==
    \A p \in InputPaths :
        p \in present /\ phase = "on"
            ~> job = p \/ p \notin present \/ AlreadyProcessed(p) \/ stopping

\* Once the stop event is set the worker reaches the sentinel, whatever is put behind
\* it, and the rescanner ends its pass, whether the joins of the stop time out or not.
StopReturns == stopping ~> wpc = "dead" /\ pc[Rescanner] = "idle"

-----------------------------------------------------------------------------
(* Promises of the documentation that the code does not keep (README, 3).  *)

\* Ledger.source_seen covers an original only when its content was placed: the
\* memory of one source never hides another.
CoveredOnlyIfPlaced ==
    \A p \in InputPaths \intersect present : SourceSeen(p) => placed[p] > 0

\* Copy mode does not copy the same original twice.
CopiedOnce == \A p \in InputPaths : placed[p] <= 1

\* A PDF waiting under review or quarantine is never taken for already
\* processed, so that a retry puts it through the pipeline again.
PendingIsRetried == \A p \in PendingPaths : ~AlreadyProcessed(p)
=============================================================================
