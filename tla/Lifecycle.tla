----------------------------- MODULE Lifecycle -----------------------------
(***************************************************************************)
(* Start and stop of ProcessingEngine.  The interface runs every call on a *)
(* thread of its own (run_async), so calls overlap; _lock guards the claim *)
(* and _lifecycle_lock the launch and the stop.  A generation has a work   *)
(* queue, a stop event and three threads.  What the threads do with files  *)
(* is in Inbox; here they are alive or dead and emit events.               *)
(***************************************************************************)
EXTENDS Naturals, Sequences, FiniteSets

CONSTANTS
    Callers,         \* threads that run_async gives to start and stop
    NoCaller,
    MaxGenerations,  \* bound: launches during a behaviour
    MaxEvents,       \* bound: undelivered events at which nothing optional is emitted
    StartMayFail,    \* whether ensure_folders or a thread start may raise
    JoinMayTimeOut,  \* whether join_threads may give up
    FolderMayFail    \* whether the input folder may be unreadable

Generations == 1 .. MaxGenerations
None == 0            \* a reference that is None; the objects made by _wire
Objects == Generations \union {None}

ASSUME CallersAssumption == NoCaller \notin Callers
ASSUME LimitsAssumption ==
    /\ MaxGenerations \in Nat
    /\ MaxEvents \in Nat
    /\ {StartMayFail, JoinMayTimeOut, FolderMayFail} \subseteq BOOLEAN

VARIABLES
    starting,      \* ProcessingEngine._starting
    lock,          \* who holds _lifecycle_lock
    generation,    \* _generation_id; names the current queue and stop event too
    watcherRef, workerRef, rescannerRef,  \* _watcher, _worker, _rescanner
    halted,        \* generations whose stop event is set
    poisoned,      \* generations whose queue holds the sentinel
    workers,       \* generations whose worker thread is alive
    rescanners,    \* generations whose rescanner thread is alive
    unreadable,    \* Inbox._input_unreadable
    events,        \* emitted and not yet handled by the interface
    announced,     \* history: generations whose STOPPED event was emitted
    cpc            \* per caller: control point

refs == <<watcherRef, workerRef, rescannerRef>>
signals == <<halted, poisoned>>
alive == <<workers, rescanners>>
report == <<unreadable, events, announced>>
engine == <<starting, lock, generation, refs, signals, alive, report>>
vars == <<engine, cpc>>

EngineInit ==
    /\ starting = FALSE
    /\ lock = NoCaller
    /\ generation = 0
    /\ watcherRef = None /\ workerRef = None /\ rescannerRef = None
    /\ halted = {} /\ poisoned = {}
    /\ workers = {} /\ rescanners = {}
    /\ unreadable = FALSE
    /\ events = <<>>
    /\ announced = {}

Init == EngineInit /\ cpc = [c \in Callers |-> "idle"]

IsRunning == workerRef # None \/ rescannerRef # None

\* _emit stamps the generation of the moment of emission.
Event(type) == [type |-> type, generation |-> generation]
Emit(type) == events' = Append(events, Event(type))

Goto(c, point) == cpc' = [cpc EXCEPT ![c] = point]

-----------------------------------------------------------------------------
(* ProcessingEngine.start.                                                 *)

\* Mutant: a start is refused only while the worker is referenced.
ClaimUnlessWorker(c) ==
    /\ cpc[c] = "claim"
    /\ IF workerRef # None
       THEN Goto(c, "idle") /\ UNCHANGED starting
       ELSE Goto(c, "launch") /\ starting' = TRUE
    /\ UNCHANGED <<lock, generation, refs, signals, alive, report>>

\* _claim_start: rejected without a word while a start is under way or a thread
\* is referenced.
Claim(c) ==
    /\ cpc[c] = "claim"
    /\ IF starting \/ IsRunning
       THEN Goto(c, "idle") /\ UNCHANGED starting
       ELSE Goto(c, "launch") /\ starting' = TRUE
    /\ UNCHANGED <<lock, generation, refs, signals, alive, report>>

LockForStart(c) ==
    /\ cpc[c] = "launch"
    /\ lock = NoCaller
    /\ lock' = c
    /\ Goto(c, "folders")
    /\ UNCHANGED <<starting, generation, refs, signals, alive, report>>

\* An exception of _launch.
Fails(c) ==
    /\ StartMayFail
    /\ Goto(c, "cleanup")

\* ensure_folders, then the new generation: number, queue, stop event, empty
\* inbox and memory.
NewGeneration(c) ==
    /\ cpc[c] = "folders"
    /\ \/ /\ generation < MaxGenerations
          /\ generation' = generation + 1
          /\ unreadable' = FALSE
          /\ Goto(c, "watcher")
       \/ Fails(c) /\ UNCHANGED <<generation, unreadable>>
    /\ UNCHANGED <<starting, lock, refs, signals, alive, events, announced>>

StartWatcher(c) ==
    /\ cpc[c] = "watcher"
    /\ \/ watcherRef' = generation /\ Goto(c, "worker")
       \/ Fails(c) /\ UNCHANGED watcherRef
    /\ UNCHANGED <<starting, lock, generation, workerRef, rescannerRef, signals, alive, report>>

\* thread.start: the worker lives, and is_running does not know it yet ...
StartWorker(c) ==
    /\ cpc[c] = "worker"
    /\ \/ workers' = workers \union {generation} /\ Goto(c, "workerStarted")
       \/ Fails(c) /\ UNCHANGED workers
    /\ UNCHANGED <<starting, lock, generation, refs, signals, rescanners, report>>

\* ... and _launch references it.
AssignWorker(c) ==
    /\ cpc[c] = "workerStarted"
    /\ workerRef' = generation
    /\ Goto(c, "rescanner")
    /\ UNCHANGED <<starting, lock, generation, watcherRef, rescannerRef, signals, alive, report>>

StartRescanner(c) ==
    /\ cpc[c] = "rescanner"
    /\ \/ rescanners' = rescanners \union {generation} /\ Goto(c, "rescannerStarted")
       \/ Fails(c) /\ UNCHANGED rescanners
    /\ UNCHANGED <<starting, lock, generation, refs, signals, workers, report>>

\* The last reference; start leaves _lifecycle_lock before it announces itself.
AssignRescanner(c) ==
    /\ cpc[c] = "rescannerStarted"
    /\ rescannerRef' = generation
    /\ lock' = NoCaller
    /\ Goto(c, "announce")
    /\ UNCHANGED <<starting, generation, watcherRef, workerRef, signals, alive, report>>

EmitStarted(c) ==
    /\ cpc[c] = "announce"
    /\ Emit("started")
    /\ Goto(c, "existing")
    /\ UNCHANGED <<starting, lock, generation, refs, signals, alive, unreadable, announced>>

\* process_existing: the PDFs it finds are reported, or the folder that cannot be.
ProcessExisting(c) ==
    /\ cpc[c] = "existing"
    /\ \/ UNCHANGED events
       \/ Len(events) < MaxEvents /\ Emit("detected")
       \/ FolderMayFail /\ Len(events) < MaxEvents /\ Emit("error")
    /\ Goto(c, "release")
    /\ UNCHANGED <<starting, lock, generation, refs, signals, alive, unreadable, announced>>

\* The finally clause.
ReleaseStart(c) ==
    /\ cpc[c] = "release"
    /\ starting' = FALSE
    /\ Goto(c, "idle")
    /\ UNCHANGED <<lock, generation, refs, signals, alive, report>>

-----------------------------------------------------------------------------
(* halt and join, which a failed start and stop share.                     *)

\* Mutant: the sentinel is put only when the watcher stopped without trouble.
HaltUnlessWatched ==
    /\ halted' = halted \union {generation}
    /\ poisoned' = IF watcherRef = None THEN poisoned \union {generation} ELSE poisoned

\* The stop event and the queue of the current generation.
HaltThreads ==
    /\ halted' = halted \union {generation}
    /\ poisoned' = poisoned \union {generation}

\* Mutant: a thread that is not referenced any more counts as joined.
JoinedWorker == workerRef \notin workers

\* join_threads: the referenced threads are dead.
Joined == workerRef \notin workers /\ rescannerRef \notin rescanners

ClearReferences == watcherRef' = None /\ workerRef' = None /\ rescannerRef' = None

\* _clear_if_stopped gives up: the references stay.
GiveUp ==
    /\ JoinMayTimeOut
    /\ ~Joined
    /\ Emit("error")
    /\ UNCHANGED refs

\* _cleanup_failed_start: halt ...
Cleanup(c) ==
    /\ cpc[c] = "cleanup"
    /\ HaltThreads
    /\ Goto(c, "cleanupJoin")
    /\ UNCHANGED <<starting, lock, generation, refs, alive, report>>

\* ... and _clear_if_stopped.
CleanupJoin(c) ==
    /\ cpc[c] = "cleanupJoin"
    /\ \/ Joined /\ ClearReferences /\ UNCHANGED events
       \/ GiveUp
    /\ Goto(c, "report")
    /\ UNCHANGED <<starting, lock, generation, signals, alive, unreadable, announced>>

\* Mutant: an exception of _launch leaves _lifecycle_lock taken.
ReportHolding(c) ==
    /\ cpc[c] = "report"
    /\ Emit("error")
    /\ Goto(c, "release")
    /\ UNCHANGED <<starting, lock, generation, refs, signals, alive, unreadable, announced>>

\* The ERROR of a failed start, the last thing done under _lifecycle_lock.
ReportFailure(c) ==
    /\ cpc[c] = "report"
    /\ Emit("error")
    /\ lock' = NoCaller
    /\ Goto(c, "release")
    /\ UNCHANGED <<starting, generation, refs, signals, alive, unreadable, announced>>

-----------------------------------------------------------------------------
(* ProcessingEngine.stop.                                                  *)

\* A stop of a stopped engine returns at once.
LockForStop(c) ==
    /\ cpc[c] = "stop"
    /\ lock = NoCaller
    /\ IF IsRunning
       THEN lock' = c /\ Goto(c, "halt")
       ELSE UNCHANGED lock /\ Goto(c, "idle")
    /\ UNCHANGED <<starting, generation, refs, signals, alive, report>>

Halt(c) ==
    /\ cpc[c] = "halt"
    /\ HaltThreads
    /\ Goto(c, "join")
    /\ UNCHANGED <<starting, lock, generation, refs, alive, report>>

\* Mutant: STOPPED follows a join that timed out, too.
StoppedRegardless(c) ==
    /\ cpc[c] = "join"
    /\ \/ Joined /\ ClearReferences /\ UNCHANGED events
       \/ GiveUp
    /\ Goto(c, "stopped")
    /\ UNCHANGED <<starting, lock, generation, signals, alive, unreadable, announced>>

\* The references are dropped first, STOPPED comes later.
Join(c) ==
    /\ cpc[c] = "join"
    /\ \/ Joined /\ ClearReferences /\ Goto(c, "stopped") /\ UNCHANGED <<events, lock>>
       \/ GiveUp /\ lock' = NoCaller /\ Goto(c, "idle")
    /\ UNCHANGED <<starting, generation, signals, alive, unreadable, announced>>

EmitStopped(c) ==
    /\ cpc[c] = "stopped"
    /\ Emit("stopped")
    /\ announced' = announced \union {generation}
    /\ lock' = NoCaller
    /\ Goto(c, "idle")
    /\ UNCHANGED <<starting, generation, refs, signals, alive, unreadable>>

-----------------------------------------------------------------------------
(* The engine's threads.                                                   *)

\* The worker gets to the sentinel of its queue.
WorkerEnds(g) ==
    /\ g \in workers \intersect poisoned
    /\ workers' = workers \ {g}
    /\ UNCHANGED <<starting, lock, generation, refs, signals, rescanners, report, cpc>>

\* _rescan_loop looks at the stop event of the moment, not at that of its start.
RescannerEnds(g) ==
    /\ g \in rescanners
    /\ generation \in halted
    /\ rescanners' = rescanners \ {g}
    /\ UNCHANGED <<starting, lock, generation, refs, signals, workers, report, cpc>>

\* The watcher finds a PDF, perhaps before _launch references it.
Detect ==
    /\ watcherRef # None \/ \E c \in Callers : cpc[c] = "watcher"
    /\ Len(events) < MaxEvents
    /\ Emit("detected")
    /\ UNCHANGED <<starting, lock, generation, refs, signals, alive, unreadable, announced, cpc>>

\* rescan tells once that the input folder cannot be read.
RescanFails(g) ==
    /\ FolderMayFail
    /\ g \in rescanners
    /\ ~unreadable /\ Len(events) < MaxEvents
    /\ unreadable' = TRUE
    /\ Emit("error")
    /\ UNCHANGED <<starting, lock, generation, refs, signals, alive, announced, cpc>>

RescanReads(g) ==
    /\ g \in rescanners
    /\ unreadable
    /\ unreadable' = FALSE
    /\ UNCHANGED <<starting, lock, generation, refs, signals, alive, events, announced, cpc>>

-----------------------------------------------------------------------------
Start(c) ==
    \/ Claim(c) \/ LockForStart(c) \/ NewGeneration(c) \/ StartWatcher(c)
    \/ StartWorker(c) \/ AssignWorker(c) \/ StartRescanner(c) \/ AssignRescanner(c)
    \/ EmitStarted(c) \/ ProcessExisting(c) \/ ReleaseStart(c)
    \/ Cleanup(c) \/ CleanupJoin(c) \/ ReportFailure(c)
Stop(c) == LockForStop(c) \/ Halt(c) \/ Join(c) \/ EmitStopped(c)
Threads ==
    \/ Detect
    \/ \E g \in Generations : WorkerEnds(g) \/ RescannerEnds(g) \/ RescanFails(g) \/ RescanReads(g)

\* run_async: the interface calls start or stop on a thread of its own.  There is
\* no start beyond the bound on generations.
Starters == {c \in Callers : cpc[c] \in {"claim", "launch", "folders"}}
CallStart(c) ==
    /\ cpc[c] = "idle"
    /\ generation + Cardinality(Starters) < MaxGenerations
    /\ Goto(c, "claim")
CallStop(c) == cpc[c] = "idle" /\ Goto(c, "stop")

Request(c) ==
    /\ Len(events) < MaxEvents
    /\ CallStart(c) \/ CallStop(c)
    /\ UNCHANGED engine

\* The interface takes the next event.
Deliver ==
    /\ events # <<>>
    /\ events' = Tail(events)
    /\ UNCHANGED <<starting, lock, generation, refs, signals, alive, unreadable, announced, cpc>>

Next ==
    \/ \E c \in Callers : Request(c) \/ Start(c) \/ Stop(c)
    \/ Threads
    \/ Deliver

Spec == Init /\ [][Next]_vars

\* Every call goes on, and one that waits for _lifecycle_lock is not overtaken for
\* ever: between two takings of the lock by others lies a click of the user.  A
\* worker gets to the sentinel and the rescanner to its next look at the stop
\* event.
EngineFairness ==
    /\ \A c \in Callers :
          /\ WF_vars(Start(c) \/ Stop(c))
          /\ SF_vars(LockForStart(c) \/ LockForStop(c))
    /\ \A g \in Generations : WF_vars(WorkerEnds(g)) /\ WF_vars(RescannerEnds(g))

FairSpec == Spec /\ EngineFairness

-----------------------------------------------------------------------------
(* Properties.                                                             *)

LaunchPoints == {"launch", "folders", "watcher", "worker", "workerStarted"}
StartPoints == LaunchPoints \union {"rescanner", "rescannerStarted", "announce", "existing",
                                    "cleanup", "cleanupJoin", "report", "release"}
StopPoints == {"halt", "join", "stopped"}
ControlPoints == {"idle", "claim", "stop"} \union StartPoints \union StopPoints

\* Control points under _lifecycle_lock.
LockedPoints == {"folders", "watcher", "worker", "workerStarted", "rescanner", "rescannerStarted",
                 "cleanup", "cleanupJoin", "report"} \union StopPoints

EventTypes == {"started", "stopped", "detected", "error"}

\* Every variable holds a value of its type; only a generation that began is
\* announced as stopped.
TypeOK ==
    /\ starting \in BOOLEAN
    /\ lock \in Callers \union {NoCaller}
    /\ generation \in Objects
    /\ {watcherRef, workerRef, rescannerRef} \subseteq Objects
    /\ halted \subseteq Objects /\ poisoned \subseteq Objects
    /\ workers \subseteq Generations /\ rescanners \subseteq Generations
    /\ unreadable \in BOOLEAN
    /\ events \in Seq([type : EventTypes, generation : Objects])
    /\ announced \subseteq 1 .. generation
    /\ cpc \in [Callers -> ControlPoints]

\* One start at a time: _starting is set exactly while one call is between its
\* claim and its finally clause.
OneStart ==
    /\ starting <=> \E c \in Callers : cpc[c] \in StartPoints
    /\ \A c, d \in Callers : cpc[c] \in StartPoints /\ cpc[d] \in StartPoints => c = d

\* Every live thread is referenced, so a stop can join it, or the launch that started it is
\* about to reference it (and holds _lifecycle_lock, for which a stop waits): neither a failed
\* start nor a join that gave up leaves an orphan worker or rescanner.
Someone(point) == \E c \in Callers : cpc[c] = point
NoOrphan ==
    /\ \A g \in workers : g = workerRef \/ (g = generation /\ Someone("workerStarted"))
    /\ \A g \in rescanners : g = rescannerRef \/ (g = generation /\ Someone("rescannerStarted"))

\* Whoever is alive belongs to the newest generation: no old worker can drain the
\* queue, and no old rescanner can obey the stop event, of the next one.
OnlyNewestLives == workers \union rescanners \subseteq {generation}

\* The engine implements the abstract generations.
G == INSTANCE Generations WITH last <- generation, active <- workers \union rescanners
Implements == G!Spec

\* A thread whose generation was halted ends, though the rescanner looks at the
\* stop event of the moment and not at its own.
HaltedEnds == \A g \in Generations :
    g \in halted ~> g \notin workers \union rescanners

\* Every call of start and stop returns: the locks, the joins and the sentinel
\* never wait for each other.
CallsReturn == \A c \in Callers : cpc[c] # "idle" ~> cpc[c] = "idle"

-----------------------------------------------------------------------------
(* Promises of the documentation that the code does not keep (README, 3).  *)

\* A time-out of stop leaves the references "so the next start stays rejected
\* until they die": a start is rejected only if another one is under way, a stop
\* is joining or a thread lives.
RejectedUntilTheyDie ==
    [][\A c \in Callers :
          cpc[c] = "claim" /\ cpc'[c] = "idle" =>
              starting \/ lock # NoCaller \/ workers \union rescanners # {}]_vars
=============================================================================
