--------------------------- MODULE MonitorProofs ---------------------------
(***************************************************************************)
(* The engine and the window that drives it.  For every number of callers  *)
(* and generations: the types, the safety invariants of Lifecycle and that *)
(* it implements Generations; under the window's calls, what the buttons   *)
(* meet and what outlives the stores; and, when no two calls overlap but   *)
(* that of the close and no launch fails, that whatever the user clicks    *)
(* ends in a toggle that tells the truth.                                  *)
(***************************************************************************)
EXTENDS Monitor, TLAPS

-----------------------------------------------------------------------------
(* Lifecycle.                                                                *)

(* The strengthening (with NoOrphan): whoever is at a point under _lifecycle_lock holds it;    *)
(* the references name the newest generation; a launch finds them empty and    *)
(* its generation was never announced; a stop dropped them before it speaks.   *)
LockHeld ==
    /\ lock # NoCaller => cpc[lock] \in LockedPoints
    /\ \A c \in Callers : cpc[c] \in LockedPoints => lock = c

NewestReferenced == {workerRef, rescannerRef} \subseteq {None, generation}

LaunchClean == \A c \in Callers :
    /\ cpc[c] \in LaunchPoints => workerRef = None
    /\ cpc[c] \in {"rescanner", "rescannerStarted"} => workerRef = generation
    /\ cpc[c] \in LaunchPoints \union {"rescanner", "rescannerStarted"} => rescannerRef = None

\* Where a thread lives that is not referenced yet.
StartedPoints == {"workerStarted", "rescannerStarted"}

LaunchFresh == \A c \in Callers :
    cpc[c] \in {"watcher", "worker", "rescanner"} \union StartedPoints
        => generation \in Generations \ announced

StopClean == \A c \in Callers :
    /\ cpc[c] \in StopPoints => generation \in Generations
    /\ cpc[c] = "stopped" => workerRef = None /\ rescannerRef = None

USE DEF refs, signals, alive, report, engine

LEMMA GenerationFacts == Generations \subseteq Nat /\ None \notin Generations
                            /\ Objects = 0 .. MaxGenerations
BY LimitsAssumption DEF Generations, None, Objects

-----------------------------------------------------------------------------
(* Types.                                                                    *)

LEMMA EmptyType ==
  ASSUME NEW S
  PROVE  <<>> \in Seq(S)
OBVIOUS

LEMMA TypeInit == Init => TypeOK
<1> SUFFICES ASSUME Init PROVE TypeOK
  OBVIOUS
<1>1. events \in Seq([type : EventTypes, generation : Objects])
  BY EmptyType DEF Init, EngineInit
<1>2. generation \in Objects /\ {watcherRef, workerRef, rescannerRef} \subseteq Objects
  BY DEF Init, EngineInit, Objects, None
<1>3. cpc \in [Callers -> ControlPoints]
  BY DEF Init, ControlPoints
<1> QED
  BY <1>1, <1>2, <1>3 DEF Init, EngineInit, TypeOK

LEMMA AppendType ==
  ASSUME NEW S, NEW seq \in Seq(S), NEW e \in S
  PROVE  Append(seq, e) \in Seq(S)
OBVIOUS

LEMMA TailType ==
  ASSUME NEW S, NEW seq \in Seq(S), seq # <<>>
  PROVE  /\ Tail(seq) \in Seq(S) /\ Len(Tail(seq)) = Len(seq) - 1 /\ Len(seq) >= 1 /\ Len(seq) \in Nat
         /\ \A i \in 1 .. Len(Tail(seq)) : Tail(seq)[i] = seq[i + 1]
         /\ Head(seq) = seq[1]
OBVIOUS

LEMMA EmitType ==
  ASSUME TypeOK, NEW type \in EventTypes, Emit(type)
  PROVE  events' \in Seq([type : EventTypes, generation : Objects])
<1>1. Event(type) \in [type : EventTypes, generation : Objects]
  BY DEF Event, TypeOK
<1> QED
  BY <1>1, AppendType DEF Emit, TypeOK

\* A caller moves to another control point.
LEMMA Moves ==
  ASSUME TypeOK, NEW c \in Callers, NEW point \in ControlPoints, Goto(c, point)
  PROVE  /\ cpc' \in [Callers -> ControlPoints]
         /\ cpc'[c] = point
         /\ \A d \in Callers : d # c => cpc'[d] = cpc[d]
BY DEF Goto, TypeOK

LEMMA TypeStep == TypeOK /\ LaunchFresh /\ StopClean /\ [Next]_vars => TypeOK'
<1> SUFFICES ASSUME TypeOK, LaunchFresh, StopClean, [Next]_vars PROVE TypeOK'
  OBVIOUS
<1>1. ASSUME NEW c \in Callers, Start(c) PROVE TypeOK'
  <2> USE DEF LaunchPoints
  <2>1. CASE Claim(c)
    BY <2>1, Moves DEF Claim, TypeOK, ControlPoints, StartPoints
  <2>2. CASE LockForStart(c)
    BY <2>2, Moves DEF LockForStart, TypeOK, ControlPoints, StartPoints
  <2>3. CASE NewGeneration(c)
    <3>1. cpc' \in [Callers -> ControlPoints]
      BY <2>3, Moves DEF NewGeneration, Fails, ControlPoints, StartPoints
    <3>2. generation' \in Objects /\ 1 .. generation \subseteq 1 .. generation'
      BY <2>3, GenerationFacts, LimitsAssumption DEF NewGeneration, TypeOK
    <3> QED
      BY <2>3, <3>1, <3>2 DEF NewGeneration, Fails, TypeOK
  <2>4. CASE StartWatcher(c)
    BY <2>4, Moves DEF StartWatcher, Fails, TypeOK, ControlPoints, StartPoints
  <2>5. CASE StartWorker(c) \/ StartRescanner(c)
    <3>1. cpc' \in [Callers -> ControlPoints]
      BY <2>5, Moves DEF StartWorker, StartRescanner, Fails, ControlPoints, StartPoints
    <3>2. generation \in Generations
      BY <2>5 DEF StartWorker, StartRescanner, LaunchFresh
    <3> QED
      BY <2>5, <3>1, <3>2 DEF StartWorker, StartRescanner, Fails, TypeOK
  <2>5a. CASE AssignWorker(c) \/ AssignRescanner(c)
    BY <2>5a, Moves DEF AssignWorker, AssignRescanner, TypeOK, ControlPoints, StartPoints
  <2>6. CASE EmitStarted(c) \/ ProcessExisting(c)
    <3>1. cpc' \in [Callers -> ControlPoints]
      BY <2>6, Moves DEF EmitStarted, ProcessExisting, ControlPoints, StartPoints
    <3>2. events' \in Seq([type : EventTypes, generation : Objects])
      BY <2>6, EmitType DEF EmitStarted, ProcessExisting, EventTypes, TypeOK
    <3> QED
      BY <2>6, <3>1, <3>2 DEF EmitStarted, ProcessExisting, TypeOK
  <2>7. CASE ReleaseStart(c)
    BY <2>7, Moves DEF ReleaseStart, TypeOK, ControlPoints
  <2>8. CASE Cleanup(c)
    BY <2>8, Moves DEF Cleanup, HaltThreads, TypeOK, ControlPoints, StartPoints
  <2>9. CASE CleanupJoin(c) \/ ReportFailure(c)
    <3>1. cpc' \in [Callers -> ControlPoints]
      BY <2>9, Moves DEF CleanupJoin, ReportFailure, ControlPoints, StartPoints
    <3>2. events' \in Seq([type : EventTypes, generation : Objects])
      BY <2>9, EmitType DEF CleanupJoin, ReportFailure, GiveUp, EventTypes, TypeOK
    <3> QED
      BY <2>9, <3>1, <3>2
         DEF CleanupJoin, ReportFailure, ClearReferences, GiveUp, TypeOK, Objects
  <2> QED
    BY <1>1, <2>1, <2>2, <2>3, <2>4, <2>5, <2>5a, <2>6, <2>7, <2>8, <2>9 DEF Start
<1>2. ASSUME NEW c \in Callers, Stop(c) PROVE TypeOK'
  <2>1. cpc' \in [Callers -> ControlPoints]
    BY <1>2, Moves DEF Stop, LockForStop, Halt, Join, EmitStopped, ControlPoints, StopPoints
  <2>2. events' \in Seq([type : EventTypes, generation : Objects])
    BY <1>2, EmitType DEF Stop, LockForStop, Halt, Join, EmitStopped, GiveUp, EventTypes, TypeOK
  <2>3. CASE LockForStop(c) \/ Halt(c) \/ Join(c)
    BY <2>3, <2>1, <2>2
       DEF LockForStop, Halt, Join, HaltThreads, ClearReferences, GiveUp, TypeOK, Objects
  <2>4. CASE EmitStopped(c)
    <3>1. generation \in 1 .. generation
      BY <2>4, GenerationFacts DEF EmitStopped, StopClean, StopPoints, Generations
    <3> QED
      BY <2>4, <2>1, <2>2, <3>1 DEF EmitStopped, TypeOK
  <2> QED
    BY <1>2, <2>3, <2>4 DEF Stop
<1>3. ASSUME NEW c \in Callers, Request(c) PROVE TypeOK'
  BY <1>3, Moves DEF Request, CallStart, CallStop, TypeOK, ControlPoints
<1>4. CASE Threads \/ Deliver
  <2>1. events' \in Seq([type : EventTypes, generation : Objects])
    <3>1. \/ events' = events \/ Emit("detected") \/ Emit("error")
          \/ events # <<>> /\ events' = Tail(events)
      BY <1>4 DEF Threads, Deliver, Detect, WorkerEnds, RescannerEnds, RescanFails, RescanReads
    <3>2. events # <<>> => Tail(events) \in Seq([type : EventTypes, generation : Objects])
      BY TailType DEF TypeOK
    <3> QED
      BY <3>1, <3>2, EmitType DEF EventTypes, TypeOK
  <2> QED
    BY <1>4, <2>1
       DEF Threads, Deliver, Detect, WorkerEnds, RescannerEnds, RescanFails, RescanReads, TypeOK
<1>5. CASE UNCHANGED vars
  BY <1>5 DEF vars, TypeOK
<1> QED
  BY <1>1, <1>2, <1>3, <1>4, <1>5 DEF Next

-----------------------------------------------------------------------------
(* Control: the lock, the claim and where each caller is.                    *)

LEMMA ControlInit == Init => OneStart /\ LockHeld
BY CallersAssumption
   DEF Init, EngineInit, OneStart, LockHeld, StartPoints, LaunchPoints, LockedPoints, StopPoints

\* Neither the claim nor the lock is touched by who stays at one side of them.
LEMMA OneStartStays ==
  ASSUME TypeOK, OneStart, NEW c \in Callers, starting' = starting,
         \A d \in Callers : d # c => cpc'[d] = cpc[d],
         cpc[c] \in StartPoints <=> cpc'[c] \in StartPoints
  PROVE  OneStart'
BY DEF OneStart

LEMMA LockHeldStays ==
  ASSUME TypeOK, LockHeld, NEW c \in Callers, lock' = lock,
         \A d \in Callers : d # c => cpc'[d] = cpc[d],
         cpc[c] \in LockedPoints <=> cpc'[c] \in LockedPoints
  PROVE  LockHeld'
BY CallersAssumption DEF LockHeld, TypeOK

\* Taking the lock, and giving it back.
LEMMA LockTaken ==
  ASSUME TypeOK, LockHeld, NEW c \in Callers, lock = NoCaller, lock' = c,
         \A d \in Callers : d # c => cpc'[d] = cpc[d],
         cpc'[c] \in LockedPoints
  PROVE  LockHeld'
BY CallersAssumption DEF LockHeld, TypeOK

LEMMA LockGiven ==
  ASSUME TypeOK, LockHeld, NEW c \in Callers, cpc[c] \in LockedPoints, lock' = NoCaller,
         \A d \in Callers : d # c => cpc'[d] = cpc[d],
         cpc'[c] \notin LockedPoints
  PROVE  LockHeld'
BY CallersAssumption DEF LockHeld, TypeOK

LEMMA ControlStep == TypeOK /\ OneStart /\ LockHeld /\ [Next]_vars => (OneStart /\ LockHeld)'
<1> SUFFICES ASSUME TypeOK, OneStart, LockHeld, [Next]_vars PROVE (OneStart /\ LockHeld)'
  OBVIOUS
<1> USE DEF StartPoints, LaunchPoints, StopPoints, LockedPoints, ControlPoints
<1>1. ASSUME NEW c \in Callers, Start(c) PROVE (OneStart /\ LockHeld)'
  <2>1. CASE Claim(c)
    <3>1. /\ \A d \in Callers : d # c => cpc'[d] = cpc[d]
          /\ cpc'[c] \in {"idle", "launch"} /\ cpc[c] = "claim" /\ lock' = lock
          /\ cpc'[c] = "idle" => starting' = starting
          /\ cpc'[c] = "launch" => ~starting /\ starting'
      <4>1. /\ cpc[c] = "claim" /\ lock' = lock
            /\ \/ Goto(c, "idle") /\ starting' = starting
               \/ Goto(c, "launch") /\ ~starting /\ starting'
        BY <2>1, Zenon DEF Claim
      <4>2. /\ \A d \in Callers : d # c => cpc'[d] = cpc[d]
            /\ \/ cpc'[c] = "idle" /\ starting' = starting
               \/ cpc'[c] = "launch" /\ ~starting /\ starting'
        BY <4>1, Moves
      <4> QED
        BY <4>1, <4>2
    <3>2. CASE cpc'[c] = "idle"
      BY <3>1, <3>2, OneStartStays, LockHeldStays
    <3>3. CASE cpc'[c] = "launch"
      <4>1. \A d \in Callers : d # c => cpc'[d] \notin StartPoints
        BY <3>1, <3>3 DEF OneStart
      <4>2. OneStart'
        BY <3>1, <3>3, <4>1 DEF OneStart
      <4> QED
        BY <3>1, <3>3, <4>2, LockHeldStays
    <3> QED
      BY <3>1, <3>2, <3>3
  <2>2. CASE LockForStart(c)
    <3>1. /\ \A d \in Callers : d # c => cpc'[d] = cpc[d]
          /\ cpc[c] = "launch" /\ cpc'[c] = "folders"
          /\ lock = NoCaller /\ lock' = c /\ starting' = starting
      BY <2>2, Moves DEF LockForStart
    <3> QED
      BY <3>1, OneStartStays, LockTaken
  <2>3. CASE NewGeneration(c) \/ StartWatcher(c) \/ StartWorker(c) \/ AssignWorker(c) \/ StartRescanner(c)
    <3>1. /\ \A d \in Callers : d # c => cpc'[d] = cpc[d]
          /\ cpc[c] \in {"folders", "watcher", "worker", "workerStarted", "rescanner"}
          /\ cpc'[c] \in {"watcher", "worker", "workerStarted", "rescanner", "rescannerStarted", "cleanup"}
          /\ lock' = lock /\ starting' = starting
      BY <2>3, Moves DEF NewGeneration, StartWatcher, StartWorker, AssignWorker, StartRescanner, Fails
    <3> QED
      BY <3>1, OneStartStays, LockHeldStays
  <2>4. CASE AssignRescanner(c)
    <3>1. /\ \A d \in Callers : d # c => cpc'[d] = cpc[d]
          /\ cpc[c] = "rescannerStarted" /\ starting' = starting
          /\ cpc'[c] = "announce" /\ lock' = NoCaller
      BY <2>4, Moves DEF AssignRescanner
    <3> QED
      BY <3>1, OneStartStays, LockGiven
  <2>5. CASE EmitStarted(c) \/ ProcessExisting(c) \/ Cleanup(c) \/ CleanupJoin(c)
    <3>1. /\ \A d \in Callers : d # c => cpc'[d] = cpc[d]
          /\ \/ cpc[c] = "announce" /\ cpc'[c] = "existing"
             \/ cpc[c] = "existing" /\ cpc'[c] = "release"
             \/ cpc[c] = "cleanup" /\ cpc'[c] = "cleanupJoin"
             \/ cpc[c] = "cleanupJoin" /\ cpc'[c] = "report"
          /\ lock' = lock /\ starting' = starting
      BY <2>5, Moves DEF EmitStarted, ProcessExisting, Cleanup, CleanupJoin
    <3> QED
      BY <3>1, OneStartStays, LockHeldStays
  <2>6. CASE ReportFailure(c)
    <3>1. /\ \A d \in Callers : d # c => cpc'[d] = cpc[d]
          /\ cpc[c] = "report" /\ cpc'[c] = "release"
          /\ lock' = NoCaller /\ starting' = starting
      BY <2>6, Moves DEF ReportFailure
    <3> QED
      BY <3>1, OneStartStays, LockGiven
  <2>7. CASE ReleaseStart(c)
    <3>1. /\ \A d \in Callers : d # c => cpc'[d] = cpc[d]
          /\ cpc[c] = "release" /\ cpc'[c] = "idle"
          /\ lock' = lock /\ starting' = FALSE
      BY <2>7, Moves DEF ReleaseStart
    <3>2. OneStart'
      BY <3>1 DEF OneStart
    <3> QED
      BY <3>1, <3>2, LockHeldStays
  <2> QED
    BY <1>1, <2>1, <2>2, <2>3, <2>4, <2>5, <2>6, <2>7 DEF Start
<1>2. ASSUME NEW c \in Callers, Stop(c) PROVE (OneStart /\ LockHeld)'
  <2>1. CASE LockForStop(c)
    <3>1. /\ \A d \in Callers : d # c => cpc'[d] = cpc[d]
          /\ cpc[c] = "stop" /\ starting' = starting /\ lock = NoCaller
          /\ \/ cpc'[c] = "halt" /\ lock' = c
             \/ cpc'[c] = "idle" /\ lock' = lock
      BY <2>1, Moves DEF LockForStop
    <3> QED
      BY <3>1, OneStartStays, LockHeldStays, LockTaken
  <2>2. CASE Halt(c) \/ Join(c) \/ EmitStopped(c)
    <3>1. /\ \A d \in Callers : d # c => cpc'[d] = cpc[d]
          /\ cpc[c] \in StopPoints /\ starting' = starting
          /\ \/ cpc'[c] \in {"join", "stopped"} /\ lock' = lock
             \/ cpc'[c] = "idle" /\ lock' = NoCaller
      BY <2>2, Moves DEF Halt, Join, EmitStopped
    <3> QED
      BY <3>1, OneStartStays, LockHeldStays, LockGiven
  <2> QED
    BY <1>2, <2>1, <2>2 DEF Stop
<1>3. ASSUME NEW c \in Callers, Request(c) PROVE (OneStart /\ LockHeld)'
  <2>1. /\ \A d \in Callers : d # c => cpc'[d] = cpc[d]
        /\ cpc[c] = "idle" /\ cpc'[c] \in {"claim", "stop"}
        /\ lock' = lock /\ starting' = starting
    BY <1>3, Moves DEF Request, CallStart, CallStop
  <2> QED
    BY <2>1, OneStartStays, LockHeldStays
<1>4. CASE Threads \/ Deliver \/ UNCHANGED vars
  <2>1. UNCHANGED <<cpc, lock, starting>>
    BY <1>4 DEF Threads, Deliver, Detect, WorkerEnds, RescannerEnds, RescanFails, RescanReads, vars
  <2> QED
    BY <2>1 DEF OneStart, LockHeld
<1> QED
  BY <1>1, <1>2, <1>3, <1>4 DEF Next

-----------------------------------------------------------------------------
(* References: what they name, and where they are empty.                     *)

References == NoOrphan /\ NewestReferenced /\ LaunchClean /\ LaunchFresh /\ StopClean

LEMMA ReferencesInit == Init => References
BY DEF Init, EngineInit, References, NoOrphan, NewestReferenced, LaunchClean, LaunchFresh,
       StopClean, LaunchPoints, StartedPoints, StopPoints, None

\* At most one caller launches, and at most one is under the lock.
LEMMA Alone ==
  ASSUME OneStart, LockHeld, NEW c \in Callers, NEW d \in Callers, c # d
  PROVE  /\ ~(cpc[c] \in StartPoints /\ cpc[d] \in StartPoints)
         /\ ~(cpc[c] \in LockedPoints /\ cpc[d] \in LockedPoints)
BY DEF OneStart, LockHeld

\* Who is under the lock, at another point, leaves nobody between a start and its reference.
LEMMA Unstarted ==
  ASSUME TypeOK, OneStart, LockHeld, References, NEW c \in Callers,
         cpc[c] \in LockedPoints \ StartedPoints
  PROVE  /\ workers \subseteq {workerRef} /\ rescanners \subseteq {rescannerRef}
         /\ None \notin workers /\ None \notin rescanners
<1>1. \A d \in Callers : cpc[d] \notin StartedPoints
  BY Alone DEF StartedPoints, LockedPoints
<1>2. ~Someone("workerStarted") /\ ~Someone("rescannerStarted")
  BY <1>1 DEF Someone, StartedPoints
<1> QED
  BY <1>2, GenerationFacts DEF References, NoOrphan, TypeOK

\* A step that keeps the references and the generation keeps what is said of
\* them, if its caller comes to no point that asks for more.
LEMMA ReferencesStay ==
  ASSUME References, NEW c \in Callers,
         UNCHANGED <<generation, workerRef, rescannerRef, announced>>,
         workers' \subseteq workers, rescanners' \subseteq rescanners,
         \A d \in Callers : d # c => cpc'[d] = cpc[d],
         cpc[c] \notin StartedPoints,
         cpc'[c] \notin {"rescanner"} \union StartedPoints,
         cpc'[c] \in LaunchPoints =>
            workerRef = None /\ rescannerRef = None,
         cpc'[c] \in {"watcher", "worker"} => generation \in Generations \ announced,
         cpc'[c] \in StopPoints => generation \in Generations,
         cpc'[c] = "stopped" => workerRef = None /\ rescannerRef = None
  PROVE  References'
<1>1. Someone("workerStarted") => Someone("workerStarted")'
  BY DEF Someone, StartedPoints
<1>2. Someone("rescannerStarted") => Someone("rescannerStarted")'
  BY DEF Someone, StartedPoints
<1>3. NoOrphan'
  BY <1>1, <1>2 DEF References, NoOrphan
<1>4. LaunchClean' /\ LaunchFresh'
  BY DEF References, LaunchClean, LaunchFresh, StartedPoints
<1>5. NewestReferenced' /\ StopClean'
  BY DEF References, NewestReferenced, StopClean
<1> QED
  BY <1>3, <1>4, <1>5 DEF References

\* A join that succeeded drops the references of dead threads.
LEMMA Dropped ==
  ASSUME TypeOK, OneStart, LockHeld, References, NEW c \in Callers, Joined,
         cpc[c] \in {"cleanupJoin", "join"},
         workerRef' = None, rescannerRef' = None,
         UNCHANGED <<generation, announced, workers, rescanners>>,
         \A d \in Callers : d # c => cpc'[d] = cpc[d],
         cpc'[c] \in {"report", "stopped"},
         cpc'[c] \in StopPoints => generation \in Generations
  PROVE  References'
<1>0. cpc[c] \in LockedPoints \ StartedPoints
  BY DEF LockedPoints, StopPoints, StartedPoints
<1>1. workers = {} /\ rescanners = {}
  BY <1>0, Unstarted DEF Joined
<1>2. \A d \in Callers : d # c => cpc[d] \notin LockedPoints
  BY <1>0, Alone
<1>3. LaunchClean'
  BY <1>2 DEF References, LaunchClean, LockedPoints, LaunchPoints
<1>4. LaunchFresh'
  BY DEF References, LaunchFresh, StartedPoints
<1> QED
  BY <1>1, <1>3, <1>4 DEF References, NoOrphan, NewestReferenced, StopClean

\* At the points of a launch under the lock nobody else is under it or launches.
LEMMA LaunchAlone ==
  ASSUME OneStart, LockHeld, NEW c \in Callers,
         cpc[c] \in {"folders", "worker", "workerStarted", "rescanner", "rescannerStarted"}
  PROVE  \A d \in Callers : d # c => cpc[d] \notin LockedPoints /\ cpc[d] \notin StartPoints
BY Alone DEF StartPoints, LaunchPoints, LockedPoints

LEMMA ReferencesStep ==
  TypeOK /\ OneStart /\ LockHeld /\ References /\ [Next]_vars => References'
<1> SUFFICES ASSUME TypeOK, OneStart, LockHeld, References, [Next]_vars PROVE References'
  OBVIOUS
<1> USE DEF StartPoints, StopPoints, LockedPoints, LaunchPoints, StartedPoints, ControlPoints
<1>1. ASSUME NEW c \in Callers, Start(c) PROVE References'
  <2>1. CASE Claim(c)
    <3>1. /\ \A d \in Callers : d # c => cpc'[d] = cpc[d]
          /\ cpc[c] = "claim"
          /\ \/ cpc'[c] = "idle"
             \/ cpc'[c] = "launch" /\ workerRef = None /\ rescannerRef = None
          /\ UNCHANGED <<generation, workerRef, rescannerRef, announced, workers, rescanners>>
      <4>1. /\ cpc[c] = "claim"
            /\ \/ Goto(c, "idle")
               \/ Goto(c, "launch") /\ workerRef = None /\ rescannerRef = None
            /\ UNCHANGED <<generation, workerRef, rescannerRef, announced, workers, rescanners>>
        BY <2>1, Zenon DEF Claim, IsRunning
      <4> QED
        BY <4>1, Moves
    <3> QED
      BY <3>1, ReferencesStay
  <2>2. CASE LockForStart(c)
    <3>1. /\ \A d \in Callers : d # c => cpc'[d] = cpc[d]
          /\ cpc[c] = "launch" /\ cpc'[c] = "folders"
          /\ UNCHANGED <<generation, workerRef, rescannerRef, announced, workers, rescanners>>
      BY <2>2, Moves DEF LockForStart
    <3> QED
      BY <3>1, ReferencesStay DEF References, LaunchClean
  <2>3. CASE NewGeneration(c)
    <3>1. /\ \A d \in Callers : d # c => cpc'[d] = cpc[d]
          /\ cpc[c] = "folders"
          /\ UNCHANGED <<workerRef, rescannerRef, announced, workers, rescanners>>
          /\ \/ cpc'[c] = "watcher" /\ generation' = generation + 1 /\ generation < MaxGenerations
             \/ cpc'[c] = "cleanup" /\ generation' = generation
      BY <2>3, Moves DEF NewGeneration, Fails
    <3>2. CASE cpc'[c] = "cleanup"
      BY <3>1, <3>2, ReferencesStay
    <3>3. CASE cpc'[c] = "watcher"
      <4>1. workerRef = None /\ rescannerRef = None
        BY <3>1 DEF References, LaunchClean
      <4>2. generation' \in Generations \ announced
        <5>1. generation \in 0 .. MaxGenerations /\ announced \subseteq 1 .. generation
          BY GenerationFacts DEF TypeOK
        <5> QED
          BY <3>1, <3>3, <5>1, LimitsAssumption DEF Generations
      <4>3. \A d \in Callers : d # c => cpc[d] \notin LockedPoints /\ cpc[d] \notin StartPoints
        BY <3>1, LaunchAlone
      <4>4. workers = {} /\ rescanners = {}
        BY <3>1, <4>1, Unstarted
      <4>5. NoOrphan' /\ NewestReferenced'
        BY <3>1, <4>1, <4>4 DEF NoOrphan, NewestReferenced
      <4>6. LaunchClean'
        BY <3>1, <3>3, <4>1, <4>3 DEF References, LaunchClean
      <4>7. LaunchFresh'
        BY <3>1, <3>3, <4>2, <4>3 DEF References, LaunchFresh
      <4>8. StopClean'
        BY <3>1, <3>3, <4>3 DEF References, StopClean
      <4> QED
        BY <4>5, <4>6, <4>7, <4>8 DEF References
    <3> QED
      BY <3>1, <3>2, <3>3
  <2>4. CASE StartWatcher(c)
    <3>1. /\ \A d \in Callers : d # c => cpc'[d] = cpc[d]
          /\ cpc[c] = "watcher" /\ cpc'[c] \in {"worker", "cleanup"}
          /\ UNCHANGED <<generation, workerRef, rescannerRef, announced, workers, rescanners>>
      BY <2>4, Moves DEF StartWatcher, Fails
    <3>2. /\ workerRef = None /\ rescannerRef = None
          /\ generation \in Generations \ announced
      BY <3>1 DEF References, LaunchClean, LaunchFresh
    <3> QED
      BY <3>1, <3>2, ReferencesStay
  <2>5. CASE StartWorker(c) \/ StartRescanner(c)
    <3>1. /\ \A d \in Callers : d # c => cpc'[d] = cpc[d]
          /\ UNCHANGED <<generation, workerRef, rescannerRef, announced>>
          /\ \/ /\ cpc[c] = "worker" /\ cpc'[c] = "workerStarted"
                /\ workers' = workers \union {generation} /\ rescanners' = rescanners
             \/ /\ cpc[c] = "rescanner" /\ cpc'[c] = "rescannerStarted"
                /\ workers' = workers /\ rescanners' = rescanners \union {generation}
             \/ /\ cpc[c] \in {"worker", "rescanner"} /\ cpc'[c] = "cleanup"
                /\ UNCHANGED <<workers, rescanners>>
      BY <2>5, Moves DEF StartWorker, StartRescanner, Fails
    <3>2. CASE cpc'[c] = "cleanup"
      BY <3>1, <3>2, ReferencesStay
    <3>3. CASE cpc'[c] \in StartedPoints
      <4>1. \A d \in Callers : d # c => cpc[d] \notin LockedPoints /\ cpc[d] \notin StartPoints
        BY <3>1, LaunchAlone
      <4>2. workers \subseteq {workerRef} /\ rescanners \subseteq {rescannerRef}
        BY <3>1, Unstarted
      <4>3. NoOrphan'
        <5>1. CASE cpc'[c] = "workerStarted"
          BY <3>1, <4>2, <5>1 DEF NoOrphan, Someone
        <5>2. CASE cpc'[c] = "rescannerStarted"
          BY <3>1, <4>2, <5>2 DEF NoOrphan, Someone
        <5> QED
          BY <3>3, <5>1, <5>2
      <4>4. LaunchClean'
        BY <3>1, <3>3, <4>1 DEF References, LaunchClean
      <4>5. LaunchFresh'
        BY <3>1, <3>3, <4>1 DEF References, LaunchFresh
      <4>6. StopClean' /\ NewestReferenced'
        BY <3>1, <3>3, <4>1 DEF References, StopClean, NewestReferenced
      <4> QED
        BY <4>3, <4>4, <4>5, <4>6 DEF References
    <3> QED
      BY <3>1, <3>2, <3>3
  <2>6. CASE AssignWorker(c) \/ AssignRescanner(c)
    <3>1. /\ \A d \in Callers : d # c => cpc'[d] = cpc[d]
          /\ UNCHANGED <<generation, announced, workers, rescanners>>
          /\ \/ /\ cpc[c] = "workerStarted" /\ cpc'[c] = "rescanner"
                /\ workerRef' = generation /\ rescannerRef' = rescannerRef
             \/ /\ cpc[c] = "rescannerStarted" /\ cpc'[c] = "announce"
                /\ workerRef' = workerRef /\ rescannerRef' = generation
      BY <2>6, Moves DEF AssignWorker, AssignRescanner
    <3>2. \A d \in Callers : d # c => cpc[d] \notin LockedPoints /\ cpc[d] \notin StartPoints
      BY <3>1, LaunchAlone
    <3>3. NoOrphan'
      <4>1. /\ \A g \in workers : g \in {workerRef, generation}
            /\ \A g \in rescanners : g \in {rescannerRef, generation}
            /\ cpc[c] = "workerStarted" => rescanners \subseteq {rescannerRef} /\ workerRef = None
            /\ cpc[c] = "rescannerStarted" => workers \subseteq {workerRef} /\ rescannerRef = None
        <5>1. cpc[c] = "workerStarted" => ~Someone("rescannerStarted")
          BY <3>2 DEF Someone
        <5>2. cpc[c] = "rescannerStarted" => ~Someone("workerStarted")
          BY <3>2 DEF Someone
        <5> QED
          BY <5>1, <5>2 DEF References, NoOrphan, LaunchClean
      <4>2. None \notin workers /\ None \notin rescanners
        BY GenerationFacts DEF TypeOK
      <4> QED
        BY <3>1, <4>1, <4>2 DEF NoOrphan
    <3>4. LaunchClean'
      BY <3>1, <3>2 DEF References, LaunchClean
    <3>5. LaunchFresh'
      BY <3>1, <3>2 DEF References, LaunchFresh
    <3>6. StopClean' /\ NewestReferenced'
      BY <3>1, <3>2 DEF References, StopClean, NewestReferenced
    <3> QED
      BY <3>3, <3>4, <3>5, <3>6 DEF References
  <2>7. CASE EmitStarted(c) \/ ProcessExisting(c) \/ ReleaseStart(c) \/ Cleanup(c) \/ ReportFailure(c)
    <3>1. /\ \A d \in Callers : d # c => cpc'[d] = cpc[d]
          /\ cpc[c] \notin StartedPoints /\ cpc'[c] \in {"existing", "release", "idle", "cleanupJoin"}
          /\ UNCHANGED <<generation, workerRef, rescannerRef, announced, workers, rescanners>>
      BY <2>7, Moves DEF EmitStarted, ProcessExisting, ReleaseStart, Cleanup, ReportFailure
    <3> QED
      BY <3>1, ReferencesStay
  <2>8. CASE CleanupJoin(c)
    <3>1. /\ \A d \in Callers : d # c => cpc'[d] = cpc[d]
          /\ cpc[c] = "cleanupJoin" /\ cpc'[c] = "report"
          /\ UNCHANGED <<generation, announced, workers, rescanners>>
          /\ \/ Joined /\ workerRef' = None /\ rescannerRef' = None
             \/ UNCHANGED <<workerRef, rescannerRef>>
      BY <2>8, Moves DEF CleanupJoin, ClearReferences, GiveUp
    <3>2. CASE UNCHANGED <<workerRef, rescannerRef>>
      BY <3>1, <3>2, ReferencesStay
    <3>3. CASE Joined /\ workerRef' = None /\ rescannerRef' = None
      BY <3>1, <3>3, Dropped
    <3> QED
      BY <3>1, <3>2, <3>3
  <2> QED
    BY <1>1, <2>1, <2>2, <2>3, <2>4, <2>5, <2>6, <2>7, <2>8 DEF Start
<1>2. ASSUME NEW c \in Callers, Stop(c) PROVE References'
  <2>1. CASE LockForStop(c)
    <3>1. /\ \A d \in Callers : d # c => cpc'[d] = cpc[d]
          /\ cpc[c] = "stop"
          /\ \/ cpc'[c] = "idle"
             \/ cpc'[c] = "halt" /\ (workerRef # None \/ rescannerRef # None)
          /\ UNCHANGED <<generation, workerRef, rescannerRef, announced, workers, rescanners>>
      <4>1. /\ cpc[c] = "stop"
            /\ \/ Goto(c, "idle")
               \/ Goto(c, "halt") /\ (workerRef # None \/ rescannerRef # None)
            /\ UNCHANGED <<generation, workerRef, rescannerRef, announced, workers, rescanners>>
        BY <2>1 DEF LockForStop, IsRunning
      <4> QED
        BY <4>1, Moves
    <3>2. cpc'[c] = "halt" => generation \in Generations
      BY <3>1 DEF References, NewestReferenced, TypeOK, Objects
    <3> QED
      BY <3>1, <3>2, ReferencesStay
  <2>2. CASE Halt(c)
    <3>1. /\ \A d \in Callers : d # c => cpc'[d] = cpc[d]
          /\ cpc[c] = "halt" /\ cpc'[c] = "join"
          /\ UNCHANGED <<generation, workerRef, rescannerRef, announced, workers, rescanners>>
      BY <2>2, Moves DEF Halt
    <3>2. generation \in Generations
      BY <3>1 DEF References, StopClean
    <3> QED
      BY <3>1, <3>2, ReferencesStay
  <2>3. CASE Join(c)
    <3>1. /\ \A d \in Callers : d # c => cpc'[d] = cpc[d]
          /\ cpc[c] = "join"
          /\ UNCHANGED <<generation, announced, workers, rescanners>>
          /\ \/ /\ Joined /\ workerRef' = None /\ rescannerRef' = None
                /\ cpc'[c] = "stopped"
             \/ UNCHANGED <<workerRef, rescannerRef>> /\ cpc'[c] = "idle"
      BY <2>3, Moves DEF Join, ClearReferences, GiveUp
    <3>2. CASE UNCHANGED <<workerRef, rescannerRef>> /\ cpc'[c] = "idle"
      BY <3>1, <3>2, ReferencesStay
    <3>3. CASE cpc'[c] = "stopped" /\ Joined /\ workerRef' = None /\ rescannerRef' = None
      <4>1. generation \in Generations
        BY <3>1 DEF References, StopClean
      <4> QED
        BY <3>1, <3>3, <4>1, Dropped
    <3> QED
      BY <3>1, <3>2, <3>3
  <2>4. CASE EmitStopped(c)
    <3>1. /\ \A d \in Callers : d # c => cpc'[d] = cpc[d]
          /\ cpc[c] = "stopped" /\ cpc'[c] = "idle"
          /\ UNCHANGED <<generation, workerRef, rescannerRef, workers, rescanners>>
      BY <2>4, Moves DEF EmitStopped
    <3>2. \A d \in Callers : d # c => cpc[d] \notin LockedPoints
      BY <3>1, Alone
    <3>3. NoOrphan'
      <4>1. workers \subseteq {workerRef} /\ rescanners \subseteq {rescannerRef}
        BY <3>1, Unstarted
      <4> QED
        BY <3>1, <4>1 DEF NoOrphan
    <3>4. LaunchClean' /\ LaunchFresh'
      BY <3>1, <3>2 DEF References, LaunchClean, LaunchFresh
    <3> QED
      BY <3>1, <3>3, <3>4 DEF References, NewestReferenced, StopClean
  <2> QED
    BY <1>2, <2>1, <2>2, <2>3, <2>4 DEF Stop
<1>3. ASSUME NEW c \in Callers, Request(c) PROVE References'
  <2>1. /\ \A d \in Callers : d # c => cpc'[d] = cpc[d]
        /\ cpc[c] = "idle" /\ cpc'[c] \in {"claim", "stop"}
        /\ UNCHANGED <<generation, workerRef, rescannerRef, announced, workers, rescanners>>
    BY <1>3, Moves DEF Request, CallStart, CallStop
  <2> QED
    BY <2>1, ReferencesStay
<1>4. CASE Threads \/ Deliver \/ UNCHANGED vars
  <2>1. /\ UNCHANGED <<cpc, generation, workerRef, rescannerRef, announced>>
        /\ workers' \subseteq workers /\ rescanners' \subseteq rescanners
    BY <1>4 DEF Threads, Deliver, Detect, WorkerEnds, RescannerEnds, RescanFails, RescanReads, vars
  <2> QED
    BY <2>1 DEF References, NoOrphan, Someone, NewestReferenced, LaunchClean, LaunchFresh, StopClean
<1> QED
  BY <1>1, <1>2, <1>3, <1>4 DEF Next

-----------------------------------------------------------------------------
(* The theorems.                                                             *)

IInv == TypeOK /\ OneStart /\ LockHeld /\ References

LEMMA Inductive == Spec => []IInv
<1>1. Init => IInv
  BY TypeInit, ControlInit, ReferencesInit DEF IInv
<1>2. IInv /\ [Next]_vars => IInv'
  BY TypeStep, ControlStep, ReferencesStep DEF IInv, References
<1> QED
  BY <1>1, <1>2, PTL DEF Spec

LEMMA NewestFollows == IInv => OnlyNewestLives
BY GenerationFacts DEF IInv, References, NoOrphan, NewestReferenced, OnlyNewestLives, TypeOK

(* Types, for any number of callers and any bound.                           *)
THEOREM TypeCorrect == Spec => []TypeOK
BY Inductive, PTL DEF IInv

(* However many threads call start and stop, one start is under way at most. *)
THEOREM OneStartCorrect == Spec => []OneStart
BY Inductive, PTL DEF IInv

(* No interleaving of calls, failures and time-outs leaves a live thread     *)
(* that a stop could not join: it is referenced, or about to be under the    *)
(* lock that a stop needs.                                                   *)
THEOREM NoOrphanCorrect == Spec => []NoOrphan
<1>1. IInv => NoOrphan
  BY DEF IInv, References
<1> QED
  BY <1>1, Inductive, PTL

(* A thread of an earlier generation is never alive.                         *)
THEOREM OnlyNewestCorrect == Spec => []OnlyNewestLives
BY Inductive, NewestFollows, PTL

-----------------------------------------------------------------------------
(* Refinement.                                                               *)

LEMMA RefinesInit == Init => G!Init
BY DEF Init, EngineInit, G!Init

LEMMA RefinesStep == IInv /\ [Next]_vars => [G!Next]_(G!vars)
<1> SUFFICES ASSUME IInv, [Next]_vars PROVE [G!Next]_(G!vars)
  OBVIOUS
<1> USE DEF StartPoints, StopPoints, LockedPoints, LaunchPoints
<1>a. workers \union rescanners \subseteq {generation}
  BY NewestFollows DEF OnlyNewestLives
<1>1. ASSUME NEW c \in Callers, NewGeneration(c) PROVE [G!Next]_(G!vars)
  <2>1. workerRef = None /\ rescannerRef = None /\ cpc[c] \in LockedPoints \ StartedPoints
    BY <1>1 DEF NewGeneration, IInv, References, LaunchClean, StartedPoints
  <2>2. workers \union rescanners = {}
    BY <2>1, Unstarted DEF IInv
  <2> QED
    BY <1>1, <2>2 DEF NewGeneration, G!Next, G!Begin, G!vars
<1>2. ASSUME NEW c \in Callers, StartWorker(c) \/ StartRescanner(c) PROVE [G!Next]_(G!vars)
  <2>1. generation \in Generations \ announced /\ generation > 0
    BY <1>2, GenerationFacts
       DEF StartWorker, StartRescanner, IInv, References, LaunchFresh, StartedPoints, Generations
  <2>2. UNCHANGED <<generation, announced>>
    BY <1>2 DEF StartWorker, StartRescanner
  <2>3. \/ (workers \union rescanners)' = workers \union rescanners
        \/ (workers \union rescanners)' = workers \union rescanners \union {generation}
    BY <1>2 DEF StartWorker, StartRescanner
  <2>4. \/ (workers \union rescanners)' = workers \union rescanners
        \/ (workers \union rescanners) = {} /\ (workers \union rescanners)' = {generation}
    BY <1>a, <2>3, SMT
  <2> QED
    BY <2>1, <2>2, <2>4 DEF G!Next, G!Run, G!vars
<1>3. ASSUME NEW c \in Callers, EmitStopped(c) PROVE [G!Next]_(G!vars)
  <2>1. workerRef = None /\ rescannerRef = None /\ cpc[c] \in LockedPoints \ StartedPoints
    BY <1>3 DEF EmitStopped, IInv, References, StopClean, StartedPoints
  <2>2. workers \union rescanners = {}
    BY <2>1, Unstarted DEF IInv
  <2> QED
    BY <1>3, <2>2 DEF EmitStopped, G!Next, G!Announce, G!vars
<1>4. ASSUME NEW g \in Generations, WorkerEnds(g) \/ RescannerEnds(g) PROVE [G!Next]_(G!vars)
  <2>1. /\ (workers \union rescanners)' \subseteq workers \union rescanners
        /\ UNCHANGED <<generation, announced>>
    BY <1>4 DEF WorkerEnds, RescannerEnds
  <2> QED
    BY <1>a, <2>1 DEF G!Next, G!End, G!vars
<1>5. ASSUME NEW c \in Callers,
             \/ Request(c) \/ Claim(c) \/ LockForStart(c) \/ StartWatcher(c) \/ EmitStarted(c)
             \/ ProcessExisting(c) \/ ReleaseStart(c) \/ Cleanup(c) \/ CleanupJoin(c)
             \/ ReportFailure(c) \/ LockForStop(c) \/ Halt(c) \/ Join(c)
             \/ AssignWorker(c) \/ AssignRescanner(c)
      PROVE  UNCHANGED <<generation, workers, rescanners, announced>>
  BY <1>5
     DEF Request, Claim, LockForStart, StartWatcher, EmitStarted, ProcessExisting, ReleaseStart,
         Cleanup, CleanupJoin, ReportFailure, LockForStop, Halt, Join, AssignWorker,
         AssignRescanner
<1>6. ASSUME NEW g \in Generations,
             RescanFails(g) \/ RescanReads(g)
      PROVE  UNCHANGED <<generation, workers, rescanners, announced>>
  BY <1>6 DEF RescanFails, RescanReads
<1>7. Detect \/ Deliver \/ UNCHANGED vars => UNCHANGED <<generation, workers, rescanners, announced>>
  BY DEF Detect, Deliver, vars
<1>8. UNCHANGED <<generation, workers, rescanners, announced>> => UNCHANGED G!vars
  BY DEF G!vars
<1> QED
  BY <1>1, <1>2, <1>3, <1>4, <1>5, <1>6, <1>7, <1>8 DEF Next, Start, Stop, Threads

(* With its locks, time-outs and failures the engine behaves like the        *)
(* abstract generations: never two at once, never one again after STOPPED.   *)
THEOREM ImplementsCorrect == Spec => Implements
<1>1. IInv /\ [Next]_vars => [G!Next]_(G!vars)
  BY RefinesStep
<1> QED
  BY <1>1, RefinesInit, Inductive, PTL DEF Spec, Implements, G!Spec

-----------------------------------------------------------------------------
(* Monitor.                                                                  *)

USE DEF bridge, flags, closing, tk, ui

-----------------------------------------------------------------------------
(* The engine's invariant under the window's calls.                          *)

\* A call begins: an idle caller is sent off, and an event may be taken in the same callback.
Sent(c, point) ==
    /\ cpc[c] = "idle" /\ point \in {"claim", "stop"} /\ Goto(c, point)
    /\ Unloaded
    /\ events' = events \/ (events # <<>> /\ events' = Tail(events))

LEMMA SentKeeps ==
  ASSUME IInv, NEW c \in Callers, NEW point, Sent(c, point)
  PROVE  IInv'
<1>1. /\ cpc[c] = "idle" /\ cpc' \in [Callers -> ControlPoints] /\ cpc'[c] \in {"claim", "stop"}
      /\ \A d \in Callers : d # c => cpc'[d] = cpc[d]
  BY Moves DEF Sent, IInv, ControlPoints
<1>2. TypeOK'
  <2>1. events' \in Seq([type : EventTypes, generation : Objects])
    BY TailType DEF Sent, IInv, TypeOK
  <2> QED
    BY <1>1, <2>1 DEF Sent, Unloaded, IInv, TypeOK
<1>3. OneStart'
  BY <1>1, OneStartStays DEF Sent, Unloaded, IInv, StartPoints, LaunchPoints
<1>4. LockHeld'
  BY <1>1, LockHeldStays DEF Sent, Unloaded, IInv, LockedPoints, StopPoints
<1>5. References'
  BY <1>1, ReferencesStay DEF Sent, Unloaded, IInv, LaunchPoints, StartedPoints, StopPoints
<1> QED
  BY <1>2, <1>3, <1>4, <1>5 DEF IInv

\* What a step of the window is to the engine: the start of a call, the taking of an event,
\* or nothing.
LEMMA WindowSteps ==
  ASSUME [User \/ Ui]_monitorVars
  PROVE  \/ \E c \in Callers, point \in {"claim", "stop"} : Sent(c, point)
         \/ Deliver
         \/ UNCHANGED vars
<1>1. CASE ClickToggle \/ ClickSave \/ ClickRetry \/ ClickClose
  <2>1. /\ UNCHANGED engine
        /\ \/ Async("claim") \/ Async("stop") \/ CallStop(Closer) \/ UNCHANGED cpc
    BY <1>1 DEF ClickToggle, ClickSave, ClickRetry, ClickClose, BridgeStart, StartRefused, BridgeStop
  <2>2. \/ UNCHANGED cpc
        \/ \E c \in Callers, point \in {"claim", "stop"} : cpc[c] = "idle" /\ Goto(c, point)
    BY <2>1, ClicksAssumption DEF Async, CallStart, CallStop
  <2> QED
    BY <2>1, <2>2 DEF Sent, Unloaded, vars
<1>2. CASE ClickUndo \/ EndUndo \/ ClickClear \/ AnswerClear \/ FinishClose \/ Poll \/ EndPoll
  BY <1>2 DEF ClickUndo, EndUndo, ClickClear, AnswerClear, FinishClose, Poll, EndPoll
<1>3. CASE HandleStarted \/ HandleStale \/ HandleDetected \/ HandleError
  BY <1>3 DEF HandleStarted, HandleStale, HandleDetected, HandleError, Take, Unloaded, Deliver
<1>4. CASE HandleStopped
  <2>1. Take /\ (Async("claim") \/ UNCHANGED cpc)
    BY <1>4 DEF HandleStopped, BridgeStart
  <2>2. \/ UNCHANGED cpc
        \/ \E c \in Callers : cpc[c] = "idle" /\ Goto(c, "claim")
    BY <2>1 DEF Async, CallStart
  <2> QED
    BY <2>1, <2>2 DEF Take, Unloaded, Deliver, Sent
<1>5. CASE UNCHANGED monitorVars
  BY <1>5 DEF monitorVars
<1> QED
  BY <1>1, <1>2, <1>3, <1>4, <1>5 DEF User, Ui, Handle

LEMMA EngineStep == IInv /\ [MonitorNext]_monitorVars => IInv'
<1> SUFFICES ASSUME IInv, [MonitorNext]_monitorVars PROVE IInv'
  OBVIOUS
<1>1. IInv /\ [Next]_vars => IInv'
  BY TypeStep, ControlStep, ReferencesStep DEF IInv, References
<1>2. CASE [User \/ Ui]_monitorVars
  BY <1>1, <1>2, WindowSteps, SentKeeps DEF Next
<1>3. CASE Threads \/ \E c \in Callers : Start(c) \/ Stop(c)
  BY <1>1, <1>3 DEF Next
<1> QED
  BY <1>2, <1>3 DEF MonitorNext, Engine

\* The engine keeps its invariant whatever the window asks of it.
LEMMA EngineCorrect == MonitorSpec => []IInv
<1>1. MonitorInit => IInv
  BY TypeInit, ControlInit, ReferencesInit DEF MonitorInit, IInv
<1> QED
  BY <1>1, EngineStep, PTL DEF MonitorSpec

\* A thread that is not referenced yet belongs to a launch.
LEMMA NobodyLives == IInv /\ ~IsRunning /\ ~Launching => workers \union rescanners = {}
<1> SUFFICES ASSUME IInv, ~IsRunning, ~Launching PROVE workers \union rescanners = {}
  OBVIOUS
<1>1. workerRef = None /\ rescannerRef = None
  BY DEF IsRunning
<1>2. ~Someone("workerStarted")
  BY DEF Launching, LaunchPoints, Someone
<1>3. ASSUME NEW c \in Callers, cpc[c] = "rescannerStarted" PROVE FALSE
  <2>1. workerRef = generation /\ generation \in Generations
    BY <1>3 DEF IInv, References, LaunchClean, LaunchFresh, StartedPoints
  <2> QED
    BY <1>1, <2>1, GenerationFacts
<1>4. ~Someone("rescannerStarted")
  BY <1>3 DEF Someone
<1> QED
  BY <1>1, <1>2, <1>4, GenerationFacts DEF IInv, References, NoOrphan, TypeOK

\* Without a launch under way and without a reference no call of the engine makes a thread.
LEMMA StaysQuiet ==
  ASSUME IInv, ~IsRunning, ~Launching, NEW c \in Callers, Start(c) \/ Stop(c)
  PROVE  ~IsRunning' /\ ~Launching'
<1>t. cpc \in [Callers -> ControlPoints]
  BY DEF IInv, TypeOK
<1>1. cpc[c] \notin {"claim", "rescanner", "rescannerStarted"} \union LaunchPoints
  <2>1. ASSUME cpc[c] \in {"rescanner", "rescannerStarted"} PROVE FALSE
    BY <2>1, GenerationFacts DEF IInv, References, LaunchClean, LaunchFresh, StartedPoints, IsRunning
  <2> QED
    BY <2>1 DEF Launching
<1>2. /\ \A d \in Callers : d # c => cpc'[d] = cpc[d]
      /\ cpc'[c] \notin {"claim"} \union LaunchPoints
      /\ (workerRef' = None /\ rescannerRef' = None) \/ UNCHANGED <<workerRef, rescannerRef>>
  <2>1. CASE EmitStarted(c) \/ ProcessExisting(c) \/ ReleaseStart(c)
    BY <1>t, <2>1 DEF EmitStarted, ProcessExisting, ReleaseStart, Goto, LaunchPoints
  <2>2. CASE Cleanup(c) \/ CleanupJoin(c) \/ ReportFailure(c)
    BY <1>t, <2>2 DEF Cleanup, CleanupJoin, ReportFailure, ClearReferences, GiveUp, Goto, LaunchPoints
  <2>3. CASE Stop(c)
    BY <1>t, <2>3 DEF Stop, LockForStop, Halt, Join, EmitStopped, ClearReferences, GiveUp, Goto, LaunchPoints
  <2> QED
    BY <1>1, <2>1, <2>2, <2>3
       DEF Start, Claim, LockForStart, NewGeneration, StartWatcher, StartWorker, AssignWorker,
           StartRescanner, AssignRescanner, LaunchPoints
<1> QED
  BY <1>2 DEF Launching, IsRunning

\* Once the stores are closed nothing runs nor launches, unless a launch had been under way.
\* The window, which could ask for a start, is gone with them.
StoresLast ==
    /\ window = "closed" => ~draining
    /\ ~stores => window = "closed" /\ (hurried \/ (~IsRunning /\ ~Launching))

LEMMA StoresInit == MonitorInit => StoresLast
BY DEF MonitorInit, StoresLast

LEMMA StoresStep == IInv /\ StoresLast /\ [MonitorNext]_monitorVars => StoresLast'
<1> SUFFICES ASSUME IInv, StoresLast, [MonitorNext]_monitorVars PROVE StoresLast'
  OBVIOUS
<1>1. CASE FinishClose
  <2>1. /\ (stores' <=> IsRunning) /\ (hurried' <=> Launching /\ ~IsRunning)
        /\ window' = "closed" /\ ~draining /\ (draining' <=> draining)
    BY <1>1, Zenon DEF FinishClose, Ticks, IsRunning
  <2>2. (IsRunning' <=> IsRunning) /\ (Launching' <=> Launching)
    BY <1>1 DEF FinishClose, vars, IsRunning, Launching
  <2> QED
    BY <2>1, <2>2, Zenon DEF StoresLast
<1>2. CASE ClickToggle \/ ClickSave \/ ClickRetry \/ ClickUndo \/ ClickClear \/ ClickClose \/ Poll
  <2>1. window # "closed" /\ window' # "closed" /\ stores' = stores
    BY <1>2 DEF ClickToggle, ClickSave, ClickRetry, ClickUndo, ClickClear, ClickClose, Poll, TkFree, Ticks
  <2> QED
    BY <2>1, Zenon DEF StoresLast
<1>3. CASE Handle
  <2>1. draining /\ window' = window /\ stores' = stores
    BY <1>3 DEF Handle, HandleStarted, HandleStale, HandleStopped, HandleDetected, HandleError, Take
  <2> QED
    BY <2>1, Zenon DEF StoresLast
<1>4. CASE EndUndo \/ AnswerClear \/ EndPoll \/ UNCHANGED monitorVars
  <2>1. UNCHANGED <<window, stores, hurried, vars>>
    BY <1>4 DEF EndUndo, AnswerClear, EndPoll, monitorVars
  <2>2. draining' => draining
    <3>1. (draining' <=> draining) \/ ~draining'
      BY <1>4, Zenon DEF EndUndo, AnswerClear, EndPoll, monitorVars
    <3> QED
      BY <3>1, Zenon
  <2>3. (IsRunning' <=> IsRunning) /\ (Launching' <=> Launching)
    BY <2>1 DEF vars, IsRunning, Launching
  <2> QED
    BY <2>1, <2>2, <2>3, Zenon DEF StoresLast
<1>5. CASE Threads /\ UNCHANGED ui
  <2>1. UNCHANGED <<cpc, workerRef, rescannerRef>>
    BY <1>5 DEF Threads, Detect, WorkerEnds, RescannerEnds, RescanFails, RescanReads
  <2>2. (IsRunning' <=> IsRunning) /\ (Launching' <=> Launching)
    BY <2>1 DEF IsRunning, Launching
  <2> QED
    BY <1>5, <2>2, Zenon DEF StoresLast
<1>6. ASSUME NEW c \in Callers, Engine(c) PROVE StoresLast'
  <2>1. ~IsRunning /\ ~Launching => ~IsRunning' /\ ~Launching'
    BY <1>6, StaysQuiet DEF Engine
  <2>2. UNCHANGED <<window, draining, stores, hurried>>
    BY <1>6 DEF Engine
  <2> QED
    BY <2>1, <2>2, Zenon DEF StoresLast
<1> QED
  BY <1>1, <1>2, <1>3, <1>4, <1>5, <1>6 DEF MonitorNext, User, Ui

(* No worker or rescanner outlives the stores but one of a start that        *)
(* is_running did not show yet: for any number of calls under way, launches  *)
(* that fail and joins that time out.                                        *)
THEOREM StoresOutliveCorrect == MonitorSpec => []StoresOutliveThreads
<1>1. IInv /\ StoresLast => StoresOutliveThreads
  BY NobodyLives DEF StoresLast, StoresOutliveThreads
<1> QED
  BY <1>1, StoresInit, StoresStep, EngineCorrect, PTL DEF MonitorSpec

-----------------------------------------------------------------------------
(* What the undo and the question before the history is cleared meet.        *)

Boxes == ~(undoing /\ asking) /\ ~(undoing /\ draining)

\* When no start was to be expected, none comes: the Tk thread is in the callback or, while the
\* box is open, takes events that ask for no start.
NoneComes ==
    (undoing \/ asking) /\ ~excused => ~Launching /\ workers = {} /\ ~(asking /\ restart)

\* A call that is not launching does not come to launch.
LEMMA LaunchesNot ==
  ASSUME IInv, ~Launching, NEW c \in Callers, Start(c) \/ Stop(c)
  PROVE  ~Launching' /\ workers' = workers
<1>1. cpc[c] \notin {"claim"} \union LaunchPoints
  BY DEF Launching
<1>t. cpc \in [Callers -> ControlPoints]
  BY DEF IInv, TypeOK
<1>2. (\A d \in Callers : d # c => cpc'[d] = cpc[d])
      /\ cpc'[c] \notin {"claim"} \union LaunchPoints /\ workers' = workers
  <2>1. CASE StartRescanner(c) \/ AssignRescanner(c) \/ EmitStarted(c) \/ ProcessExisting(c) \/ ReleaseStart(c)
    BY <1>t, <2>1
       DEF StartRescanner, AssignRescanner, EmitStarted, ProcessExisting, ReleaseStart, Fails, Goto, LaunchPoints
  <2>2. CASE Cleanup(c) \/ CleanupJoin(c) \/ ReportFailure(c)
    BY <1>t, <2>2 DEF Cleanup, CleanupJoin, ReportFailure, Goto, LaunchPoints
  <2>3. CASE Stop(c)
    BY <1>t, <2>3 DEF Stop, LockForStop, Halt, Join, EmitStopped, Goto, LaunchPoints
  <2> QED
    BY <1>1, <2>1, <2>2, <2>3
       DEF Start, Claim, LockForStart, NewGeneration, StartWatcher, StartWorker, AssignWorker, LaunchPoints
<1> QED
  BY <1>2 DEF Launching

LEMMA BoxesInit == MonitorInit => Boxes /\ NoneComes
BY DEF MonitorInit, Boxes, NoneComes

LEMMA LaunchingStays ==
  ASSUME cpc' = cpc
  PROVE  Launching' <=> Launching
BY DEF Launching

LEMMA BoxesStep == IInv /\ Boxes /\ NoneComes /\ [MonitorNext]_monitorVars => (Boxes /\ NoneComes)'
<1> SUFFICES ASSUME IInv, Boxes, NoneComes, [MonitorNext]_monitorVars PROVE (Boxes /\ NoneComes)'
  OBVIOUS
<1>0. ~IsRunning /\ ~Launching => workers = {}
  BY NobodyLives
<1>1. CASE ClickToggle \/ ClickSave \/ ClickRetry \/ ClickClose
  <2>1. UNCHANGED <<undoing, asking>> /\ TkFree
    BY <1>1 DEF ClickToggle, ClickSave, ClickRetry, ClickClose
  <2> QED
    BY <2>1, Zenon DEF Boxes, NoneComes, TkFree, Ticks
<1>2. CASE ClickUndo
  <2>1. ~draining /\ ~asking /\ (draining' <=> draining) /\ (asking' <=> asking)
    BY <1>2, Zenon DEF ClickUndo, TkFree, Ticks
  <2>2. excused' <=> Launching
    BY <1>2, Zenon DEF ClickUndo
  <2>3. cpc' = cpc /\ workers' = workers /\ (Launching \/ workers = {})
    BY <1>0, <1>2 DEF ClickUndo, vars
  <2> QED
    BY <2>1, <2>2, <2>3, LaunchingStays, Zenon DEF Boxes, NoneComes
<1>3. CASE ClickClear
  <2>1. ~undoing /\ (undoing' <=> undoing) /\ (restart' <=> restart)
    BY <1>3, Zenon DEF ClickClear, TkFree, Ticks
  <2>2. excused' <=> Launching \/ restart
    BY <1>3, Zenon DEF ClickClear
  <2>3. cpc' = cpc /\ workers' = workers /\ (Launching \/ workers = {})
    BY <1>0, <1>3 DEF ClickClear, vars
  <2> QED
    BY <2>1, <2>2, <2>3, LaunchingStays, Zenon DEF Boxes, NoneComes
<1>4. CASE EndUndo \/ AnswerClear
  <2>1. ~(undoing' \/ asking')
    BY <1>4, Zenon DEF EndUndo, AnswerClear, Boxes
  <2> QED
    BY <2>1, Zenon DEF Boxes, NoneComes
<1>5. CASE FinishClose \/ Poll \/ EndPoll \/ UNCHANGED monitorVars
  <2>1. cpc' = cpc /\ workers' = workers
    BY <1>5 DEF FinishClose, Poll, EndPoll, vars, monitorVars
  <2>2. /\ (undoing' <=> undoing) /\ (asking' <=> asking) /\ (excused' <=> excused)
        /\ (restart' <=> restart) /\ (draining' => draining \/ ~undoing)
    <3>1. UNCHANGED <<undoing, asking, excused, restart>>
      BY <1>5 DEF FinishClose, Poll, EndPoll, monitorVars
    <3>2. (draining' <=> draining) \/ ~draining' \/ ~undoing
      BY <1>5, Zenon DEF FinishClose, Poll, EndPoll, Ticks, monitorVars
    <3> QED
      BY <3>1, <3>2, Zenon
  <2> QED
    BY <2>1, <2>2, LaunchingStays, Zenon DEF Boxes, NoneComes
<1>6. CASE HandleStarted \/ HandleStale \/ HandleDetected \/ HandleError
  <2>1. cpc' = cpc /\ workers' = workers
    BY <1>6 DEF HandleStarted, HandleStale, HandleDetected, HandleError, Take, Unloaded
  <2>2. /\ (undoing' <=> undoing) /\ (asking' <=> asking) /\ (excused' <=> excused)
        /\ (draining' <=> draining) /\ (restart' => restart)
    <3>1. UNCHANGED <<undoing, asking, excused, draining>>
      BY <1>6 DEF HandleStarted, HandleStale, HandleDetected, HandleError
    <3>2. (restart' <=> restart) \/ ~restart'
      BY <1>6, Zenon DEF HandleStarted, HandleStale, HandleDetected, HandleError
    <3> QED
      BY <3>1, <3>2, Zenon
  <2> QED
    BY <2>1, <2>2, LaunchingStays, Zenon DEF Boxes, NoneComes
<1>7. CASE HandleStopped
  <2>1. workers' = workers /\ (restart \/ cpc' = cpc)
    BY <1>7 DEF HandleStopped, Take, Unloaded
  <2>2. /\ (undoing' <=> undoing) /\ (asking' <=> asking) /\ (excused' <=> excused)
        /\ (draining' <=> draining) /\ draining /\ (restart' => restart)
    <3>1. UNCHANGED <<undoing, asking, excused, draining>> /\ draining
      BY <1>7 DEF HandleStopped, Take
    <3>2. (restart' <=> restart) \/ ~restart'
      BY <1>7, Zenon DEF HandleStopped
    <3> QED
      BY <3>1, <3>2, Zenon
  <2> QED
    BY <2>1, <2>2, LaunchingStays, Zenon DEF Boxes, NoneComes
<1>8. CASE Threads /\ UNCHANGED ui
  <2>1. cpc' = cpc /\ (workers = {} => workers' = {})
    BY <1>8 DEF Threads, Detect, WorkerEnds, RescannerEnds, RescanFails, RescanReads
  <2>2. /\ (undoing' <=> undoing) /\ (asking' <=> asking) /\ (excused' <=> excused)
        /\ (restart' <=> restart) /\ (draining' <=> draining)
    BY <1>8, Zenon
  <2> QED
    BY <2>1, <2>2, LaunchingStays, Zenon DEF Boxes, NoneComes
<1>9. ASSUME NEW c \in Callers, Engine(c) PROVE (Boxes /\ NoneComes)'
  <2>1. /\ (undoing' <=> undoing) /\ (asking' <=> asking) /\ (excused' <=> excused)
        /\ (restart' <=> restart) /\ (draining' <=> draining)
    BY <1>9, Zenon DEF Engine
  <2>2. ~Launching => ~Launching' /\ workers' = workers
    BY <1>9, LaunchesNot DEF Engine
  <2> QED
    BY <2>1, <2>2, Zenon DEF Boxes, NoneComes
<1> QED
  BY <1>1, <1>2, <1>3, <1>4, <1>5, <1>6, <1>7, <1>8, <1>9 DEF MonitorNext, User, Ui, Handle

(* An undo, and the question before the history is cleared, meet a live      *)
(* worker only if a start was to be expected when they looked: for any       *)
(* number of calls at once, launches that fail and joins that time out.      *)
THEOREM MeetsOnlyAStartCorrect == MonitorSpec => []MeetsOnlyAStart
<1>1. NoneComes => MeetsOnlyAStart
  BY DEF NoneComes, MeetsOnlyAStart
<1> QED
  BY <1>1, BoxesInit, BoxesStep, EngineCorrect, PTL DEF MonitorSpec

-----------------------------------------------------------------------------
(* One call at a time and no launch that fails: the toggle.                  *)

\* There are two threads: one serves the clicks, and Closer serves the last one.
OneCall == \E c : Callers \ {Closer} = {c}

It == CHOOSE c \in Callers \ {Closer} : TRUE
at == cpc[It]

\* Nobody has closed the window yet.
OnlyIt == OneCall /\ cpc[Closer] = "idle"

\* An event of the newest generation.
Now(i, type) == events[i].type = type /\ events[i].generation = generation

\* It will not be stale when the poll comes to it: STARTED has been handled or comes before it.
Heard(i) ==
    /\ events[i].generation = generation
    /\ uiGeneration = generation \/ \E j \in 1 .. i : Now(j, "started")

\* The call under way will say what comes of it.
Unsaid == {"watcher", "worker", "workerStarted", "rescanner", "rescannerStarted", "announce"}
Starts == at \in {"launch", "folders"} \union Unsaid \/ (at = "claim" /\ ~IsRunning)
Stops == at \in StopPoints \/ (at = "stop" /\ IsRunning)

InOrder ==
    /\ uiGeneration \in Nat /\ uiGeneration <= generation
    /\ \A i \in DOMAIN events :
          uiGeneration <= events[i].generation /\ events[i].generation <= generation
    /\ \A i, j \in DOMAIN events : i <= j => events[i].generation <= events[j].generation

NeverFails == at \notin {"cleanup", "cleanupJoin", "report"}

Runs == at \in {"rescanner", "rescannerStarted", "announce", "existing", "release", "halt", "join"} => IsRunning

Ended ==
    /\ IsRunning => generation \notin announced
    /\ \A i \in DOMAIN events : events[i].type = "stopped" => events[i].generation \in announced

\* The window knows the newest generation, or STARTED is on its way.
Known ==
    \/ uiGeneration = generation
    \/ at \in Unsaid
    \/ \E i \in DOMAIN events : Now(i, "started")

\* Where a generation has begun and does not run yet, or runs no more and has not said so.
Between == {"watcher", "worker", "workerStarted", "stopped"}

\* A generation that does not run any more has said so, after it said that it started.
Followed ==
    ~IsRunning /\ at \notin Between =>
       \A i \in DOMAIN events :
          Now(i, "started") => \E k \in DOMAIN events : k > i /\ Now(k, "stopped")

Ground == InOrder /\ NeverFails /\ Runs /\ Ended /\ Known /\ Followed

\* The window is right, or a call or an event will set it right.
Told ==
    \/ enabled /\ (shown <=> IsRunning)
    \/ Starts
    \/ Stops
    \/ \E i \in DOMAIN events : Heard(i) /\ events[i].type # "detected"

RetryServed == retry /\ IsRunning /\ ~missed => Starts \/ \E i \in DOMAIN events : events[i].type = "started"

SaveServed == wanted =>
    \/ IsRunning /\ ~Stops
    \/ Starts
    \/ restart /\ Stops
    \/ restart /\ \E i \in DOMAIN events : Heard(i) /\ events[i].type = "stopped"

WhileOpen == window = "open" => (at = "stop" => IsRunning) /\ Told /\ SaveServed

MonitorInv == Ground /\ shown \in BOOLEAN /\ RetryServed /\ WhileOpen

\* Once the window closes nothing is promised to the user.
OpenInv == window = "open" => cpc[Closer] = "idle" /\ MonitorInv

LEMMA Sole == OneCall => It \in Callers /\ It # Closer /\ Callers = {It, Closer} /\ Callers \ {Closer} = {It}
BY ClicksAssumption DEF OneCall, It

\* What a queue is that took one event more, or none.
Grows(types) == events' = events \/ \E type \in types : Emit(type)

\* Looking, appending and taking, for any set of events.
LEMMA SeqFacts ==
  ASSUME NEW S, NEW seq \in Seq(S)
  PROVE  Len(seq) \in Nat /\ DOMAIN seq = 1 .. Len(seq) /\ \A i \in 1 .. Len(seq) : seq[i] \in S
OBVIOUS

LEMMA AppendFacts ==
  ASSUME NEW S, NEW seq \in Seq(S), NEW e \in S
  PROVE  /\ Len(Append(seq, e)) = Len(seq) + 1 /\ DOMAIN Append(seq, e) = 1 .. Len(seq) + 1
         /\ Append(seq, e)[Len(seq) + 1] = e
         /\ \A i \in 1 .. Len(seq) : Append(seq, e)[i] = seq[i]
OBVIOUS

LEMMA QueueType ==
  ASSUME IInv
  PROVE  /\ Len(events) \in Nat /\ DOMAIN events = 1 .. Len(events) /\ generation \in Nat
         /\ \A i \in DOMAIN events : events[i].generation \in Nat /\ events[i].type \in EventTypes
<1> DEFINE Record == [type : EventTypes, generation : Objects]
<1>1. events \in Seq(Record) /\ generation \in Objects
  BY DEF IInv, TypeOK
<1>2. Objects \subseteq Nat
  BY GenerationFacts, LimitsAssumption
<1>3. \A e \in Record : e.generation \in Nat /\ e.type \in EventTypes
  BY <1>2
<1> HIDE DEF Record
<1>4. Len(events) \in Nat /\ DOMAIN events = 1 .. Len(events) /\ \A i \in 1 .. Len(events) : events[i] \in Record
  BY <1>1, SeqFacts
<1> QED
  BY <1>1, <1>2, <1>3, <1>4

LEMMA Grown ==
  ASSUME IInv, NEW types \in SUBSET EventTypes, Grows(types)
  PROVE  /\ Len(events') \in Nat /\ DOMAIN events' = 1 .. Len(events')
         /\ \A i \in DOMAIN events : i \in DOMAIN events' /\ events'[i] = events[i]
         /\ \A i \in DOMAIN events' :
               i \notin DOMAIN events => /\ i = Len(events) + 1 /\ events'[i].type \in types
                                       /\ events'[i].generation = generation
<1>1. CASE events' = events
  BY <1>1, QueueType
<1>2. ASSUME NEW type \in types, Emit(type)
      PROVE  /\ Len(events') = Len(events) + 1 /\ events'[Len(events) + 1] = Event(type)
             /\ DOMAIN events' = 1 .. Len(events')
             /\ \A i \in 1 .. Len(events) : events'[i] = events[i]
  <2> DEFINE Record == [type : EventTypes, generation : Objects]
  <2>1. events' = Append(events, Event(type)) /\ Event(type) \in Record /\ events \in Seq(Record)
    BY <1>2 DEF Emit, Event, IInv, TypeOK
  <2> HIDE DEF Record
  <2> QED
    BY <2>1, AppendFacts
<1>3. ASSUME NEW type \in types, Emit(type)
      PROVE  /\ Event(type).type = type /\ Event(type).generation = generation
  BY DEF Event
<1> QED
  BY <1>1, <1>2, <1>3, QueueType DEF Grows

LEMMA OrderGrows ==
  ASSUME IInv, InOrder, NEW types \in SUBSET EventTypes, Grows(types), UNCHANGED <<generation, uiGeneration>>
  PROVE  InOrder' /\ (\A i \in DOMAIN events : Heard(i) => Heard(i)')
<1>1. InOrder'
  BY Grown, QueueType DEF InOrder
<1> QED
  BY <1>1, Grown, QueueType DEF Heard, Now

LEMMA Taken ==
  ASSUME IInv, Take
  PROVE  /\ Len(events) >= 1 /\ Len(events') = Len(events) - 1 /\ DOMAIN events' = 1 .. Len(events')
         /\ \A i \in 1 .. Len(events') : events'[i] = events[i + 1]
         /\ Received = events[1] /\ 1 \in DOMAIN events
         /\ UNCHANGED <<generation, announced>> /\ (IsRunning' <=> IsRunning)
<1> DEFINE Record == [type : EventTypes, generation : Objects]
<1>1. events \in Seq(Record) /\ events # <<>> /\ events' = Tail(events)
  BY DEF IInv, TypeOK, Take
<1>2. UNCHANGED <<generation, announced>> /\ (IsRunning' <=> IsRunning)
  BY DEF Take, Unloaded, IsRunning
<1> HIDE DEF Record
<1>3. Tail(events) \in Seq(Record)
  BY <1>1, TailType
<1> QED
  BY <1>1, <1>2, <1>3, TailType, SeqFacts DEF Received

Learns == uiGeneration' = IF Received.type = "started" THEN Received.generation ELSE uiGeneration

LEMMA OrderTaken ==
  ASSUME IInv, InOrder, Take, Learns
  PROVE  /\ InOrder'
         /\ \A i \in DOMAIN events :
               i # 1 => /\ i - 1 \in DOMAIN events' /\ events'[i - 1] = events[i]
                        /\ Heard(i) => Heard(i - 1)'
<1>1. InOrder'
  <2>1. uiGeneration' \in Nat /\ uiGeneration' <= events[1].generation /\ events[1].generation <= generation
    BY Taken, QueueType DEF InOrder, Learns
  <2>2. ASSUME NEW i \in DOMAIN events'
        PROVE  /\ i + 1 \in DOMAIN events /\ i \in Nat /\ events'[i] = events[i + 1]
               /\ events[1].generation <= events[i + 1].generation
    <3>1. i + 1 \in DOMAIN events /\ i \in Nat /\ 1 <= i + 1
      BY Taken, QueueType
    <3> QED
      BY <3>1, Taken DEF InOrder
  <2>3. ASSUME NEW i \in DOMAIN events'
        PROVE  uiGeneration' <= events'[i].generation /\ events'[i].generation <= generation
    BY <2>1, <2>2, QueueType, Taken DEF InOrder
  <2>4. ASSUME NEW i \in DOMAIN events', NEW j \in DOMAIN events', i <= j
        PROVE  events'[i].generation <= events'[j].generation
    BY <2>2, <2>4 DEF InOrder
  <2>5. uiGeneration' <= generation
    BY <2>1, QueueType, Taken
  <2> QED
    BY <2>1, <2>3, <2>4, <2>5, Taken DEF InOrder
<1>2. ASSUME NEW i \in DOMAIN events, i # 1
      PROVE  i - 1 \in DOMAIN events' /\ events'[i - 1] = events[i]
  BY <1>2, Taken, QueueType
<1>3. ASSUME NEW i \in DOMAIN events, i # 1, Heard(i) PROVE Heard(i - 1)'
  <2>1. events'[i - 1].generation = generation'
    BY <1>2, <1>3, Taken DEF Heard
  <2>2. CASE uiGeneration = generation
    <3>1. uiGeneration' = generation'
      BY <2>2, Taken, QueueType DEF InOrder, Learns
    <3> QED
      BY <2>1, <3>1 DEF Heard
  <2>3. ASSUME NEW j \in 1 .. i, Now(j, "started") PROVE Heard(i - 1)'
    <3>1. CASE j = 1
      BY <2>1, <2>3, <3>1, Taken DEF Heard, Now, Learns
    <3>2. CASE j # 1
      <4>1. j - 1 \in 1 .. i - 1 /\ j \in DOMAIN events /\ events'[j - 1] = events[j]
        BY <3>2, <1>2, <1>3, QueueType
      <4>2. Now(j - 1, "started")'
        BY <2>3, <4>1, Taken DEF Now
      <4> QED
        BY <2>1, <4>1, <4>2 DEF Heard
    <3> QED
      BY <3>1, <3>2
  <2> QED
    BY <1>3, <2>2, <2>3 DEF Heard
<1> QED
  BY <1>1, <1>2, <1>3

\* Taking an event leaves the ground as it is, also when a start is asked for.
LEMMA GroundTaken ==
  ASSUME IInv, Ground, Take, Learns, at' = at \/ (at = "idle" /\ at' = "claim")
  PROVE  Ground'
<1>1. InOrder'
  BY OrderTaken DEF Ground
<1>2. NeverFails' /\ Runs'
  BY Taken DEF Ground, NeverFails, Runs
<1>3. Ended'
  BY Taken, QueueType DEF Ground, Ended
<1>4. Known'
  <2>1. CASE at \in Unsaid
    BY <2>1 DEF Known, Unsaid
  <2>2. CASE uiGeneration = generation
    <3>1. uiGeneration' = generation'
      BY <2>2, Taken, QueueType DEF Ground, InOrder, Learns
    <3> QED
      BY <3>1 DEF Known
  <2>3. ASSUME NEW i \in DOMAIN events, Now(i, "started") PROVE Known'
    <3>1. CASE i = 1
      BY <2>3, <3>1, Taken DEF Known, Now, Learns
    <3>2. CASE i # 1
      <4>1. i - 1 \in DOMAIN events' /\ Now(i - 1, "started")'
        BY <2>3, <3>2, OrderTaken, Taken DEF Ground, Now
      <4> QED
        BY <4>1 DEF Known
    <3> QED
      BY <3>1, <3>2
  <2> QED
    BY <2>1, <2>2, <2>3 DEF Ground, Known
<1>5. Followed'
  <2> SUFFICES ASSUME ~IsRunning', at' \notin Between,
                      NEW i \in DOMAIN events', Now(i, "started")'
               PROVE  \E k \in DOMAIN events' : k > i /\ Now(k, "stopped")'
    BY DEF Followed
  <2>1. i + 1 \in DOMAIN events /\ Now(i + 1, "started") /\ i \in Nat
    BY Taken, QueueType DEF Now
  <2>2. PICK k \in DOMAIN events : k > i + 1 /\ Now(k, "stopped")
    BY <2>1, Taken DEF Ground, Followed, Between
  <2>3. k - 1 > i /\ k # 1
    BY <2>1, <2>2, QueueType
  <2>4. k - 1 \in DOMAIN events' /\ Now(k - 1, "stopped")'
    BY <2>2, <2>3, OrderTaken, Taken DEF Ground, Now
  <2> QED
    BY <2>3, <2>4
<1> QED
  BY <1>1, <1>2, <1>3, <1>4, <1>5 DEF Ground

\* Steps after which the same things are on their way.
LEMMA GroundStays ==
  ASSUME IInv, Ground, Grows({"detected", "error"}), UNCHANGED <<generation, announced, uiGeneration>>,
         IsRunning' <=> IsRunning,
         at \in Unsaid => at' \in Unsaid,
         at \in Between => at' \in Between,
         at' \notin {"cleanup", "cleanupJoin", "report"},
         at' \in {"rescanner", "rescannerStarted", "announce", "existing", "release", "halt", "join"} => IsRunning
  PROVE  Ground'
<1>0. {"detected", "error"} \in SUBSET EventTypes
  BY DEF EventTypes
<1>1. InOrder'
  BY <1>0, OrderGrows DEF Ground
<1>2. NeverFails' /\ Runs'
  BY DEF NeverFails, Runs
<1>3. Ended'
  BY <1>0, Grown, QueueType DEF Ground, Ended
<1>4. Known'
  BY <1>0, Grown DEF Ground, Known, Now
<1>5. Followed'
  <2> SUFFICES ASSUME ~IsRunning', at' \notin Between,
                      NEW i \in DOMAIN events', Now(i, "started")'
               PROVE  \E k \in DOMAIN events' : k > i /\ Now(k, "stopped")'
    BY DEF Followed
  <2>1. i \in DOMAIN events /\ Now(i, "started")
    BY <1>0, Grown DEF Now
  <2>2. PICK k \in DOMAIN events : k > i /\ Now(k, "stopped")
    BY <2>1 DEF Ground, Followed
  <2> QED
    BY <1>0, <2>2, Grown DEF Now
<1> QED
  BY <1>1, <1>2, <1>3, <1>4, <1>5 DEF Ground

LEMMA PromisesStay ==
  ASSUME IInv, MonitorInv, Ground', Grows({"detected", "error"}),
         UNCHANGED <<generation, uiGeneration, shown, enabled, flags>>,
         IsRunning' <=> IsRunning, Starts => Starts', Stops <=> Stops',
         window' = "open" => window = "open" /\ (at' = "stop" => IsRunning)
  PROVE  MonitorInv'
<1>0. {"detected", "error"} \in SUBSET EventTypes
  BY DEF EventTypes
<1>1. \A i \in DOMAIN events : i \in DOMAIN events' /\ events'[i] = events[i] /\ (Heard(i) => Heard(i)')
  BY <1>0, Grown, OrderGrows DEF MonitorInv, Ground
<1>2. Told => Told'
  <2>1. shown' = shown /\ enabled' = enabled
    OBVIOUS
  <2>2. (enabled /\ (shown <=> IsRunning)) => (enabled' /\ (shown' <=> IsRunning'))
    BY <2>1
  <2> QED
    BY <1>1, <2>2 DEF Told
<1>3. RetryServed'
  <2>1. (retry' <=> retry) /\ (missed' <=> missed)
    OBVIOUS
  <2> QED
    BY <1>1, <2>1 DEF RetryServed, MonitorInv
<1>4. SaveServed => SaveServed'
  <2>1. (wanted' <=> wanted) /\ (restart' <=> restart)
    OBVIOUS
  <2> QED
    BY <1>1, <2>1 DEF SaveServed
<1>5. WhileOpen'
  BY <1>2, <1>4 DEF WhileOpen, MonitorInv
<1>6. shown' \in BOOLEAN
  BY DEF MonitorInv
<1> QED
  BY <1>3, <1>5, <1>6 DEF MonitorInv

LEMMA ItMoves ==
  ASSUME IInv, OneCall, NEW point, Goto(It, point)
  PROVE  at' = point /\ cpc'[Closer] = cpc[Closer]
BY Sole DEF IInv, TypeOK, Goto, at

\* What the engine's invariant says of the only call.
LEMMA ItFacts ==
  ASSUME IInv, OnlyIt
  PROVE  /\ at = "claim" => ~starting
         /\ at \in {"launch", "folders"} \union Between => ~IsRunning
         /\ at \in {"watcher", "worker", "rescanner"} \union StartedPoints => generation \in Generations \ announced
         /\ at \in StopPoints => generation \in Generations
         /\ announced \subseteq 1 .. generation /\ at \in ControlPoints
<1>1. It \in Callers /\ Callers = {It, Closer} /\ cpc[Closer] = "idle"
  BY Sole DEF OnlyIt
<1>2. at = "claim" => ~starting
  BY <1>1 DEF IInv, OneStart, StartPoints, LaunchPoints, at
<1>3. at \in {"launch", "folders"} \union Between => ~IsRunning
  BY <1>1 DEF IInv, References, LaunchClean, StopClean, LaunchPoints, Between, IsRunning, at
<1>4. at \in {"watcher", "worker", "rescanner"} \union StartedPoints => generation \in Generations \ announced
  BY <1>1 DEF IInv, References, LaunchFresh, at
<1>5. at \in StopPoints => generation \in Generations
  BY <1>1 DEF IInv, References, StopClean, at
<1>6. announced \subseteq 1 .. generation /\ at \in ControlPoints
  BY <1>1 DEF IInv, TypeOK, at
<1> QED
  BY <1>2, <1>3, <1>4, <1>5, <1>6

\* Where the only call goes when it neither launches nor says anything of its own.
LEMMA QuietMoves ==
  ASSUME IInv, OnlyIt, ~StartMayFail, MonitorInv,
         \/ Claim(It) \/ LockForStart(It) \/ StartWatcher(It) \/ StartWorker(It) \/ StartRescanner(It)
         \/ AssignRescanner(It) \/ ReleaseStart(It) \/ ProcessExisting(It) \/ LockForStop(It) \/ Halt(It)
  PROVE  /\ Grows({"detected", "error"}) /\ UNCHANGED <<generation, announced>> /\ (IsRunning' <=> IsRunning)
         /\ \/ at = "claim" /\ IsRunning /\ at' = "idle"
            \/ at = "claim" /\ ~IsRunning /\ at' = "launch"
            \/ at = "launch" /\ at' = "folders"
            \/ at = "watcher" /\ at' = "worker"
            \/ at = "worker" /\ at' = "workerStarted"
            \/ at = "rescanner" /\ at' = "rescannerStarted"
            \/ at = "rescannerStarted" /\ at' = "announce"
            \/ at = "existing" /\ at' = "release"
            \/ at = "release" /\ at' = "idle"
            \/ at = "stop" /\ IsRunning /\ at' = "halt"
            \/ at = "stop" /\ ~IsRunning /\ at' = "idle"
            \/ at = "halt" /\ at' = "join"
<1>1. CASE Claim(It)
  <2>1. ~starting
    BY <1>1, ItFacts DEF Claim, at
  <2> QED
    BY <1>1, <2>1, ItMoves DEF OnlyIt, Claim, at, Grows, IsRunning
<1>2. CASE LockForStart(It) \/ StartWatcher(It) \/ StartWorker(It) \/ StartRescanner(It)
           \/ ReleaseStart(It) \/ Halt(It)
  BY <1>2, ItMoves
     DEF OnlyIt, LockForStart, StartWatcher, StartWorker, StartRescanner, ReleaseStart, Halt, HaltThreads, Fails,
         at, Grows, IsRunning
<1>3. CASE AssignRescanner(It)
  <2>1. at = "rescannerStarted" /\ at' = "announce" /\ rescannerRef' = generation
        /\ UNCHANGED <<events, generation, announced, workerRef>>
    BY <1>3, ItMoves DEF OnlyIt, AssignRescanner, at
  <2>2. generation # None
    BY <2>1, ItFacts, GenerationFacts DEF StartedPoints
  <2>3. IsRunning /\ IsRunning'
    BY <2>1, <2>2 DEF MonitorInv, Ground, Runs, IsRunning
  <2> QED
    BY <2>1, <2>3 DEF Grows
<1>4. CASE ProcessExisting(It)
  BY <1>4, ItMoves DEF OnlyIt, ProcessExisting, at, Grows, IsRunning
<1>5. CASE LockForStop(It)
  BY <1>5, ItMoves DEF OnlyIt, LockForStop, at, Grows, IsRunning
<1> QED
  BY <1>1, <1>2, <1>3, <1>4, <1>5

LEMMA QuietKeeps ==
  ASSUME IInv, OnlyIt, ~StartMayFail, MonitorInv, UNCHANGED ui,
         \/ Claim(It) \/ LockForStart(It) \/ StartWatcher(It) \/ StartWorker(It) \/ StartRescanner(It)
         \/ AssignRescanner(It) \/ ReleaseStart(It) \/ ProcessExisting(It) \/ LockForStop(It) \/ Halt(It)
  PROVE  MonitorInv'
<1> USE DEF Unsaid, Between
<1>1. Ground'
  BY QuietMoves, ItFacts, GroundStays DEF MonitorInv, Ground, Runs
<1>2. Starts => Starts'
  BY QuietMoves, ItFacts DEF Starts
<1>3. Stops <=> Stops'
  BY QuietMoves, ItFacts DEF Stops, StopPoints
<1>4. at' = "stop" => FALSE
  BY QuietMoves
<1> QED
  BY <1>1, <1>2, <1>3, <1>4, QuietMoves, PromisesStay

LEMMA LaunchKeeps ==
  ASSUME IInv, OnlyIt, ~StartMayFail, MonitorInv, UNCHANGED ui,
         NewGeneration(It) \/ AssignWorker(It)
  PROVE  MonitorInv'
<1>1. \/ at = "folders" /\ at' = "watcher" /\ generation' = generation + 1
         /\ UNCHANGED <<events, announced, workerRef, rescannerRef>>
      \/ at = "workerStarted" /\ at' = "rescanner" /\ workerRef' = generation
         /\ UNCHANGED <<events, announced, generation, rescannerRef>>
  BY ItMoves DEF OnlyIt, NewGeneration, AssignWorker, Fails, at
<1>2. at = "workerStarted" => generation # None /\ generation \notin announced
  BY ItFacts, GenerationFacts DEF StartedPoints
<1>3. ~IsRunning
  BY <1>1, ItFacts DEF Between
<1>4. \/ at' = "watcher" /\ ~IsRunning'
      \/ at' = "rescanner" /\ IsRunning' /\ generation' = generation /\ generation \notin announced
  BY <1>1, <1>2, <1>3 DEF IsRunning
<1>5. Starts' /\ ~Stops'
  BY <1>4 DEF Starts, Unsaid, Stops, StopPoints
<1>6. InOrder'
  BY <1>1, QueueType DEF MonitorInv, Ground, InOrder
<1>7. Ended'
  BY <1>1, <1>4 DEF MonitorInv, Ground, Ended
<1>8. Ground'
  BY <1>4, <1>6, <1>7 DEF Ground, NeverFails, Runs, Known, Followed, Unsaid, Between
<1>9. RetryServed' /\ WhileOpen'
  BY <1>4, <1>5 DEF RetryServed, WhileOpen, Told, SaveServed
<1> QED
  BY <1>8, <1>9 DEF MonitorInv

\* STARTED, STOPPED and the ERROR of a join that gave up are heard when the poll comes to them.
LEMMA SaidIsHeard ==
  ASSUME IInv, Ground, NEW type \in {"started", "stopped", "error"}, Emit(type),
         UNCHANGED <<generation, uiGeneration>>, type = "started" \/ at \notin Unsaid
  PROVE  \E i \in DOMAIN events' : Heard(i)' /\ Now(i, type)'
<1>0. {type} \in SUBSET EventTypes /\ Grows({type})
  BY DEF EventTypes, Grows
<1>a. PICK n \in Nat : n = Len(events) + 1
  BY QueueType
<1>1. n \in DOMAIN events' /\ Now(n, type)' /\ n \in Nat /\ DOMAIN events = 1 .. n - 1
      /\ \A i \in DOMAIN events : i \in DOMAIN events' /\ events'[i] = events[i]
  <2> DEFINE Record == [type : EventTypes, generation : Objects]
  <2>1. events' = Append(events, Event(type)) /\ Event(type) \in Record /\ events \in Seq(Record)
    BY DEF Emit, Event, IInv, TypeOK, EventTypes
  <2>2. Event(type).type = type /\ Event(type).generation = generation
    BY DEF Event
  <2> HIDE DEF Record
  <2> QED
    BY <1>a, <2>1, <2>2, AppendFacts, QueueType DEF Now
<1>2. Heard(n)'
  <2>1. CASE type = "started"
    <3>1. n \in 1 .. n
      BY <1>a, QueueType
    <3> QED
      BY <1>1, <2>1, <3>1 DEF Heard, Now
  <2>2. CASE uiGeneration = generation
    BY <1>1, <2>2 DEF Heard, Now
  <2>3. ASSUME NEW i \in DOMAIN events, Now(i, "started") PROVE Heard(n)'
    BY <1>1, <2>3 DEF Heard, Now
  <2> QED
    BY <2>1, <2>2, <2>3 DEF Ground, Known
<1> QED
  BY <1>1, <1>2

LEMMA EmitStartedKeeps ==
  ASSUME IInv, OnlyIt, MonitorInv, UNCHANGED ui, EmitStarted(It)
  PROVE  MonitorInv'
<1>1. at = "announce" /\ at' = "existing" /\ Emit("started") /\ (IsRunning' <=> IsRunning)
      /\ UNCHANGED <<generation, announced, uiGeneration>>
  BY ItMoves DEF OnlyIt, EmitStarted, at, IsRunning
<1>2. {"started"} \in SUBSET EventTypes /\ Grows({"started"}) /\ IsRunning
  BY <1>1 DEF EventTypes, Grows, MonitorInv, Ground, Runs
<1>3. PICK i \in DOMAIN events' : Heard(i)' /\ Now(i, "started")'
  BY <1>1, SaidIsHeard DEF MonitorInv
<1>4. InOrder'
  BY <1>1, <1>2, OrderGrows DEF MonitorInv, Ground
<1>5. Ended'
  BY <1>1, <1>2, Grown DEF MonitorInv, Ground, Ended
<1>6. Ground'
  BY <1>1, <1>2, <1>3, <1>4, <1>5 DEF Ground, NeverFails, Runs, Known, Followed
<1>7. ~Stops'
  BY <1>1 DEF Stops, StopPoints
<1>8. RetryServed' /\ WhileOpen'
  BY <1>1, <1>2, <1>3, <1>7 DEF RetryServed, WhileOpen, Told, SaveServed, Now
<1> QED
  BY <1>6, <1>8 DEF MonitorInv

LEMMA JoinKeeps ==
  ASSUME IInv, OnlyIt, MonitorInv, UNCHANGED ui, Join(It)
  PROVE  MonitorInv'
<1>0. at = "join" /\ IsRunning /\ ~Starts /\ Stops
  BY DEF Join, at, MonitorInv, Ground, Runs, Starts, Unsaid, Stops, StopPoints
<1>1. CASE Joined /\ ClearReferences /\ Goto(It, "stopped") /\ UNCHANGED <<events, lock>>
  <2>1. at' = "stopped" /\ ~IsRunning' /\ UNCHANGED <<events, generation, announced, uiGeneration>>
    BY <1>1, ItMoves DEF OnlyIt, Join, ClearReferences, IsRunning
  <2>2. Ground'
    BY <1>0, <2>1 DEF MonitorInv, Ground, InOrder, NeverFails, Runs, Ended, Known, Followed, Unsaid, Between, Now
  <2>3. Stops'
    BY <2>1 DEF Stops, StopPoints
  <2>4. RetryServed'
    <3>1. (retry' <=> retry) /\ (missed' <=> missed)
      OBVIOUS
    <3> QED
      BY <1>0, <2>1, <3>1 DEF MonitorInv, RetryServed
  <2>5. WhileOpen'
    <3>1. SaveServed => SaveServed'
      <4>1. (wanted' <=> wanted) /\ (restart' <=> restart)
        OBVIOUS
      <4> QED
        BY <1>0, <2>1, <2>3, <4>1 DEF SaveServed, Heard, Now
    <3> QED
      BY <2>1, <2>3, <3>1 DEF MonitorInv, WhileOpen, Told
  <2> QED
    BY <2>2, <2>4, <2>5 DEF MonitorInv
<1>2. CASE GiveUp /\ Goto(It, "idle")
  <2>1. at' = "idle" /\ (IsRunning' <=> IsRunning) /\ UNCHANGED <<generation, announced, uiGeneration>> /\ Emit("error")
    BY <1>2, ItMoves DEF OnlyIt, Join, GiveUp, IsRunning
  <2>2. Grows({"detected", "error"}) /\ {"detected", "error"} \in SUBSET EventTypes
    BY <2>1 DEF Grows, EventTypes
  <2>3. Ground'
    BY <1>0, <2>1, <2>2, GroundStays DEF MonitorInv, Unsaid, Between
  <2>4. PICK i \in DOMAIN events' : Heard(i)' /\ Now(i, "error")'
    BY <1>0, <2>1, SaidIsHeard DEF MonitorInv, Unsaid
  <2>5. ~Stops' /\ IsRunning'
    BY <1>0, <2>1 DEF Stops, StopPoints
  <2>6. RetryServed'
    <3>1. (retry' <=> retry) /\ (missed' <=> missed)
      OBVIOUS
    <3> QED
      BY <1>0, <2>2, <3>1, Grown DEF MonitorInv, RetryServed
  <2>7. WhileOpen'
    BY <2>1, <2>4, <2>5 DEF WhileOpen, Told, SaveServed, Now
  <2> QED
    BY <2>3, <2>6, <2>7 DEF MonitorInv
<1> QED
  BY <1>1, <1>2 DEF Join

LEMMA EmitStoppedKeeps ==
  ASSUME IInv, OnlyIt, MonitorInv, UNCHANGED ui, EmitStopped(It)
  PROVE  MonitorInv'
<1>1. /\ at = "stopped" /\ at' = "idle" /\ Emit("stopped") /\ (IsRunning' <=> IsRunning)
      /\ UNCHANGED <<generation, uiGeneration>> /\ announced' = announced \union {generation}
  BY ItMoves DEF OnlyIt, EmitStopped, at, IsRunning
<1>2. {"stopped"} \in SUBSET EventTypes /\ Grows({"stopped"}) /\ ~IsRunning
  BY <1>1, ItFacts DEF EventTypes, Grows, Between
<1>3. PICK i \in DOMAIN events' : Heard(i)' /\ Now(i, "stopped")'
  BY <1>1, SaidIsHeard DEF MonitorInv, Unsaid
<1>4. InOrder'
  BY <1>1, <1>2, OrderGrows DEF MonitorInv, Ground
<1>5. Ended'
  BY <1>1, <1>2, Grown DEF MonitorInv, Ground, Ended
<1>6. Known'
  BY <1>1, <1>2, Grown DEF MonitorInv, Ground, Known, Unsaid, Now
<1>7. Followed'
  <2> SUFFICES ASSUME NEW k \in DOMAIN events', Now(k, "started")'
               PROVE  \E l \in DOMAIN events' : l > k /\ Now(l, "stopped")'
    BY DEF Followed
  <2>1. k \in DOMAIN events
    BY <1>2, Grown DEF Now
  <2>2. \E l \in DOMAIN events' : l = Len(events) + 1 /\ Now(l, "stopped")'
    <3> DEFINE Record == [type : EventTypes, generation : Objects]
    <3>1. events' = Append(events, Event("stopped")) /\ Event("stopped") \in Record /\ events \in Seq(Record)
      BY <1>1 DEF Emit, Event, IInv, TypeOK, EventTypes
    <3>2. Event("stopped").type = "stopped" /\ Event("stopped").generation = generation
      BY DEF Event
    <3> HIDE DEF Record
    <3> QED
      BY <1>1, <3>1, <3>2, AppendFacts, QueueType DEF Now
  <2> QED
    BY <2>1, <2>2, QueueType
<1>8. Ground'
  BY <1>1, <1>4, <1>5, <1>6, <1>7 DEF Ground, NeverFails, Runs
<1>9. ~Starts /\ Stops
  BY <1>1 DEF Starts, Unsaid, Stops, StopPoints
<1>10. RetryServed'
  BY <1>1, <1>2 DEF RetryServed
<1>11. SaveServed => SaveServed'
  <2>1. (wanted' <=> wanted) /\ (restart' <=> restart)
    OBVIOUS
  <2> QED
    BY <1>2, <1>3, <1>9, <2>1 DEF SaveServed, Now
<1>12. Told'
  BY <1>3 DEF Told, Now
<1> QED
  BY <1>1, <1>8, <1>10, <1>11, <1>12 DEF MonitorInv, WhileOpen

\* The threads end, read the folder and tell what they find.
LEMMA ThreadsKeep ==
  ASSUME IInv, MonitorInv, UNCHANGED ui, Threads
  PROVE  MonitorInv'
<1>1. cpc' = cpc /\ Grows({"detected", "error"}) /\ UNCHANGED <<generation, announced, workerRef, rescannerRef>>
  BY DEF Threads, Detect, WorkerEnds, RescannerEnds, RescanFails, RescanReads, Grows
<1>2. at' = at /\ (IsRunning' <=> IsRunning)
  BY <1>1 DEF at, IsRunning
<1>3. Ground'
  BY <1>1, <1>2, GroundStays DEF MonitorInv, Ground, NeverFails, Runs
<1>4. (Starts <=> Starts') /\ (Stops <=> Stops')
  BY <1>2 DEF Starts, Stops
<1> QED
  BY <1>1, <1>2, <1>3, <1>4, PromisesStay DEF MonitorInv, WhileOpen

LEMMA CallKeeps ==
  ASSUME IInv, OnlyIt, ~StartMayFail, MonitorInv, NEW c \in Callers, Engine(c)
  PROVE  MonitorInv' /\ c = It
<1>1. c = It
  BY Sole
     DEF OnlyIt, Engine, Start, Stop, Claim, LockForStart, NewGeneration, StartWatcher, StartWorker,
         AssignWorker, StartRescanner, AssignRescanner, EmitStarted, ProcessExisting, ReleaseStart, Cleanup,
         CleanupJoin, ReportFailure, LockForStop, Halt, Join, EmitStopped
<1>2. UNCHANGED ui /\ (Start(It) \/ Stop(It))
  BY <1>1 DEF Engine
<1>3. ~Cleanup(It) /\ ~CleanupJoin(It) /\ ~ReportFailure(It)
  BY DEF Cleanup, CleanupJoin, ReportFailure, MonitorInv, Ground, NeverFails, at
<1> QED
  BY <1>1, <1>2, <1>3, QuietKeeps, LaunchKeeps, EmitStartedKeeps, JoinKeeps, EmitStoppedKeeps DEF Start, Stop

-----------------------------------------------------------------------------
(* ... and the window's steps.                                               *)

LEMMA Clicked ==
  ASSUME IInv, OneCall, NEW point, Async(point)
  PROVE  /\ at = "idle" /\ at' = IF point = "claim" THEN "claim" ELSE "stop"
         /\ cpc'[Closer] = cpc[Closer]
<1>1. PICK c \in Callers \ {Closer} : IF point = "claim" THEN CallStart(c) ELSE CallStop(c)
  BY DEF Async
<1>2. c = It
  BY Sole
<1> QED
  BY <1>1, <1>2, ItMoves DEF CallStart, CallStop, at

LEMMA ClickKeeps ==
  ASSUME IInv, OnlyIt, MonitorInv, ClickToggle \/ ClickSave \/ ClickRetry
  PROVE  MonitorInv'
<1>1. UNCHANGED <<events, generation, announced, uiGeneration, shown, workerRef, rescannerRef, window>>
  BY DEF ClickToggle, ClickSave, ClickRetry
<1>2. (IsRunning' <=> IsRunning) /\ Grows({"detected", "error"})
  BY <1>1 DEF IsRunning, Grows
<1>3. \/ at = "idle" /\ at' = "claim" /\ ~IsRunning
      \/ at = "idle" /\ at' = "stop" /\ IsRunning /\ (ClickToggle \/ ClickSave)
      \/ ~IsRunning /\ UNCHANGED <<cpc, enabled>> /\ (ClickToggle \/ ClickRetry)
  <2>1. CASE ClickToggle
    BY <2>1, Clicked DEF OnlyIt, ClickToggle, BridgeStart, BridgeStop, StartRefused
  <2>2. CASE ClickSave
    BY <2>2, Clicked DEF OnlyIt, ClickSave, BridgeStop
  <2>3. CASE ClickRetry
    BY <2>3, Clicked DEF OnlyIt, ClickRetry, BridgeStart, StartRefused
  <2> QED
    BY <2>1, <2>2, <2>3
<1>a. at' = at \/ (at = "idle" /\ (at' = "claim" \/ (at' = "stop" /\ IsRunning)))
  BY <1>3 DEF at
<1>4. Ground'
  BY <1>1, <1>2, <1>a, GroundStays DEF MonitorInv, Ground, NeverFails, Runs, Unsaid, Between
<1>5. at = "idle" => ~Starts /\ ~Stops
  BY DEF Starts, Unsaid, Stops, StopPoints
<1>6. RetryServed'
  <2>1. CASE ~IsRunning
    BY <1>2, <2>1 DEF RetryServed
  <2>2. CASE IsRunning
    <3>1. ClickToggle \/ ClickSave
      BY <2>2 DEF ClickRetry
    <3>2. retry' = retry /\ missed' = missed
      BY <3>1 DEF ClickToggle, ClickSave
    <3>3. (retry' <=> retry) /\ (missed' <=> missed)
      BY <3>2
    <3> QED
      BY <1>1, <1>2, <1>3, <1>5, <2>2, <3>3 DEF MonitorInv, RetryServed
  <2> QED
    BY <2>1, <2>2
<1>7. WhileOpen'
  <2>1. CASE at = "idle" /\ at' = "claim" /\ ~IsRunning
    BY <1>2, <2>1 DEF WhileOpen, Told, SaveServed, Starts
  <2>2. CASE at = "idle" /\ at' = "stop" /\ IsRunning /\ (ClickToggle \/ ClickSave)
    <3>1. Stops' /\ IsRunning'
      BY <1>2, <2>2 DEF Stops
    <3>2. ~wanted' \/ restart'
      BY <2>2, Zenon DEF ClickToggle, ClickSave
    <3> QED
      BY <3>1, <3>2 DEF WhileOpen, Told, SaveServed
  <2>3. CASE ~IsRunning /\ UNCHANGED <<cpc, enabled>> /\ (ClickToggle \/ ClickRetry)
    <3>1. UNCHANGED <<wanted, restart>>
      BY <2>3, Zenon DEF ClickToggle, ClickRetry
    <3>2. at' = at /\ (Starts <=> Starts') /\ (Stops <=> Stops')
      BY <1>2, <2>3 DEF at, Starts, Stops
    <3>3. \A i \in DOMAIN events : i \in DOMAIN events' /\ events'[i] = events[i] /\ (Heard(i) <=> Heard(i)')
      BY <1>1 DEF Heard, Now
    <3>4. Told => Told'
      <4>1. (enabled /\ (shown <=> IsRunning)) => (enabled' /\ (shown' <=> IsRunning'))
        BY <1>1, <1>2, <2>3
      <4> QED
        BY <3>2, <3>3, <4>1 DEF Told
    <3>5. SaveServed => SaveServed'
      <4>1. (wanted' <=> wanted) /\ (restart' <=> restart)
        BY <3>1
      <4> QED
        BY <1>2, <3>2, <3>3, <4>1 DEF SaveServed
    <3> QED
      BY <1>1, <1>2, <3>2, <3>4, <3>5 DEF MonitorInv, WhileOpen
  <2> QED
    BY <1>3, <2>1, <2>2, <2>3
<1> QED
  BY <1>1, <1>4, <1>6, <1>7 DEF MonitorInv

LEMMA BoxKeeps ==
  ASSUME IInv, MonitorInv,
         ClickUndo \/ EndUndo \/ ClickClear \/ AnswerClear \/ FinishClose \/ Poll \/ EndPoll \/ UNCHANGED monitorVars
  PROVE  MonitorInv'
<1>1. UNCHANGED <<vars, bridge, flags>>
  BY DEF ClickUndo, EndUndo, ClickClear, AnswerClear, FinishClose, Poll, EndPoll, monitorVars
<1>2. window' = "open" => window = "open"
  BY DEF ClickUndo, EndUndo, ClickClear, AnswerClear, FinishClose, Poll, EndPoll, monitorVars
<1>3. at' = at /\ (IsRunning' <=> IsRunning) /\ Grows({"detected", "error"}) /\ UNCHANGED <<generation, announced>>
  BY <1>1 DEF vars, at, IsRunning, Grows
<1>4. Ground'
  BY <1>1, <1>3, GroundStays DEF MonitorInv, Ground, NeverFails, Runs
<1>5. (Starts <=> Starts') /\ (Stops <=> Stops')
  BY <1>3 DEF Starts, Stops
<1> QED
  BY <1>1, <1>2, <1>3, <1>4, <1>5, PromisesStay DEF MonitorInv, WhileOpen

\* What waited for the poll still waits, except the event that it took.
LEMMA StillHeard ==
  ASSUME IInv, Ground, Take, Learns
  PROVE  \A i \in DOMAIN events :
            i # 1 => \E k \in DOMAIN events' : events'[k] = events[i] /\ (Heard(i) => Heard(k)')
BY OrderTaken DEF Ground

\* If the window does not know the newest generation, it will hear of it.
LEMMA KnownIsHeard ==
  ASSUME IInv, Take, Known', uiGeneration' # generation, at' \notin Unsaid
  PROVE  \E i \in DOMAIN events' : Heard(i)' /\ events'[i].type = "started"
<1>1. PICK i \in DOMAIN events' : Now(i, "started")'
  BY Taken DEF Known
<1>2. i \in 1 .. i
  BY Taken, QueueType
<1> QED
  BY <1>1, <1>2 DEF Heard, Now

\* An event that is dropped, or that is only of interest to the list of files.
LEMMA DropKeeps ==
  ASSUME IInv, MonitorInv, HandleStale \/ HandleDetected
  PROVE  MonitorInv'
<1>1. Take /\ Received.type # "started" /\ UNCHANGED cpc
  BY DEF HandleStale, HandleDetected
<1>2. UNCHANGED <<uiGeneration, shown, enabled, restart, retry, wanted, missed, window>>
  BY DEF HandleStale, HandleDetected
<1>3. Learns /\ at' = at
  BY <1>1, <1>2 DEF Learns, at
<1>4. Ground'
  BY <1>1, <1>3, GroundTaken DEF MonitorInv
<1>5. (Starts <=> Starts') /\ (Stops <=> Stops') /\ (IsRunning <=> IsRunning')
  BY <1>1, <1>3, Taken DEF Starts, Stops
<1>6. Heard(1) => events[1].type = "detected"
  <2>1. CASE HandleDetected
    BY <1>1, <2>1, Taken DEF HandleDetected
  <2>2. CASE HandleStale
    <3>1. Received.generation # uiGeneration
      BY <2>2 DEF HandleStale, Stale
    <3> QED
      BY <1>1, <3>1, Taken DEF Heard, Now
  <2> QED
    BY <2>1, <2>2
<1>7. \A i \in DOMAIN events :
         \/ i = 1
         \/ \E k \in DOMAIN events' : events'[k] = events[i] /\ (Heard(i) => Heard(k)')
  BY <1>1, <1>3, StillHeard DEF MonitorInv
<1>8. Told => Told'
  <2>1. (enabled /\ (shown <=> IsRunning)) => (enabled' /\ (shown' <=> IsRunning'))
    BY <1>2, <1>5
  <2> QED
    BY <1>5, <1>6, <1>7, <2>1 DEF Told
<1>9. RetryServed'
  <2>1. (retry' <=> retry) /\ (missed' <=> missed)
    BY <1>2
  <2>2. events[1].type # "started"
    BY <1>1, Taken
  <2> QED
    BY <1>5, <1>7, <2>1, <2>2 DEF MonitorInv, RetryServed
<1>10. SaveServed => SaveServed'
  <2>1. (wanted' <=> wanted) /\ (restart' <=> restart)
    BY <1>2
  <2> QED
    BY <1>5, <1>6, <1>7, <2>1 DEF SaveServed
<1>11. WhileOpen'
  BY <1>2, <1>3, <1>5, <1>8, <1>10 DEF MonitorInv, WhileOpen
<1> QED
  BY <1>2, <1>4, <1>9, <1>11 DEF MonitorInv

LEMMA StartedKeeps ==
  ASSUME IInv, OnlyIt, MonitorInv, HandleStarted
  PROVE  MonitorInv'
<1>1. /\ Take /\ Received.type = "started" /\ UNCHANGED cpc /\ uiGeneration' = Received.generation
      /\ shown' = TRUE /\ ~wanted' /\ window' = window
  BY DEF HandleStarted, SetRunning
<1>2. enabled'
  BY DEF HandleStarted, SetRunning
<1>3. Learns /\ at' = at
  BY <1>1 DEF Learns, at
<1>4. Ground'
  BY <1>1, <1>3, GroundTaken DEF MonitorInv
<1>5. (Starts <=> Starts') /\ (Stops <=> Stops') /\ (IsRunning <=> IsRunning')
  BY <1>1, <1>3, Taken DEF Starts, Stops
<1>6. Told'
  <2>1. CASE IsRunning
    BY <1>1, <1>2, <1>5, <2>1 DEF Told
  <2>2. CASE at \in Unsaid
    BY <1>3, <2>2 DEF Told, Starts
  <2>3. CASE at = "stopped"
    BY <1>3, <2>3 DEF Told, Stops, StopPoints
  <2>4. CASE ~IsRunning /\ at \notin Unsaid /\ at # "stopped" /\ Received.generation # generation
    <3>1. \E i \in DOMAIN events' : Heard(i)' /\ events'[i].type = "started"
      BY <1>1, <1>3, <1>4, <2>4, KnownIsHeard DEF Ground
    <3> QED
      BY <3>1 DEF Told
  <2>5. CASE ~IsRunning /\ at \notin Unsaid /\ at # "stopped" /\ Received.generation = generation
    <3>1. 1 \in DOMAIN events /\ Now(1, "started")
      BY <1>1, <2>5, Taken DEF Now
    <3>2. PICK k \in DOMAIN events : k > 1 /\ Now(k, "stopped")
      BY <2>5, <3>1 DEF MonitorInv, Ground, Followed, Unsaid, Between
    <3>3. k # 1
      BY <3>2, QueueType
    <3>4. PICK l \in DOMAIN events' : events'[l] = events[k]
      BY <1>1, <1>3, <3>3, StillHeard DEF MonitorInv
    <3>5. Heard(l)' /\ events'[l].type = "stopped"
      BY <1>1, <2>5, <3>2, <3>4, Taken DEF Heard, Now
    <3> QED
      BY <3>5 DEF Told
  <2> QED
    BY <2>1, <2>2, <2>3, <2>4, <2>5
<1>r. ~retry' \/ missed'
  <2>1. retry' = FALSE \/ missed' = retry'
    BY DEF HandleStarted
  <2> QED
    BY <2>1, Zenon
<1>7. RetryServed' /\ SaveServed'
  BY <1>1, <1>r DEF RetryServed, SaveServed
<1> QED
  BY <1>1, <1>3, <1>4, <1>5, <1>6, <1>7 DEF MonitorInv, WhileOpen

LEMMA ErrorKeeps ==
  ASSUME IInv, OnlyIt, MonitorInv, HandleError
  PROVE  MonitorInv'
<1>1. /\ Take /\ Received.type = "error" /\ UNCHANGED <<cpc, uiGeneration, window>>
      /\ ~wanted'
  BY DEF HandleError
<1>2. enabled' /\ shown' = IsRunning /\ (retry' <=> retry) /\ (missed' <=> missed)
  BY DEF HandleError, SetRunning
<1>3. Learns /\ at' = at
  BY <1>1 DEF Learns, at
<1>4. Ground'
  BY <1>1, <1>3, GroundTaken DEF MonitorInv
<1>5. (Starts <=> Starts') /\ (IsRunning <=> IsRunning')
  BY <1>1, <1>3, Taken DEF Starts
<1>6. RetryServed'
  <2>1. \A i \in DOMAIN events : events[i].type = "started" =>
           \E k \in DOMAIN events' : events'[k].type = "started"
    BY <1>1, <1>3, StillHeard, Taken DEF MonitorInv
  <2> QED
    BY <1>2, <1>5, <2>1 DEF MonitorInv, RetryServed
<1>7. shown' <=> IsRunning'
  BY <1>2, <1>5
<1>8. shown' \in BOOLEAN
  BY <1>2, Zenon DEF IsRunning
<1> QED
  BY <1>1, <1>2, <1>3, <1>4, <1>5, <1>6, <1>7, <1>8 DEF MonitorInv, WhileOpen, Told, SaveServed

LEMMA StoppedKeeps ==
  ASSUME IInv, OnlyIt, MonitorInv, HandleStopped
  PROVE  MonitorInv'
<1>1. /\ Take /\ Received.type = "stopped" /\ ~Stale(Received) /\ UNCHANGED <<uiGeneration, window>>
      /\ shown' = FALSE /\ (retry' <=> retry) /\ (missed' <=> missed) /\ ((wanted' <=> wanted) \/ ~wanted')
  BY DEF HandleStopped, SetRunning
<1>2. Learns
  BY <1>1 DEF Learns
<1>3. IsRunning <=> IsRunning'
  BY <1>1, Taken
<1>4. \/ restart /\ at = "idle" /\ at' = "claim"
      \/ (~restart \/ ~wanted') /\ at' = at /\ enabled'
  BY Clicked DEF OnlyIt, HandleStopped, BridgeStart, SetRunning, at
<1>5. Ground'
  BY <1>1, <1>2, <1>4, GroundTaken DEF MonitorInv
<1>6. uiGeneration = Received.generation /\ (uiGeneration = generation => ~IsRunning)
  <2>1. Received.generation \in announced
    BY <1>1, Taken DEF MonitorInv, Ground, Ended
  <2>2. Received.generation # 0
    BY <2>1, ItFacts, QueueType
  <2> QED
    BY <1>1, <2>1, <2>2 DEF Stale, MonitorInv, Ground, Ended
<1>7. \A i \in DOMAIN events : events[i].type = "started" =>
         \E k \in DOMAIN events' : events'[k].type = "started"
  BY <1>1, <1>2, StillHeard, Taken DEF MonitorInv
<1>8. uiGeneration # generation /\ at' \notin Unsaid =>
         \E i \in DOMAIN events' : Heard(i)' /\ events'[i].type = "started"
  BY <1>1, <1>5, KnownIsHeard DEF Ground
<1>9. RetryServed'
  <2>1. Starts => Starts'
    BY <1>3, <1>4 DEF Starts, Unsaid
  <2>2. retry' /\ IsRunning' => retry /\ IsRunning
    BY <1>1, <1>3
  <2> QED
    BY <1>1, <1>3, <1>7, <2>1 DEF MonitorInv, RetryServed
<1>10. ASSUME window = "open" PROVE Told' /\ SaveServed'
  <2>1. CASE restart /\ at = "idle" /\ at' = "claim"
    <3>1. ~Stops'
      BY <1>4, <2>1 DEF Stops, StopPoints
    <3>2. ~IsRunning => Starts'
      BY <1>3, <1>4, <2>1 DEF Starts
    <3>3. at' \notin Unsaid
      BY <1>4, <2>1 DEF Unsaid
    <3> QED
      BY <1>3, <1>6, <1>8, <3>1, <3>2, <3>3 DEF Told, SaveServed
  <2>2. CASE (~restart \/ ~wanted') /\ at' = at /\ enabled'
    <3>1. Told'
      <4>1. CASE at' \in Unsaid
        BY <4>1 DEF Told, Starts
      <4>2. CASE at' \notin Unsaid /\ uiGeneration # generation
        BY <1>8, <4>2 DEF Told
      <4>3. CASE uiGeneration = generation
        BY <1>1, <1>3, <1>4, <1>6, <2>2, <4>3 DEF Told
      <4> QED
        BY <4>1, <4>2, <4>3
    <3>2. (Starts <=> Starts') /\ (Stops <=> Stops')
      BY <1>3, <1>4, <2>2 DEF Starts, Stops
    <3>3. SaveServed
      BY <1>10 DEF MonitorInv, WhileOpen
    <3>4. SaveServed'
      BY <1>1, <1>3, <2>2, <3>2, <3>3 DEF SaveServed
    <3> QED
      BY <3>1, <3>4
  <2> QED
    BY <1>4, <2>1, <2>2
<1>11. window' = "open" => (at' = "stop" => IsRunning')
  BY <1>1, <1>3, <1>4 DEF MonitorInv, WhileOpen
<1> QED
  BY <1>1, <1>5, <1>9, <1>10, <1>11 DEF MonitorInv, WhileOpen

LEMMA OpenInvStep ==
  OneCall /\ ~StartMayFail /\ IInv /\ OpenInv /\ [MonitorNext]_monitorVars => OpenInv'
<1> SUFFICES ASSUME OneCall, ~StartMayFail, IInv, OpenInv, [MonitorNext]_monitorVars, window' = "open"
             PROVE  cpc'[Closer] = "idle" /\ MonitorInv'
  BY DEF OpenInv
<1>1. ~ClickClose /\ window = "open"
  BY DEF ClickClose, MonitorNext, User, Ui, Handle, Engine, ClickToggle, ClickSave, ClickRetry, ClickUndo,
         EndUndo, ClickClear, AnswerClear, FinishClose, Poll, EndPoll, HandleStarted, HandleStale, HandleStopped,
         HandleDetected, HandleError, monitorVars
<1>2. OnlyIt /\ MonitorInv
  BY <1>1 DEF OpenInv, OnlyIt
<1>3. CASE User \/ Ui \/ UNCHANGED monitorVars
  <2>1. MonitorInv'
    BY <1>1, <1>2, <1>3, ClickKeeps, BoxKeeps, DropKeeps, StartedKeeps, ErrorKeeps, StoppedKeeps DEF User, Ui, Handle
  <2>2. Async("claim") \/ Async("stop") \/ UNCHANGED cpc
    BY <1>1, <1>3
       DEF User, Ui, Handle, ClickToggle, ClickSave, ClickRetry, BridgeStart, BridgeStop, StartRefused, ClickUndo,
           EndUndo, ClickClear, AnswerClear, FinishClose, Poll, EndPoll, HandleStarted, HandleStale, HandleStopped,
           HandleDetected, HandleError, monitorVars, vars
  <2>3. cpc'[Closer] = cpc[Closer]
    BY <2>2, Clicked
  <2> QED
    BY <1>2, <2>1, <2>3 DEF OnlyIt
<1>4. CASE Threads /\ UNCHANGED ui
  <2>1. cpc' = cpc
    BY <1>4 DEF Threads, Detect, WorkerEnds, RescannerEnds, RescanFails, RescanReads
  <2> QED
    BY <1>2, <1>4, <2>1, ThreadsKeep DEF OnlyIt
<1>5. ASSUME NEW c \in Callers, Engine(c) PROVE cpc'[Closer] = "idle" /\ MonitorInv'
  <2>1. MonitorInv' /\ c = It
    BY <1>2, <1>5, CallKeeps
  <2>2. \E point : Goto(It, point)
    BY <1>5, <2>1
       DEF Engine, Start, Stop, Claim, LockForStart, NewGeneration, StartWatcher, StartWorker,
           AssignWorker, StartRescanner, AssignRescanner, EmitStarted, ProcessExisting, ReleaseStart, Cleanup,
           CleanupJoin, ReportFailure, LockForStop, Halt, Join, EmitStopped, Fails
  <2> QED
    BY <1>2, <2>1, <2>2, ItMoves DEF OnlyIt
<1> QED
  BY <1>3, <1>4, <1>5 DEF MonitorNext

LEMMA OpenInvInit == OneCall /\ MonitorInit => OpenInv
<1> SUFFICES ASSUME OneCall, MonitorInit PROVE cpc[Closer] = "idle" /\ MonitorInv
  BY DEF OpenInv
<1>1. at = "idle" /\ cpc[Closer] = "idle" /\ ~IsRunning /\ events = <<>> /\ generation = 0 /\ uiGeneration = 0
  BY Sole DEF MonitorInit, Init, EngineInit, at, IsRunning
<1>2. DOMAIN events = {}
  BY <1>1
<1>3. Ground
  BY <1>1, <1>2 DEF Ground, InOrder, NeverFails, Runs, Ended, Known, Followed, Unsaid
<1>4. shown = FALSE /\ enabled /\ ~retry /\ ~wanted
  BY DEF MonitorInit
<1> QED
  BY <1>1, <1>3, <1>4 DEF MonitorInv, RetryServed, WhileOpen, Told, SaveServed

LEMMA OpenInvCorrect == OneCall /\ ~StartMayFail => (MonitorSpec => []OpenInv)
<1> SUFFICES ASSUME OneCall, ~StartMayFail PROVE MonitorSpec => []OpenInv
  OBVIOUS
<1>1. MonitorInit => OpenInv
  BY OpenInvInit
<1>2. IInv /\ OpenInv /\ [MonitorNext]_monitorVars => OpenInv'
  BY OpenInvStep
<1> QED
  BY <1>1, <1>2, EngineCorrect, PTL DEF MonitorSpec

LEMMA WhenSettled ==
  ASSUME OneCall, OpenInv, Settled
  PROVE  enabled /\ shown = IsRunning /\ (wanted => IsRunning) /\ (retry /\ IsRunning => missed)
<1>1. at = "idle" /\ DOMAIN events = {} /\ window = "open" /\ MonitorInv
  BY Sole DEF Settled, at, OpenInv
<1>2. ~Starts /\ ~Stops
  BY <1>1 DEF Starts, Unsaid, Stops, StopPoints
<1>3. enabled /\ (shown <=> IsRunning) /\ (wanted => IsRunning) /\ (retry /\ IsRunning => missed)
  BY <1>1, <1>2 DEF MonitorInv, RetryServed, WhileOpen, Told, SaveServed
<1>4. shown \in BOOLEAN
  BY <1>1 DEF MonitorInv
<1> QED
  BY <1>3, <1>4 DEF IsRunning

(* When one call is under way at a time and no launch fails, what the        *)
(* monitor shows once all has settled is true and the toggle can be clicked, *)
(* whatever the user did, however late the poll came, and though joins time  *)
(* out and folders cannot be read.                                           *)
THEOREM ToggleSettlesCorrect == OneCall /\ ~StartMayFail => (MonitorSpec => []ToggleSettles)
<1> SUFFICES ASSUME OneCall, ~StartMayFail PROVE MonitorSpec => []ToggleSettles
  OBVIOUS
<1>1. OpenInv => ToggleSettles
  BY WhenSettled DEF ToggleSettles
<1> QED
  BY <1>1, OpenInvCorrect, PTL

(* Under the same two assumptions nobody waits beside a monitor that could   *)
(* serve him: the saved configuration runs or an error was shown, and no     *)
(* retry waits while the monitor runs, though a start may be refused after   *)
(* the retry was noted down.                                                 *)
THEOREM NothingWaitsCorrect == OneCall /\ ~StartMayFail => (MonitorSpec => []NothingWaits)
<1> SUFFICES ASSUME OneCall, ~StartMayFail PROVE MonitorSpec => []NothingWaits
  OBVIOUS
<1>1. OpenInv => NothingWaits
  BY WhenSettled DEF NothingWaits
<1> QED
  BY <1>1, OpenInvCorrect, PTL
=============================================================================
