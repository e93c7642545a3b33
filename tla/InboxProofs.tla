---------------------------- MODULE InboxProofs ----------------------------
(* Theorems of Inbox for every set of paths and threads and every bound.     *)
EXTENDS Inbox, TLAPS

(* What the other proofs need to know of the constant sets.                  *)
LEMMA ThreadFacts ==
    /\ Starter \in Threads /\ Rescanner \in Threads /\ Starter # Rescanner
    /\ Starter \notin Watchers /\ Rescanner \notin Watchers
    /\ Rescanner \notin Retriers
    /\ Watchers \subseteq Threads
    /\ NoThread \notin Threads
BY ThreadsAssumption DEF Threads

LEMMA PathFacts ==
    /\ InputPaths \subseteq Paths /\ PendingPaths \subseteq Paths
    /\ Sentinel \notin Paths
    /\ NoPath \notin Paths
BY PathsAssumption DEF Paths

LEMMA DestinationFacts ==
    /\ Archive \in Destinations /\ NoDestination \in Destinations
    /\ PendingPaths \subseteq Destinations
BY DEF Archive, NoDestination, Destinations

LEMMA VersionFacts ==
    /\ 0 \in Versions /\ 1 \in Versions
    /\ \A v \in Versions : v < MaxVersion => v + 1 \in Versions
BY BoundsAssumption DEF Versions

LEMMA GenerationFacts ==
    /\ 0 \in 0 .. MaxGenerations
    /\ \A g \in 0 .. MaxGenerations : g < MaxGenerations => g + 1 \in 0 .. MaxGenerations
BY BoundsAssumption

LEMMA SignatureFacts ==
  ASSUME TypeDisk, NEW p \in Paths
  PROVE  Signature(p) \in Signatures
BY DEF TypeDisk, Signature, Signatures

LEMMA ResultFacts ==
  /\ \A d \in Destinations : Result("placed", d) \in [outcome : Outcomes, destination : Destinations]
  /\ \A o \in Outcomes :
        Result(o, NoDestination) \in [outcome : Outcomes, destination : Destinations]
  /\ Result("dry run", Archive) \in [outcome : Outcomes, destination : Destinations]
  /\ {"missing", "dry run", "error", "raised"} \subseteq Outcomes
BY DestinationFacts DEF Result, Outcomes

(* The empty queue.                                                          *)
LEMMA EmptyQueue == <<>> \in Seq(Paths \union {Sentinel})
OBVIOUS

(* The initial states are well typed.                                        *)
LEMMA TypeInit == Init => TypeOK
<1> SUFFICES ASSUME Init PROVE TypeOK
  OBVIOUS
<1> USE DEF Init
<1>1. TypeDisk
  BY PathFacts, VersionFacts DEF TypeDisk
<1>2. TypeLedger
  BY VersionFacts, DestinationFacts DEF TypeLedger, NoRow
<1>3. TypeLife
  BY GenerationFacts DEF TypeLife, Phases
<1>4. TypeMemory
  BY EmptyQueue DEF TypeMemory
<1>5. TypeThreads
  BY DEF TypeThreads, ControlPoints
<1>6. TypeWorker
  BY DestinationFacts DEF TypeWorker, WorkerPoints, Busy, NoResult, Outcomes
<1> QED
  BY <1>1, <1>2, <1>3, <1>4, <1>5, <1>6 DEF TypeOK

(* A step that leaves a group of variables alone keeps their types.           *)
LEMMA Frame ==
  ASSUME TypeOK
  PROVE  /\ UNCHANGED disk => TypeDisk'
         /\ UNCHANGED ledger => TypeLedger'
         /\ UNCHANGED <<config, life>> => TypeLife'
         /\ UNCHANGED <<queue, memory>> => TypeMemory'
         /\ UNCHANGED threads => TypeThreads'
         /\ UNCHANGED worker => TypeWorker'
BY DEF TypeOK, TypeDisk, TypeLedger, TypeLife, TypeMemory, TypeThreads, TypeWorker, Busy,
       disk, ledger, life, memory, threads, worker

(* Every step keeps the types.                                               *)
LEMMA TypeStep == TypeOK /\ [Next]_vars => TypeOK'
<1> SUFFICES ASSUME TypeOK, [Next]_vars PROVE TypeOK'
  OBVIOUS
<1> USE DEF TypeOK
<1>1. CASE Environment
  <2>1. CASE SaveConfig
    <3>1. TypeLife'
      BY <2>1 DEF SaveConfig, TypeLife, Phases, life
    <3> QED
      BY <2>1, <3>1, Frame DEF SaveConfig, disk, ledger, life, memory, threads, worker
  <2>2. ASSUME NEW p \in Paths, Arrive(p) PROVE TypeOK'
    <3>1. TypeDisk'
      BY <2>2, VersionFacts DEF Arrive, life, TypeDisk
    <3>2. TypeThreads'
      BY <2>2 DEF Arrive, TypeLife, TypeThreads, ControlPoints
    <3> QED
      BY <2>2, <3>1, <3>2, Frame DEF Arrive, disk, ledger, life, memory, threads, worker
  <2>3. ASSUME NEW p \in Paths, Remove(p) PROVE TypeOK'
    <3>1. TypeDisk'
      BY <2>3 DEF Remove, TypeDisk
    <3> QED
      BY <2>3, <3>1, Frame DEF Remove, disk, ledger, life, memory, threads, worker
  <2> QED
    BY <1>1, <2>1, <2>2, <2>3 DEF Environment
<1>2. CASE StartStop
  <2>1. CASE NewGeneration
    <3>1. TypeLife'
      BY <2>1, GenerationFacts DEF NewGeneration, TypeLife, Phases, life
    <3>2. TypeMemory'
      BY <2>1, EmptyQueue DEF NewGeneration, TypeMemory, memory
    <3> QED
      BY <2>1, <3>1, <3>2, Frame DEF NewGeneration, disk, ledger, life, memory, threads, worker
  <2>2. CASE ClearInbox
    <3>1. TypeLife'
      BY <2>2 DEF ClearInbox, TypeLife, Phases, life
    <3>2. TypeMemory'
      BY <2>2 DEF ClearInbox, TypeMemory, memory
    <3> QED
      BY <2>2, <3>1, <3>2, Frame DEF ClearInbox, disk, ledger, life, memory, threads, worker
  <2>3. CASE ClearMemory
    <3>1. TypeLife'
      BY <2>3 DEF ClearMemory, TypeLife, Phases, life
    <3>2. TypeMemory'
      BY <2>3 DEF ClearMemory, TypeMemory, memory
    <3> QED
      BY <2>3, <3>1, <3>2, Frame DEF ClearMemory, disk, ledger, life, memory, threads, worker
  <2>4. CASE StartThreads
    <3>1. TypeLife'
      BY <2>4 DEF StartThreads, TypeLife, Phases, life
    <3>2. TypeThreads'
      BY <2>4, ThreadFacts DEF StartThreads, TypeThreads, ControlPoints
    <3>3. TypeWorker'
      BY <2>4 DEF StartThreads, TypeWorker, WorkerPoints, Busy
    <3> QED
      BY <2>4, <3>1, <3>2, <3>3, Frame DEF StartThreads, disk, ledger, life, memory, threads, worker
  <2>5. CASE Halt
    <3>1. TypeLife'
      BY <2>5 DEF Halt, TypeLife, Phases, life
    <3>2. TypeThreads'
      BY <2>5, ThreadFacts DEF Halt, TypeLife, TypeThreads, ControlPoints
    <3> QED
      BY <2>5, <3>1, <3>2, Frame DEF Halt, disk, ledger, life, memory, threads, worker
  <2>6. CASE PutSentinel
    <3>1. TypeLife'
      BY <2>6 DEF PutSentinel, TypeLife, Phases, life
    <3>2. TypeMemory'
      BY <2>6 DEF PutSentinel, TypeMemory, memory
    <3> QED
      BY <2>6, <3>1, <3>2, Frame DEF PutSentinel, disk, ledger, life, memory, threads, worker
  <2>7. CASE JoinThreads
    <3>1. TypeLife'
      BY <2>7 DEF JoinThreads, TypeLife, Phases, life
    <3> QED
      BY <2>7, <3>1, Frame DEF JoinThreads, disk, ledger, life, memory, threads, worker
  <2> QED
    BY <1>2, <2>1, <2>2, <2>3, <2>4, <2>5, <2>6, <2>7 DEF StartStop
<1>3. CASE Tick
  <2>1. TypeThreads'
    BY <1>3, ThreadFacts DEF Tick, TypeThreads, ControlPoints
  <2> QED
    BY <1>3, <2>1, Frame DEF Tick, disk, ledger, life, memory, threads, worker
<1>4. ASSUME NEW t \in Threads, Retry(t) \/ Discover(t) PROVE TypeOK'
  <2>1. CASE Retry(t)
    <3>1. TypeThreads'
      BY <2>1 DEF Retry, TypeThreads, ControlPoints
    <3> QED
      BY <2>1, <3>1, Frame DEF Retry, disk, ledger, life, memory, threads, worker
  <2>2. CASE List(t)
    <3>1. TypeThreads'
      BY <2>2, PathFacts DEF List, TypeDisk, TypeThreads, ControlPoints
    <3> QED
      BY <2>2, <3>1, Frame DEF List, disk, ledger, life, memory, threads, worker
  <2>3. CASE Take(t)
    <3>1. TypeThreads'
      BY <2>3 DEF Take, TypeThreads, ControlPoints
    <3> QED
      BY <2>3, <3>1, Frame DEF Take, disk, ledger, life, memory, threads, worker
  <2>4. CASE Finish(t)
    <3>1. TypeThreads'
      BY <2>4 DEF Finish, TypeThreads, ControlPoints
    <3> QED
      BY <2>4, <3>1, Frame DEF Finish, disk, ledger, life, memory, threads, worker
  <2>5. CASE Check(t)
    <3>1. TypeThreads'
      BY <2>5, PathFacts DEF Check, HandOver, TypeThreads, ControlPoints
    <3> QED
      BY <2>5, <3>1, Frame DEF Check, disk, ledger, life, memory, threads, worker
  <2>6. CASE Reserve(t)
    <3>1. TypeMemory'
      BY <2>6 DEF Reserve, TypeThreads, TypeMemory, memory
    <3>2. TypeThreads'
      BY <2>6, PathFacts DEF Reserve, HandOver, TypeThreads, ControlPoints
    <3> QED
      BY <2>6, <3>1, <3>2, Frame DEF Reserve, disk, ledger, life, memory, threads, worker
  <2>7. CASE Put(t)
    <3>1. TypeMemory'
      BY <2>7 DEF Put, TypeThreads, TypeMemory, memory
    <3>2. TypeThreads'
      BY <2>7, PathFacts DEF Put, HandOver, TypeThreads, ControlPoints
    <3> QED
      BY <2>7, <3>1, <3>2, Frame DEF Put, disk, ledger, life, memory, threads, worker
  <2> QED
    BY <1>4, <2>1, <2>2, <2>3, <2>4, <2>5, <2>6, <2>7 DEF Discover
<1>5. CASE Work
  <2>1. CASE WorkerGet
    <3>1. TypeMemory'
      BY <2>1 DEF WorkerGet, TypeMemory, memory
    <3>2. TypeWorker'
      BY <2>1 DEF WorkerGet, TypeMemory, TypeWorker, WorkerPoints, Busy
    <3> QED
      BY <2>1, <3>1, <3>2, Frame DEF WorkerGet, disk, ledger, life, memory, threads, worker
  <2>2. CASE Process
    <3> job \in Paths
      BY <2>2 DEF Process, TypeWorker, Busy
    <3>1. /\ result' \in [outcome : Outcomes, destination : Destinations]
          /\ TypeDisk'
      <4>1. CASE ProcessMissing
        BY <4>1, DestinationFacts, ResultFacts, Frame DEF ProcessMissing
      <4>2. CASE ProcessDry
        BY <4>2, DestinationFacts, ResultFacts, Frame DEF ProcessDry
      <4>3. CASE ProcessPlace
        <5> PICK d \in {Archive} \union {q \in PendingPaths \ present : version[q] < MaxVersion} :
              ProcessPlace!2!(d)
          BY <4>3 DEF ProcessPlace
        <5>1. result' \in [outcome : Outcomes, destination : Destinations]
          BY DestinationFacts, ResultFacts
        <5>2. present' \subseteq Paths
          BY PathFacts DEF TypeDisk
        <5>3. version' \in [Paths -> Versions]
          BY PathFacts, VersionFacts DEF TypeDisk
        <5>4. placed' \in [InputPaths -> Nat]
          BY DEF TypeDisk
        <5> QED
          BY <5>1, <5>2, <5>3, <5>4 DEF TypeDisk
      <4>4. CASE ProcessInPlace
        BY <4>4, DestinationFacts, ResultFacts, Frame DEF ProcessInPlace
      <4>5. CASE ProcessFail
        BY <4>5, ResultFacts, Frame DEF ProcessFail
      <4> QED
        BY <2>2, <4>1, <4>2, <4>3, <4>4, <4>5 DEF Process
    <3>2. TypeWorker'
      BY <2>2, <3>1 DEF Process, TypeWorker, WorkerPoints, Busy
    <3> QED
      BY <2>2, <3>1, <3>2, Frame DEF Process
  <2>3. CASE Record
    <3>1. TypeLedger'
      BY <2>3 DEF Record, TypeDisk, TypeWorker, Busy, TypeLedger
    <3>2. TypeWorker'
      BY <2>3 DEF Record, TypeWorker, WorkerPoints, Busy
    <3> QED
      BY <2>3, <3>1, <3>2, Frame DEF Record, disk, ledger, life, memory, threads, worker
  <2>4. CASE Remember
    <3> Signature(job) \in Signatures
      BY <2>4, SignatureFacts DEF Remember, TypeWorker, Busy
    <3>1. TypeLedger'
      BY <2>4 DEF Remember, TypeLedger
    <3>2. TypeMemory'
      BY <2>4 DEF Remember, TypeMemory, memory
    <3>3. TypeWorker'
      BY <2>4 DEF Remember, TypeWorker, WorkerPoints, Busy
    <3> QED
      BY <2>4, <3>1, <3>2, <3>3, Frame DEF Remember, disk, ledger, life, memory, threads, worker
  <2>5. CASE Release
    <3>1. TypeMemory'
      BY <2>5 DEF Release, TypeMemory, memory
    <3>2. TypeWorker'
      BY <2>5, DestinationFacts DEF Release, NoResult, Outcomes, TypeWorker, WorkerPoints, Busy
    <3> QED
      BY <2>5, <3>1, <3>2, Frame DEF Release, disk, ledger, life, memory, threads, worker
  <2> QED
    BY <1>5, <2>1, <2>2, <2>3, <2>4, <2>5 DEF Work
<1>6. CASE UNCHANGED vars
  BY <1>6, Frame DEF vars
<1> QED
  BY <1>1, <1>2, <1>3, <1>4, <1>5, <1>6 DEF Next

(* Type correctness: no step leaves the declared sets.                       *)
THEOREM TypeCorrect == Spec => []TypeOK
BY TypeInit, TypeStep, PTL DEF Spec

-----------------------------------------------------------------------------
(* Start and stop: what the phase says about the threads.                    *)

\* The join waits for the worker and the rescanner, and nothing of them is left when the
\* next generation is prepared.
QuietBetweenGenerations ==
    phase \in {"off", "clearing inbox", "clearing memory", "starting"} =>
        wpc = "dead" /\ pc[Rescanner] = "idle"

StarterWaits ==
    phase \in {"clearing inbox", "clearing memory", "starting"} => pc[Starter] = "idle"

LEMMA QuietInit == Init => QuietBetweenGenerations /\ StarterWaits
BY ThreadFacts DEF Init, QuietBetweenGenerations, StarterWaits

LEMMA QuietStep ==
  TypeOK /\ QuietBetweenGenerations /\ StarterWaits /\ [Next]_vars
    => QuietBetweenGenerations' /\ StarterWaits'
<1> SUFFICES ASSUME TypeOK, QuietBetweenGenerations, StarterWaits, [Next]_vars
             PROVE  QuietBetweenGenerations' /\ StarterWaits'
  OBVIOUS
<1> USE ThreadFacts DEF QuietBetweenGenerations, StarterWaits, TypeOK, TypeThreads,
        disk, ledger, life, memory, threads, worker
<1>1. CASE Environment
  BY <1>1 DEF Environment, SaveConfig, Arrive, Remove
<1>2. CASE StartStop
  <2>1. CASE NewGeneration
    BY <2>1 DEF NewGeneration
  <2>2. CASE ClearInbox \/ ClearMemory
    BY <2>2 DEF ClearInbox, ClearMemory
  <2>3. CASE StartThreads
    BY <2>3 DEF StartThreads
  <2>4. CASE Halt \/ PutSentinel
    BY <2>4 DEF Halt, PutSentinel
  <2>5. CASE JoinThreads
    BY <2>5 DEF JoinThreads
  <2> QED
    BY <1>2, <2>1, <2>2, <2>3, <2>4, <2>5 DEF StartStop
<1>3. CASE Tick
  BY <1>3 DEF Tick
<1>4. ASSUME NEW t \in Threads, Retry(t) \/ Discover(t)
      PROVE  QuietBetweenGenerations' /\ StarterWaits'
  <2>1. CASE Retry(t)
    BY <2>1 DEF Retry
  <2>2. CASE List(t)
    BY <2>2 DEF List
  <2>3. CASE Take(t) \/ Finish(t)
    BY <2>3 DEF Take, Finish
  <2>4. CASE Check(t)
    BY <2>4 DEF Check, HandOver
  <2>5. CASE Reserve(t)
    BY <2>5 DEF Reserve, HandOver
  <2>6. CASE Put(t)
    BY <2>6 DEF Put, HandOver
  <2> QED
    BY <1>4, <2>1, <2>2, <2>3, <2>4, <2>5, <2>6 DEF Discover
<1>5. CASE Work
  BY <1>5 DEF Work, WorkerGet, Process, Record, Remember, Release
<1>6. CASE UNCHANGED vars
  BY <1>6 DEF vars
<1> QED
  BY <1>1, <1>2, <1>3, <1>4, <1>5, <1>6 DEF Next

-----------------------------------------------------------------------------
(* The reservation.                                                          *)

(* Taking the head off a sequence shifts the rest by one.                    *)
LEMMA TailShift ==
  ASSUME NEW S, NEW q \in Seq(S), q # <<>>
  PROVE  /\ Head(q) = q[1] /\ 1 \in 1 .. Len(q)
         /\ \A i \in 1 .. Len(Tail(q)) :
               i + 1 \in 1 .. Len(q) /\ i + 1 # 1 /\ Tail(q)[i] = q[i + 1]
         /\ \A i, j \in 1 .. Len(Tail(q)) : j + 1 = i + 1 => j = i
<1>1. Len(q) \in Nat /\ Len(q) > 0 /\ Len(Tail(q)) = Len(q) - 1
  OBVIOUS
<1>2. \A i \in 1 .. Len(q) - 1 :
        i + 1 \in 1 .. Len(q) /\ i + 1 # 1 /\ Tail(q)[i] = q[i + 1]
  BY <1>1
<1> QED
  BY <1>1, <1>2

(* What ReservedOnce reads; a step that leaves it alone keeps the property.  *)
LEMMA ReservedFrame ==
  ASSUME ReservedOnce, UNCHANGED <<queue, inflight, overlap, current, job>>,
         phase' # "clearing inbox" => phase # "clearing inbox",
         Putting' \subseteq Putting, Busy' => Busy
  PROVE  ReservedOnce'
BY DEF ReservedOnce, PuttingOnce, QueuedOnce, ProcessedOnce

\* A thread that is not about to put may change the path in its hand.
LEMMA ReservedSame ==
  ASSUME ReservedOnce, UNCHANGED <<phase, overlap, queue, inflight, wpc, job>>,
         Putting' = Putting, \A u \in Putting : current'[u] = current[u]
  PROVE  ReservedOnce'
<1> SUFFICES ASSUME phase # "clearing inbox", ~overlap
             PROVE  PuttingOnce' /\ QueuedOnce' /\ ProcessedOnce'
  BY DEF ReservedOnce
<1>1. PuttingOnce /\ QueuedOnce /\ ProcessedOnce
  BY DEF ReservedOnce
<1>2. PuttingOnce'
  <2>1. ASSUME NEW u \in Putting'
        PROVE  /\ current'[u] \in inflight'
               /\ \A i \in 1 .. Len(queue') : queue'[i] # current'[u]
               /\ Busy' => job' # current'[u]
    BY <1>1 DEF PuttingOnce, Busy
  <2>2. ASSUME NEW u \in Putting', NEW w \in Putting', current'[w] = current'[u]
        PROVE  w = u
    BY <1>1, <2>2 DEF PuttingOnce
  <2> QED
    BY <2>1, <2>2 DEF PuttingOnce
<1>3. QueuedOnce'
  BY <1>1 DEF QueuedOnce, Busy
<1>4. ProcessedOnce'
  BY <1>1 DEF ProcessedOnce, Busy
<1> QED
  BY <1>2, <1>3, <1>4

LEMMA ReservedInit == Init => ReservedOnce
BY DEF Init, ReservedOnce, PuttingOnce, QueuedOnce, ProcessedOnce, Putting, Busy

LEMMA ReservedStep ==
  TypeOK /\ QuietBetweenGenerations /\ ReservedOnce /\ [Next]_vars => ReservedOnce'
<1> SUFFICES ASSUME TypeOK, QuietBetweenGenerations, ReservedOnce, [Next]_vars
             PROVE  ReservedOnce'
  OBVIOUS
<1> USE DEF disk, ledger, life, memory, threads, worker
<1>a. queue \in Seq(Paths \union {Sentinel}) /\ Sentinel \notin Paths
  BY PathFacts DEF TypeOK, TypeMemory
<1>b. pc \in [Threads -> ControlPoints] /\ current \in [Threads -> Paths \union {NoPath}]
  BY DEF TypeOK, TypeThreads
<1>1. CASE Environment
  BY <1>1, ReservedFrame DEF Environment, SaveConfig, Arrive, Remove, Putting, Busy
<1>2. CASE StartStop
  <2>1. CASE NewGeneration
    BY <2>1 DEF NewGeneration, ReservedOnce
  <2>2. CASE ClearInbox
    <3> SUFFICES ASSUME Held = {} PROVE PuttingOnce' /\ QueuedOnce' /\ ProcessedOnce'
      BY <2>2 DEF ClearInbox, ReservedOnce
    <3>1. Putting = {} /\ Queued = {} /\ ~Busy
      BY DEF Held
    <3>2. \A i \in 1 .. Len(queue) : queue[i] = Sentinel
      BY <3>1, <1>a DEF Queued
    <3> QED
      BY <2>2, <3>1, <3>2
         DEF ClearInbox, PuttingOnce, QueuedOnce, ProcessedOnce, Putting, Busy
  <2>3. CASE ClearMemory
    BY <2>3, ReservedFrame DEF ClearMemory, Putting, Busy
  <2>4. CASE StartThreads
    <3> Putting' \subseteq Putting
      BY <2>4, <1>b DEF StartThreads, Putting
    <3> QED
      BY <2>4, ReservedFrame DEF StartThreads, Busy
  <2>5. CASE Halt
    BY <2>5, ReservedFrame DEF Halt, Putting, Busy
  <2>6. CASE PutSentinel
    <3>1. /\ Len(queue') = Len(queue) + 1
          /\ queue'[Len(queue) + 1] = Sentinel
          /\ \A i \in 1 .. Len(queue) : queue'[i] = queue[i]
      BY <2>6, <1>a DEF PutSentinel
    <3>2. \A t \in Putting : current[t] # Sentinel
      BY <1>a DEF TypeOK, TypeThreads, Putting
    <3>3. Len(queue) \in Nat /\ \A i \in 1 .. Len(queue') : i # Len(queue) + 1 => i \in 1 .. Len(queue)
      BY <1>a, <3>1
    <3>4. Busy => job # Sentinel
      BY <1>a DEF TypeOK, TypeWorker
    <3> QED
      BY <2>6, <3>1, <3>2, <3>3, <3>4
         DEF PutSentinel, ReservedOnce, PuttingOnce, QueuedOnce, ProcessedOnce, Putting, Busy
  <2>7. CASE JoinThreads
    BY <2>7, ReservedFrame DEF JoinThreads, Putting, Busy
  <2> QED
    BY <1>2, <2>1, <2>2, <2>3, <2>4, <2>5, <2>6, <2>7 DEF StartStop
<1>3. CASE Tick
  BY <1>3, <1>b, ReservedFrame DEF Tick, Putting, Busy
<1>4. ASSUME NEW t \in Threads, Retry(t) \/ Discover(t) PROVE ReservedOnce'
  <2>1. CASE Retry(t)
    BY <2>1, <1>b, ReservedFrame DEF Retry, Putting, Busy
  <2>2. CASE List(t)
    <3> Putting' \subseteq Putting
      BY <2>2, <1>b DEF List, Putting
    <3> QED
      BY <2>2, ReservedFrame DEF List, Busy
  <2>3. CASE Take(t)
    <3>1. PICK p : current' = [current EXCEPT ![t] = p]
      BY <2>3 DEF Take
    <3>2. /\ Putting' = Putting
          /\ \A u \in Putting : current'[u] = current[u]
      BY <2>3, <3>1, <1>b DEF Take, Putting
    <3>3. UNCHANGED <<phase, overlap, queue, inflight, wpc, job>>
      BY <2>3 DEF Take
    <3> QED
      BY <3>2, <3>3, ReservedSame
  <2>4. CASE Finish(t)
    BY <2>4, <1>b, ReservedFrame DEF Finish, Putting, Busy
  <2>5. CASE Check(t)
    <3>1. /\ Putting' = Putting
          /\ \A u \in Putting : current'[u] = current[u]
      BY <2>5, <1>b DEF Check, HandOver, Putting
    <3>2. UNCHANGED <<phase, overlap, queue, inflight, wpc, job>>
      BY <2>5 DEF Check
    <3> QED
      BY <3>1, <3>2, ReservedSame
  <2>6. CASE Reserve(t)
    <3>1. CASE current[t] \in inflight
      <4>1. /\ Putting' = Putting
            /\ \A u \in Putting : current'[u] = current[u]
        BY <2>6, <3>1, <1>b DEF Reserve, HandOver, Putting
      <4>2. UNCHANGED <<phase, overlap, queue, inflight, wpc, job>>
        BY <2>6, <3>1 DEF Reserve
      <4> QED
        BY <4>1, <4>2, ReservedSame
    <3>2. CASE current[t] \notin inflight
      <4>1. Putting' = Putting \union {t}
        BY <2>6, <3>2, <1>b DEF Reserve, Putting
      <4>2. current[t] # Sentinel
        BY <2>6, <1>a DEF Reserve, TypeOK, TypeThreads
      <4>3. /\ UNCHANGED <<phase, overlap, queue, current, wpc, job>>
            /\ inflight' = inflight \union {current[t]}
        BY <2>6, <3>2 DEF Reserve, HandOver
      <4> SUFFICES ASSUME phase # "clearing inbox", ~overlap
                   PROVE  PuttingOnce' /\ QueuedOnce' /\ ProcessedOnce'
        BY <4>3 DEF ReservedOnce
      <4>4. PuttingOnce /\ QueuedOnce /\ ProcessedOnce
        BY DEF ReservedOnce
      <4>5. PuttingOnce'
        <5> SUFFICES ASSUME NEW u \in Putting \union {t}
                     PROVE  /\ current[u] \in inflight'
                            /\ \A i \in 1 .. Len(queue) : queue[i] # current[u]
                            /\ Busy => job # current[u]
                            /\ \A v \in Putting \union {t} : current[v] = current[u] => v = u
          BY <4>1, <4>3 DEF PuttingOnce, Busy
        <5>1. CASE u = t
          BY <3>2, <4>2, <4>3, <4>4, <5>1 DEF PuttingOnce, QueuedOnce, ProcessedOnce
        <5>2. CASE u # t
          <6>1. /\ u \in Putting /\ current[u] \in inflight
                /\ \A i \in 1 .. Len(queue) : queue[i] # current[u]
                /\ Busy => job # current[u]
                /\ \A v \in Putting : current[v] = current[u] => v = u
            BY <4>4, <5>2 DEF PuttingOnce
          <6> QED
            BY <3>2, <4>3, <6>1
        <5> QED
          BY <5>1, <5>2
      <4> QED
        BY <4>3, <4>4, <4>5 DEF QueuedOnce, ProcessedOnce, Busy
    <3> QED
      BY <3>1, <3>2
  <2>7. CASE Put(t)
    <3>1. /\ Len(queue') = Len(queue) + 1
          /\ queue'[Len(queue) + 1] = current[t]
          /\ \A i \in 1 .. Len(queue) : queue'[i] = queue[i]
      BY <2>7, <1>a, <1>b DEF Put, TypeOK, TypeThreads
    <3>2. Len(queue) \in Nat /\ \A i \in 1 .. Len(queue') : i # Len(queue) + 1 => i \in 1 .. Len(queue)
      BY <1>a, <3>1
    <3>3. /\ t \in Putting
          /\ Putting' = Putting \ {t}
          /\ \A u \in Putting' : current'[u] = current[u]
      BY <2>7, <1>b DEF Put, HandOver, Putting
    <3> SUFFICES ASSUME phase # "clearing inbox", ~overlap
                 PROVE  PuttingOnce' /\ QueuedOnce' /\ ProcessedOnce'
      BY <2>7 DEF Put, ReservedOnce
    <3>4. PuttingOnce /\ QueuedOnce /\ ProcessedOnce
      BY DEF ReservedOnce
    <3>5. UNCHANGED <<inflight, wpc, job>>
      BY <2>7 DEF Put
    <3>6. PuttingOnce'
      <4> SUFFICES ASSUME NEW u \in Putting \ {t}
                   PROVE  /\ current[u] \in inflight
                          /\ \A i \in 1 .. Len(queue') : queue'[i] # current[u]
                          /\ Busy => job # current[u]
                          /\ \A v \in Putting \ {t} : current[v] = current[u] => v = u
        BY <3>3, <3>5 DEF PuttingOnce, Busy
      <4>1. /\ current[u] \in inflight
            /\ \A i \in 1 .. Len(queue) : queue[i] # current[u]
            /\ Busy => job # current[u]
            /\ \A v \in Putting : current[v] = current[u] => v = u
        BY <3>4 DEF PuttingOnce
      <4>2. current[t] # current[u]
        BY <3>3, <4>1
      <4> QED
        BY <3>1, <3>2, <4>1, <4>2
    <3>7. QueuedOnce'
      <4>1. /\ current[t] \in inflight /\ (Busy => job # current[t])
            /\ \A i \in 1 .. Len(queue) : queue[i] # current[t]
        BY <3>3, <3>4 DEF PuttingOnce
      <4> SUFFICES ASSUME NEW i \in 1 .. Len(queue'), queue'[i] # Sentinel
                   PROVE  /\ queue'[i] \in inflight
                          /\ Busy => job # queue'[i]
                          /\ \A j \in 1 .. Len(queue') : queue'[j] = queue'[i] => j = i
        BY <3>5 DEF QueuedOnce, Busy
      <4>2. CASE i = Len(queue) + 1
        BY <3>1, <3>2, <4>1, <4>2
      <4>3. CASE i # Len(queue) + 1
        <5> i \in 1 .. Len(queue)
          BY <3>2, <4>3
        <5>1. /\ queue[i] \in inflight /\ (Busy => job # queue[i])
              /\ \A j \in 1 .. Len(queue) : queue[j] = queue[i] => j = i
          BY <3>1, <3>4 DEF QueuedOnce
        <5> QED
          BY <3>1, <3>2, <4>1, <5>1
      <4> QED
        BY <4>2, <4>3
    <3> QED
      BY <3>4, <3>5, <3>6, <3>7 DEF ProcessedOnce, Busy
  <2> QED
    BY <1>4, <2>1, <2>2, <2>3, <2>4, <2>5, <2>6, <2>7 DEF Discover
<1>5. CASE Work
  <2>1. CASE WorkerGet
    <3>1. /\ Head(queue) = queue[1] /\ 1 \in 1 .. Len(queue)
          /\ \A i \in 1 .. Len(queue') :
                i + 1 \in 1 .. Len(queue) /\ i + 1 # 1 /\ queue'[i] = queue[i + 1]
          /\ \A i, j \in 1 .. Len(queue') : j + 1 = i + 1 => j = i
      BY <2>1, <1>a, TailShift DEF WorkerGet
    <3>2. Putting' = Putting /\ UNCHANGED <<inflight, overlap, phase, current>> /\ ~Busy
      BY <2>1 DEF WorkerGet, Putting, Busy
    <3>3. Busy' => Head(queue) # Sentinel /\ job' = Head(queue)
      BY <2>1 DEF WorkerGet, Busy
    <3> SUFFICES ASSUME phase # "clearing inbox", ~overlap
                 PROVE  PuttingOnce' /\ QueuedOnce' /\ ProcessedOnce'
      BY <3>2 DEF ReservedOnce
    <3>4. PuttingOnce /\ QueuedOnce
      BY DEF ReservedOnce
    <3>5. PuttingOnce'
      <4> SUFFICES ASSUME NEW u \in Putting
                   PROVE  /\ current[u] \in inflight
                          /\ \A i \in 1 .. Len(queue') : queue'[i] # current[u]
                          /\ Busy' => job' # current[u]
                          /\ \A v \in Putting : current[v] = current[u] => v = u
        BY <3>2 DEF PuttingOnce
      <4> QED
        BY <3>1, <3>3, <3>4 DEF PuttingOnce
    <3>6. QueuedOnce'
      <4> SUFFICES ASSUME NEW i \in 1 .. Len(queue'), queue'[i] # Sentinel
                   PROVE  /\ queue'[i] \in inflight
                          /\ Busy' => job' # queue'[i]
                          /\ \A j \in 1 .. Len(queue') : queue'[j] = queue'[i] => j = i
        BY <3>2 DEF QueuedOnce
      <4>1. /\ queue[i + 1] \in inflight
            /\ \A k \in 1 .. Len(queue) : queue[k] = queue[i + 1] => k = i + 1
        BY <3>1, <3>4 DEF QueuedOnce
      <4>2. \A j \in 1 .. Len(queue') : queue'[j] = queue'[i] => j = i
        BY <3>1, <4>1
      <4> QED
        BY <3>1, <3>3, <4>1, <4>2
    <3>7. ProcessedOnce'
      <4>1. queue[1] # Sentinel => queue[1] \in inflight
        BY <3>1, <3>4 DEF QueuedOnce
      <4> QED
        BY <3>1, <3>2, <3>3, <4>1 DEF ProcessedOnce
    <3> QED
      BY <3>5, <3>6, <3>7
  <2>2. CASE Process \/ Record \/ Remember
    BY <2>2, ReservedFrame DEF Process, Record, Remember, Putting, Busy
  <2>3. CASE Release
    BY <2>3 DEF Release, ReservedOnce, PuttingOnce, QueuedOnce, ProcessedOnce, Putting, Busy
  <2> QED
    BY <1>5, <2>1, <2>2, <2>3 DEF Work
<1>6. CASE UNCHANGED vars
  BY <1>6, ReservedFrame DEF vars, Putting, Busy
<1> QED
  BY <1>1, <1>2, <1>3, <1>4, <1>5, <1>6 DEF Next

(* In every generation whose inbox was cleared while nobody held a           *)
(* reservation, a path has one holder and is reserved while it has it.       *)
THEOREM ReservationCorrect == Spec => []ReservedOnce
<1>1. Init => TypeOK /\ QuietBetweenGenerations /\ StarterWaits /\ ReservedOnce
  BY TypeInit, QuietInit, ReservedInit
<1>2. TypeOK /\ QuietBetweenGenerations /\ StarterWaits /\ ReservedOnce /\ [Next]_vars
        => (TypeOK /\ QuietBetweenGenerations /\ StarterWaits /\ ReservedOnce)'
  BY TypeStep, QuietStep, ReservedStep
<1> QED
  BY <1>1, <1>2, PTL DEF Spec

-----------------------------------------------------------------------------
(* No leaked reservation.                                                    *)

LEMMA HeldFrame ==
  ASSUME NoLeakedReservation, UNCHANGED <<queue, inflight, current, job>>,
         phase' # "clearing inbox" => phase # "clearing inbox",
         Putting \subseteq Putting', Busy => Busy'
  PROVE  NoLeakedReservation'
BY DEF NoLeakedReservation, Held, Queued

\* Every holder stays one, or hands its path to another.
LEMMA HeldMoves ==
  ASSUME NoLeakedReservation, phase' = phase, inflight' \subseteq inflight \union Held',
         \A u \in Putting : current[u] \in Held',
         \A p \in Queued : p \in Held',
         Busy => job \in Held'
  PROVE  NoLeakedReservation'
<1>1. Held \subseteq Held'
  <2> SUFFICES ASSUME NEW p \in Held PROVE p \in Held'
    OBVIOUS
  <2>1. \/ \E u \in Putting : p = current[u]
        \/ p \in Queued
        \/ Busy /\ p = job
    BY DEF Held
  <2> QED
    BY <2>1
<1> QED
  BY <1>1 DEF NoLeakedReservation

LEMMA HeldMembers ==
  /\ \A u \in Putting : current[u] \in Held
  /\ Queued \subseteq Held
  /\ Busy => job \in Held
BY DEF Held

LEMMA HeldMembersNext ==
  /\ \A u \in Putting' : current'[u] \in Held'
  /\ Queued' \subseteq Held'
  /\ Busy' => job' \in Held'
BY DEF Held

LEMMA HeldInit == Init => NoLeakedReservation
BY DEF Init, NoLeakedReservation, Held

LEMMA HeldStep ==
  TypeOK /\ QuietBetweenGenerations /\ StarterWaits /\ NoLeakedReservation /\ [Next]_vars
    => NoLeakedReservation'
<1> SUFFICES ASSUME TypeOK, QuietBetweenGenerations, StarterWaits, NoLeakedReservation,
                    [Next]_vars
             PROVE  NoLeakedReservation'
  OBVIOUS
<1> USE DEF disk, ledger, life, memory, threads, worker
<1>a. queue \in Seq(Paths \union {Sentinel}) /\ Sentinel \notin Paths
  BY PathFacts DEF TypeOK, TypeMemory
<1>b. pc \in [Threads -> ControlPoints] /\ current \in [Threads -> Paths \union {NoPath}]
  BY DEF TypeOK, TypeThreads
<1>1. CASE Environment
  BY <1>1, HeldFrame DEF Environment, SaveConfig, Arrive, Remove, Putting, Busy
<1>2. CASE StartStop
  <2>1. CASE NewGeneration
    BY <2>1 DEF NewGeneration, NoLeakedReservation
  <2>2. CASE ClearInbox
    BY <2>2 DEF ClearInbox, NoLeakedReservation
  <2>3. CASE ClearMemory
    BY <2>3, HeldFrame DEF ClearMemory, Putting, Busy
  <2>4. CASE StartThreads
    <3>1. Starter \notin Putting
      BY <2>4 DEF StartThreads, StarterWaits, Putting
    <3>2. Putting \subseteq Putting'
      BY <2>4, <3>1, <1>b DEF StartThreads, Putting
    <3>3. ~Busy
      BY <2>4 DEF StartThreads, QuietBetweenGenerations, Busy
    <3> QED
      BY <2>4, <3>2, <3>3, HeldFrame DEF StartThreads
  <2>5. CASE Halt
    BY <2>5, HeldFrame DEF Halt, Putting, Busy
  <2>6. CASE PutSentinel
    <3>1. \A i \in 1 .. Len(queue) : i \in 1 .. Len(queue') /\ queue'[i] = queue[i]
      BY <2>6, <1>a DEF PutSentinel
    <3>2. Queued \subseteq Queued'
      BY <3>1 DEF Queued
    <3> QED
      BY <2>6, <3>2 DEF PutSentinel, NoLeakedReservation, Held, Putting, Busy
  <2>7. CASE JoinThreads
    BY <2>7, HeldFrame DEF JoinThreads, Putting, Busy
  <2> QED
    BY <1>2, <2>1, <2>2, <2>3, <2>4, <2>5, <2>6, <2>7 DEF StartStop
<1>3. CASE Tick
  BY <1>3, <1>b, HeldFrame DEF Tick, Putting, Busy
<1>4. ASSUME NEW t \in Threads, Retry(t) \/ Discover(t) PROVE NoLeakedReservation'
  <2>1. CASE Retry(t)
    BY <2>1, <1>b, HeldFrame DEF Retry, Putting, Busy
  <2>2. CASE List(t)
    <3> Putting \subseteq Putting'
      BY <2>2, <1>b DEF List, Putting
    <3> QED
      BY <2>2, HeldFrame DEF List, Busy
  <2>3. CASE Take(t) \/ Check(t)
    <3>1. t \notin Putting /\ Putting \subseteq Putting'
      BY <2>3, <1>b DEF Take, Check, HandOver, Putting
    <3>2. \A u \in Putting : current'[u] = current[u]
      BY <2>3, <3>1, <1>b DEF Take, Check, HandOver, Putting
    <3>3. UNCHANGED <<phase, queue, inflight, wpc, job>>
      BY <2>3 DEF Take, Check
    <3>4. Queued' = Queued /\ Busy' = Busy
      BY <3>3 DEF Queued, Busy
    <3>5. \A u \in Putting : current[u] \in Held'
      BY <3>1, <3>2, HeldMembersNext
    <3>6. Queued \subseteq Held' /\ (Busy => job \in Held')
      BY <3>3, <3>4, HeldMembersNext
    <3> QED
      BY <3>3, <3>5, <3>6, HeldMoves
  <2>4. CASE Finish(t)
    BY <2>4, <1>b, HeldFrame DEF Finish, Putting, Busy
  <2>5. CASE Reserve(t)
    <3>1. t \notin Putting /\ Putting \subseteq Putting'
      BY <2>5, <1>b DEF Reserve, HandOver, Putting
    <3>2. \A u \in Putting : current'[u] = current[u]
      BY <2>5, <3>1, <1>b DEF Reserve, HandOver, Putting
    <3>3. UNCHANGED <<phase, queue, wpc, job>>
      BY <2>5 DEF Reserve
    <3>4. \/ inflight' = inflight
          \/ inflight' = inflight \union {current'[t]} /\ t \in Putting'
      BY <2>5, <1>b DEF Reserve, Putting
    <3>5. Queued' = Queued /\ Busy' = Busy
      BY <3>3 DEF Queued, Busy
    <3>6. \A u \in Putting : current[u] \in Held'
      BY <3>1, <3>2, HeldMembersNext
    <3>7. inflight' \subseteq inflight \union Held'
      BY <3>4, HeldMembersNext
    <3>8. Queued \subseteq Held' /\ (Busy => job \in Held')
      BY <3>3, <3>5, HeldMembersNext
    <3> QED
      BY <3>3, <3>6, <3>7, <3>8, HeldMoves
  <2>6. CASE Put(t)
    <3>1. /\ \A i \in 1 .. Len(queue) : i \in 1 .. Len(queue') /\ queue'[i] = queue[i]
          /\ \E i \in 1 .. Len(queue') : queue'[i] = current[t]
          /\ current[t] \in Paths
      BY <2>6, <1>a, <1>b DEF Put, TypeOK, TypeThreads
    <3>2. Queued \union {current[t]} \subseteq Queued'
      BY <3>1 DEF Queued
    <3>3. Putting \subseteq Putting' \union {t} /\ \A u \in Putting : u # t => current'[u] = current[u]
      BY <2>6, <1>b DEF Put, HandOver, Putting
    <3>4. UNCHANGED <<phase, inflight, wpc, job>>
      BY <2>6 DEF Put
    <3>5. Busy' = Busy
      BY <3>4 DEF Busy
    <3>6. \A u \in Putting : current[u] \in Held'
      BY <3>2, <3>3, HeldMembersNext
    <3> QED
      BY <3>2, <3>4, <3>5, <3>6, HeldMoves, HeldMembersNext
  <2> QED
    BY <1>4, <2>1, <2>2, <2>3, <2>4, <2>5, <2>6 DEF Discover
<1>5. CASE Work
  <2>1. CASE WorkerGet
    <3>1. \A i \in 1 .. Len(queue) :
             i = 1 \/ \E j \in 1 .. Len(queue') : queue'[j] = queue[i]
      <4> SUFFICES ASSUME NEW i \in 1 .. Len(queue), i # 1
                   PROVE  i - 1 \in 1 .. Len(queue') /\ queue'[i - 1] = queue[i]
        OBVIOUS
      <4> QED
        BY <2>1, <1>a DEF WorkerGet
    <3>2. Head(queue) = queue[1]
      BY <2>1, <1>a, TailShift DEF WorkerGet
    <3>3. queue[1] \in Paths => Busy' /\ job' = queue[1]
      BY <2>1, <3>2, <1>a DEF WorkerGet, Busy
    <3>4. \A p \in Queued : p \in Queued' \/ (Busy' /\ p = job')
      BY <3>1, <3>3 DEF Queued
    <3>5. ~Busy /\ Putting' = Putting /\ UNCHANGED <<phase, inflight, current>>
      BY <2>1 DEF WorkerGet, Busy, Putting
    <3> QED
      BY <3>4, <3>5, HeldMoves, HeldMembersNext
  <2>2. CASE Process \/ Record \/ Remember
    BY <2>2, HeldFrame DEF Process, Record, Remember, Putting, Busy
  <2>3. CASE Release
    BY <2>3 DEF Release, NoLeakedReservation, Held, Queued, Putting, Busy
  <2> QED
    BY <1>5, <2>1, <2>2, <2>3 DEF Work
<1>6. CASE UNCHANGED vars
  BY <1>6, HeldFrame DEF vars, Putting, Busy
<1> QED
  BY <1>1, <1>2, <1>3, <1>4, <1>5, <1>6 DEF Next

(* A reservation never outlives the work it stands for, in any generation.   *)
THEOREM NoLeakCorrect == Spec => []NoLeakedReservation
<1>1. Init => TypeOK /\ QuietBetweenGenerations /\ StarterWaits /\ NoLeakedReservation
  BY TypeInit, QuietInit, HeldInit
<1>2. /\ TypeOK /\ QuietBetweenGenerations /\ StarterWaits /\ NoLeakedReservation
      /\ [Next]_vars
      => (TypeOK /\ QuietBetweenGenerations /\ StarterWaits /\ NoLeakedReservation)'
  BY TypeStep, QuietStep, HeldStep
<1> QED
  BY <1>1, <1>2, PTL DEF Spec

-----------------------------------------------------------------------------
(* The memory of copies.                                                     *)

\* The user may save any configuration that copies.  (One that moves, saved between a copy
\* and Remember, which asks for the configuration of its moment, loses the memory of it.)
Copying == \A mode \in Modes : mode.copy

\* A content that was placed and still lies in the input folder is remembered, or the
\* worker has just placed it and is on its way to Remember.
Recalled ==
    \A p \in InputPaths \intersect present : placed[p] > 0 =>
        \/ Signature(p) \in seen
        \/ job = p /\ wpc \in {"record", "remember"} /\ result.outcome = "placed"

\* What Recalled speaks of.
remembered == <<present, version, placed, seen, wpc, job, result>>

LEMMA RecalledFrame == Recalled /\ UNCHANGED remembered => Recalled'
BY DEF Recalled, remembered, Signature

LEMMA RecalledInit == Init => Recalled
BY PathFacts DEF Init, Recalled

\* Every step but the clearing of the memory keeps it, in any generation.
LEMMA RecalledStep ==
    Copying /\ TypeOK /\ QuietBetweenGenerations /\ Recalled /\ [Next]_vars /\ ~ClearMemory
        => Recalled'
<1> SUFFICES ASSUME Copying, TypeOK, QuietBetweenGenerations, Recalled, [Next]_vars, ~ClearMemory
             PROVE  Recalled'
  OBVIOUS
<1>1. ASSUME NEW q \in Paths, Arrive(q) PROVE Recalled'
  <2>1. /\ q \in InputPaths /\ present' = present \union {q}
        /\ version' = [version EXCEPT ![q] = @ + 1] /\ placed' = [placed EXCEPT ![q] = 0]
        /\ UNCHANGED <<seen, wpc, job, result>>
    BY <1>1 DEF Arrive, memory, worker
  <2>2. ASSUME NEW p \in InputPaths \intersect present', placed'[p] > 0
        PROVE  p # q /\ p \in present /\ placed[p] > 0 /\ Signature(p)' = Signature(p)
    <3>1. p # q
      BY <2>1, <2>2 DEF TypeOK, TypeDisk
    <3>2. p \in Paths /\ version'[p] = version[p]
      BY <2>1, <3>1, PathFacts DEF TypeOK, TypeDisk
    <3> QED
      BY <2>1, <2>2, <3>1, <3>2 DEF TypeOK, TypeDisk, Signature
  <2> QED
    BY <2>1, <2>2 DEF Recalled
<1>2. ASSUME NEW q \in Paths, Remove(q) PROVE Recalled'
  BY <1>2 DEF Remove, memory, worker, Recalled, Signature
<1>3. CASE SaveConfig
  BY <1>3, RecalledFrame DEF SaveConfig, disk, memory, worker, remembered
<1>4. CASE StartStop
  <2>1. CASE NewGeneration
    BY <2>1, RecalledFrame DEF NewGeneration, disk, memory, worker, remembered
  <2>2. CASE ClearInbox
    BY <2>2, RecalledFrame DEF ClearInbox, disk, worker, remembered
\* The worker that starts finds nothing in hand: the previous one is dead.
  <2>3. CASE StartThreads
    <3>1. wpc = "dead" /\ UNCHANGED <<present, version, placed, seen>>
      BY <2>3 DEF StartThreads, QuietBetweenGenerations, disk, memory
    <3> QED
      BY <3>1 DEF Recalled, Signature
  <2>4. CASE Halt \/ PutSentinel \/ JoinThreads
    BY <2>4, RecalledFrame DEF Halt, PutSentinel, JoinThreads, disk, memory, worker, remembered
  <2> QED
    BY <1>4, <2>1, <2>2, <2>3, <2>4 DEF StartStop
<1>5. CASE Tick
  BY <1>5, RecalledFrame DEF Tick, disk, memory, worker, remembered
<1>6. ASSUME NEW t \in Threads, Retry(t) \/ Discover(t) PROVE Recalled'
  <2>1. CASE Retry(t) \/ List(t) \/ Take(t) \/ Finish(t) \/ Check(t) \/ Put(t)
    BY <2>1, RecalledFrame
       DEF Retry, List, Take, Finish, Check, Put, disk, memory, worker, remembered
  <2>2. CASE Reserve(t)
    BY <2>2, RecalledFrame DEF Reserve, disk, worker, remembered
  <2> QED
    BY <1>6, <2>1, <2>2 DEF Discover
<1>7. CASE WorkerGet
  <2>1. wpc = "get" /\ UNCHANGED <<present, version, placed, seen>>
    BY <1>7 DEF WorkerGet, disk, memory
  <2> QED
    BY <2>1 DEF Recalled, Signature
\* A placement counts for the path in hand, and is kept for Remember.
<1>8. CASE Process
  <2>1. /\ wpc = "process" /\ UNCHANGED <<seen, job>>
        /\ wpc' = IF result'.outcome = "raised" THEN "release" ELSE "record"
    BY <1>8 DEF Process, memory
  <2>2. \A p \in InputPaths \intersect present : placed[p] > 0 => Signature(p) \in seen
    BY <2>1 DEF Recalled
  <2>3. CASE UNCHANGED disk
    BY <2>1, <2>2, <2>3 DEF disk, Recalled, Signature
  <2>4. CASE ProcessPlace
    <3>1. PICK d \in {Archive} \union {q \in PendingPaths \ present : version[q] < MaxVersion} :
              /\ result' = Result("placed", d)
              /\ present' = ((present \union ({d} \intersect PendingPaths))
                                \ (IF CopyInboxOnly(job) THEN {} ELSE {job}))
              /\ version' = IF d = Archive THEN version ELSE [version EXCEPT ![d] = @ + 1]
              /\ placed' = [p \in InputPaths |-> placed[p] + (IF p = job THEN 1 ELSE 0)]
      BY <2>4 DEF ProcessPlace
    <3>2. result'.outcome = "placed" /\ wpc' = "record"
      BY <2>1, <3>1 DEF Result
    <3>3. ASSUME NEW p \in InputPaths \intersect present', placed'[p] > 0, p # job
          PROVE  Signature(p)' \in seen'
      <4>1. p \in Paths /\ p \notin PendingPaths
        BY PathsAssumption DEF Paths
      <4>2. p \in present
        BY <3>1, <3>3, <4>1
      <4>3. placed[p] > 0
        BY <3>1, <3>3 DEF TypeOK, TypeDisk
      <4>4. version'[p] = version[p]
        BY <3>1, <4>1 DEF TypeOK, TypeDisk
      <4> QED
        BY <2>1, <2>2, <4>2, <4>3, <4>4 DEF Signature
    <3> QED
      BY <2>1, <3>2, <3>3 DEF Recalled
  <2> QED
    BY <1>8, <2>3, <2>4
       DEF Process, ProcessMissing, ProcessDry, ProcessInPlace, ProcessFail
<1>9. CASE Record
  <2>1. wpc = "record" /\ wpc' = "remember" /\ UNCHANGED <<present, version, placed, seen, job, result>>
    BY <1>9 DEF Record, disk, memory
  <2> QED
    BY <2>1 DEF Recalled, Signature
<1>10. CASE Remember
  <2>1. /\ wpc = "remember" /\ UNCHANGED <<present, version, placed>>
        /\ seen' = IF /\ result.outcome \in {"placed", "dry run"}
                      /\ config.dry \/ config.copy
                      /\ job \in present
                   THEN seen \union {Signature(job)} ELSE seen
    BY <1>10 DEF Remember, disk
  <2>2. config.copy
    BY DEF Copying, TypeOK, TypeLife
  <2>3. ASSUME NEW p \in InputPaths \intersect present, placed[p] > 0
        PROVE  Signature(p) \in seen'
    <3>1. CASE Signature(p) \in seen
      BY <2>1, <3>1
    <3>2. CASE job = p /\ result.outcome = "placed"
      BY <2>1, <2>2, <3>2
    <3> QED
      BY <2>3, <3>1, <3>2 DEF Recalled
  <2> QED
    BY <2>1, <2>3 DEF Recalled, Signature
<1>11. CASE Release
  <2>1. wpc = "release" /\ UNCHANGED <<present, version, placed, seen>>
    BY <1>11 DEF Release, disk
  <2> QED
    BY <2>1 DEF Recalled, Signature
<1>12. CASE UNCHANGED vars
  BY <1>12, RecalledFrame DEF vars, disk, memory, worker, remembered
<1> QED
  BY <1>1, <1>2, <1>3, <1>4, <1>5, <1>6, <1>7, <1>8, <1>9, <1>10, <1>11, <1>12
     DEF Next, Environment, StartStop, Work

LEMMA RecalledRemembers == Recalled => CopiedIsRemembered
BY DEF Recalled, CopiedIsRemembered, Busy

\* In any number of generations, nothing but the start of the next one forgets: no save of
\* the settings, failed write, replaced file or second discovery does.
THEOREM OnlyAStartForgets ==
    Copying => (Spec => [][Recalled => Recalled' \/ ClearMemory]_vars)
<1> SUFFICES ASSUME Copying PROVE Spec => [][Recalled => Recalled' \/ ClearMemory]_vars
  OBVIOUS
<1>1. Init => TypeOK /\ QuietBetweenGenerations /\ StarterWaits
  BY TypeInit, QuietInit
<1>2. TypeOK /\ QuietBetweenGenerations /\ StarterWaits /\ [Next]_vars
        => (TypeOK /\ QuietBetweenGenerations /\ StarterWaits)'
  BY TypeStep, QuietStep
<1>3. TypeOK /\ QuietBetweenGenerations /\ [Next]_vars
        => [Recalled => Recalled' \/ ClearMemory]_vars
  BY RecalledStep
<1> QED
  BY <1>1, <1>2, <1>3, PTL DEF Spec

\* With the only generation still to come, or coming, nothing has been placed.
FirstOne ==
    generation = 0 \/ phase \in {"clearing inbox", "clearing memory", "starting"} =>
        /\ generation = 0 => phase = "off"
        /\ \A p \in InputPaths : placed[p] = 0

LEMMA FirstOneInit == Init => FirstOne
BY DEF Init, FirstOne

LEMMA FirstOneStep ==
    MaxGenerations = 1 /\ TypeOK /\ QuietBetweenGenerations /\ FirstOne /\ [Next]_vars => FirstOne'
<1> SUFFICES ASSUME MaxGenerations = 1, TypeOK, QuietBetweenGenerations, FirstOne, [Next]_vars
             PROVE  FirstOne'
  OBVIOUS
<1>1. ASSUME UNCHANGED <<phase, generation, placed>> PROVE FirstOne'
  BY <1>1 DEF FirstOne
<1>2. ASSUME NEW q \in Paths, Arrive(q) PROVE FirstOne'
  BY <1>2 DEF Arrive, life, FirstOne, TypeOK, TypeDisk
<1>3. CASE SaveConfig \/ \E q \in Paths : Remove(q)
  BY <1>1, <1>3 DEF SaveConfig, Remove, disk, life
<1>4. CASE StartStop
  <2>1. CASE NewGeneration
    <3>1. generation \in 0 .. MaxGenerations
      BY DEF TypeOK, TypeLife
    <3>2. generation < MaxGenerations /\ generation' = generation + 1
      BY <2>1 DEF NewGeneration
    <3>3. placed' = placed
      BY <2>1 DEF NewGeneration, disk
    <3>4. generation = 0 /\ generation' = 1
      BY <3>1, <3>2
    <3>5. \A p \in InputPaths : placed[p] = 0
      BY <3>4, Zenon DEF FirstOne
    <3>6. \A p \in InputPaths : placed'[p] = 0
      BY <3>3, <3>5
    <3>7. generation' # 0
      BY <3>4
    <3> QED
      BY <3>6, <3>7, Zenon DEF FirstOne
  <2>2. CASE ClearInbox \/ ClearMemory \/ StartThreads
    BY <2>2 DEF ClearInbox, ClearMemory, StartThreads, disk, FirstOne
  <2>3. CASE Halt \/ PutSentinel \/ JoinThreads
    BY <2>3 DEF Halt, PutSentinel, JoinThreads, disk, FirstOne
  <2> QED
    BY <1>4, <2>1, <2>2, <2>3 DEF StartStop
<1>5. CASE Tick
  BY <1>1, <1>5 DEF Tick, disk, life
<1>6. ASSUME NEW t \in Threads, Retry(t) \/ Discover(t) PROVE FirstOne'
  BY <1>1, <1>6 DEF Retry, Discover, List, Take, Finish, Check, Reserve, Put, disk, life
<1>7. CASE WorkerGet \/ Record \/ Remember \/ Release
  BY <1>1, <1>7 DEF WorkerGet, Record, Remember, Release, disk, life
\* Before the generation is on there is no worker to place anything.
<1>8. CASE Process
  <2>1. wpc = "process" /\ UNCHANGED <<phase, generation>>
    BY <1>8 DEF Process, life
  <2>2. phase \notin {"off", "clearing inbox", "clearing memory", "starting"}
    BY <2>1 DEF QuietBetweenGenerations
  <2>3. generation # 0
    BY <2>2 DEF FirstOne
  <2> QED
    BY <2>1, <2>2, <2>3 DEF FirstOne
<1>9. CASE UNCHANGED vars
  BY <1>1, <1>9 DEF vars, disk, life
<1> QED
  BY <1>2, <1>3, <1>4, <1>5, <1>6, <1>7, <1>8, <1>9 DEF Next, Environment, Work

LEMMA FirstMemory ==
    FirstOne /\ ClearMemory => Recalled'
<1> SUFFICES ASSUME FirstOne, ClearMemory PROVE Recalled'
  OBVIOUS
<1>1. phase = "clearing memory" /\ placed' = placed
  BY DEF ClearMemory, disk
<1>2. \A p \in InputPaths : placed'[p] = 0
  BY <1>1 DEF FirstOne
<1> QED
  BY <1>2 DEF Recalled

\* While its generation lasts, an original that stays in the input folder after being
\* copied is remembered by the worker that copied it, whatever the ledger's writes do.
THEOREM CopiedIsRememberedCorrect ==
    Copying /\ MaxGenerations = 1 => (Spec => []CopiedIsRemembered)
<1> SUFFICES ASSUME Copying, MaxGenerations = 1 PROVE Spec => []CopiedIsRemembered
  OBVIOUS
<1> DEFINE Inv == TypeOK /\ QuietBetweenGenerations /\ StarterWaits /\ FirstOne /\ Recalled
<1>1. Init => Inv
  BY TypeInit, QuietInit, FirstOneInit, RecalledInit
<1>2. Inv /\ [Next]_vars => Inv'
  <2>1. Inv /\ [Next]_vars => Recalled'
    BY RecalledStep, FirstMemory
  <2> QED
    BY <2>1, TypeStep, QuietStep, FirstOneStep
<1>3. Inv => CopiedIsRemembered
  BY RecalledRemembers
<1> HIDE DEF Inv
<1> QED
  BY <1>1, <1>2, <1>3, PTL DEF Spec
=============================================================================
