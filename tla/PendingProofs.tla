--------------------------- MODULE PendingProofs ---------------------------
(***************************************************************************)
(* For any number of threads, files and changes: the types of Pending, and *)
(* that the banner never goes back to an older count.                      *)
(***************************************************************************)
EXTENDS Pending, TLAPS

-----------------------------------------------------------------------------
(* The invariant.                                                          *)

Steps == {"none", "review", "quarantine", "store", "reset"}

PendingTypeOK ==
    /\ files \in Counts /\ changes \in Nat
    /\ counting \in BOOLEAN /\ active \in BOOLEAN
    /\ latest \in Counted \union {None}
    /\ counter \in [Counters -> [step : Steps, counts : Counted]]
    /\ poll \in [step : {"flush", "apply", "kick"}, took : Counted \union {None}]
    /\ poll.step = "apply" => poll.took \in Counted
    /\ shown \in Counted

\* Nobody protects _counting, and yet one thread at most is between its start and its end.
OneCounts ==
    /\ \A k \in Counters : counter[k].step # "none" => counting
    /\ \A k, m \in Counters : counter[k].step # "none" /\ counter[m].step # "none" => k = m

\* Nothing shown, taken or left is younger than n.
KnownBy(n) ==
    /\ shown.asOf <= n
    /\ poll.step = "apply" => poll.took.asOf <= n
    /\ latest # None => latest.asOf <= n

\* What is shown, what the poll took, what lies in _latest and what the thread counts follow
\* one another.
InOrder ==
    /\ KnownBy(changes)
    /\ poll.step = "apply" => shown.asOf <= poll.took.asOf
    /\ latest # None =>
         shown.asOf <= latest.asOf /\ (poll.step = "apply" => poll.took.asOf <= latest.asOf)
    /\ \A k \in Counters : counter[k].step \in {"review", "quarantine", "store"} =>
         KnownBy(counter[k].counts.asOf) /\ counter[k].counts.asOf <= changes

PendingInv == PendingTypeOK /\ OneCounts /\ InOrder

-----------------------------------------------------------------------------
(* Step by step.                                                           *)

LEMMA InvInit == PendingInit => PendingInv
<1> SUFFICES ASSUME PendingInit PROVE PendingInv
  OBVIOUS
<1>1. NoFiles \in Counted /\ NoFiles.asOf = 0
  BY PendingAssumption DEF NoFiles, Counted
<1>2. PendingTypeOK
  BY <1>1 DEF PendingInit, PendingTypeOK, Idle, Steps
<1>3. OneCounts
  BY DEF PendingInit, OneCounts, Idle
<1>4. InOrder
  BY <1>1 DEF PendingInit, InOrder, KnownBy, Idle
<1> QED
  BY <1>2, <1>3, <1>4 DEF PendingInv

\* A thread starts: it is the only one, and counts later than all that is known.
LEMMA StartKeeps ==
  ASSUME PendingInv, poll.step = "kick", ~counting, counting', NEW k \in Counters, Start(k), Polled,
         UNCHANGED <<files, latest, active, shown, last, changes, peak, announced>>
  PROVE  PendingInv'
<1> DEFINE begun == [step |-> "review", counts |-> [NoFiles EXCEPT !.asOf = changes]]
<1>1. begun.step = "review" /\ begun.counts.asOf = changes /\ begun.counts \in Counted
      /\ begun \in [step : Steps, counts : Counted]
  <2>1. changes \in Nat /\ MaxFiles \in Nat
    BY PendingAssumption DEF PendingInv, PendingTypeOK
  <2> QED
    BY <2>1 DEF NoFiles, Counted, Steps
<1>2. counter' = [counter EXCEPT ![k] = begun]
  BY DEF Start
<1> HIDE DEF begun
<1>3. counter \in [Counters -> [step : Steps, counts : Counted]]
  BY DEF PendingInv, PendingTypeOK
<1>4. /\ counter'[k] = begun /\ counter' \in [Counters -> [step : Steps, counts : Counted]]
      /\ \A m \in Counters : m # k => counter'[m] = counter[m]
  BY <1>1, <1>2, <1>3
<1>5. \A m \in Counters : counter[m].step = "none"
  BY DEF PendingInv, OneCounts
<1>6. poll' = [step |-> "flush", took |-> None]
  BY DEF Polled
<1>7. PendingTypeOK'
  BY <1>4, <1>6 DEF PendingInv, PendingTypeOK
<1>8. OneCounts'
  BY <1>1, <1>4, <1>5 DEF OneCounts
<1>9. InOrder'
  <2>1. KnownBy(changes)' /\ (latest' # None => (shown.asOf <= latest.asOf)')
    BY <1>6 DEF PendingInv, InOrder, KnownBy
  <2>2. poll'.step # "apply"
    BY <1>6
  <2>3. changes' = changes /\ changes \in Nat
    BY DEF PendingInv, PendingTypeOK
  <2>4. ASSUME NEW m \in Counters, counter'[m].step \in {"review", "quarantine", "store"}
        PROVE  m = k /\ counter'[m].counts.asOf = changes
    BY <1>1, <1>4, <1>5, <2>4
  <2>5. \A m \in Counters : counter'[m].step \in {"review", "quarantine", "store"} =>
          KnownBy(counter[m].counts.asOf)' /\ counter'[m].counts.asOf <= changes'
    BY <2>1, <2>3, <2>4 DEF KnownBy
  <2> QED
    BY <2>1, <2>2, <2>5 DEF InOrder
<1> QED
  BY <1>7, <1>8, <1>9 DEF PendingInv

\* A thread goes on with what it counts for the same moment; what is known stays as it is.
LEMMA CountKeeps ==
  ASSUME PendingInv, NEW k \in Counters, NEW next \in [step : Steps, counts : Counted],
         counter[k].step # "none", next.step # "none",
         next.step \in {"review", "quarantine", "store"} =>
            /\ counter[k].step \in {"review", "quarantine", "store"}
            /\ next.counts.asOf = counter[k].counts.asOf,
         counter' = [counter EXCEPT ![k] = next],
         changes' \in Nat, changes <= changes',
         UNCHANGED <<files, counting, latest, poll, active, shown, last, peak, announced>>
  PROVE  PendingInv'
<1>1. counter \in [Counters -> [step : Steps, counts : Counted]]
  BY DEF PendingInv, PendingTypeOK
<1>2. /\ counter'[k] = next /\ counter' \in [Counters -> [step : Steps, counts : Counted]]
      /\ \A m \in Counters : m # k => counter'[m] = counter[m]
  BY <1>1
<1>3. PendingTypeOK'
  BY <1>2 DEF PendingInv, PendingTypeOK
<1>4. OneCounts'
  BY <1>2 DEF PendingInv, OneCounts
<1>5. \A n : KnownBy(n) => KnownBy(n)'
  BY DEF KnownBy
<1>6. ASSUME NEW m \in Counters, counter'[m].step \in {"review", "quarantine", "store"}
      PROVE  /\ counter[m].step \in {"review", "quarantine", "store"}
             /\ counter'[m].counts.asOf = counter[m].counts.asOf
  BY <1>2, <1>6
<1>7. \A m \in Counters : counter[m].counts.asOf \in Nat
  BY <1>1 DEF Counted
<1>8. KnownBy(changes') => KnownBy(changes)'
  BY DEF KnownBy
<1>9. KnownBy(changes) => KnownBy(changes')
  <2>1. changes \in Nat /\ shown.asOf \in Nat
        /\ (latest # None => latest.asOf \in Nat) /\ (poll.step = "apply" => poll.took.asOf \in Nat)
    BY DEF PendingInv, PendingTypeOK, Counted
  <2> QED
    BY <2>1 DEF KnownBy
<1>10. InOrder'
  <2>1. KnownBy(changes)'
    BY <1>8, <1>9 DEF PendingInv, InOrder
  <2>2. ASSUME NEW m \in Counters, counter'[m].step \in {"review", "quarantine", "store"}
        PROVE  KnownBy(counter[m].counts.asOf)' /\ counter'[m].counts.asOf <= changes'
    <3>1. /\ counter'[m].counts.asOf = counter[m].counts.asOf
          /\ KnownBy(counter[m].counts.asOf) /\ counter[m].counts.asOf <= changes
      BY <1>6, <2>2 DEF PendingInv, InOrder
    <3>2. changes \in Nat
      BY DEF PendingInv, PendingTypeOK
    <3>3. counter'[m].counts.asOf <= changes'
      BY <1>7, <3>1, <3>2
    <3>4. KnownBy(counter[m].counts.asOf)'
      BY <3>1 DEF KnownBy
    <3> QED
      BY <3>3, <3>4
  <2> QED
    BY <2>1, <2>2 DEF PendingInv, InOrder
<1> QED
  BY <1>3, <1>4, <1>10 DEF PendingInv

LEMMA Typed ==
  ASSUME PendingInv
  PROVE  /\ changes \in Nat /\ shown \in Counted /\ shown.asOf \in Nat
         /\ latest # None => latest \in Counted /\ latest.asOf \in Nat
         /\ poll.step = "apply" => poll.took \in Counted /\ poll.took.asOf \in Nat
         /\ \A k \in Counters : counter[k] \in [step : Steps, counts : Counted]
BY DEF PendingInv, PendingTypeOK, Counted

LEMMA FlushKeeps == PendingInv /\ Flush => PendingInv'
<1> SUFFICES ASSUME PendingInv, Flush PROVE PendingInv'
  OBVIOUS
<1>1. /\ poll'.step = IF latest = None THEN "kick" ELSE "apply"
      /\ poll'.took = latest
      /\ poll' \in [step : {"flush", "apply", "kick"}, took : Counted \union {None}]
  BY DEF Flush, PendingInv, PendingTypeOK
<1>2. PendingTypeOK'
  BY <1>1 DEF Flush, PendingInv, PendingTypeOK
<1>3. OneCounts'
  BY DEF Flush, PendingInv, OneCounts
<1>4. \A n : KnownBy(n) => KnownBy(n)'
  BY <1>1 DEF Flush, KnownBy
<1>5. UNCHANGED <<latest, counter, shown, changes>>
  BY DEF Flush
<1>6. InOrder'
  <2>1. KnownBy(changes)'
    BY <1>1, <1>5 DEF PendingInv, InOrder, KnownBy
  <2>2. ASSUME NEW k \in Counters, counter[k].step \in {"review", "quarantine", "store"}
        PROVE  KnownBy(counter[k].counts.asOf)' /\ (counter[k].counts.asOf <= changes)'
    BY <1>1, <1>5, <2>2 DEF PendingInv, InOrder, KnownBy
  <2>3. /\ poll'.step = "apply" => (shown.asOf <= poll.took.asOf)'
        /\ latest' # None => (shown.asOf <= latest.asOf)'
        /\ latest' # None => (poll'.step = "apply" => (poll.took.asOf <= latest.asOf)')
    BY <1>1, <1>5, Typed DEF PendingInv, InOrder
  <2> QED
    BY <1>5, <2>1, <2>2, <2>3 DEF InOrder
<1> QED
  BY <1>2, <1>3, <1>6 DEF PendingInv

LEMMA ApplyKeeps == PendingInv /\ Apply => PendingInv' /\ shown'.asOf >= shown.asOf
<1> SUFFICES ASSUME PendingInv, Apply PROVE PendingInv' /\ shown'.asOf >= shown.asOf
  OBVIOUS
<1>1. /\ poll.step = "apply" /\ poll'.step = "kick" /\ latest' = None /\ shown' = poll.took
      /\ poll' \in [step : {"flush", "apply", "kick"}, took : Counted \union {None}]
      /\ UNCHANGED <<files, counting, counter, active, changes>>
  BY DEF Apply
<1>2. PendingTypeOK'
  BY <1>1 DEF PendingInv, PendingTypeOK
<1>3. OneCounts'
  BY <1>1 DEF PendingInv, OneCounts
<1>4. InOrder'
  BY <1>1 DEF PendingInv, InOrder, KnownBy
<1>5. shown'.asOf >= shown.asOf
  BY <1>1, Typed DEF PendingInv, InOrder
<1> QED
  BY <1>2, <1>3, <1>4, <1>5 DEF PendingInv

LEMMA PolledKeeps ==
  ASSUME PendingInv, poll.step = "kick", Polled,
         UNCHANGED <<files, counting, latest, counter, active, shown, changes>>
  PROVE  PendingInv'
<1>1. poll'.step = "flush" /\ poll' \in [step : {"flush", "apply", "kick"}, took : Counted \union {None}]
  BY DEF Polled
<1> QED
  BY <1>1 DEF PendingInv, PendingTypeOK, OneCounts, InOrder, KnownBy

LEMMA KickKeeps == PendingInv /\ Kick => PendingInv'
<1> SUFFICES ASSUME PendingInv, Kick PROVE PendingInv'
  OBVIOUS
<1>1. CASE counting
  BY <1>1, PolledKeeps DEF Kick
<1>2. CASE ~counting
  BY <1>2, StartKeeps DEF Kick
<1> QED
  BY <1>1, <1>2

LEMMA CountingKeeps ==
  ASSUME PendingInv, NEW k \in Counters, CountReview(k) \/ CountQuarantine(k) \/ CountFails(k)
  PROVE  PendingInv'
<1>1. counter[k] \in [step : Steps, counts : Counted] /\ changes \in Nat
  BY Typed
<1>2. changes' \in Nat /\ changes <= changes'
  BY <1>1 DEF CountReview, CountQuarantine, CountFails, Listed, Change
<1>3. CASE CountReview(k)
  <2>1. PICK n \in 0 .. MaxFiles :
          counter' = [counter EXCEPT ![k].step = "quarantine", ![k].counts.review = n]
    BY <1>3 DEF CountReview
  <2> DEFINE next == [counter[k] EXCEPT !.step = "quarantine", !.counts.review = n]
  <2>2. /\ next \in [step : Steps, counts : Counted]
        /\ next.step = "quarantine" /\ next.counts.asOf = counter[k].counts.asOf
    BY <1>1 DEF Steps, Counted
  <2>3. counter' = [counter EXCEPT ![k] = next]
    BY <2>1
  <2> HIDE DEF next
  <2>4. counter[k].step = "review"
    BY <1>3 DEF CountReview
  <2> QED
    BY <1>2, <1>3, <2>2, <2>3, <2>4, CountKeeps DEF CountReview
<1>4. CASE CountQuarantine(k)
  <2>1. PICK n \in 0 .. MaxFiles :
          counter' = [counter EXCEPT ![k].step = "store", ![k].counts.quarantine = n]
    BY <1>4 DEF CountQuarantine
  <2> DEFINE next == [counter[k] EXCEPT !.step = "store", !.counts.quarantine = n]
  <2>2. /\ next \in [step : Steps, counts : Counted]
        /\ next.step = "store" /\ next.counts.asOf = counter[k].counts.asOf
    BY <1>1 DEF Steps, Counted
  <2>3. counter' = [counter EXCEPT ![k] = next]
    BY <2>1
  <2> HIDE DEF next
  <2>4. counter[k].step = "quarantine"
    BY <1>4 DEF CountQuarantine
  <2> QED
    BY <1>2, <1>4, <2>2, <2>3, <2>4, CountKeeps DEF CountQuarantine
<1>5. CASE CountFails(k)
  <2> DEFINE next == [counter[k] EXCEPT !.step = "reset"]
  <2>1. next \in [step : Steps, counts : Counted] /\ next.step = "reset"
    BY <1>1 DEF Steps
  <2>2. counter' = [counter EXCEPT ![k] = next]
    BY <1>5 DEF CountFails
  <2> HIDE DEF next
  <2>3. counter[k].step # "none"
    BY <1>5 DEF CountFails
  <2> QED
    BY <1>2, <1>5, <2>1, <2>2, <2>3, CountKeeps DEF CountFails
<1> QED
  BY <1>3, <1>4, <1>5

\* What the only thread leaves is at least as new as what is shown or taken.
LEMMA StoreKeeps ==
  ASSUME PendingInv, NEW k \in Counters, Store(k)
  PROVE  PendingInv'
<1> DEFINE next == [counter[k] EXCEPT !.step = "reset"]
<1>1. counter \in [Counters -> [step : Steps, counts : Counted]]
  BY DEF PendingInv, PendingTypeOK
<1>2. next \in [step : Steps, counts : Counted] /\ next.step = "reset"
  BY <1>1 DEF Steps
<1>3. /\ counter[k].step = "store" /\ counter' = [counter EXCEPT ![k] = next]
      /\ latest' = counter[k].counts
      /\ UNCHANGED <<files, counting, poll, active, shown, changes>>
  BY DEF Store
<1> HIDE DEF next
<1>4. /\ counter'[k] = next /\ counter' \in [Counters -> [step : Steps, counts : Counted]]
      /\ \A m \in Counters : m # k => counter'[m] = counter[m]
  BY <1>1, <1>2, <1>3
<1>5. latest' \in Counted
  BY <1>1, <1>3
<1>6. PendingTypeOK'
  BY <1>3, <1>4, <1>5 DEF PendingInv, PendingTypeOK
<1>7. OneCounts'
  BY <1>2, <1>3, <1>4 DEF PendingInv, OneCounts
<1>8. \A m \in Counters : counter'[m].step \notin {"review", "quarantine", "store"}
  <2>1. \A m \in Counters : m # k => counter[m].step = "none"
    BY <1>3 DEF PendingInv, OneCounts
  <2> QED
    BY <1>2, <1>4, <2>1
<1>9. KnownBy(latest'.asOf) /\ latest'.asOf <= changes
  BY <1>3 DEF PendingInv, InOrder
<1>10. InOrder'
  BY <1>3, <1>8, <1>9 DEF PendingInv, InOrder, KnownBy
<1> QED
  BY <1>6, <1>7, <1>10 DEF PendingInv

LEMMA ResetKeeps ==
  ASSUME PendingInv, NEW k \in Counters, Reset(k)
  PROVE  PendingInv'
<1>1. counter \in [Counters -> [step : Steps, counts : Counted]]
  BY DEF PendingInv, PendingTypeOK
<1>2. Idle \in [step : Steps, counts : Counted] /\ Idle.step = "none"
  BY PendingAssumption DEF Idle, NoFiles, Steps, Counted
<1>3. /\ counter[k].step = "reset" /\ counter' = [counter EXCEPT ![k] = Idle]
      /\ counting' = FALSE
      /\ UNCHANGED <<files, latest, poll, active, shown, changes>>
  BY DEF Reset
<1>4. /\ counter'[k] = Idle /\ counter' \in [Counters -> [step : Steps, counts : Counted]]
      /\ \A m \in Counters : m # k => counter'[m] = counter[m]
  BY <1>1, <1>2, <1>3
<1>5. \A m \in Counters : counter'[m].step = "none"
  <2>1. \A m \in Counters : m # k => counter[m].step = "none"
    BY <1>3 DEF PendingInv, OneCounts
  <2> QED
    BY <1>2, <1>4, <2>1
<1>6. PendingTypeOK'
  BY <1>3, <1>4 DEF PendingInv, PendingTypeOK
<1>7. OneCounts'
  BY <1>5 DEF OneCounts
<1>8. InOrder'
  BY <1>3, <1>5 DEF PendingInv, InOrder, KnownBy
<1> QED
  BY <1>6, <1>7, <1>8 DEF PendingInv

LEMMA FilesKeep == PendingInv /\ (FilesChange \/ Suspend) => PendingInv'
<1> SUFFICES ASSUME PendingInv, FilesChange \/ Suspend PROVE PendingInv'
  OBVIOUS
<1>1. /\ files' \in Counts /\ active' \in BOOLEAN
      /\ changes' \in Nat /\ changes <= changes' /\ changes \in Nat
      /\ UNCHANGED <<counting, latest, counter, poll, shown>>
  <2>1. changes \in Nat /\ files \in Counts /\ active \in BOOLEAN
    BY DEF PendingInv, PendingTypeOK
  <2>2. CASE FilesChange
    BY <2>1, <2>2 DEF FilesChange, Change
  <2>3. CASE Suspend
    <3>1. active' = FALSE /\ UNCHANGED <<files, counting, latest, counter, poll, shown, changes>>
      BY <2>3 DEF Suspend
    <3>2. active' \in BOOLEAN
      BY <3>1
    <3>3. changes <= changes'
      BY <2>1, <3>1
    <3> QED
      BY <2>1, <3>1, <3>2, <3>3, Zenon
  <2> QED
    BY <2>2, <2>3
<1>2. PendingTypeOK'
  BY <1>1 DEF PendingInv, PendingTypeOK
<1>3. OneCounts'
  BY <1>1 DEF PendingInv, OneCounts
<1>4. InOrder'
  <2>1. KnownBy(changes)'
    BY <1>1, Typed DEF PendingInv, InOrder, KnownBy
  <2>2. ASSUME NEW k \in Counters, counter[k].step \in {"review", "quarantine", "store"}
        PROVE  KnownBy(counter[k].counts.asOf)' /\ (counter[k].counts.asOf <= changes)'
    <3>1. counter[k].counts.asOf \in Nat
      BY Typed DEF Counted
    <3> QED
      BY <1>1, <2>2, <3>1 DEF PendingInv, InOrder, KnownBy
  <2> QED
    BY <1>1, <2>1, <2>2 DEF PendingInv, InOrder
<1> QED
  BY <1>2, <1>3, <1>4 DEF PendingInv

LEMMA InvStep ==
  ASSUME PendingInv, [PendingNext]_pendingVars
  PROVE  PendingInv' /\ shown'.asOf >= shown.asOf
<1>1. CASE UNCHANGED pendingVars
  <2>1. PendingInv'
    BY <1>1 DEF pendingVars, PendingInv, PendingTypeOK, OneCounts, InOrder, KnownBy
  <2>2. shown' = shown
    BY <1>1 DEF pendingVars
  <2> QED
    BY <2>1, <2>2, Typed
<1>2. CASE Apply
  BY <1>2, ApplyKeeps
<1>3. CASE ~Apply /\ PendingNext
  <2>1. shown' = shown
    BY <1>3 DEF PendingNext, PollStep, CounterStep, Flush, Kick, CountReview, CountQuarantine, Store,
                CountFails, Reset, FilesChange, Suspend
  <2>2. PendingInv'
    BY <1>3, FlushKeeps, KickKeeps, CountingKeeps, StoreKeeps, ResetKeeps, FilesKeep
       DEF PendingNext, PollStep, CounterStep
  <2> QED
    BY <2>1, <2>2, Typed
<1> QED
  BY <1>1, <1>2, <1>3

(* The types of the counts and of the threads.                             *)
THEOREM TypeCorrect == PendingSpec => []PendingTypeOK
<1>1. PendingInv /\ [PendingNext]_pendingVars => PendingInv'
  BY InvStep
<1>2. PendingInv => PendingTypeOK
  BY DEF PendingInv
<1> QED
  BY <1>1, <1>2, InvInit, PTL DEF PendingSpec

(* One thread at most counts, although _counting is set by the interface,  *)
(* reset by the thread and protected by nothing (_kick_count, _count).     *)
THEOREM OneCountsCorrect == PendingSpec => []OneCounts
<1>1. PendingInv /\ [PendingNext]_pendingVars => PendingInv'
  BY InvStep
<1>2. PendingInv => OneCounts
  BY DEF PendingInv
<1> QED
  BY <1>1, <1>2, InvInit, PTL DEF PendingSpec

(* The banner never goes back to an older count, although what a thread    *)
(* leaves between the poll's read of _latest and its reset is lost         *)
(* (_flush), for any number of threads and of changes.                     *)
THEOREM NeverOlderCorrect == PendingSpec => NeverOlder
<1>1. PendingInv /\ [PendingNext]_pendingVars => PendingInv' /\ shown'.asOf >= shown.asOf
  BY InvStep
<1>2. PendingInv /\ [PendingNext]_pendingVars => [shown'.asOf >= shown.asOf]_pendingVars
  BY <1>1
<1> QED
  BY <1>1, <1>2, InvInit, PTL DEF PendingSpec, NeverOlder
=============================================================================
