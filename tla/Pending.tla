------------------------------- MODULE Pending -------------------------------
(***************************************************************************)
(* PendingController: how many PDFs wait for the user.  Every five seconds *)
(* the interface shows the counts a thread has left in _latest and starts  *)
(* a thread for the next ones, unless one still counts.  No lock protects  *)
(* _latest and _counting.  The pipeline, a retry and the user add, remove  *)
(* and move the files meanwhile.                                           *)
(***************************************************************************)
EXTENDS Naturals

CONSTANTS
    Counters,   \* threads that may count, as names
    None,       \* no counts
    MaxFiles,   \* bound: PDFs in one folder
    MaxChanges  \* bound: changes of the folders, and reads that fail

Counts == [review : 0 .. MaxFiles, quarantine : 0 .. MaxFiles]
Total(counts) == counts.review + counts.quarantine

\* The counts a thread leaves.  asOf is history: how many changes there were when it began.
Counted == [review : 0 .. MaxFiles, quarantine : 0 .. MaxFiles, asOf : Nat]

ASSUME PendingAssumption == None \notin Counted /\ MaxFiles \in Nat /\ MaxChanges \in Nat

VARIABLES
    files,     \* the PDFs in _PARA_REVISAR and _ERRORES
    counting,  \* _counting
    latest,    \* _latest
    counter,   \* per thread: its next step and what it has counted
    poll,      \* the poll: its next step and the counts it took
    active,    \* _active
    shown,     \* what the banner shows
    last,      \* _last
    changes,   \* history: for MaxChanges
    peak,      \* history: the most PDFs that ever waited
    announced  \* history: the highest number a notification gave

pendingVars ==
    <<files, counting, latest, counter, poll, active, shown, last, changes, peak, announced>>

\* Nothing counted yet.
NoFiles == [review |-> 0, quarantine |-> 0, asOf |-> 0]
Idle == [step |-> "none", counts |-> NoFiles]

PendingInit ==
    /\ files \in Counts
    /\ counting = FALSE /\ latest = None
    /\ counter = [k \in Counters |-> Idle]
    /\ poll = [step |-> "flush", took |-> None]
    /\ active = TRUE
    /\ shown = NoFiles /\ last = 0
    /\ changes = 0 /\ peak = Total(files) /\ announced = 0

-----------------------------------------------------------------------------
(* The interface.                                                          *)

\* _flush, first half: the read of _latest.
Flush ==
    /\ active /\ poll.step = "flush"
    /\ poll' = [step |-> IF latest = None THEN "kick" ELSE "apply", took |-> latest]
    /\ UNCHANGED <<files, counting, latest, counter, active, shown, last, changes, peak, announced>>

\* ... second half: _latest cleared and the counts applied.
Apply ==
    /\ poll.step = "apply"
    /\ latest' = None
    /\ shown' = poll.took
    /\ last' = Total(poll.took)
    /\ \E notify \in BOOLEAN :
          announced' = IF notify /\ last' > last /\ last' > announced THEN last' ELSE announced
    /\ poll' = [step |-> "kick", took |-> None]
    /\ UNCHANGED <<files, counting, counter, active, changes, peak>>

\* A thread that may be used again.
Start(k) ==
    /\ counter[k] = Idle
    /\ counter' = [counter EXCEPT ![k] = [step |-> "review", counts |-> [NoFiles EXCEPT !.asOf = changes]]]

Polled == poll' = [step |-> "flush", took |-> None]

\* Mutant: a thread is started while another one counts.
KickAlways ==
    /\ poll.step = "kick"
    /\ IF \E k \in Counters : counter[k] = Idle
       THEN counting' = TRUE /\ \E k \in Counters : Start(k)
       ELSE UNCHANGED <<counting, counter>>
    /\ Polled
    /\ UNCHANGED <<files, latest, active, shown, last, changes, peak, announced>>

\* _kick_count, and the wait for the next poll.
Kick ==
    /\ poll.step = "kick"
    /\ IF counting THEN UNCHANGED <<counting, counter>>
       ELSE counting' = TRUE /\ \E k \in Counters : Start(k)
    /\ Polled
    /\ UNCHANGED <<files, latest, active, shown, last, changes, peak, announced>>

\* suspend, between two callbacks of the interface.
Suspend ==
    /\ active /\ poll.step = "flush"
    /\ active' = FALSE
    /\ UNCHANGED <<files, counting, latest, counter, poll, shown, last, changes, peak, announced>>

-----------------------------------------------------------------------------
(* The thread.                                                             *)

Change == changes < MaxChanges /\ changes' = changes + 1

\* A folder that cannot be listed counts as empty.
Listed(folder, n) ==
    \/ n = files[folder] /\ UNCHANGED changes
    \/ n = 0 /\ Change

CountReview(k) ==
    /\ counter[k].step = "review"
    /\ \E n \in 0 .. MaxFiles :
          /\ Listed("review", n)
          /\ counter' = [counter EXCEPT ![k].step = "quarantine", ![k].counts.review = n]
    /\ UNCHANGED <<files, counting, latest, poll, active, shown, last, peak, announced>>

CountQuarantine(k) ==
    /\ counter[k].step = "quarantine"
    /\ \E n \in 0 .. MaxFiles :
          /\ Listed("quarantine", n)
          /\ counter' = [counter EXCEPT ![k].step = "store", ![k].counts.quarantine = n]
    /\ UNCHANGED <<files, counting, latest, poll, active, shown, last, peak, announced>>

Store(k) ==
    /\ counter[k].step = "store"
    /\ latest' = counter[k].counts
    /\ counter' = [counter EXCEPT ![k].step = "reset"]
    /\ UNCHANGED <<files, counting, poll, active, shown, last, changes, peak, announced>>

\* Mutant: there is no finally.
CountDies(k) ==
    /\ counter[k].step \in {"review", "quarantine"}
    /\ Change
    /\ counter' = [counter EXCEPT ![k] = Idle]
    /\ UNCHANGED <<files, counting, latest, poll, active, shown, last, peak, announced>>

\* Anything but an OSError ends the count.
CountFails(k) ==
    /\ counter[k].step \in {"review", "quarantine"}
    /\ Change
    /\ counter' = [counter EXCEPT ![k].step = "reset"]
    /\ UNCHANGED <<files, counting, latest, poll, active, shown, last, peak, announced>>

\* The finally of _count.
Reset(k) ==
    /\ counter[k].step = "reset"
    /\ counting' = FALSE
    /\ counter' = [counter EXCEPT ![k] = Idle]
    /\ UNCHANGED <<files, latest, poll, active, shown, last, changes, peak, announced>>

-----------------------------------------------------------------------------
\* A file arrives, is taken out, or a retry moves it from one folder to the other.
FilesChange ==
    /\ Change
    /\ files' \in Counts /\ files' # files
    /\ Total(files') <= Total(files) + 1 /\ Total(files) <= Total(files') + 1
    /\ peak' = IF Total(files') > peak THEN Total(files') ELSE peak
    /\ UNCHANGED <<counting, latest, counter, poll, active, shown, last, announced>>

PollStep == Flush \/ Apply \/ Kick
CounterStep(k) ==
    CountReview(k) \/ CountQuarantine(k) \/ Store(k) \/ CountFails(k) \/ Reset(k)

PendingNext == PollStep \/ (\E k \in Counters : CounterStep(k)) \/ FilesChange \/ Suspend

PendingSpec == PendingInit /\ [][PendingNext]_pendingVars

\* The poll comes round every five seconds; a thread runs, and what ends a count is rare.
PendingFairSpec ==
    /\ PendingSpec
    /\ WF_pendingVars(PollStep)
    /\ \A k \in Counters : WF_pendingVars(CounterStep(k))

-----------------------------------------------------------------------------
(* Properties.                                                             *)

\* The banner never goes back to a count that began earlier than the one it shows.
NeverOlder == [][shown'.asOf >= shown.asOf]_pendingVars

\* Once the folders stay as they are the banner comes to show them, unless the window is
\* closing: a failed, a slow or a lost count never ends the counting.
CountSettles ==
    <>[](active => shown.review = files.review /\ shown.quarantine = files.quarantine)

-----------------------------------------------------------------------------
(* Promises of the documentation that the code does not keep (README, 3).  *)

\* What a thread leaves in _latest is shown by the next poll.
NoCountLost == [][latest # None /\ latest' = None => shown' = latest]_pendingVars

\* A notification that more PDFs wait never gives more than have ever waited.
AnnouncedIsReal == announced <= peak
=============================================================================
