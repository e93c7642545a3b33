------------------------------ MODULE Monitor ------------------------------
(***************************************************************************)
(* The window and the engine together.  The Tk thread runs one callback at *)
(* a time: a click, or a poll that drains the engine's events.  It never   *)
(* waits for the engine: it starts a thread for start or stop, disables    *)
(* the toggle, and learns the outcome from an event, which it may see long *)
(* after is_running changed.                                               *)
(***************************************************************************)
EXTENDS Lifecycle

CONSTANTS
    Clicks,          \* what the user does besides the toggle
    Closer,          \* the thread of on_close; the other callers serve the other clicks
    CloseMayTimeOut, \* whether _await_close may reach its limit
    QueryMayFail     \* whether the ledger may refuse what update_actions asks it

ASSUME ClicksAssumption ==
    /\ Clicks \subseteq {"save", "retry", "undo", "clear", "close"}
    /\ Closer \in Callers
    /\ {CloseMayTimeOut, QueryMayFail} \subseteq BOOLEAN

VARIABLES
    uiGeneration,  \* EngineBridge._generation
    shown,         \* what set_running showed last: TRUE for running
    enabled,       \* the toggle takes clicks
    restart,       \* SettingsForm._restart_after_save
    retry,         \* HistoryActions._retry_when_started
    wanted,        \* history: a saved configuration waits for its restart, and nothing went wrong yet
    missed,        \* history: the retry was forgotten by a STARTED whose handling failed
    draining,      \* poll_events is at work
    undoing,       \* undo_last is at work
    asking,        \* clear_history waits for the answer to its question
    excused,       \* history: a start was to be expected when either of them tested is_running
    window,        \* "open", "closing" or "closed"
    stores,        \* the SQLite stores are open
    hurried        \* history: a start was to be expected when they were closed

bridge == <<uiGeneration, shown, enabled>>
flags == <<restart, retry, wanted, missed>>
closing == <<window, stores, hurried>>
tk == <<draining, undoing, asking, excused, closing>>
ui == <<bridge, flags, tk>>
monitorVars == <<vars, ui>>

MonitorInit ==
    /\ Init
    /\ uiGeneration = 0
    /\ shown = FALSE /\ enabled = TRUE
    /\ restart = FALSE /\ retry = FALSE /\ wanted = FALSE /\ missed = FALSE
    /\ draining = FALSE /\ undoing = FALSE /\ asking = FALSE /\ excused = FALSE
    /\ window = "open"
    /\ stores = TRUE /\ hurried = FALSE

\* The Tk thread can run a timer: it is in no callback, or in one whose message box has an
\* event loop of its own.  A click needs that there is no box.
Ticks == ~draining /\ ~undoing /\ window # "closed"
TkFree == Ticks /\ ~asking

Unloaded == UNCHANGED <<starting, lock, generation, refs, signals, alive, unreadable, announced>>

\* run_async, on a thread that is not busy (the bound on calls under way).
Async(point) == \E c \in Callers \ {Closer} :
    IF point = "claim" THEN CallStart(c) ELSE CallStop(c)

\* EngineBridge.start and stop: the toggle is disabled until an event says what happened.
\* A start may be refused with a message box (there is no ledger, the form is not valid or
\* cannot be saved), and then the toggle stays as it is.
BridgeStart ==
    /\ Async("claim")
    /\ enabled' = FALSE
StartRefused == UNCHANGED <<cpc, enabled>>
BridgeStop ==
    /\ Async("stop")
    /\ enabled' = FALSE

-----------------------------------------------------------------------------
(* What the user does.                                                     *)

\* The bounds: few events wait, and n more launches fit.
Room == Len(events) < MaxEvents
RoomFor(n) == generation + Cardinality(Starters) + n <= MaxGenerations
Waiting == IF restart THEN 1 ELSE 0   \* launches that an event will ask for

\* EngineBridge.toggle asks the engine, not the label.
ClickToggle ==
    /\ TkFree /\ enabled /\ Room
    /\ IF IsRunning
       THEN BridgeStop /\ wanted' = FALSE
       ELSE (BridgeStart \/ StartRefused) /\ RoomFor(1 + Waiting) /\ UNCHANGED wanted
    /\ UNCHANGED <<engine, uiGeneration, shown, restart, retry, missed, tk>>

\* SettingsForm.save_config while the monitor runs: stop now, start on STOPPED.  The file is
\* written after that, and a box tells if it cannot be.
ClickSave ==
    /\ "save" \in Clicks /\ TkFree /\ Room /\ RoomFor(1)
    /\ IsRunning
    /\ BridgeStop
    /\ restart' = TRUE /\ wanted' \in {wanted, TRUE}
    /\ UNCHANGED <<engine, uiGeneration, shown, retry, missed, tk>>

\* HistoryActions.reprocess_pending while the monitor is stopped: save, then set the flag that
\* requeues on STARTED, then start, which may be refused for all that; if the save fails
\* nothing is done.  (While the monitor runs the requeue is Inbox's.)
ClickRetry ==
    /\ "retry" \in Clicks /\ TkFree /\ Room /\ RoomFor(1 + Waiting)
    /\ ~IsRunning
    /\ BridgeStart \/ StartRefused
    /\ retry' = TRUE /\ missed' = FALSE
    /\ UNCHANGED <<engine, uiGeneration, shown, restart, wanted, tk>>

\* A start is under way whose worker is_running does not know yet.
Launching == \E c \in Callers : cpc[c] \in {"claim"} \union LaunchPoints

\* Mutant: undo_last does not ask whether the engine runs.
UndoUntested ==
    /\ "undo" \in Clicks /\ TkFree
    /\ undoing' = TRUE /\ excused' = Launching
    /\ UNCHANGED <<vars, bridge, flags, draining, asking, closing>>

\* HistoryActions.undo_last: the test of is_running, then the file moves; the Tk
\* thread is busy meanwhile and the engine's threads are not.
ClickUndo ==
    /\ "undo" \in Clicks /\ TkFree
    /\ ~IsRunning
    /\ undoing' = TRUE /\ excused' = Launching
    /\ UNCHANGED <<vars, bridge, flags, draining, asking, closing>>

EndUndo ==
    /\ undoing
    /\ undoing' = FALSE /\ excused' = FALSE
    /\ UNCHANGED <<vars, bridge, flags, draining, asking, closing>>

\* HistoryActions.clear_history: the test comes before the question, and while the box is
\* open the poll goes on, which may start the engine for a saved configuration.
ClickClear ==
    /\ "clear" \in Clicks /\ TkFree
    /\ ~IsRunning
    /\ asking' = TRUE /\ excused' = (Launching \/ restart)
    /\ UNCHANGED <<vars, bridge, flags, draining, undoing, closing>>

\* The answer; if it is yes the ledger is cleared in this step.
AnswerClear ==
    /\ asking /\ ~draining
    /\ asking' = FALSE /\ excused' = FALSE
    /\ UNCHANGED <<vars, bridge, flags, draining, undoing, closing>>

\* MainWindow.on_close: no more polls, and the engine is told to stop.
ClickClose ==
    /\ "close" \in Clicks /\ TkFree
    /\ window = "open"
    /\ CallStop(Closer)
    /\ window' = "closing"
    /\ UNCHANGED <<engine, bridge, flags, draining, undoing, asking, excused, stores, hurried>>

\* Mutant: the window does not wait for the engine.
CloseAtOnce ==
    /\ Ticks
    /\ window = "closing"
    /\ stores' = FALSE /\ hurried' = Launching
    /\ window' = "closed"
    /\ UNCHANGED <<vars, bridge, flags, draining, undoing, asking, excused>>

\* _await_close and _finish_close: the stores are closed if is_running says no, though a start
\* may be under way; at the limit the window goes and the stores stay open.
FinishClose ==
    /\ Ticks
    /\ window = "closing"
    /\ ~IsRunning \/ CloseMayTimeOut
    /\ stores' = IsRunning /\ hurried' = (Launching /\ ~IsRunning)
    /\ window' = "closed"
    /\ UNCHANGED <<vars, bridge, flags, draining, undoing, asking, excused>>

-----------------------------------------------------------------------------
(* The poll.                                                               *)

Poll ==
    /\ Ticks /\ window = "open"
    /\ events # <<>>
    /\ draining' = TRUE
    /\ UNCHANGED <<vars, bridge, flags, undoing, asking, excused, closing>>

EndPoll ==
    /\ draining
    /\ events = <<>>
    /\ draining' = FALSE
    /\ UNCHANGED <<vars, bridge, flags, undoing, asking, excused, closing>>

Take == draining /\ events # <<>> /\ events' = Tail(events) /\ Unloaded
Received == Head(events)

\* set_running: the toggle first, then the buttons of the history, for which the ledger is
\* read; if that fails, the rest of the handler is lost and the exception only logged.
SetRunning(running) == shown' = running /\ enabled' = TRUE

\* Mutant: on_started leaves the flag of the retry.
StartedKeepsRetry ==
    /\ Take /\ Received.type = "started"
    /\ uiGeneration' = Received.generation
    /\ SetRunning(TRUE)
    /\ wanted' = FALSE
    /\ UNCHANGED <<cpc, restart, retry, missed, tk>>

\* STARTED always applies, and on_started serves the retry that waits for it.
HandleStarted ==
    /\ Take /\ Received.type = "started"
    /\ uiGeneration' = Received.generation
    /\ SetRunning(TRUE)
    /\ wanted' = FALSE
    /\ \/ retry' = FALSE /\ missed' = FALSE
       \/ QueryMayFail /\ missed' = retry /\ UNCHANGED retry
    /\ UNCHANGED <<cpc, restart, tk>>

\* An event of another generation is dropped; 0 stands for none.
Stale(event) == event.generation # 0 /\ event.generation # uiGeneration

HandleStale ==
    /\ Take /\ Received.type # "started" /\ Stale(Received)
    /\ UNCHANGED <<cpc, ui>>

\* Mutant: the flag is looked at and the start forgotten.
StoppedWithoutRestart ==
    /\ Take /\ Received.type = "stopped" /\ ~Stale(Received)
    /\ SetRunning(FALSE)
    /\ restart' = FALSE
    /\ UNCHANGED <<cpc, uiGeneration, retry, wanted, missed, tk>>

\* STOPPED: idle, then the start a save asked for, unless it is refused, of which a box tells,
\* or the reading of the ledger failed before.
HandleStopped ==
    /\ Take /\ Received.type = "stopped" /\ ~Stale(Received)
    /\ \/ restart /\ restart' = FALSE /\ BridgeStart /\ shown' = FALSE /\ UNCHANGED wanted
       \/ restart /\ restart' = FALSE /\ SetRunning(FALSE) /\ wanted' = FALSE /\ UNCHANGED cpc
       \/ ~restart /\ SetRunning(FALSE) /\ UNCHANGED <<restart, wanted, cpc>>
       \/ QueryMayFail /\ SetRunning(FALSE) /\ wanted' = FALSE /\ UNCHANGED <<restart, cpc>>
    /\ UNCHANGED <<uiGeneration, retry, missed, tk>>

HandleDetected ==
    /\ Take /\ Received.type = "detected" /\ ~Stale(Received)
    /\ UNCHANGED <<cpc, ui>>

\* Mutant: the toggle is left as it is.
ErrorWithoutToggle ==
    /\ Take /\ Received.type = "error" /\ ~Stale(Received)
    /\ restart' = FALSE /\ wanted' = FALSE
    /\ UNCHANGED <<cpc, bridge, retry, missed, tk>>

\* _on_error without a path: the restart is forgotten, and the toggle shows what
\* the engine says at this moment.
HandleError ==
    /\ Take /\ Received.type = "error" /\ ~Stale(Received)
    /\ restart' = FALSE /\ wanted' = FALSE
    /\ SetRunning(IsRunning)
    /\ UNCHANGED <<cpc, uiGeneration, retry, missed, tk>>

Handle == HandleStarted \/ HandleStale \/ HandleStopped \/ HandleDetected \/ HandleError

-----------------------------------------------------------------------------
User ==
    \/ ClickToggle \/ ClickSave \/ ClickRetry \/ ClickUndo \/ EndUndo \/ ClickClear \/ AnswerClear
    \/ ClickClose \/ FinishClose
Ui == Poll \/ Handle \/ EndPoll
Engine(c) == (Start(c) \/ Stop(c)) /\ UNCHANGED ui

MonitorNext ==
    \/ User
    \/ Ui
    \/ \E c \in Callers : Engine(c)
    \/ Threads /\ UNCHANGED ui

MonitorSpec == MonitorInit /\ [][MonitorNext]_monitorVars

\* The calls and the engine's threads go on, Tk comes to the due timer of the poll
\* between the user's clicks, and a callback ends.  The user owes nothing.
MonitorFairness ==
    /\ \A c \in Callers :
          /\ WF_monitorVars(Engine(c))
          /\ SF_monitorVars((LockForStart(c) \/ LockForStop(c)) /\ UNCHANGED ui)
    /\ \A g \in Generations :
          WF_monitorVars(WorkerEnds(g) /\ UNCHANGED ui) /\ WF_monitorVars(RescannerEnds(g) /\ UNCHANGED ui)
    /\ SF_monitorVars(Poll)
    /\ WF_monitorVars(Handle) /\ WF_monitorVars(EndPoll)
    /\ WF_monitorVars(EndUndo)

MonitorFairSpec == MonitorSpec /\ MonitorFairness

-----------------------------------------------------------------------------
(* Properties.                                                             *)

\* No call is under way, no event waits and the user could click.
Settled ==
    /\ window = "open" /\ TkFree
    /\ events = <<>>
    /\ \A c \in Callers : cpc[c] = "idle"

\* What the monitor shows when everything has settled is true, and the toggle can be
\* clicked: every start and every stop is answered by an event that brings it back.
ToggleSettles == Settled => enabled /\ shown = IsRunning

\* The toggle comes back, however slowly the engine answers, unless the window closes.
ToggleReturns == ~enabled ~> enabled \/ window # "open"

\* Nobody waits beside a monitor that could serve him.  Once everything has settled, a
\* configuration saved while the monitor ran is running, unless the user stopped it or an error
\* was shown or logged; and while the monitor runs no retry waits for STARTED any more, unless
\* the handling of that STARTED failed.
NothingWaits == Settled => (wanted => IsRunning) /\ (retry /\ IsRunning => missed)

\* An undo and the question before the history is cleared meet a live worker only if a start
\* was to be expected when they tested is_running: a launch was under way or, as the question
\* lets events through, a saved configuration waited for its restart.  No thread that a stop
\* left behind, and no start that came later, ever works beside them.
MeetsOnlyAStart == (undoing \/ asking) /\ workers # {} => excused

\* No worker or rescanner outlives the stores, though the join of a stop may time out, unless
\* a start that is_running did not show yet was under way when they were closed.
StoresOutliveThreads == ~stores /\ workers \union rescanners # {} => hurried

-----------------------------------------------------------------------------
(* Promises of the documentation that the code does not keep (README, 3).  *)

\* The toggle, if it can be clicked when everything has settled, tells the truth.
ToggleNeverLies == Settled /\ enabled => shown = IsRunning

\* A retry the user asked for never waits for a start that may come much later.
RetryServedAtOnce == Settled => ~retry

\* No worker lives without its stores.
NoWorkerWithoutStores == ~stores => workers = {}

\* A file goes back to the input folder only while no worker can take it.
UndoAlone == undoing => workers = {}

\* The history is cleared only while the monitor is stopped ("Deten el monitor antes de
\* vaciar el historial"); the answer may come in any state in which the question is open.
ClearAlone == asking => workers = {}
=============================================================================
