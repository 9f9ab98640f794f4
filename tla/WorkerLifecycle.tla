--------------------------- MODULE WorkerLifecycle ---------------------------
(***************************************************************************)
(* The life of background work in a tool window: the Worker thread of       *)
(* tools/worker.py and the close protocol of tools/base_tool.py.            *)
(*                                                                         *)
(* Two kinds of thread run concurrently.  A worker thread executes          *)
(* Worker.run(): check for cancellation, run the task, check again, emit    *)
(* exactly one of cancelled / error / result, and end.  Its signals are     *)
(* queued to the GUI thread, which executes one slot, timer or user event   *)
(* at a time, except that closeEvent blocks it in QThread.wait().           *)
(*                                                                         *)
(* A window keeps its work in slots (`self.worker', `self._vt_worker').  A  *)
(* modern window starts a Worker with start_managed_worker and re-enables   *)
(* its buttons from QThread.finished.  A legacy window (disk analyzer,      *)
(* system report, event viewer) starts a QThread of its own, whose run()    *)
(* checks nothing, only stores it in its attribute, and re-enables its      *)
(* button from the slot of the result, before the thread has ended.  The    *)
(* worker of the disk analyzer names the signal of its result `finished',   *)
(* so that what BaseTool connects to QThread.finished follows the result.   *)
(***************************************************************************)
EXTENDS Naturals, Sequences, FiniteSets

CONSTANTS
    Workers,     \* the Worker objects that may be created
    Slots,       \* the attributes of the window that hold a worker
    SlotOf,      \* the attribute each worker is stored in
    Legacy,      \* the slots that are started without start_managed_worker
    Stoppable,   \* the slots whose work has a Stop button
    Shadowing,   \* legacy workers whose `finished' is the signal of their result
    Endless,     \* workers whose task ends only when cancelled (or by an error)
    MaxStarts,   \* bound: workers started in the life of the window
    Deaf,        \* workers whose task never looks at the cancellation event
    NoWorker     \* the attribute is None

ASSUME LifecycleAssumption ==
    /\ SlotOf \in [Workers -> Slots]
    /\ Legacy \subseteq Slots
    /\ Shadowing \subseteq {w \in Workers : SlotOf[w] \in Legacy}
    /\ Endless \subseteq Workers
    /\ Deaf \subseteq Workers
    /\ Endless \cap (Deaf \cup {w \in Workers : SlotOf[w] \in Legacy}) = {}
    /\ NoWorker \notin Workers
    /\ IsFiniteSet(Workers)

VARIABLES
    pc,             \* where each worker's run() is
    cancelEvent,    \* the workers whose _cancel_event is set
    outcome,        \* the signal each run() emitted
    attr,           \* the worker each attribute of the window holds
    busy,           \* the slots whose start button is disabled
    managed,        \* _managed_workers
    queue,          \* the signals queued to the GUI thread
    closeFlag,      \* _close_when_workers_finish
    pollScheduled,  \* _deferred_close_poll_scheduled
    timers,         \* armed single-shot timers of the deferred close
    gui,            \* "loop": the event loop; "wait": inside closeEvent's wait
    window,         \* "open" | "closed"
    doomed,         \* history: cancel() came before run()'s last check
    late            \* history: started while a close was deferred

threadVars == <<pc, cancelEvent, outcome>>
slotVars == <<attr, busy, managed>>
closeVars == <<closeFlag, pollScheduled, timers, gui, window>>
history == <<doomed, late>>
vars == <<threadVars, slotVars, queue, closeVars, history>>

\* A Worker of tools/worker.py, as opposed to the QThread of a legacy window.
Modern(w) == SlotOf[w] \notin Legacy

Signals == {"result", "error", "cancelled"}
Message == [kind : Signals \cup {"finished"}, worker : Workers]
Signal(kind, w) == [kind |-> kind, worker |-> w]

Started == {"enter", "task", "recheck", "exit"}
isRunning(w) == pc[w] \in Started
Running == {w \in Workers : isRunning(w)}

\* The workers closeEvent finds: those registered and those held by the window.
discoverActiveWorkers ==
    {w \in managed \cup {attr[s] : s \in Slots} : w # NoWorker /\ isRunning(w)}

Init ==
    /\ pc = [w \in Workers |-> "unborn"]
    /\ cancelEvent = {}
    /\ outcome = [w \in Workers |-> "none"]
    /\ attr = [s \in Slots |-> NoWorker]
    /\ busy = {}
    /\ managed = {}
    /\ queue = <<>>
    /\ closeFlag = FALSE
    /\ pollScheduled = FALSE
    /\ timers = 0
    /\ gui = "loop"
    /\ window = "open"
    /\ doomed = {}
    /\ late = {}

-----------------------------------------------------------------------------
(* Worker.run, on the worker's own thread. *)

\* Emit one signal and leave the try statement.
Emit(kind, w) ==
    /\ outcome' = [outcome EXCEPT ![w] = kind]
    /\ queue' = LET told == Append(queue, Signal(kind, w))
                IN  IF kind = "result" /\ w \in Shadowing \cap managed
                    THEN Append(told, Signal("finished", w)) ELSE told
    /\ pc' = [pc EXCEPT ![w] = "exit"]

\* The check before the task: a worker cancelled before it ran does no work.
RunEnter(w) ==
    /\ pc[w] = "enter"
    /\ IF w \in cancelEvent /\ Modern(w)
       THEN Emit("cancelled", w)
       ELSE pc' = [pc EXCEPT ![w] = "task"] /\ UNCHANGED <<outcome, queue>>
    /\ UNCHANGED <<cancelEvent, slotVars, closeVars, history>>

\* The task returns a value.
TaskReturn(w) ==
    /\ pc[w] = "task"
    /\ w \notin Endless
    /\ pc' = [pc EXCEPT ![w] = "recheck"]
    /\ UNCHANGED <<cancelEvent, outcome, slotVars, queue, closeVars, history>>

\* check_cancelled or report_progress inside the task raises WorkerCancelled.
TaskCancelled(w) ==
    /\ pc[w] = "task"
    /\ w \in cancelEvent \ Deaf
    /\ Modern(w)
    /\ Emit("cancelled", w)
    /\ UNCHANGED <<cancelEvent, slotVars, closeVars, history>>

\* The task raises any other exception.
TaskError(w) ==
    /\ pc[w] = "task"
    /\ Emit("error", w)
    /\ UNCHANGED <<cancelEvent, slotVars, closeVars, history>>

\* Mutant: no check after the task.
RunCommit_Unchecked(w) ==
    /\ pc[w] = "recheck"
    /\ Emit("result", w)
    /\ UNCHANGED <<cancelEvent, slotVars, closeVars, history>>

\* The check after the task: a result that comes after the cancellation is dropped.
RunCommit(w) ==
    /\ pc[w] = "recheck"
    /\ Emit(IF w \in cancelEvent /\ Modern(w) THEN "cancelled" ELSE "result", w)
    /\ UNCHANGED <<cancelEvent, slotVars, closeVars, history>>

\* run() returns: isRunning() turns false at once, while QThread.finished
\* reaches whoever is connected to it only through the event queue.
RunExit(w) ==
    /\ pc[w] = "exit"
    /\ pc' = [pc EXCEPT ![w] = "done"]
    /\ queue' = IF w \in managed \ Shadowing THEN Append(queue, Signal("finished", w)) ELSE queue
    /\ UNCHANGED <<cancelEvent, outcome, slotVars, closeVars, history>>

-----------------------------------------------------------------------------
(* The GUI thread. *)

Open == window = "open" /\ gui = "loop"

\* Mutant: a window that is gone still starts work.
StartWorker_Anytime(w) ==
    /\ gui = "loop"
    /\ pc[w] = "unborn"
    /\ pc' = [pc EXCEPT ![w] = "enter"]
    /\ attr' = [attr EXCEPT ![SlotOf[w]] = w]
    /\ busy' = busy \cup {SlotOf[w]}
    /\ late' = IF closeFlag THEN late \cup {w} ELSE late
    /\ UNCHANGED <<cancelEvent, outcome, queue, closeVars, doomed>>

\* What every start does: the window stores the worker and disables its buttons.
StartWorker(w) ==
    /\ Open /\ Cardinality({v \in Workers : pc[v] # "unborn"}) < MaxStarts
    /\ pc[w] = "unborn"
    /\ pc' = [pc EXCEPT ![w] = "enter"]
    /\ attr' = [attr EXCEPT ![SlotOf[w]] = w]
    /\ busy' = busy \cup {SlotOf[w]}
    /\ late' = IF closeFlag THEN late \cup {w} ELSE late
    /\ UNCHANGED <<cancelEvent, outcome, queue, closeVars, doomed>>

\* Mutant: registers the attribute before it holds the new worker.
start_managed_worker_Previous(w) ==
    LET s == SlotOf[w] IN
    /\ s \notin Legacy \cup busy
    /\ attr[s] \notin Running
    /\ StartWorker(w)
    /\ managed' = managed \cup {attr[s]}

\* A modern window: the button is enabled, the previous worker is checked, and
\* the new one is registered before it starts.
start_managed_worker(w) ==
    LET s == SlotOf[w] IN
    /\ s \notin Legacy \cup busy
    /\ attr[s] \notin Running
    /\ StartWorker(w)
    /\ managed' = managed \cup {w}

\* A legacy window: only the button says that no work is running.
start_legacy_worker(w) ==
    /\ SlotOf[w] \in Legacy \ busy
    /\ StartWorker(w)
    /\ UNCHANGED managed

Cancel(ws) ==
    /\ cancelEvent' = cancelEvent \cup ws
    /\ doomed' = doomed \cup {w \in ws : pc[w] \in {"enter", "task", "recheck"}}

\* The Stop button of a window.
stop_worker(w) ==
    /\ Open /\ SlotOf[w] \in Stoppable
    /\ attr[SlotOf[w]] = w
    /\ isRunning(w)
    /\ Cancel({w})
    /\ UNCHANGED <<pc, outcome, slotVars, queue, closeVars, late>>

schedule_deferred_close_poll ==
    /\ pollScheduled' = TRUE
    /\ timers' = IF pollScheduled THEN timers ELSE timers + 1

\* Mutant: the worker is forgotten when its outcome arrives, not when it ends.
DeliverOutcome_Forgets ==
    /\ gui = "loop"
    /\ queue # <<>>
    /\ Head(queue).kind \in Signals
    /\ queue' = Tail(queue)
    /\ attr' = [attr EXCEPT ![SlotOf[Head(queue).worker]] = NoWorker]
    /\ managed' = managed \ {Head(queue).worker}
    /\ UNCHANGED <<threadVars, busy, closeVars, history>>

\* The slot of result, error or cancelled.
DeliverOutcome ==
    /\ gui = "loop"
    /\ queue # <<>>
    /\ Head(queue).kind \in Signals
    /\ queue' = Tail(queue)
    /\ busy' = busy \ (Legacy \cap {SlotOf[Head(queue).worker]})
    /\ UNCHANGED <<threadVars, attr, managed, closeVars, history>>

\* The slots of QThread.finished: the window's own, which forgets the worker
\* and enables the buttons, and BaseTool's.
DeliverFinished ==
    LET w == Head(queue).worker
        s == SlotOf[w]
    IN
    /\ gui = "loop"
    /\ queue # <<>>
    /\ Head(queue).kind = "finished"
    /\ queue' = Tail(queue)
    /\ managed' = managed \ {w}
    /\ IF s \in Legacy
       THEN UNCHANGED <<attr, busy>>
       ELSE /\ attr' = [attr EXCEPT ![s] = NoWorker]
            /\ busy' = busy \ {s}
    /\ IF closeFlag
       THEN schedule_deferred_close_poll
       ELSE UNCHANGED <<pollScheduled, timers>>
    /\ UNCHANGED <<threadVars, closeFlag, gui, window, history>>

AcceptClose ==
    /\ closeFlag' = FALSE
    /\ window' = "closed"

\* Mutant: waits for the active workers without cancelling them.
EnterCloseEvent_NoCancel ==
    IF discoverActiveWorkers = {}
    THEN /\ AcceptClose
         /\ UNCHANGED <<cancelEvent, managed, gui, doomed>>
    ELSE /\ closeFlag' = TRUE
         /\ managed' = managed \cup discoverActiveWorkers
         /\ gui' = "wait"
         /\ UNCHANGED <<cancelEvent, doomed, window>>

\* closeEvent up to its wait: accept when nothing runs, else remember the
\* request, register and cancel everything that runs, and wait.
EnterCloseEvent ==
    IF discoverActiveWorkers = {}
    THEN /\ AcceptClose
         /\ UNCHANGED <<cancelEvent, managed, gui, doomed>>
    ELSE /\ closeFlag' = TRUE
         /\ managed' = managed \cup discoverActiveWorkers
         /\ Cancel(discoverActiveWorkers)
         /\ gui' = "wait"
         /\ UNCHANGED window

\* The user closes the window.
closeEvent ==
    /\ Open
    /\ EnterCloseEvent
    /\ UNCHANGED <<pc, outcome, attr, busy, queue, pollScheduled, timers, late>>

\* Mutant: accepts when the deadline passes, without looking again.
closeEventAfterWait_NoRecheck ==
    /\ gui = "wait"
    /\ gui' = "loop"
    /\ AcceptClose
    /\ UNCHANGED <<threadVars, slotVars, queue, pollScheduled, timers, history>>

\* The wait ends, because every worker ended or because the shared deadline
\* passed: look again, and either accept or ignore the event and poll.
closeEventAfterWait ==
    /\ gui = "wait"
    /\ gui' = "loop"
    /\ IF discoverActiveWorkers = {}
       THEN AcceptClose /\ UNCHANGED <<pollScheduled, timers>>
       ELSE schedule_deferred_close_poll /\ UNCHANGED <<closeFlag, window>>
    /\ UNCHANGED <<threadVars, slotVars, queue, history>>

\* Mutant: a poll that finds work running does not poll again.
retry_deferred_close_Once ==
    /\ gui = "loop"
    /\ timers > 0
    /\ pollScheduled' = FALSE
    /\ timers' = timers - 1
    /\ IF closeFlag /\ discoverActiveWorkers = {}
       THEN AcceptClose
       ELSE UNCHANGED <<closeFlag, window>>
    /\ UNCHANGED <<threadVars, slotVars, queue, gui, history>>

\* Mutant: the request is forgotten before looking whether work still runs.
retry_deferred_close_Drops ==
    /\ gui = "loop"
    /\ timers > 0
    /\ closeFlag' = FALSE
    /\ pollScheduled' = (closeFlag /\ discoverActiveWorkers # {})
    /\ timers' = IF pollScheduled' THEN timers ELSE timers - 1
    /\ window' = IF closeFlag /\ ~pollScheduled' THEN "closed" ELSE window
    /\ UNCHANGED <<threadVars, slotVars, queue, gui, history>>

\* The single-shot timer fires.
retry_deferred_close ==
    /\ gui = "loop"
    /\ timers > 0
    /\ IF closeFlag /\ discoverActiveWorkers # {}
       THEN \* polled again; what runs now is not cancelled again
            /\ pollScheduled' = TRUE
            /\ UNCHANGED <<timers, closeFlag, window>>
       ELSE /\ pollScheduled' = FALSE
            /\ timers' = timers - 1
            /\ IF closeFlag
               THEN AcceptClose
               ELSE UNCHANGED <<closeFlag, window>>
    /\ UNCHANGED <<threadVars, slotVars, queue, gui, history>>

-----------------------------------------------------------------------------
Run(w) ==
    \/ RunEnter(w)
    \/ TaskReturn(w)
    \/ TaskCancelled(w)
    \/ TaskError(w)
    \/ RunCommit(w)
    \/ RunExit(w)

Next ==
    \/ \E w \in Workers : Run(w)
    \/ \E w \in Workers : start_managed_worker(w)
    \/ \E w \in Workers : start_legacy_worker(w)
    \/ \E w \in Workers : stop_worker(w)
    \/ DeliverOutcome
    \/ DeliverFinished
    \/ closeEvent
    \/ closeEventAfterWait
    \/ retry_deferred_close

Spec == Init /\ [][Next]_vars

(* Threads that can run do run, the event loop keeps turning and timers fire.
   Nothing is assumed of the user, nor that a task fails. *)
Fairness ==
    /\ \A w \in Workers :
        WF_vars(RunEnter(w) \/ TaskReturn(w) \/ TaskCancelled(w)
                \/ RunCommit(w) \/ RunExit(w))
    /\ WF_vars(DeliverOutcome)
    /\ WF_vars(DeliverFinished)
    /\ WF_vars(closeEventAfterWait)
    /\ WF_vars(retry_deferred_close)

FairSpec == Spec /\ Fairness

-----------------------------------------------------------------------------
Pcs == {"unborn", "done"} \cup Started

\* Every variable keeps to the values the code gives it.
TypeOK ==
    /\ pc \in [Workers -> Pcs]
    /\ cancelEvent \subseteq Workers
    /\ outcome \in [Workers -> Signals \cup {"none"}]
    /\ attr \in [Slots -> Workers \cup {NoWorker}]
    /\ busy \subseteq Slots
    /\ managed \subseteq Workers
    /\ queue \in Seq(Message)
    /\ closeFlag \in BOOLEAN
    /\ pollScheduled \in BOOLEAN
    /\ timers \in Nat
    /\ gui \in {"loop", "wait"}
    /\ window \in {"open", "closed"}
    /\ doomed \subseteq Workers
    /\ late \subseteq Workers

\* What the code does lose: the thread of a legacy window whose outcome was taken, which enables the
\* button, and which had not ended when the next start took its attribute (disk_analyzer/window.py:140).
Heard(w) == \A i \in DOMAIN queue : queue[i].worker = w => queue[i].kind = "finished"
Lost == {w \in Workers \ discoverActiveWorkers : ~Modern(w) /\ pc[w] = "exit" /\ Heard(w)}

\* No thread that works, and no managed one that runs, is out of the window's sight: closeEvent finds
\* every worker it would have to cancel and wait for (base_tool.py:81-88), except those in Lost.
NoLostWorker == Running \subseteq discoverActiveWorkers \cup Lost

\* "Cancel active workers and never destroy a running QThread" (base_tool.py:133): the window is
\* never gone while a worker runs that it had not lost.
ClosedIsQuiet == window = "closed" => Running \subseteq Lost

\* A deferred close always has exactly one timer that will retry it, and no
\* timer is left armed by a close that has forgotten it (base_tool.py:115-130).
DeferredCloseIsArmed ==
    /\ timers = IF pollScheduled THEN 1 ELSE 0
    /\ closeFlag /\ gui = "loop" => pollScheduled

\* A worker cancelled before the last check of run() never reports a result,
\* however the cancellation and the task raced (worker.py:52-62).
CancelledNeverPublishes == \A w \in doomed : Modern(w) => outcome[w] # "result"

\* While a close is owed, every running worker has been told to stop, except one that the user
\* started after the close was asked for and one that the window had lost.
DeferredCloseCancels == closeFlag => Running \subseteq cancelEvent \cup late \cup Lost

\* A deferred close comes to an end unless work started after it was asked for
\* is still running: that work was never told to stop (base_tool.py:121-130).
DeferredCloseResolves ==
    closeFlag ~> (window = "closed" \/ Running \cap late # {})

\* BaseTool keeps the promise of ToolWindow for the workers it has not lost, and loses one only
\* to the start that takes its place.
Abstract == INSTANCE ToolWindow WITH
    Replaceable <- {w \in Workers : ~Modern(w)},
    running <- Running \ Lost,
    asked <- closeFlag,
    window <- window

KeepsPromise == Abstract!Spec
=============================================================================
