------------------------- MODULE ScheduledMonitoring -------------------------
(***************************************************************************)
(* Scheduled Network Intelligence: scheduler_window.Tool over window.Tool,  *)
(* with the schedule of scheduler.py on disk.                               *)
(*                                                                         *)
(* A run is a discovery worker and, under an automatic fingerprint policy,  *)
(* a fingerprint worker started when the first has finished.  What a slot    *)
(* may conclude from a signal is decided by four attributes of the window    *)
(* (_scheduled_scan_active, _scheduled_postscan_pending,                     *)
(* _scheduled_fingerprint_worker_active, worker), which are shared by every  *)
(* run, while signals and timers come from whichever run sent them.          *)
(*                                                                         *)
(* show_error and show_warning execute a modal dialog: they suspend the slot *)
(* that called them and run a nested event loop, in which signals and timers *)
(* are delivered but the user reaches nothing else.  `frames' is the stack   *)
(* of suspended slots.  Qt posts a signal of another thread to the event     *)
(* loop and looks at its timers beside the posted events, so a timer may      *)
(* also fire before signals that are already queued.  Two history variables   *)
(* remember that either has happened: `left', that something was handled      *)
(* while a dialog was open, and `overtaken', that the poll timer was handled  *)
(* before a queued signal.                                                   *)
(*                                                                         *)
(* The schedule row is unlocked here with the scan controls, by              *)
(* _worker_finished; a save between the end of a thread and that slot         *)
(* unlocks it a moment earlier, in a gap where the two commute.              *)
(***************************************************************************)
EXTENDS Naturals, Sequences, FiniteSets

CONSTANTS
    MaxRuns,        \* bound: runs that may be started
    MaxTime,        \* bound: the clock
    Interval,       \* interval_minutes
    MaxDialogs      \* bound: dialogs open at once

ASSUME MonitoringAssumption ==
    /\ MaxRuns \in Nat \ {0}
    /\ MaxTime \in Nat
    /\ Interval \in Nat \ {0}
    /\ MaxDialogs \in Nat \ {0}

Runs == 1..MaxRuns
Workers == [run : Runs, stage : {"scan", "fingerprint"}]
NoWorker == [run |-> 0, stage |-> "scan"]
Never == MaxTime + Interval + 1

Configs == [enabled : BOOLEAN, nextRun : 0..Never, automatic : BOOLEAN]

VARIABLES
    now,            \* the clock
    disk,           \* network_intelligence_schedule.json
    config,         \* schedule_config
    worker,         \* self.worker
    scanActive,     \* _scheduled_scan_active
    pending,        \* _scheduled_postscan_pending
    fpActive,       \* _scheduled_fingerprint_worker_active
    locked,         \* _set_running(True)
    closing,        \* _scheduler_closing
    window,         \* "open" | "waiting" (inside closeEvent) | "closed" | "none" (no process)
    frames,         \* slots suspended in a dialog, innermost last
    queue,          \* signals queued to the GUI thread
    thread,         \* the state of each worker's thread
    cancelled,      \* workers whose cancellation event is set
    runKind,        \* history: who started each run
    fpOutcome,      \* history: how each run's fingerprinting was answered
    pendingRun,     \* history: the run whose discovery set `pending'
    persisted,      \* history: scheduled runs whose inventory was persisted
    settled,        \* history: those whose publication was attempted, skipped on
                    \* cancellation, or lost with their process
    snapshots,      \* history: the automatic snapshots published
    starts,         \* history: when scheduled runs were started
    left,           \* history: a signal or a timer was handled while a dialog was open
    overtaken       \* history: the poll timer was handled before a queued signal

schedule == <<disk, config>>
flags == <<worker, scanActive, pending, fpActive, locked, closing>>
gui == <<window, frames>>
system == <<queue, thread, cancelled>>
history == <<runKind, fpOutcome, pendingRun, persisted, settled, snapshots, starts>>
turns == <<left, overtaken>>
vars == <<now, schedule, flags, gui, system, history, turns>>

isRunning(w) == w # NoWorker /\ thread[w] \in {"running", "exiting"}
Running == {w \in Workers : isRunning(w)}

disabled_schedule == [enabled |-> FALSE, nextRun |-> Never, automatic |-> FALSE]
create_schedule(automatic) ==
    [enabled |-> TRUE, nextRun |-> now + Interval, automatic |-> automatic]
disable_schedule(c) == [c EXCEPT !.enabled = FALSE, !.nextRun = Never]
change_schedule_interval(c) ==
    [c EXCEPT !.nextRun = IF c.enabled THEN now + Interval ELSE Never]
schedule_due(c) == c.enabled /\ c.nextRun <= now
mark_schedule_started(c) == [c EXCEPT !.nextRun = now + Interval]

\* generatedAt is read before the snapshot is built, the configuration after.
mark_schedule_success(c, generatedAt) ==
    [c EXCEPT !.nextRun = IF c.enabled THEN generatedAt + Interval ELSE Never]

Init ==
    /\ now = 0
    /\ disk \in {create_schedule(a) : a \in BOOLEAN} \cup {disabled_schedule}
    /\ config = disk
    /\ worker = NoWorker
    /\ scanActive = FALSE
    /\ pending = FALSE
    /\ fpActive = FALSE
    /\ locked = FALSE
    /\ closing = FALSE
    /\ window = "open"
    /\ frames = <<>>
    /\ queue = <<>>
    /\ thread = [w \in Workers |-> "unborn"]
    /\ cancelled = {}
    /\ runKind = [r \in Runs |-> "none"]
    /\ fpOutcome = [r \in Runs |-> "none"]
    /\ pendingRun = 0
    /\ persisted = {}
    /\ settled = {}
    /\ snapshots = <<>>
    /\ starts = <<>>
    /\ left = FALSE
    /\ overtaken = FALSE

-----------------------------------------------------------------------------
(* Worker threads, as WorkerLifecycle describes them, in two steps. *)

Signal(kind, w) == [kind |-> kind, worker |-> w]

\* run() emits its one outcome.
WorkerEmits(w, kind) ==
    /\ thread[w] = "running"
    /\ kind \in IF w \in cancelled THEN {"cancelled", "error"} ELSE {"result", "error"}
    /\ thread' = [thread EXCEPT ![w] = "exiting"]
    /\ queue' = Append(queue, Signal(kind, w))
    /\ UNCHANGED <<now, schedule, flags, gui, cancelled, history, turns>>

\* run() has returned.
WorkerEnds(w) ==
    /\ thread[w] = "exiting"
    /\ thread' = [thread EXCEPT ![w] = "ended"]
    /\ queue' = Append(queue, Signal("finished", w))
    /\ UNCHANGED <<now, schedule, flags, gui, cancelled, history, turns>>

-----------------------------------------------------------------------------
(* The GUI thread turns an event loop whenever no slot is running: while no    *)
(* dialog is open, and also inside a dialog nobody has dismissed.              *)

Alive == window \in {"open", "closed"}
UserCan == window = "open" /\ frames = <<>>

\* The event loop hands out what is next.
Turn == Alive /\ left' = (left \/ frames # <<>>)

\* The turn of a posted signal, in the order of their posting.
SignalTurn == Turn /\ queue # <<>> /\ queue' = Tail(queue) /\ UNCHANGED overtaken

\* The turn of schedule_timer.
PollTurn == Turn /\ overtaken' = (overtaken \/ queue # <<>>)

\* show_error / show_warning: suspend here, go on with `cont' when dismissed,
\* with the local variables the rest of the slot uses.
DialogWith(stack, cont, generatedAt, saved) ==
    /\ Len(stack) < MaxDialogs
    /\ frames' = Append(stack, [cont |-> cont, at |-> generatedAt, saved |-> saved])

Dialog(stack, cont) == DialogWith(stack, cont, 0, disabled_schedule)

\* _save_schedule_candidate; `failed' goes on after the error is dismissed.
SaveOn(stack, candidate, failed) ==
    \/ config' = candidate /\ disk' = candidate /\ frames' = stack
    \/ Dialog(stack, failed) /\ UNCHANGED schedule

\* _automatic_snapshot_published: what follows the publication may fail.
SnapshotPublished(stack) == frames' = stack \/ Dialog(stack, "nothing")

\* The success is saved; or not, and then adopted once the error is dismissed.
RecordSuccess(stack, generatedAt) ==
    LET candidate == mark_schedule_success(config, generatedAt) IN
    \/ config' = candidate /\ disk' = candidate /\ SnapshotPublished(stack)
    \/ DialogWith(stack, "adopt", 0, candidate) /\ UNCHANGED schedule

\* _publish_scheduled_snapshot once something is pending: the snapshot is
\* written or its failure reported, and retention may fail after it.
PublishOn(stack, run, fingerprint) ==
    /\ settled' = settled \cup {run}
    /\ \/ Dialog(stack, "nothing") /\ UNCHANGED <<schedule, snapshots>>
       \/ /\ snapshots' = Append(snapshots, [run |-> run, automatic |-> config.automatic,
                                             fingerprint |-> fingerprint])
          /\ \/ RecordSuccess(stack, now)
             \/ DialogWith(stack, "record", now, disabled_schedule) /\ UNCHANGED schedule

\* _publish_scheduled_snapshot
publish_scheduled_snapshot(stack, isPending, run, fingerprint) ==
    /\ pending' = FALSE
    /\ IF isPending
       THEN PublishOn(stack, run, fingerprint)
       ELSE frames' = stack /\ UNCHANGED <<schedule, settled, snapshots>>

-----------------------------------------------------------------------------
(* Slots of the workers' signals.  `isPending' is the flag as the slot finds it. *)

Delivering(kinds, stage) ==
    /\ SignalTurn
    /\ Head(queue).kind \in kinds
    /\ Head(queue).worker.stage = stage
    /\ UNCHANGED <<now, window, thread, cancelled, closing, runKind, starts>>

Sender == Head(queue).worker

\* Mutant: a manual run's result is published like a scheduled one's.
scan_finished_AnyRun ==
    /\ Delivering({"result"}, "scan")
    /\ persisted' = persisted \cup {Sender.run}
    /\ pendingRun' = Sender.run
    /\ publish_scheduled_snapshot(frames, TRUE, Sender.run, "none")
    /\ UNCHANGED <<worker, scanActive, fpActive, locked, fpOutcome>>

\* _scan_finished: the inventory and then the relationships are persisted, or
\* one of them fails with a dialog; a scheduled run goes on to its snapshot.
scan_finished ==
    /\ Delivering({"result"}, "scan")
    /\ \/ /\ Dialog(frames, IF scanActive THEN "scanFailed" ELSE "nothing")
          /\ UNCHANGED <<schedule, pending, pendingRun, persisted, settled, snapshots>>
       \/ /\ ~scanActive
          /\ UNCHANGED <<schedule, pending, frames, pendingRun, persisted, settled, snapshots>>
       \/ /\ scanActive
          /\ persisted' = persisted \cup {Sender.run}
          /\ pendingRun' = Sender.run
          /\ IF config.automatic
             THEN pending' = TRUE /\ UNCHANGED <<schedule, frames, settled, snapshots>>
             ELSE publish_scheduled_snapshot(frames, TRUE, Sender.run, "none")
    /\ UNCHANGED <<worker, scanActive, fpActive, locked, fpOutcome>>

\* _scan_failed and _scan_cancelled forget what was pending; the first shows the error.
scan_failed ==
    /\ \/ Delivering({"error"}, "scan") /\ Dialog(frames, "nothing")
       \/ Delivering({"cancelled"}, "scan") /\ UNCHANGED frames
    /\ pending' = FALSE
    /\ UNCHANGED <<schedule, worker, scanActive, fpActive, locked, fpOutcome, pendingRun,
                   persisted, settled, snapshots>>

\* _scheduled_fingerprint_finished without errors: publish.
fingerprint_finished ==
    /\ Delivering({"result"}, "fingerprint")
    /\ fpOutcome' = [fpOutcome EXCEPT ![Sender.run] = "result"]
    /\ publish_scheduled_snapshot(frames, pending, pendingRun, fpOutcome'[pendingRun])
    /\ UNCHANGED <<worker, scanActive, fpActive, locked, pendingRun, persisted>>

\* _scheduled_fingerprint_finished with errors, or _failed: warn, then publish.
fingerprint_degraded ==
    /\ Delivering({"result", "error"}, "fingerprint")
    /\ fpOutcome' = [fpOutcome EXCEPT ![Sender.run] = "degraded"]
    /\ Dialog(frames, "publish")
    /\ UNCHANGED <<schedule, worker, scanActive, pending, fpActive, locked, pendingRun,
                   persisted, settled, snapshots>>

\* Mutant: a cancelled fingerprinting is published like a failed one.
fingerprint_cancelled_Publishes ==
    /\ Delivering({"cancelled"}, "fingerprint")
    /\ fpOutcome' = [fpOutcome EXCEPT ![Sender.run] = "cancelled"]
    /\ publish_scheduled_snapshot(frames, pending, pendingRun, fpOutcome'[pendingRun])
    /\ UNCHANGED <<worker, scanActive, fpActive, locked, pendingRun, persisted>>

\* _scheduled_fingerprint_cancelled: the run publishes nothing.
fingerprint_cancelled ==
    /\ Delivering({"cancelled"}, "fingerprint")
    /\ fpOutcome' = [fpOutcome EXCEPT ![Sender.run] = "cancelled"]
    /\ pending' = FALSE
    /\ settled' = settled \cup {Sender.run}
    /\ UNCHANGED <<schedule, worker, scanActive, fpActive, locked, frames, pendingRun,
                   persisted, snapshots>>

\* start_managed_worker: the window holds the worker and locks its controls.
StartWorker(w) ==
    /\ thread[w] = "unborn"
    /\ worker' = w
    /\ thread' = [thread EXCEPT ![w] = "running"]
    /\ locked' = TRUE

Finishing ==
    /\ SignalTurn
    /\ Head(queue).kind = "finished"
    /\ UNCHANGED <<now, window, cancelled, closing, runKind, fpOutcome, pendingRun,
                   persisted, starts>>

Forget == worker' = NoWorker /\ locked' = FALSE /\ UNCHANGED thread

\* Mutant: the end of a worker always ends its run.
worker_finished_Ends ==
    /\ Finishing
    /\ Forget
    /\ fpActive' = FALSE
    /\ scanActive' = FALSE
    /\ UNCHANGED <<schedule, pending, frames, settled, snapshots>>

\* _worker_finished.  It asks the flags, not the signal's sender, whether a
\* fingerprint worker ended and whether a run waits for one.
worker_finished ==
    /\ Finishing
    /\ IF fpActive
       THEN /\ Forget
            /\ fpActive' = FALSE
            /\ scanActive' = FALSE
            /\ UNCHANGED <<schedule, pending, frames, settled, snapshots>>
       ELSE IF scanActive /\ pending /\ config.automatic
       THEN \* _start_scheduled_fingerprinting
            /\ StartWorker([run |-> pendingRun, stage |-> "fingerprint"])
            /\ fpActive' = TRUE
            /\ UNCHANGED <<schedule, scanActive, pending, frames, settled, snapshots>>
       ELSE /\ Forget
            /\ scanActive' = FALSE
            /\ UNCHANGED fpActive
            /\ IF scanActive
               THEN publish_scheduled_snapshot(frames, pending, pendingRun, "none")
               ELSE UNCHANGED <<schedule, pending, frames, settled, snapshots>>

-----------------------------------------------------------------------------
(* The timer and the user. *)

NextRun == Cardinality({r \in Runs : runKind[r] # "none"}) + 1

\* window.Tool.start_scan: nothing when a worker is running.
StartDiscovery(kind) ==
    /\ ~isRunning(worker)
    /\ NextRun \in Runs
    /\ StartWorker([run |-> NextRun, stage |-> "scan"])
    /\ runKind' = [runKind EXCEPT ![NextRun] = kind]

CheckDue ==
    /\ PollTurn
    /\ ~closing
    /\ ~isRunning(worker)
    /\ schedule_due(config)

StartScheduled ==
    /\ scanActive' = TRUE
    /\ pending' = FALSE
    /\ StartDiscovery("scheduled")
    /\ starts' = Append(starts, now)
    /\ UNCHANGED <<now, fpActive, closing, window, queue, cancelled, fpOutcome,
                   pendingRun, persisted, settled, snapshots>>

\* Mutant: the run starts whether or not its schedule could be saved.
check_schedule_Unsaved ==
    /\ CheckDue
    /\ config' = mark_schedule_started(config)
    /\ disk' \in {disk, config'}
    /\ UNCHANGED frames
    /\ StartScheduled

\* Mutant: a due run does not ask whether a worker is running.
check_schedule_Overlaps ==
    /\ PollTurn
    /\ ~closing
    /\ schedule_due(config)
    /\ config' = mark_schedule_started(config)
    /\ disk' = config'
    /\ UNCHANGED frames
    /\ scanActive' = TRUE
    /\ pending' = FALSE
    /\ NextRun \in Runs
    /\ StartWorker([run |-> NextRun, stage |-> "scan"])
    /\ runKind' = [runKind EXCEPT ![NextRun] = "scheduled"]
    /\ starts' = Append(starts, now)
    /\ UNCHANGED <<now, fpActive, closing, window, queue, cancelled, fpOutcome,
                   pendingRun, persisted, settled, snapshots>>

\* _check_schedule: the next run is saved before the worker is started, and
\* monitoring is disabled for the session when it cannot be.
check_schedule ==
    /\ CheckDue
    /\ \/ /\ config' = mark_schedule_started(config)
          /\ disk' = config'
          /\ UNCHANGED frames
          /\ StartScheduled
       \/ /\ Dialog(frames, "disable")
          /\ UNCHANGED <<now, schedule, flags, window, system, history>>

\* The Discover button.
start_scan ==
    /\ UserCan
    /\ ~locked
    /\ StartDiscovery("manual")
    /\ scanActive' = FALSE
    /\ pending' = FALSE
    /\ UNCHANGED <<now, schedule, fpActive, closing, gui, queue, cancelled, fpOutcome,
                   pendingRun, persisted, settled, snapshots, starts, turns>>

\* The Stop button.
stop_scan ==
    /\ UserCan
    /\ isRunning(worker)
    /\ cancelled' = cancelled \cup {worker}
    /\ UNCHANGED <<now, schedule, flags, gui, queue, thread, history, turns>>

\* What the schedule row can ask for: _schedule_toggled,
\* _schedule_interval_changed, _fingerprint_policy_changed.
Candidates ==
    (IF config.enabled
     THEN {disable_schedule(config), change_schedule_interval(config)}
     ELSE {create_schedule(a) : a \in BOOLEAN})
    \cup {[config EXCEPT !.automatic = ~config.automatic]}

edit_schedule ==
    /\ UserCan
    /\ ~locked
    /\ \E candidate \in Candidates : SaveOn(frames, candidate, "nothing")
    /\ UNCHANGED <<now, flags, window, system, history, turns>>

\* The innermost dialog is dismissed and its slot goes on.
Dismiss ==
    /\ Alive
    /\ frames # <<>>
    /\ LET slot == frames[Len(frames)]
           rest == SubSeq(frames, 1, Len(frames) - 1) IN
       CASE slot.cont = "publish" ->
              /\ publish_scheduled_snapshot(rest, pending, pendingRun, fpOutcome[pendingRun])
         [] slot.cont = "record" ->
              /\ RecordSuccess(rest, slot.at)
              /\ UNCHANGED <<pending, settled, snapshots>>
         [] slot.cont = "adopt" ->
              /\ SnapshotPublished(rest)
              /\ config' = slot.saved
              /\ UNCHANGED <<disk, pending, settled, snapshots>>
         [] slot.cont = "disable" ->
              /\ frames' = rest
              /\ config' = disable_schedule(config)
              /\ UNCHANGED <<disk, pending, settled, snapshots>>
         [] slot.cont = "scanFailed" ->
              /\ frames' = rest
              /\ pending' = FALSE
              /\ UNCHANGED <<schedule, settled, snapshots>>
         [] slot.cont = "nothing" ->
              /\ frames' = rest
              /\ UNCHANGED <<schedule, pending, settled, snapshots>>
    /\ UNCHANGED <<now, worker, scanActive, fpActive, locked, closing, window, system,
                   runKind, fpOutcome, pendingRun, persisted, starts, turns>>

-----------------------------------------------------------------------------
(* Closing, the process and the clock. *)

Decide == window' = IF Running = {} THEN "closed" ELSE "open"

\* closeEvent stops the poll timer and, in BaseTool, cancels and waits a bounded
\* time for what runs: the event loop stands still until closeEventEnds.
closeEvent ==
    /\ UserCan
    /\ closing' = TRUE
    /\ cancelled' = cancelled \cup Running
    /\ window' = IF Running = {} THEN "closed" ELSE "waiting"
    /\ UNCHANGED <<now, schedule, worker, scanActive, pending, fpActive, locked, frames,
                   queue, thread, history, turns>>

closeEventEnds ==
    /\ window = "waiting"
    /\ Decide
    /\ UNCHANGED <<now, schedule, flags, frames, system, history, turns>>

\* _retry_deferred_close
retry_deferred_close ==
    /\ Turn
    /\ closing
    /\ window = "open"
    /\ Running = {}
    /\ window' = "closed"
    /\ UNCHANGED <<now, schedule, flags, frames, system, history, overtaken>>

\* The process is killed, or the machine loses power.
Crash ==
    /\ Alive
    /\ window' = "none"
    /\ frames' = <<>>
    /\ queue' = <<>>
    /\ thread' = [w \in Workers |-> IF isRunning(w) THEN "ended" ELSE thread[w]]
    /\ settled' = settled \cup persisted
    /\ UNCHANGED <<now, schedule, flags, cancelled, runKind, fpOutcome, pendingRun,
                   persisted, snapshots, starts, turns>>

\* A new window loads the schedule, or ignores one it cannot read.
Reopen ==
    /\ window \in {"closed", "none"}
    /\ frames = <<>>
    /\ queue = <<>>
    /\ Running = {}
    /\ worker' = NoWorker
    /\ scanActive' = FALSE
    /\ pending' = FALSE
    /\ fpActive' = FALSE
    /\ locked' = FALSE
    /\ closing' = FALSE
    /\ config' \in {disk, disabled_schedule}
    /\ window' = "open"
    /\ UNCHANGED <<now, disk, frames, system, history, turns>>

Tick ==
    /\ now < MaxTime
    /\ now' = now + 1
    /\ UNCHANGED <<schedule, flags, gui, system, history, turns>>

WorkerStep ==
    \E w \in Workers :
        \/ \E kind \in {"result", "error", "cancelled"} : WorkerEmits(w, kind)
        \/ WorkerEnds(w)

Deliver ==
    \/ scan_finished
    \/ scan_failed
    \/ fingerprint_finished
    \/ fingerprint_degraded
    \/ fingerprint_cancelled
    \/ worker_finished

Next ==
    \/ WorkerStep
    \/ Deliver
    \/ check_schedule
    \/ start_scan
    \/ stop_scan
    \/ edit_schedule
    \/ Dismiss
    \/ closeEvent
    \/ closeEventEnds
    \/ retry_deferred_close
    \/ Crash
    \/ Reopen
    \/ Tick

Spec == Init /\ [][Next]_vars

\* Discovery and fingerprinting are bounded, the event loop turns, and somebody
\* reads the dialogs.
FairSpec ==
    /\ Spec
    /\ WF_vars(WorkerStep)
    /\ WF_vars(Deliver)
    /\ WF_vars(Dismiss)
    /\ WF_vars(closeEventEnds)

-----------------------------------------------------------------------------
(* Properties. *)

Continuations == {"publish", "record", "adopt", "disable", "scanFailed", "nothing"}
Frames == [cont : Continuations, at : 0..MaxTime, saved : Configs]
Signals == [kind : {"result", "error", "cancelled", "finished"}, worker : Workers]
Answers == {"none", "result", "degraded", "cancelled"}
Snapshots == [run : Runs, automatic : BOOLEAN, fingerprint : Answers]

\* Every variable keeps its type, and a schedule never lies further ahead than
\* one interval from now (scheduler.py's next_run_at arithmetic).
TypeOK ==
    /\ now \in 0..MaxTime
    /\ disk \in Configs /\ config \in Configs
    /\ worker \in Workers \cup {NoWorker}
    /\ scanActive \in BOOLEAN /\ pending \in BOOLEAN /\ fpActive \in BOOLEAN
    /\ locked \in BOOLEAN /\ closing \in BOOLEAN
    /\ window \in {"open", "waiting", "closed", "none"}
    /\ frames \in Seq(Frames)
    /\ queue \in Seq(Signals)
    /\ thread \in [Workers -> {"unborn", "running", "exiting", "ended"}]
    /\ cancelled \subseteq Workers
    /\ runKind \in [Runs -> {"none", "manual", "scheduled"}]
    /\ fpOutcome \in [Runs -> Answers]
    /\ pendingRun \in 0..MaxRuns
    /\ persisted \subseteq Runs /\ settled \subseteq Runs
    /\ snapshots \in Seq(Snapshots)
    /\ starts \in Seq(0..MaxTime)
    /\ left \in BOOLEAN /\ overtaken \in BOOLEAN

\* The event loop has handled everything in its turn: no dialog was left open
\* while it handled something, and no timer overtook a signal.
InTurn == ~left /\ ~overtaken

\* Only runs the schedule started are published as automatic snapshots, whichever
\* run's signal _scan_finished and _worker_finished are handling; a timer that
\* overtakes the result of a manual run makes it the scheduled one's.
SnapshotsAreScheduled ==
    InTurn => \A i \in 1..Len(snapshots) : runKind[snapshots[i].run] = "scheduled"

\* Under an automatic policy, a snapshot is published after the fingerprinting of
\* its own run has been answered, with a result or as degraded, never cancelled.
Enriched ==
    \A i \in 1..Len(snapshots) :
        snapshots[i].automatic => snapshots[i].fingerprint \in {"result", "degraded"}

\* It is so as long as everything is handled in its turn, through cancellations,
\* failed stages, failed saves, closed windows and crashes.
SnapshotsAreEnriched == InTurn => Enriched

\* It is so when no timer overtakes a signal, whatever dialogs are left open
\* (docs/network-scheduled-monitoring.md knows of no open dialog either).
EnrichedUnattended == ~overtaken => Enriched

\* No persisted scheduled run is forgotten: until its snapshot has been tried or
\* skipped it is the one _scheduled_postscan_pending stands for.
EveryRunAccounted ==
    InTurn => persisted \subseteq settled \cup (IF pending THEN {pendingRun} ELSE {})

\* Two scheduled runs start at least one interval apart, across failed saves,
\* crashes and reopened windows (_check_schedule saves next_run_at, then starts),
\* and whichever timers overtake signals.  Only a slot that was suspended in a
\* dialog, and adopts the schedule it computed before, can bring a run forward.
StartsAreSpaced ==
    ~left => \A i \in 1..(Len(starts) - 1) : starts[i + 1] >= starts[i] + Interval

\* Two Network Intelligence workers run at once only after a timer overtook the
\* end of a run, though nothing but self.worker and the flags keeps them apart,
\* and whichever dialogs are left open.
NoOverlap == ~overtaken => Cardinality(Running) <= 1

\* A window that accepted its close event runs no worker.
ClosedRunsNothing == window = "closed" => Running = {}

\* A run that waits for its fingerprinting is settled in the end, or dies with
\* the process, as long as everything is handled in its turn.
PendingResolves ==
    [](pending /\ window # "none" => <>(~pending \/ window = "none" \/ ~InTurn))

=============================================================================
