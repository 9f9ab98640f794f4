--------------------------- MODULE NetworkMonitor ---------------------------
(***************************************************************************)
(* The network traffic monitor: a worker that looks at the connections once  *)
(* a second, announces what is new and stores the announcements; and the     *)
(* packet capture, a session of the system that other programs use too.      *)
(***************************************************************************)
EXTENDS Integers, FiniteSets, FiniteSetsExt

CONSTANTS
    Connections,   \* [key, process, listens, remote, public, common, asset]; remote is None for a listener
    Busy,          \* the rates: what a sample may find, and the threshold of a spike
    Threshold,
    DnsPerSample,  \* addresses resolved in a sample
    HistoryEvery,  \* samples between two stored points of the history
    MaxSamples, MaxSessions,
    None

VARIABLES task, world

vars == <<task, world>>

-----------------------------------------------------------------------------
(* task is the window with its workers.  monitor is the step of the monitor's     *)
(* worker; seen, spike, hosts the MonitorState of the session, fresh what the       *)
(* sample found new, times how often each thing was announced.  pcap is the step    *)
(* of the capture's worker, active whether the window holds a capture, mine the      *)
(* session it started.  world holds the capture session of the system and the files. *)

NoSession == [seen |-> {}, spike |-> FALSE, hosts |-> {}, fresh |-> {}, samples |-> 0, shown |-> {}]

Init ==
    /\ task = [monitor |-> "none", state |-> NoSession, cancelled |-> FALSE, running |-> FALSE,
               pcap |-> "none", active |-> FALSE, mine |-> None, window |-> "open", took |-> FALSE]
    /\ world = [session |-> None, sessions |-> 0, inbox |-> {}, legacy |-> {}, history |-> {}]

\* What a connection gives reason to announce (intelligence.py, MonitorState.observe).
Reasons(c) ==
    IF c.remote = None THEN {<<"new_listening_port", c.listens>>}
    ELSE {<<"new_remote_host", c.remote>>, <<"process_network_activity", c.process>>}
         \cup (IF c.public THEN {<<"new_external_connection", c.key>>} ELSE {})
         \cup (IF c.public /\ ~c.common THEN {<<"unusual_destination", <<c.process, c.remote>>>>} ELSE {})
         \cup (IF c.asset # None THEN {<<"known_asset_connection", c.asset>>} ELSE {})

\* Mutant: a spike is announced in every sample that it lasts.
observe_Spikes(state, connections, rate) ==
    LET reasons == UNION {Reasons(c) : c \in connections}
        above == rate >= Threshold
    IN  [state EXCEPT !.seen = @ \cup reasons, !.spike = above, !.samples = @ + 1,
                      !.fresh = (reasons \ state.seen) \cup (IF above THEN {<<"traffic_spike", state.samples + 1>>} ELSE {})]

observe(state, connections, rate) ==
    LET reasons == UNION {Reasons(c) : c \in connections}
        above == rate >= Threshold
        spike == IF above /\ ~state.spike THEN {<<"traffic_spike", state.samples + 1>>} ELSE {}
    IN  [state EXCEPT !.seen = @ \cup reasons, !.spike = above, !.samples = @ + 1,
                      !.fresh = (reasons \ state.seen) \cup spike]

\* A few of the unresolved addresses are resolved in each sample; one that has no name is not asked again.
_enrich_dns(state, connections) ==
    LET unresolved == {c.remote : c \in connections} \ (state.hosts \cup {None})
    IN  {[state EXCEPT !.hosts = @ \cup asked] :
            asked \in kSubset(Min({DnsPerSample, Cardinality(unresolved)}), unresolved)}

start_monitoring ==
    /\ task.window = "open" /\ ~task.running
    /\ task' = [task EXCEPT !.monitor = "sample", !.state = NoSession, !.cancelled = FALSE, !.running = TRUE]
    /\ UNCHANGED world

stop_monitoring ==
    /\ task.window = "open" /\ task.running /\ task.monitor # "over"
    /\ task' = [task EXCEPT !.cancelled = TRUE]
    /\ UNCHANGED world

\* One turn of _run_monitor: the sample, what it announces, the files, the window. A sample that
\* cannot be taken and a history that cannot be written end the session.
_run_monitor_Sample ==
    /\ task.monitor = "sample"
    /\ \/ task' = [task EXCEPT !.monitor = "over"] \* cancelled, or failed
       \/ /\ ~task.cancelled /\ task.state.samples < MaxSamples
          /\ \E connections \in SUBSET Connections, rate \in Busy :
                \E state \in _enrich_dns(task.state, connections) :
                    task' = [task EXCEPT !.monitor = "store", !.state = observe(state, connections, rate)]
    /\ UNCHANGED world

Occurrences(state) == {<<reason, state.samples>> : reason \in state.fresh}

\* The inbox, or the file that stands in for it; when neither can be written the session ends.
persist_monitor_events ==
    /\ task.monitor = "store"
    /\ \/ /\ world' = [world EXCEPT !.inbox = @ \cup Occurrences(task.state)]
          /\ task' = [task EXCEPT !.monitor = "history"]
       \/ /\ world' = [world EXCEPT !.legacy = @ \cup Occurrences(task.state)]
          /\ task' = [task EXCEPT !.monitor = "history"]
       \/ /\ task' = [task EXCEPT !.monitor = "over"]
          /\ UNCHANGED world

_run_monitor_Report ==
    /\ task.monitor = "history"
    /\ \/ /\ world' = IF task.state.samples % HistoryEvery = 0
                      THEN [world EXCEPT !.history = @ \cup {task.state.samples}] ELSE world
          /\ task' = [task EXCEPT !.monitor = "sample", !.state.shown = @ \cup Occurrences(task.state), !.state.fresh = {}]
       \/ /\ task.state.samples % HistoryEvery = 0
          /\ task' = [task EXCEPT !.monitor = "over"]
          /\ UNCHANGED world

_monitor_finished ==
    /\ task.running /\ task.monitor = "over"
    /\ task' = [task EXCEPT !.monitor = "none", !.running = FALSE, !.state = NoSession]
    /\ world' = [world EXCEPT !.inbox = {}, !.legacy = {}, !.history = {}]  \* the model forgets the session's files

-----------------------------------------------------------------------------
(* The capture (capture.py).  pktmon has one session; a call may answer that it     *)
(* failed, or not answer in time, before or after it did what it was asked.          *)

start_pcap ==
    /\ task.window = "open" /\ task.pcap = "none" /\ ~task.active
    /\ task' = [task EXCEPT !.pcap = "start"]
    /\ UNCHANGED world
stop_pcap ==
    /\ task.window = "open" /\ task.pcap = "none" /\ task.active
    /\ task' = [task EXCEPT !.pcap = "stop"]
    /\ UNCHANGED world

New == world.sessions + 1
Opened(owner) == [world EXCEPT !.session = <<owner, New>>, !.sessions = New]

\* Mutant: the window takes the capture as its own whatever pktmon answered.
start_Any ==
    /\ task.pcap = "start" /\ world.sessions < MaxSessions
    /\ world' = IF world.session = None THEN Opened("ours") ELSE world
    /\ task' = [task EXCEPT !.pcap = "over", !.active = TRUE, !.mine = New]

start ==
    /\ task.pcap = "start" /\ world.sessions < MaxSessions
    /\ \/ /\ world.session = None \* started
          /\ world' = Opened("ours")
          /\ task' = [task EXCEPT !.pcap = "over", !.active = TRUE, !.mine = New]
       \/ /\ world' = world \* failed, or timed out before
          /\ task' = [task EXCEPT !.pcap = "over"]
       \/ /\ world.session = None \* timed out after
          /\ world' = Opened("ours")
          /\ task' = [task EXCEPT !.pcap = "over"]

\* The session of another program that was there before the one the window takes as its own.
Older(t) == world.session # None /\ world.session[1] = "theirs" /\ world.session[2] < t.mine

\* After an answer the capture is forgotten, whether it stopped or not; without one it is kept.
\* Whether it is converted changes nothing else.
Stopping(t) ==
    \/ /\ world.session # None /\ world' = [world EXCEPT !.session = None]
       /\ task' = [t EXCEPT !.active = FALSE, !.took = @ \/ Older(t)]
    \/ /\ world' = world
       /\ task' = [t EXCEPT !.active = FALSE]
    \/ /\ world' \in {world, [world EXCEPT !.session = None]}
       /\ task' = [t EXCEPT !.took = @ \/ (Older(t) /\ world'.session = None)]

stop == task.pcap = "stop" /\ Stopping([task EXCEPT !.pcap = "over"])

_pcap_worker_finished ==
    /\ task.pcap = "over"
    /\ task' = [task EXCEPT !.pcap = "none"]
    /\ UNCHANGED world

\* Closing: a capture is stopped unless a capture worker is at work; then the workers are cancelled. A
\* worker that has not begun yields at once, one that asks pktmon goes on.
Closing == [task EXCEPT !.window = "closing", !.cancelled = TRUE]
closeEvent ==
    /\ task.window = "open"
    /\ IF task.active /\ task.pcap \in {"none", "over"} THEN Stopping(Closing)
       ELSE task' = Closing /\ UNCHANGED world

\* The base class accepts the event when the workers end while it waits; otherwise it comes back.
Workers == task.monitor \notin {"none", "over"} \/ task.pcap \notin {"none", "over"}
closeEvent_Accept ==
    /\ task.window = "closing" /\ ~Workers
    /\ task' = [task EXCEPT !.window = "closed"]
    /\ UNCHANGED world
closeEvent_Later ==
    /\ task.window = "closing" /\ Workers
    /\ task' = [task EXCEPT !.window = "open"]
    /\ UNCHANGED world

\* Other programs use the same session.
Others ==
    /\ \/ world.session = None /\ world.sessions < MaxSessions /\ world' = Opened("theirs")
       \/ world.session # None /\ world' = [world EXCEPT !.session = None]
    /\ UNCHANGED task

Next ==
    \/ start_monitoring \/ stop_monitoring \/ _run_monitor_Sample \/ persist_monitor_events
    \/ _run_monitor_Report \/ _monitor_finished
    \/ start_pcap \/ stop_pcap \/ start \/ stop \/ _pcap_worker_finished
    \/ closeEvent \/ closeEvent_Accept \/ closeEvent_Later \/ Others

Spec == Init /\ [][Next]_vars

-----------------------------------------------------------------------------
(* Properties. *)

\* What the window shows as an alert is stored, in the inbox or in the file that stands in for it.
AlertsAreStored == task.state.shown \subseteq world.inbox \cup world.legacy

\* In a session everything new is announced, and once: a spike when it begins.
NewIsAnnouncedOnce ==
    LET shown == task.state.shown
    IN  /\ task.monitor = "sample" => task.state.seen \subseteq {x[1] : x \in shown}
        /\ \A x, y \in shown : x[1] = y[1] => x = y
        /\ \A x, y \in shown : x[1][1] = "traffic_spike" /\ y[1][1] = "traffic_spike" => x[2] # y[2] + 1

\* A session that was there when the window tried to start its own is never stopped by the window
\* (capture.py: "never stops another session after a failed start").
StopsNoOlderSession == ~task.took
=============================================================================
