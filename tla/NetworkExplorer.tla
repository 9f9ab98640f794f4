--------------------------- MODULE NetworkExplorer ---------------------------
(***************************************************************************)
(* The network explorer: a host scanner and a port scanner, each with a pool  *)
(* of probes, the identification of services through a child process (Nerva), *)
(* the history of what was scanned, and the close that waits for the workers. *)
(***************************************************************************)
EXTENDS Integers, Sequences, FiniteSets

CONSTANTS
    Items,      \* for each scanner, "hosts" and "ports", how many items it probes
    Hits,       \* for each target, the items that answer
    Targets,    \* for each scanner, the targets the user may enter
    Cameras,    \* the cameras of the inventory: [ip, byMac, same]
    Pending,    \* the futures a pool may have at a time
    Asked,      \* the ports asked over UDP
    MaxScans, None

VARIABLES task, world

vars == <<task, world>>

ExplorerConstants ==
    /\ DOMAIN Items = {"hosts", "ports"} /\ \A s \in DOMAIN Items : Items[s] \in Nat
    /\ Pending \in Nat \ {0}

(* task is the window: scan the worker of each scanner, target the text of the port   *)
(* scanner's field, open and found what the last answers left, later the flag of a      *)
(* deferred close.  In a worker, next is the number of items submitted, pending the      *)
(* futures, ready those that ended, batch what wait() returned, retry whether its end    *)
(* tries to close the window again.  world is the Nerva process and the history file, a  *)
(* sequence of lines, each a sequence of entries, and whether its last line is ended.    *)

NoWorker == [step |-> "idle", work |-> None, target |-> None, stop |-> FALSE, next |-> 0,
             pending |-> {}, ready |-> {}, batch |-> {}, checked |-> {}, found |-> {},
             failed |-> FALSE, retry |-> FALSE]

Init ==
    /\ \E target \in Targets["ports"] :
          task = [scan |-> [s \in DOMAIN Items |-> NoWorker], target |-> target, open |-> {}, found |-> {},
                  cameras |-> {}, window |-> "open", later |-> FALSE, scans |-> 0]
    /\ world = [child |-> FALSE, file |-> <<>>, ended |-> TRUE]

running_worker(s) == task.scan[s].step \notin {"idle", "over"}
_running_workers == {s \in DOMAIN Items : running_worker(s)}
Ready(s) == task.window = "open" /\ task.scan[s].step = "idle" /\ task.scans < MaxScans

Worker(work, target) == [NoWorker EXCEPT !.step = "fill", !.work = work, !.target = target]

edit_target ==
    /\ task.window = "open" /\ task.scan["ports"].step = "idle"
    /\ \E target \in Targets["ports"] \ {task.target} : task' = [task EXCEPT !.target = target]
    /\ UNCHANGED world

scan_network ==
    /\ Ready("hosts")
    /\ \E target \in Targets["hosts"] :
          task' = [task EXCEPT !.scan["hosts"] = Worker("hosts", target), !.cameras = {}, !.scans = @ + 1]
    /\ UNCHANGED world

scan_ports ==
    /\ Ready("ports")
    /\ task' = [task EXCEPT !.scan["ports"] = Worker("ports", task.target),
                            !.open = {}, !.found = {}, !.scans = @ + 1]
    /\ UNCHANGED world

stop_scan ==
    /\ task.window = "open"
    /\ \E s \in _running_workers : ~task.scan[s].stop /\ task' = [task EXCEPT !.scan[s].stop = TRUE]
    /\ UNCHANGED world

-----------------------------------------------------------------------------
(* The pool of a scan.  A probe ends at any time; the worker submits, waits for the    *)
(* first that ends and takes what has ended, one by one, looking at the stop each time. *)

Scanning(s, step) == task.scan[s].step = step /\ task.scan[s].work \in {"hosts", "ports"}
Becomes(s, w) == task' = [task EXCEPT !.scan[s] = w] /\ UNCHANGED world

fill_pending ==
    \E s \in DOMAIN Items :
        LET w == task.scan[s]
        IN  /\ Scanning(s, "fill")
            /\ Becomes(s, IF w.next < Items[s] /\ ~w.stop /\ Cardinality(w.pending) < Pending
                          THEN [w EXCEPT !.next = @ + 1, !.pending = @ \cup {w.next + 1}]
                          ELSE [w EXCEPT !.step = IF w.pending = {} THEN "end" ELSE "wait"])

\* The name of the target cannot be resolved.
gethostbyname ==
    /\ Scanning("ports", "fill") /\ task.scan["ports"].next = 0
    /\ Becomes("ports", [task.scan["ports"] EXCEPT !.step = "end", !.failed = TRUE])

Probe ==
    \E s \in DOMAIN Items : \E i \in task.scan[s].pending \ task.scan[s].ready :
        Becomes(s, [task.scan[s] EXCEPT !.ready = @ \cup {i}])

_bounded_future_results ==
    \E s \in DOMAIN Items :
        LET w == task.scan[s]
        IN  /\ Scanning(s, "wait") /\ w.ready # {}
            /\ Becomes(s, [w EXCEPT !.step = "take", !.batch = w.ready, !.ready = {}, !.pending = @ \ w.ready])

Taken(w, i) ==
    [w EXCEPT !.batch = @ \ {i}, !.checked = @ \cup {i},
              !.found = IF i \in Hits[w.target] THEN @ \cup {i} ELSE @]

\* A stop seen by the consumer leaves the loop; one seen after the batch cancels what is pending.
scan_open_ports ==
    \E s \in DOMAIN Items :
        LET w == task.scan[s]
        IN  /\ Scanning(s, "take")
            /\ IF w.batch = {} THEN Becomes(s, [w EXCEPT !.step = IF w.stop THEN "drain" ELSE "fill"])
               ELSE IF w.stop THEN Becomes(s, [w EXCEPT !.step = "drain", !.batch = {}])
               ELSE \E i \in w.batch : Becomes(s, Taken(w, i))

\* The executor waits for the probes that are still at work, whose answers nobody takes.
Drain ==
    \E s \in DOMAIN Items :
        LET w == task.scan[s]
        IN  /\ Scanning(s, "drain") /\ w.pending = w.ready
            /\ Becomes(s, [w EXCEPT !.step = "end", !.pending = {}, !.ready = {}])

-----------------------------------------------------------------------------
(* The identification of services: one child process, asked about the open ports, or   *)
(* about ports over UDP.  fingerprint_services forgets the earlier answers, the other    *)
(* checks add to them.                                                                  *)

Transport(work) == IF work = "udp" THEN "udp" ELSE "tcp"

fingerprint_services ==
    /\ Ready("ports") /\ task.open # {}
    /\ task' = [task EXCEPT !.scan["ports"] = Worker("services", task.target), !.found = {}, !.scans = @ + 1]
    /\ UNCHANGED world

_start_transport_worker ==
    /\ Ready("ports")
    /\ \E work \in {"udp"} \cup (IF task.open = {} THEN {} ELSE {"misconfigs"}) :
          task' = [task EXCEPT !.scan["ports"] = Worker(work, task.target), !.scans = @ + 1]
    /\ UNCHANGED world

Asking(step) == task.scan["ports"].step = step /\ task.scan["ports"].work \notin {"hosts", "ports"}
Nerva == task.scan["ports"]
Answered(results, failed) ==
    task' = [task EXCEPT !.scan["ports"].step = "end", !.scan["ports"].failed = failed,
                         !.scan["ports"].found = {[target |-> Nerva.target, port |-> p, over |-> Transport(Nerva.work)] : p \in results}]

\* Not started when it was stopped before; it may be missing.
build_nerva_command ==
    /\ Asking("fill")
    /\ IF Nerva.stop THEN Answered({}, FALSE) /\ UNCHANGED world
       ELSE \/ task' = [task EXCEPT !.scan["ports"].step = "nerva"] /\ world' = [world EXCEPT !.child = TRUE]
            \/ Answered({}, TRUE) /\ UNCHANGED world

Ports == IF Nerva.work = "udp" THEN Asked ELSE task.open

\* Mutant: a child that takes too long is left to itself.
_stop_process_Forgotten(why) == why = "timeout"

_stop_process(why) == FALSE

\* It ends and is read, or it fails; stopped, what it had written so far is read.
fingerprint_open_ports ==
    /\ Asking("nerva")
    /\ \/ \E results \in SUBSET Ports : Answered(results, FALSE) /\ world' = [world EXCEPT !.child = FALSE]
       \/ Answered({}, TRUE) /\ world' = [world EXCEPT !.child = FALSE]
       \/ Answered({}, TRUE) /\ world' = [world EXCEPT !.child = _stop_process("timeout")]
       \/ /\ Nerva.stop
          /\ \E results \in SUBSET Ports : Answered(results, FALSE)
          /\ world' = [world EXCEPT !.child = _stop_process("stop")]

-----------------------------------------------------------------------------
(* A worker ends; the window gets its answer, its summary and its end.               *)

\* Mutant: a scan that was stopped when every item was already submitted counts as complete.
Summary_Submitted(w) ==
    [work |-> w.work, target |-> w.target, failed |-> w.failed, checked |-> w.checked, found |-> w.found,
     cancelled |-> w.stop /\ (w.work \in DOMAIN Items => w.next < Items[w.work])]

\* A worker that was stopped says so, also when it had nothing left to do.
Summary(w) == [work |-> w.work, target |-> w.target, cancelled |-> w.stop, failed |-> w.failed,
               checked |-> w.checked, found |-> w.found]

\* The worker looks at the stop once more, and then a later one changes nothing.
run ==
    \E s \in DOMAIN Items :
        /\ task.scan[s].step = "end"
        /\ task' = [task EXCEPT !.scan[s].step = "over"]
        /\ UNCHANGED world

append_to_history(entry) ==
    \/ world' = [world EXCEPT !.ended = TRUE,
                              !.file = IF world.ended THEN Append(@, <<entry>>)
                                       ELSE [world.file EXCEPT ![Len(world.file)] = Append(@, entry)]]
    \/ UNCHANGED world \* the file cannot be written

\* A camera is offered when its address answered and, if it is known by its MAC, with that MAC.
match_persisted_cameras(hosts) == {c \in Cameras : c.ip \in hosts /\ (c.byMac => c.same)}

Remembered(t, w) ==
    CASE w.failed -> t
      [] ~w.failed /\ w.work = "hosts" ->
            IF w.stop THEN t ELSE [t EXCEPT !.cameras = match_persisted_cameras(w.found)]
      [] ~w.failed /\ w.work = "ports" -> [t EXCEPT !.open = w.found, !.found = {}]
      [] OTHER -> [t EXCEPT !.found = @ \cup w.found]

\* _worker_finished, then _retry_deferred_close when it was connected.
_worker_finished ==
    \E s \in DOMAIN Items :
        LET w == task.scan[s]
            t == [Remembered(task, w) EXCEPT !.scan[s] = NoWorker]
            closes == w.retry /\ task.later /\ _running_workers = {}
        IN  /\ task.window \in {"open", "closed"} /\ w.step = "over"
            /\ task' = IF closes THEN [t EXCEPT !.later = FALSE, !.window = "closed"] ELSE t
            /\ append_to_history(Summary(w))

clear_history ==
    /\ task.window = "open" /\ world.file # <<>>
    /\ world' = [world EXCEPT !.file = <<>>, !.ended = TRUE]
    /\ UNCHANGED task

\* The imported text replaces the file, and its last line is not ended.
import_history ==
    /\ task.window = "open" /\ world.file # <<>> /\ world.ended
    /\ world' = [world EXCEPT !.file = <<@[Len(@)]>>, !.ended = FALSE]
    /\ UNCHANGED task

-----------------------------------------------------------------------------
(* Closing stops the workers and waits a while, the window doing nothing else; then it   *)
(* accepts, or ignores the event and has the end of the unfinished workers try again.     *)

closeEvent ==
    /\ task.window = "open"
    /\ task' = IF _running_workers = {} THEN [task EXCEPT !.window = "closed"]
               ELSE [task EXCEPT !.window = "closing",
                                 !.scan = [s \in DOMAIN @ |-> IF running_worker(s) THEN [@[s] EXCEPT !.stop = TRUE] ELSE @[s]]]
    /\ UNCHANGED world

\* Mutant: one worker that ended is enough.
closeEvent_Waited_One ==
    /\ task.window = "closing"
    /\ task' = [task EXCEPT !.window = IF _running_workers # DOMAIN Items THEN "closed" ELSE "ignoring"]
    /\ UNCHANGED world

closeEvent_Waited ==
    /\ task.window = "closing"
    /\ task' = [task EXCEPT !.window = IF _running_workers = {} THEN "closed" ELSE "ignoring"]
    /\ UNCHANGED world

\* A worker that has ended by now tries nothing; a close that is already deferred connects no other worker.
closeEvent_Ignored ==
    /\ task.window = "ignoring"
    /\ task' = IF task.later THEN [task EXCEPT !.window = "open"]
               ELSE [task EXCEPT !.window = "open", !.later = TRUE,
                                 !.scan = [s \in DOMAIN @ |-> [@[s] EXCEPT !.retry = running_worker(s)]]]
    /\ UNCHANGED world

Next ==
    \/ edit_target \/ scan_network \/ scan_ports \/ stop_scan
    \/ fill_pending \/ gethostbyname \/ Probe \/ _bounded_future_results \/ scan_open_ports \/ Drain
    \/ fingerprint_services \/ _start_transport_worker \/ build_nerva_command \/ fingerprint_open_ports
    \/ run \/ _worker_finished \/ clear_history \/ import_history
    \/ closeEvent \/ closeEvent_Waited \/ closeEvent_Ignored

Spec == Init /\ [][Next]_vars

-----------------------------------------------------------------------------
(* Properties. *)

\* What the history says of a scan is true: one that is not marked as cancelled probed every item and
\* lists all that answered, one that is marked lists exactly the answers among what it probed.
SummariesAreTrue ==
    \A i \in DOMAIN world.file : \A j \in DOMAIN world.file[i] :
        LET entry == world.file[i][j]
        IN  entry.work \in {"hosts", "ports"} =>
                /\ entry.found = entry.checked \cap Hits[entry.target]
                /\ ~entry.cancelled /\ ~entry.failed => entry.checked = 1..Items[entry.work]

\* The pool holds no more futures than it may, and no answer is taken twice.
PoolIsBounded ==
    \A s \in DOMAIN Items :
        LET w == task.scan[s]
        IN  /\ Cardinality(w.pending) <= Pending /\ w.ready \subseteq w.pending
            /\ w.checked \cap (w.pending \cup w.batch) = {}

\* The window is gone only when no worker runs, and the child process runs only while a worker reads it.
NothingOutlivesTheWindow ==
    /\ task.window = "closed" => _running_workers = {}
    /\ world.child <=> Asking("nerva")
=============================================================================
