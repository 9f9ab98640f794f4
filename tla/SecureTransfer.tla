--------------------------- MODULE SecureTransfer ---------------------------
(***************************************************************************)
(* A Secure Transfer session: the worker thread that runs one operation of      *)
(* TailcatBackend, the Tailcat process it supervises, and the window that        *)
(* shows the connection token and the received text.                             *)
(*                                                                         *)
(* The worker polls: between two looks at the stop event it may read a line,     *)
(* a chunk or an exit code, so Stop can arrive anywhere.  Its signals are queued  *)
(* to the window.  The Tailcat process is outside src/: it announces a token or   *)
(* something else on stdout, and may exit at any time or never.                   *)
(***************************************************************************)
EXTENDS Naturals, Sequences

Receivers == {"receive_files", "serve_port"}
Senders == {"send_path", "send_text"}
TokenModes == Receivers \cup {"receive_text"}
Modes == TokenModes \cup Senders \cup {"forward_port"}

VARIABLES
    pc,         \* where the worker is; "idle" when isRunning() is false
    mode,       \* the operation of the session
    stop,       \* the worker's cancel event
    child,      \* its Tailcat process: "none" | "up" | "ok" | "failed"
    stdout,     \* its stdout: "silent" | "token" | "garbage" | "closed"
    payload,    \* the text read so far: "empty" | "some" | "over" the limit
    ready,      \* the session has reported READY
    abandoned,  \* sessions that ended and left their process up: [send, ready]
    events,     \* signals queued to the window
    busy,       \* _set_running: the start buttons are disabled
    readyField, \* _ready_field, by the mode of its tab
    tokens,     \* what each token field shows: the mode that announced it
    text,       \* received_text: the session's child and payload when reported
    last        \* history: how the last session ended

workerVars == <<pc, mode, stop, payload, ready>>
childVars == <<child, stdout>>
windowVars == <<busy, readyField, tokens, text>>
vars == <<workerVars, childVars, abandoned, events, windowVars, last>>

Nobody == "nobody"
Outcomes == {"result", "error", "cancelled"}
Event(kind) == [kind |-> kind, mode |-> mode, child |-> child, payload |-> payload]

Init ==
    /\ pc = "idle" /\ mode = Nobody /\ stop = FALSE /\ payload = "empty" /\ ready = FALSE
    /\ child = "none" /\ stdout = "silent"
    /\ abandoned = {} /\ events = <<>>
    /\ busy = FALSE /\ readyField = Nobody
    /\ tokens = [m \in TokenModes |-> Nobody] /\ text = <<>>
    /\ last = [outcome |-> "result", child |-> "ok"]

-----------------------------------------------------------------------------
(* The Tailcat process. *)

Announce ==
    /\ child = "up" /\ stdout = "silent"
    /\ stdout' \in {"token", "garbage", "closed"}
    /\ UNCHANGED <<workerVars, child, abandoned, events, windowVars, last>>

\* The peer's text ends, the process still being up.
CloseStdout ==
    /\ child = "up" /\ stdout = "token" /\ mode = "receive_text"
    /\ stdout' = "closed"
    /\ UNCHANGED <<workerVars, child, abandoned, events, windowVars, last>>

Exit ==
    /\ child = "up"
    /\ child' \in {"ok", "failed"}
    /\ UNCHANGED <<workerVars, stdout, abandoned, events, windowVars, last>>

AbandonedExits ==
    /\ \E s \in abandoned : abandoned' = abandoned \ {s}
    /\ UNCHANGED <<workerVars, childVars, events, windowVars, last>>

\* _stop_process: terminate, and kill after the grace period.
Stopped == IF child = "up" THEN "failed" ELSE child

-----------------------------------------------------------------------------
(* The worker. *)

\* The operation returns, with its process in state c.
Return(c) ==
    /\ child' = c
    /\ pc' = "returned"
    /\ UNCHANGED <<mode, stop, payload, ready, stdout, abandoned, events, last>>

\* Mutant: the process of the ended session is still the worker's.
Leave_Keeps(outcome, c) ==
    /\ pc' = "ended"
    /\ child' = c /\ stdout' = "silent"
    /\ events' = Append(events, Event(outcome))
    /\ last' = [outcome |-> outcome, child |-> c]
    /\ UNCHANGED <<mode, stop, payload, ready, abandoned>>

\* run() ends with one signal; nobody supervises the process any more.
Leave(outcome, c) ==
    /\ pc' = "ended"
    /\ child' = "none" /\ stdout' = "silent"
    /\ abandoned' = abandoned \cup {s \in {[send |-> mode \in Senders, ready |-> ready]} : c = "up"}
    /\ events' = Append(events, Event(outcome))
    /\ last' = [outcome |-> outcome, child |-> c]
    /\ UNCHANGED <<mode, stop, payload, ready>>

Goto(where) ==
    /\ pc' = where
    /\ UNCHANGED <<mode, stop, payload, ready, childVars, abandoned, events, last>>

\* The checks before anything is spawned: cancellation, request, runtime version,
\* and the report of the first status.
Validate ==
    /\ pc = "validate"
    /\ \/ stop /\ Leave("cancelled", "none")
       \/ Leave("error", "none")
       \/ ~stop /\ Goto("spawn")

\* A client has its token parsed, and needs scp or a short text; then Popen.
Spawn ==
    /\ pc = "spawn"
    /\ \/ Leave("error", "none")
       \/ /\ child' = "up" /\ stdout' = "silent"
          /\ pc' = CASE mode \in TokenModes -> "starting"
                     [] mode = "forward_port" -> "forwarding"
                     [] OTHER -> "waiting"
          /\ UNCHANGED <<mode, stop, payload, ready, abandoned, events, last>>

\* One look of the loop that waits for the announcement.
_server_ready_token ==
    /\ pc = "starting"
    /\ \/ stop /\ Return(Stopped)
       \/ child # "up" /\ Leave("error", child)
       \/ child = "up" /\ stdout = "silent" /\ Leave("error", Stopped)     \* timeout
       \/ child = "up" /\ stdout \in {"garbage", "closed"} /\ Leave("error", child)
       \/ child = "up" /\ stdout = "token" /\ Goto("announced")

\* The stop event is looked at once between the announcement and on_ready.
Announced ==
    /\ pc = "announced"
    /\ IF stop THEN Return(child) ELSE Goto("ready")

\* The grace period of a local forward.
Forwarding ==
    /\ pc = "forwarding"
    /\ \/ stop /\ Return(Stopped)
       \/ child # "up" /\ Leave("error", child)
       \/ child = "up" /\ Goto("ready")

\* on_ready: report_progress raises WorkerCancelled after a stop.
on_ready ==
    /\ pc = "ready"
    /\ \/ stop /\ Leave("cancelled", child)
       \/ /\ ~stop
          /\ ready' = TRUE
          /\ events' = Append(events, Event("ready"))
          /\ pc' = IF mode = "receive_text" THEN "reading" ELSE "waiting"
          /\ UNCHANGED <<mode, stop, payload, childVars, abandoned, last>>

\* Mutant: a stop ends the wait and leaves the process.
_wait_interruptibly_Leaves ==
    /\ pc = "waiting"
    /\ \/ stop /\ Return(child)
       \/ child = "ok" /\ Return(child)
       \/ child = "failed" /\ ~stop /\ Leave("error", child)

\* Mutant: the wait ends with the process only.
_wait_interruptibly_Deaf ==
    /\ pc = "waiting"
    /\ \/ child = "ok" /\ Return(child)
       \/ child = "failed" /\ Leave("error", child)

\* Wait for the exit code or the stop event, then look at the event once more; only a
\* text send judges the exit code whatever the event.
_wait_interruptibly ==
    /\ pc = "waiting"
    /\ \/ stop /\ Return(Stopped)
       \/ child = "ok" /\ Return(child)
       \/ child = "failed" /\ (stop => mode = "send_text") /\ Leave("error", child)

\* The chunks of the text, up to the end of the stream.
receive_text ==
    /\ pc = "reading"
    /\ \/ stop /\ Return(Stopped)
       \/ /\ payload = "empty"
          /\ payload' = "some"
          /\ UNCHANGED <<pc, mode, stop, ready, childVars, abandoned, events, last>>
       \/ Leave("error", Stopped)                                       \* too long
       \/ (stdout = "closed" \/ child # "up") /\ Goto("draining")

\* The process has a few seconds to exit after its stream, whatever the stop event.
_wait_after_stream ==
    /\ pc = "draining"
    /\ \/ child = "up" /\ Leave("error", Stopped)
       \/ child = "failed" /\ Leave("error", child)
       \/ child = "ok" /\ Return(child)

\* The service reports: the text, unless stopped, or the end of a send.
Conclude ==
    /\ pc = "returned"
    /\ \/ mode \in Senders /\ stop /\ Leave("cancelled", child)
       \/ /\ ~(mode \in Senders /\ stop)
          /\ pc' = "final"
          /\ events' = IF mode = "receive_text" /\ ~stop THEN Append(events, Event("text"))
                       ELSE events
          /\ UNCHANGED <<mode, stop, payload, ready, childVars, abandoned, last>>

\* Mutant: no look at the event after the task.
Final_Unchecked == pc = "final" /\ Leave("result", child)

\* run's look at the cancel event after the task.
Final ==
    /\ pc = "final"
    /\ Leave(IF stop THEN "cancelled" ELSE "result", child)

\* The thread is over: isRunning() is false and finished is queued.
Finish ==
    /\ pc = "ended"
    /\ pc' = "idle"
    /\ mode' = Nobody /\ stop' = FALSE /\ payload' = "empty" /\ ready' = FALSE
    /\ events' = Append(events, Event("finished"))
    /\ UNCHANGED <<childVars, abandoned, last>>

Worker ==
    /\ \/ Validate \/ Spawn \/ _server_ready_token \/ Announced \/ Forwarding \/ on_ready
       \/ _wait_interruptibly \/ receive_text \/ _wait_after_stream \/ Conclude \/ Final \/ Finish
    /\ UNCHANGED windowVars

-----------------------------------------------------------------------------
(* The window. *)

\* Mutant: only the thread is asked.
CanStart_Thread == pc = "idle"

\* The buttons, and isRunning().
CanStart == ~busy /\ pc = "idle"

_start(m) ==
    /\ CanStart
    /\ pc' = "validate" /\ mode' = m
    /\ busy' = TRUE
    /\ readyField' = IF m \in TokenModes THEN m ELSE Nobody
    /\ tokens' = [tokens EXCEPT ![readyField'] = Nobody]
    /\ text' = IF m = "receive_text" THEN <<>> ELSE text
    /\ UNCHANGED <<stop, payload, ready, childVars, abandoned, events, last>>

\* The Stop button, or a close of the window.
stop_operation ==
    /\ busy /\ pc # "idle" /\ ~stop
    /\ stop' = TRUE
    /\ UNCHANGED <<pc, mode, payload, ready, childVars, abandoned, events, windowVars, last>>

\* The slots, in the order of the signals: _progress and _worker_finished change
\* state, _completed, _failed and _cancelled show text.
Deliver ==
    /\ events # <<>>
    /\ events' = Tail(events)
    /\ LET e == Head(events) IN
       /\ tokens' = IF e.kind = "ready" /\ e.mode \in TokenModes /\ readyField # Nobody
                    THEN [tokens EXCEPT ![readyField] = e.mode] ELSE tokens
       /\ text' = IF e.kind = "text" THEN <<e.child, e.payload>> ELSE text
       /\ busy' = (busy /\ e.kind # "finished")
       /\ readyField' = IF e.kind = "finished" THEN Nobody ELSE readyField
    /\ UNCHANGED <<workerVars, childVars, abandoned, last>>

Tailcat == Announce \/ CloseStdout \/ Exit \/ AbandonedExits
Next ==
    \/ Worker \/ Deliver \/ stop_operation \/ Tailcat
    \/ \E m \in Modes : _start(m)

Spec == Init /\ [][Next]_vars

\* The worker thread and the event loop run; Tailcat owes nothing.
FairSpec == Spec /\ WF_vars(Worker) /\ WF_vars(Deliver)

-----------------------------------------------------------------------------
(* Properties. *)

Events == [kind : Outcomes \cup {"ready", "text", "finished"}, mode : Modes \cup {Nobody},
           child : {"none", "up", "ok", "failed"}, payload : {"empty", "some", "over"}]

\* Every variable keeps its type, and a supervised process has a session.
TypeOK ==
    /\ pc \in {"idle", "validate", "spawn", "starting", "announced", "forwarding", "ready", "waiting",
               "reading", "draining", "returned", "final", "ended"}
    /\ mode \in Modes \cup {Nobody}
    /\ stop \in BOOLEAN /\ ready \in BOOLEAN /\ busy \in BOOLEAN
    /\ child \in {"none", "up", "ok", "failed"}
    /\ stdout \in {"silent", "token", "garbage", "closed"}
    /\ payload \in {"empty", "some", "over"}
    /\ abandoned \subseteq [send : BOOLEAN, ready : BOOLEAN]
    /\ events \in Seq(Events)
    /\ readyField \in TokenModes \cup {Nobody}
    /\ tokens \in [TokenModes -> Modes \cup {Nobody}]
    /\ pc = "idle" => child = "none"

\* A session ends with a result only if its process exited with success: a stop
\* never looks like a completed transfer.
ResultIsGenuine == last.outcome = "result" => last.child = "ok"

\* A session that reported READY, and any send, leaves no process behind: stopping a
\* tunnel in use closes it ("stop the session when the transfer/tunnel is no longer
\* needed").
AnnouncedIsStopped == \A s \in abandoned : ~s.ready /\ ~s.send

\* A token field shows only what a session of its own tab announced.
TokenInItsField == \A m \in TokenModes : tokens[m] \in {m, Nobody}

\* A session that is stopped, or whose process is over, ends and frees the window.
SessionEnds == (pc # "idle" /\ (stop \/ child \in {"ok", "failed"})) ~> ~busy

\* A stopped session has no process: "Expose an explicit local service through a
\* temporary secure tunnel".
CancelledIsStopped == last.outcome = "cancelled" => last.child # "up"
=============================================================================
