------------------------- MODULE SecureTransferProofs -------------------------
(***************************************************************************)
(* Types of Secure Transfer, and its promises about results, processes and    *)
(* token fields, however long the queue of signals and the list of sessions.   *)
(*                                                                         *)
(* Two arguments: what the place the worker has reached says of its session    *)
(* (PlaceInv), and what the window knows of the signals on their way (FieldInv). *)
(***************************************************************************)
EXTENDS SecureTransfer, TLAPS

-----------------------------------------------------------------------------
(* The worker's session, by the place it has reached. *)

Places == {"idle", "validate", "spawn", "starting", "announced", "forwarding", "ready", "waiting",
           "reading", "draining", "returned", "final", "ended"}
States == {"none", "up", "ok", "failed"}

SessionTyped ==
    /\ pc \in Places /\ mode \in Modes \cup {Nobody} /\ child \in States
    /\ stdout \in {"silent", "token", "garbage", "closed"} /\ payload \in {"empty", "some", "over"}
    /\ pc \in {"idle", "ended"} => child = "none"
    /\ pc # "idle" => mode \in Modes

\* Before READY nothing was reported, a send is never before READY, and a session that returned
\* was stopped or its process succeeded; only an announcement overtaken by a stop leaves it up.
PlaceInv ==
    /\ pc \in {"idle", "validate", "spawn", "starting", "announced", "forwarding", "ready"} => ready = FALSE
    /\ pc \in {"starting", "announced", "forwarding", "ready"} => mode \notin Senders
    /\ pc \in {"returned", "final"} =>
          /\ stop = TRUE \/ child = "ok"
          /\ child = "up" => ready = FALSE /\ mode \notin Senders

PromiseInv == ResultIsGenuine /\ AnnouncedIsStopped

SessionInv == SessionTyped /\ PlaceInv /\ PromiseInv

\* What a way out of the operation keeps.
LEMMA LeaveKeeps ==
    ASSUME SessionInv, NEW outcome, NEW c, Leave(outcome, c), pc # "idle",
           outcome = "result" => c = "ok",
           c = "up" => ready = FALSE /\ mode \notin Senders
    PROVE  SessionInv'
<1>1. SessionTyped' /\ PlaceInv'
  BY DEF Leave, SessionInv, SessionTyped, PlaceInv, Places, States
<1>2. ResultIsGenuine'
  BY DEF Leave, ResultIsGenuine
<1>3. AnnouncedIsStopped'
  <2> SUFFICES ASSUME NEW s \in abandoned' PROVE ~s.ready /\ ~s.send
    BY DEF AnnouncedIsStopped
  <2>1. CASE s \in abandoned
    BY <2>1 DEF SessionInv, PromiseInv, AnnouncedIsStopped
  <2>2. CASE c = "up" /\ s = [send |-> mode \in Senders, ready |-> ready]
    BY <2>2, Zenon
  <2>3. s \in abandoned \/ (c = "up" /\ s = [send |-> mode \in Senders, ready |-> ready])
    BY Zenon DEF Leave
  <2> QED
    BY <2>1, <2>2, <2>3
<1> QED
  BY <1>1, <1>2, <1>3 DEF SessionInv, PromiseInv

LEMMA ReturnKeeps ==
    ASSUME SessionInv, NEW c \in States, Return(c), pc # "idle",
           stop = TRUE \/ c = "ok", c = "up" => ready = FALSE /\ mode \notin Senders
    PROVE  SessionInv'
BY DEF Return, SessionInv, SessionTyped, PlaceInv, PromiseInv, ResultIsGenuine, AnnouncedIsStopped, Places, States

LEMMA StoppedIsDown ==
    ASSUME SessionTyped
    PROVE  Stopped \in States /\ Stopped # "up"
BY DEF Stopped, SessionTyped, States

\* Every step of the worker.
LEMMA WorkerKeepsSession ==
    ASSUME SessionInv, stop \in BOOLEAN, Worker
    PROVE  SessionInv'
<1> USE DEF Modes, TokenModes, Receivers, Senders, Nobody
<1>1. SessionTyped /\ PlaceInv /\ Stopped \in States /\ Stopped # "up"
  BY StoppedIsDown DEF SessionInv
<1>2. stop => stop = TRUE
  BY Zenon
<1>3. child \in States
  BY <1>1 DEF SessionTyped
<1>4. CASE Validate
  <2>1. CASE Leave("cancelled", "none") \/ Leave("error", "none")
    BY <1>4, <2>1, LeaveKeeps DEF Validate
  <2>2. CASE Goto("spawn")
    BY <1>4, <2>2 DEF Validate, Goto, childVars, SessionInv, SessionTyped, PlaceInv, PromiseInv, ResultIsGenuine,
                      AnnouncedIsStopped, Places
  <2> QED
    BY <1>4, <2>1, <2>2 DEF Validate
<1>5. CASE Spawn
  <2>1. CASE Leave("error", "none")
    BY <1>5, <2>1, LeaveKeeps DEF Spawn
  <2>2. CASE ~Leave("error", "none")
    BY <1>5, <2>2 DEF Spawn, SessionInv, SessionTyped, PlaceInv, PromiseInv, ResultIsGenuine,
                      AnnouncedIsStopped, Places, States
  <2> QED
    BY <2>1, <2>2
<1>6. CASE _server_ready_token
  <2>1. pc = "starting" /\ ready = FALSE /\ mode \notin Senders
    BY <1>1, <1>6 DEF _server_ready_token, PlaceInv
  <2>2. CASE stop /\ Return(Stopped)
    BY <1>1, <1>2, <2>1, <2>2, ReturnKeeps
  <2>3. CASE Leave("error", child) \/ Leave("error", Stopped)
    BY <1>1, <2>1, <2>3, LeaveKeeps
  <2>4. CASE Goto("announced")
    BY <1>1, <2>1, <2>4 DEF Goto, childVars, SessionInv, SessionTyped, PlaceInv, PromiseInv, ResultIsGenuine,
                            AnnouncedIsStopped, Places
  <2> QED
    BY <1>6, <2>2, <2>3, <2>4 DEF _server_ready_token
<1>7. CASE Announced \/ Forwarding
  <2>1. pc \in {"announced", "forwarding"} /\ ready = FALSE /\ mode \notin Senders
    BY <1>1, <1>7 DEF Announced, Forwarding, PlaceInv
  <2>2. CASE stop /\ (Return(Stopped) \/ Return(child))
    BY <1>1, <1>2, <1>3, <2>1, <2>2, ReturnKeeps
  <2>3. CASE Leave("error", child)
    BY <1>1, <2>1, <2>3, LeaveKeeps
  <2>4. CASE Goto("ready")
    BY <1>1, <2>1, <2>4 DEF Goto, childVars, SessionInv, SessionTyped, PlaceInv, PromiseInv, ResultIsGenuine,
                            AnnouncedIsStopped, Places
  <2> QED
    BY <1>7, <2>2, <2>3, <2>4 DEF Announced, Forwarding
<1>8. CASE on_ready
  <2>1. pc = "ready" /\ ready = FALSE /\ mode \notin Senders
    BY <1>1, <1>8 DEF on_ready, PlaceInv
  <2>2. CASE Leave("cancelled", child)
    BY <2>1, <2>2, LeaveKeeps
  <2>3. CASE ~Leave("cancelled", child)
    BY <1>1, <1>8, <2>1, <2>3 DEF on_ready, childVars, SessionInv, SessionTyped, PlaceInv, PromiseInv, ResultIsGenuine,
                                  AnnouncedIsStopped, Places
  <2> QED
    BY <2>2, <2>3
<1>9. CASE _wait_interruptibly
  <2>1. CASE stop /\ Return(Stopped)
    BY <1>1, <1>2, <1>9, <2>1, ReturnKeeps DEF _wait_interruptibly
  <2>2. CASE child = "ok" /\ Return(child)
    BY <1>3, <1>9, <2>2, ReturnKeeps DEF _wait_interruptibly
  <2>3. CASE child = "failed" /\ Leave("error", child)
    BY <1>9, <2>3, LeaveKeeps DEF _wait_interruptibly
  <2> QED
    BY <1>9, <2>1, <2>2, <2>3 DEF _wait_interruptibly
<1>10. CASE receive_text
  <2>1. CASE stop /\ Return(Stopped)
    BY <1>1, <1>2, <1>10, <2>1, ReturnKeeps DEF receive_text
  <2>2. CASE Leave("error", Stopped)
    BY <1>1, <1>10, <2>2, LeaveKeeps DEF receive_text
  <2>3. CASE /\ payload' = "some"
             /\ UNCHANGED <<pc, mode, stop, ready, childVars, abandoned, events, last>>
    BY <1>1, <2>3 DEF SessionInv, SessionTyped, PlaceInv, PromiseInv, ResultIsGenuine, AnnouncedIsStopped, childVars
  <2>4. CASE Goto("draining")
    BY <1>1, <1>10, <2>4 DEF receive_text, Goto, childVars, SessionInv, SessionTyped, PlaceInv, PromiseInv, ResultIsGenuine,
                             AnnouncedIsStopped, Places
  <2> QED
    BY <1>10, <2>1, <2>2, <2>3, <2>4 DEF receive_text
<1>11. CASE _wait_after_stream
  BY <1>1, <1>3, <1>11, LeaveKeeps, ReturnKeeps DEF _wait_after_stream
<1>12. CASE Conclude
  <2>1. CASE Leave("cancelled", child)
    <3>1. child = "up" => ready = FALSE /\ mode \notin Senders
      BY <1>1, <1>12 DEF Conclude, PlaceInv
    <3> QED
      BY <1>12, <2>1, <3>1, LeaveKeeps DEF Conclude
  <2>2. CASE ~Leave("cancelled", child)
    <3>1. pc = "returned" /\ pc' = "final" /\ UNCHANGED <<mode, stop, payload, ready, child, stdout, abandoned, last>>
      BY <1>12, <2>2 DEF Conclude, childVars
    <3> QED
      BY <1>1, <3>1 DEF SessionInv, SessionTyped, PlaceInv, PromiseInv, ResultIsGenuine, AnnouncedIsStopped, Places
  <2> QED
    BY <2>1, <2>2
<1>13. CASE Final
  <2>1. pc = "final" /\ (stop = TRUE \/ child = "ok") /\ (child = "up" => ready = FALSE /\ mode \notin Senders)
    BY <1>1, <1>13 DEF Final, PlaceInv
  <2>2. CASE stop
    BY <1>13, <2>1, <2>2, LeaveKeeps DEF Final
  <2>3. CASE ~stop
    <3>1. child = "ok"
      BY <2>1, <2>3, Zenon
    <3> QED
      BY <1>13, <2>1, <2>3, <3>1, LeaveKeeps DEF Final
  <2> QED
    BY <2>2, <2>3
<1>14. CASE Finish
  BY <1>1, <1>14 DEF Finish, SessionInv, SessionTyped, PlaceInv, PromiseInv, ResultIsGenuine,
                     AnnouncedIsStopped, Places, childVars
<1> QED
  BY <1>4, <1>5, <1>6, <1>7, <1>8, <1>9, <1>10, <1>11, <1>12, <1>13, <1>14 DEF Worker

\* The other actors touch the process only while it is up, and end a session's claim on it.
LEMMA OthersKeepSession ==
    ASSUME SessionInv, Deliver \/ stop_operation \/ Tailcat \/ (\E m \in Modes : _start(m)) \/ UNCHANGED vars
    PROVE  SessionInv'
<1> USE DEF SessionInv, SessionTyped, PlaceInv, PromiseInv, ResultIsGenuine, AnnouncedIsStopped, Places, States,
        workerVars, childVars
<1>1. CASE Deliver \/ UNCHANGED vars
  BY <1>1 DEF Deliver, vars
<1>2. CASE stop_operation
  BY <1>2 DEF stop_operation
<1>3. CASE Tailcat
  BY <1>3 DEF Tailcat, Announce, CloseStdout, Exit, AbandonedExits
<1>4. CASE \E m \in Modes : _start(m)
  BY <1>4 DEF _start, CanStart
<1> QED
  BY <1>1, <1>2, <1>3, <1>4

LEMMA SessionStep ==
    ASSUME SessionInv, stop \in BOOLEAN, [Next]_vars
    PROVE  SessionInv'
BY WorkerKeepsSession, OthersKeepSession DEF Next

LEMMA SessionInit == ASSUME Init PROVE SessionInv
BY DEF Init, SessionInv, SessionTyped, PlaceInv, PromiseInv, ResultIsGenuine, AnnouncedIsStopped, Places, States,
       Nobody

-----------------------------------------------------------------------------
(* The window and the signals on their way. *)

\* The field that a session of mode m announces itself in.
FieldOf(m) == IF m \in TokenModes THEN m ELSE Nobody

WindowTyped ==
    /\ events \in Seq(Events)
    /\ readyField \in TokenModes \cup {Nobody}
    /\ tokens \in [TokenModes -> Modes \cup {Nobody}]

\* The end of a session is its last signal and frees the window, so the signals on their way are
\* those of the session the window waits for.
FieldInv ==
    /\ pc # "idle" => /\ busy = TRUE /\ readyField = FieldOf(mode)
                      /\ \A k \in 1..Len(events) : events[k].kind # "finished"
    /\ \A k \in 1..Len(events) :
          /\ events[k].kind = "finished" => k = Len(events)
          /\ events[k].kind = "ready" => readyField = FieldOf(events[k].mode)
    /\ busy # TRUE => events = <<>>

WindowInv == WindowTyped /\ FieldInv /\ TokenInItsField

LEMMA EventsPush ==
    ASSUME NEW q \in Seq(Events), NEW x \in Events
    PROVE  /\ Append(q, x) \in Seq(Events) /\ Append(q, x) # <<>>
           /\ Len(Append(q, x)) = Len(q) + 1 /\ Len(q) \in Nat
           /\ \A k \in 1..Len(Append(q, x)) :
                 \/ k \in 1..Len(q) /\ Append(q, x)[k] = q[k]
                 \/ k = Len(Append(q, x)) /\ Append(q, x)[k] = x
OBVIOUS

LEMMA EventsPop ==
    ASSUME NEW q \in Seq(Events), q # <<>>
    PROVE  /\ Tail(q) \in Seq(Events) /\ Head(q) = q[1] /\ 1 \in 1..Len(q) /\ Head(q) \in Events
           /\ Len(Tail(q)) = Len(q) - 1 /\ Len(q) \in Nat
           /\ \A k \in 1..Len(Tail(q)) : k \in Nat /\ k >= 1 /\ k + 1 \in 1..Len(q) /\ Tail(q)[k] = q[k + 1]
OBVIOUS

Kinds == Outcomes \cup {"ready", "text"}

LEMMA EventIsTyped ==
    ASSUME SessionTyped, NEW kind \in Kinds \cup {"finished"}
    PROVE  Event(kind) \in Events /\ Event(kind).kind = kind /\ Event(kind).mode = mode
BY DEF Event, Events, Kinds, SessionTyped, States

\* A running worker sends at most one signal, of its own session.
LEMMA WorkerSends ==
    ASSUME SessionInv, Worker, ~Finish
    PROVE  /\ pc # "idle" /\ pc' # "idle" /\ mode' = mode /\ UNCHANGED <<busy, readyField, tokens>>
           /\ events' = events \/ (\E kind \in Kinds : events' = Append(events, Event(kind)))
<1> USE DEF Leave, Return, Goto, Kinds, Outcomes, childVars, windowVars
<1>1. CASE Validate \/ Spawn \/ _server_ready_token \/ Announced \/ Forwarding
  BY <1>1 DEF Worker, Validate, Spawn, _server_ready_token, Announced, Forwarding
<1>2. CASE on_ready \/ _wait_interruptibly \/ receive_text \/ _wait_after_stream \/ Conclude \/ Final
  BY <1>2 DEF Worker, on_ready, _wait_interruptibly, receive_text, _wait_after_stream, Conclude, Final
<1> QED
  BY <1>1, <1>2 DEF Worker

LEMMA WorkerKeepsWindow ==
    ASSUME SessionInv, WindowInv, Worker
    PROVE  WindowInv'
<1>1. SessionTyped /\ events \in Seq(Events)
  BY DEF SessionInv, WindowInv, WindowTyped
<1>2. CASE ~Finish
  <2>1. CASE events' = events
    BY <1>2, <2>1, WorkerSends DEF WindowInv, WindowTyped, FieldInv, TokenInItsField
  <2>2. ASSUME NEW kind \in Kinds, events' = Append(events, Event(kind)) PROVE WindowInv'
    <3>1. Event(kind) \in Events /\ Event(kind).kind = kind /\ kind # "finished" /\ Event(kind).mode = mode
      BY <1>1, EventIsTyped DEF Kinds, Outcomes
    <3>2. /\ events' \in Seq(Events)
          /\ \A k \in 1..Len(events') : \/ k \in 1..Len(events) /\ events'[k] = events[k]
                                        \/ events'[k] = Event(kind)
      BY <1>1, <2>2, <3>1, EventsPush
    <3>3. /\ pc # "idle" /\ mode' = mode /\ UNCHANGED <<busy, readyField, tokens>>
          /\ busy = TRUE /\ readyField = FieldOf(mode)
      BY <1>2, WorkerSends DEF WindowInv, FieldInv
    <3>4. \A k \in 1..Len(events') : /\ events'[k].kind # "finished"
                                     /\ events'[k].kind = "ready" => readyField = FieldOf(events'[k].mode)
      BY <3>1, <3>2, <3>3 DEF WindowInv, FieldInv
    <3> QED
      BY <3>2, <3>3, <3>4 DEF WindowInv, WindowTyped, FieldInv, TokenInItsField
  <2> QED
    BY <1>2, <2>1, <2>2, WorkerSends
<1>3. CASE Finish
  <2>1. /\ pc # "idle" /\ pc' = "idle" /\ UNCHANGED <<busy, readyField, tokens>>
        /\ events' = Append(events, Event("finished"))
    BY <1>3 DEF Finish, Worker, windowVars
  <2>2. Event("finished") \in Events /\ Event("finished").kind = "finished"
    BY <1>1, EventIsTyped
  <2>3. /\ events' \in Seq(Events)
        /\ \A k \in 1..Len(events') : \/ k \in 1..Len(events) /\ events'[k] = events[k]
                                      \/ k = Len(events') /\ events'[k] = Event("finished")
    BY <1>1, <2>1, <2>2, EventsPush
  <2>4. busy = TRUE /\ \A k \in 1..Len(events) : events[k].kind # "finished"
    BY <2>1 DEF WindowInv, FieldInv
  <2>5. \A k \in 1..Len(events') : /\ events'[k].kind = "finished" => k = Len(events')
                                   /\ events'[k].kind = "ready" => readyField = FieldOf(events'[k].mode)
    BY <2>2, <2>3, <2>4 DEF WindowInv, FieldInv
  <2> QED
    BY <2>1, <2>3, <2>4, <2>5 DEF WindowInv, WindowTyped, FieldInv, TokenInItsField
<1> QED
  BY <1>2, <1>3

LEMMA DeliverKeepsWindow ==
    ASSUME WindowInv, busy \in BOOLEAN, Deliver
    PROVE  WindowInv'
<1> DEFINE e == Head(events)
<1>1. /\ events \in Seq(Events) /\ events # <<>> /\ events' = Tail(events) /\ UNCHANGED <<pc, mode>>
      /\ readyField \in TokenModes \cup {Nobody} /\ tokens \in [TokenModes -> Modes \cup {Nobody}]
  BY DEF Deliver, WindowInv, WindowTyped, workerVars
<1>2. /\ events' \in Seq(Events) /\ e = events[1] /\ 1 \in 1..Len(events) /\ e \in Events
      /\ Len(events') = Len(events) - 1 /\ Len(events) \in Nat
      /\ \A k \in 1..Len(events') : k \in Nat /\ k >= 1 /\ k + 1 \in 1..Len(events) /\ events'[k] = events[k + 1]
  BY <1>1, EventsPop
<1>3. busy = TRUE
  BY <1>1 DEF WindowInv, FieldInv
<1>4. /\ busy' = (busy /\ e.kind # "finished")
      /\ readyField' = IF e.kind = "finished" THEN Nobody ELSE readyField
      /\ tokens' = IF e.kind = "ready" /\ e.mode \in TokenModes /\ readyField # Nobody
                   THEN [tokens EXCEPT ![readyField] = e.mode] ELSE tokens
  BY DEF Deliver
<1> HIDE DEF e
<1>5. WindowTyped' /\ TokenInItsField'
  <2>1. e.kind = "ready" => readyField = FieldOf(e.mode)
    BY <1>2 DEF WindowInv, FieldInv
  <2>2. e.mode \in Modes \cup {Nobody} /\ Nobody \notin TokenModes
    BY <1>2 DEF Events, Nobody, TokenModes, Receivers
  <2>3. /\ tokens' \in [TokenModes -> Modes \cup {Nobody}]
        /\ \A m \in TokenModes : tokens'[m] \in {m, Nobody}
    BY <1>1, <1>4, <2>1, <2>2 DEF FieldOf, WindowInv, TokenInItsField
  <2> QED
    BY <1>1, <1>2, <1>4, <2>3 DEF WindowTyped, TokenInItsField
<1>6. \A k \in 1..Len(events') : /\ events'[k].kind = "finished" => k = Len(events')
                                 /\ events'[k].kind = "ready" => readyField = FieldOf(events'[k].mode)
  <2> SUFFICES ASSUME NEW k \in 1..Len(events')
               PROVE  /\ events'[k].kind = "finished" => k = Len(events')
                      /\ events'[k].kind = "ready" => readyField = FieldOf(events'[k].mode)
    OBVIOUS
  <2>1. k \in Nat /\ k + 1 \in 1..Len(events) /\ events'[k] = events[k + 1]
    BY <1>2
  <2>2. events[k + 1].kind = "finished" => k + 1 = Len(events)
    BY <2>1 DEF WindowInv, FieldInv
  <2>3. events[k + 1].kind = "ready" => readyField = FieldOf(events[k + 1].mode)
    BY <2>1 DEF WindowInv, FieldInv
  <2>4. k + 1 = Len(events) => k = Len(events')
    BY <1>2, <2>1
  <2> QED
    BY <2>1, <2>2, <2>3, <2>4
<1>7. CASE e.kind = "finished"
  <2>1. Len(events) = 1 /\ pc = "idle"
    BY <1>2, <1>7 DEF WindowInv, FieldInv
  <2>2. events' = <<>>
    BY <1>2, <2>1
  <2>3. pc' = "idle" /\ Len(events') = 0
    BY <1>1, <2>1, <2>2
  <2>4. FieldInv'
    BY <2>2, <2>3 DEF FieldInv
  <2> QED
    BY <1>5, <2>4 DEF WindowInv
<1>8. CASE e.kind # "finished"
  <2>1. busy' = TRUE
    BY <1>3, <1>4, <1>8, Zenon
  <2>2. pc # "idle" => readyField = FieldOf(mode) /\ \A k \in 1..Len(events) : events[k].kind # "finished"
    BY DEF WindowInv, FieldInv
  <2>3. pc # "idle" => \A k \in 1..Len(events') : events'[k].kind # "finished"
    BY <1>2, <2>2
  <2> QED
    BY <1>1, <1>4, <1>5, <1>6, <1>8, <2>1, <2>2, <2>3 DEF WindowInv, FieldInv
<1> QED
  BY <1>7, <1>8

LEMMA OthersKeepWindow ==
    ASSUME SessionInv, WindowInv, stop_operation \/ Tailcat \/ (\E m \in Modes : _start(m)) \/ UNCHANGED vars
    PROVE  WindowInv'
<1>1. CASE stop_operation \/ Tailcat \/ UNCHANGED vars
  <2>1. UNCHANGED <<pc, mode, events, busy, readyField, tokens>>
    BY <1>1 DEF stop_operation, Tailcat, Announce, CloseStdout, Exit, AbandonedExits, vars, workerVars, windowVars
  <2> QED
    BY <2>1 DEF WindowInv, WindowTyped, FieldInv, TokenInItsField
<1>2. ASSUME NEW m \in Modes, _start(m) PROVE WindowInv'
  <2>1. /\ ~busy /\ pc' = "validate" /\ mode' = m /\ busy' = TRUE /\ events' = events
        /\ readyField' = FieldOf(m) /\ tokens' = [tokens EXCEPT ![readyField'] = Nobody]
    BY <1>2 DEF _start, CanStart, FieldOf
  <2>2. events = <<>>
    <3>1. busy # TRUE
      BY <2>1, Zenon
    <3> QED
      BY <3>1 DEF WindowInv, FieldInv
  <2>3. WindowTyped' /\ TokenInItsField'
    BY <2>1, <2>2 DEF WindowInv, WindowTyped, TokenInItsField, FieldOf
  <2> QED
    BY <2>1, <2>2, <2>3 DEF WindowInv, FieldInv
<1> QED
  BY <1>1, <1>2

LEMMA WindowInit == ASSUME Init PROVE WindowInv
BY DEF Init, WindowInv, WindowTyped, FieldInv, TokenInItsField

-----------------------------------------------------------------------------
(* Theorems. *)

SwitchesTyped ==
    /\ stop \in BOOLEAN /\ ready \in BOOLEAN /\ busy \in BOOLEAN
    /\ abandoned \subseteq [send : BOOLEAN, ready : BOOLEAN]

LEMMA SwitchesStep ==
    ASSUME SwitchesTyped, SessionInv, WindowInv, [Next]_vars
    PROVE  SwitchesTyped'
<1>1. stop' \in BOOLEAN
  <2>1. stop' = stop \/ stop' = TRUE \/ stop' = FALSE
    BY DEF Next, Worker, Validate, Spawn, _server_ready_token, Announced, Forwarding, on_ready, _wait_interruptibly,
           receive_text, _wait_after_stream, Conclude, Final, Finish, Leave, Return, Goto, Deliver, stop_operation,
           Tailcat, Announce, CloseStdout, Exit, AbandonedExits, _start, vars, workerVars
  <2> QED
    BY <2>1, Zenon DEF SwitchesTyped
<1>2. ready' \in BOOLEAN
  <2>1. ready' = ready \/ ready' = TRUE \/ ready' = FALSE
    BY DEF Next, Worker, Validate, Spawn, _server_ready_token, Announced, Forwarding, on_ready, _wait_interruptibly,
           receive_text, _wait_after_stream, Conclude, Final, Finish, Leave, Return, Goto, Deliver, stop_operation,
           Tailcat, Announce, CloseStdout, Exit, AbandonedExits, _start, vars, workerVars
  <2> QED
    BY <2>1, Zenon DEF SwitchesTyped
<1>3. busy' \in BOOLEAN
  <2>1. busy' = busy \/ busy' = TRUE \/ (\E kind : busy' = (busy /\ kind # "finished"))
    BY DEF Next, Worker, Deliver, stop_operation, Tailcat, Announce, CloseStdout, Exit, AbandonedExits, _start,
           vars, windowVars
  <2> QED
    BY <2>1, Zenon DEF SwitchesTyped
<1>4. abandoned' \subseteq [send : BOOLEAN, ready : BOOLEAN]
  <2>1. \/ abandoned' \subseteq abandoned
        \/ abandoned' \subseteq abandoned \cup {[send |-> mode \in Senders, ready |-> ready]}
    <3>1. ASSUME NEW outcome, NEW c, Leave(outcome, c)
          PROVE  abandoned' \subseteq abandoned \cup {[send |-> mode \in Senders, ready |-> ready]}
      BY <3>1, Zenon DEF Leave
    <3>2. (\E outcome, c : Leave(outcome, c)) \/ abandoned' \subseteq abandoned
      BY DEF Next, Worker, Validate, Spawn, _server_ready_token, Announced, Forwarding, on_ready,
             _wait_interruptibly, receive_text, _wait_after_stream, Conclude, Final, Finish, Return, Goto, Deliver,
             stop_operation, Tailcat, Announce, CloseStdout, Exit, AbandonedExits, _start, vars
    <3> QED
      BY <3>1, <3>2
  <2>2. [send |-> mode \in Senders, ready |-> ready] \in [send : BOOLEAN, ready : BOOLEAN]
    <3>1. \A a, b \in BOOLEAN : [send |-> a, ready |-> b] \in [send : BOOLEAN, ready : BOOLEAN]
      OBVIOUS
    <3>2. ready \in BOOLEAN
      BY Zenon DEF SwitchesTyped
    <3>3. CASE mode \in Senders
      <4>1. (mode \in Senders) = TRUE
        BY <3>3
      <4> QED
        BY <3>1, <3>2, <4>1
    <3>4. CASE mode \notin Senders
      <4>1. (mode \in Senders) = FALSE
        BY <3>4
      <4> QED
        BY <3>1, <3>2, <4>1
    <3> QED
      BY <3>3, <3>4
  <2> QED
    BY <2>1, <2>2, Zenon DEF SwitchesTyped
<1> QED
  BY <1>1, <1>2, <1>3, <1>4, Zenon DEF SwitchesTyped

IInv == SwitchesTyped /\ SessionInv /\ WindowInv

LEMMA Inductive == Spec => []IInv
<1>1. Init => IInv
  <2>1. Init => SwitchesTyped
    BY Zenon DEF Init, SwitchesTyped
  <2> QED
    BY <2>1, SessionInit, WindowInit DEF IInv
<1>2. IInv /\ [Next]_vars => IInv'
  <2> SUFFICES ASSUME IInv, [Next]_vars PROVE IInv'
    OBVIOUS
  <2>1. SwitchesTyped /\ SessionInv /\ WindowInv /\ stop \in BOOLEAN /\ busy \in BOOLEAN
    BY Zenon DEF IInv, SwitchesTyped
  <2>2. WindowInv'
    BY <2>1, WorkerKeepsWindow, DeliverKeepsWindow, OthersKeepWindow DEF Next
  <2> QED
    BY <2>1, <2>2, SwitchesStep, SessionStep DEF IInv
<1> QED
  BY <1>1, <1>2, PTL DEF Spec

\* Every variable of a Secure Transfer session keeps its type.
THEOREM TypeCorrect == Spec => []TypeOK
<1>1. IInv => TypeOK
  BY Zenon DEF IInv, SwitchesTyped, SessionInv, SessionTyped, WindowInv, WindowTyped, Places, States, TypeOK
<1> QED
  BY <1>1, Inductive, PTL

\* A session ends with a result only if its process exited with success, whenever Stop arrives.
THEOREM ResultsAreGenuine == Spec => []ResultIsGenuine
<1>1. IInv => ResultIsGenuine
  BY DEF IInv, SessionInv, PromiseInv
<1> QED
  BY <1>1, Inductive, PTL

\* A session that reported READY, and any send, leaves no process behind.
THEOREM TunnelsAreClosed == Spec => []AnnouncedIsStopped
<1>1. IInv => AnnouncedIsStopped
  BY DEF IInv, SessionInv, PromiseInv
<1> QED
  BY <1>1, Inductive, PTL

\* A token field shows only what a session of its own tab announced, however late the signals.
THEOREM TokensInTheirFields == Spec => []TokenInItsField
<1>1. IInv => TokenInItsField
  BY DEF IInv, WindowInv
<1> QED
  BY <1>1, Inductive, PTL

=============================================================================
