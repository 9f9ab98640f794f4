------------------------ MODULE WorkerLifecycleProofs ------------------------
(***************************************************************************)
(* Safety of the close protocol for every set of workers and slots.  The    *)
(* strengthening KnownInv ties the signals still queued to the state of the *)
(* threads that sent them; from it follows that BaseTool forgets a managed   *)
(* worker only once it no longer runs, and a legacy one only once its        *)
(* outcome was heard, which is what NoLostWorker needs.                      *)
(***************************************************************************)
EXTENDS WorkerLifecycle, TLAPS

\* Appending a signal of a worker to the queue keeps it a queue of messages.
LEMMA QueueAppend ==
    ASSUME NEW q \in Seq(Message), NEW w \in Workers,
           NEW k \in Signals \cup {"finished"}
    PROVE  Append(q, Signal(k, w)) \in Seq(Message)
<1>1. Signal(k, w) \in Message
  BY DEF Signal, Message
<1> QED
  BY <1>1

\* Taking the head of a non-empty queue gives a message of a worker.
LEMMA QueueHead ==
    ASSUME NEW q \in Seq(Message), q # <<>>
    PROVE  /\ Head(q) \in Message
           /\ Head(q).worker \in Workers
           /\ Tail(q) \in Seq(Message)
<1>1. Head(q) \in Message /\ Tail(q) \in Seq(Message)
  OBVIOUS
<1> QED
  BY <1>1 DEF Message

\* Every queued message names a worker.
LEMMA QueueElement ==
    ASSUME NEW q \in Seq(Message)
    PROVE  \A i \in 1..Len(q) : q[i].worker \in Workers
<1> SUFFICES ASSUME NEW i \in 1..Len(q) PROVE q[i].worker \in Workers
  OBVIOUS
<1>1. q[i] \in Message
  OBVIOUS
<1> QED
  BY <1>1 DEF Message

\* Every step keeps every variable to its type.
LEMMA TypeStep == ASSUME TypeOK, [Next]_vars PROVE TypeOK'
<1>00. SlotOf \in [Workers -> Slots]
  BY LifecycleAssumption
<1>0. timers \in Nat /\ pollScheduled \in BOOLEAN /\ closeFlag \in BOOLEAN
      /\ window \in {"open", "closed"}
  BY DEF TypeOK
<1>1. CASE \E w \in Workers : Run(w)
  <2> PICK w \in Workers : Run(w)
    BY <1>1
  <2> USE DEF TypeOK, slotVars, closeVars, history, Pcs, Started
  <2>a. ASSUME NEW k \in Signals, Emit(k, w)
        PROVE  /\ pc' \in [Workers -> Pcs]
               /\ outcome' \in [Workers -> Signals \cup {"none"}]
               /\ queue' \in Seq(Message)
    <3> DEFINE told == Append(queue, Signal(k, w))
    <3>2. told \in Seq(Message)
      BY <2>a, QueueAppend
    <3>3. Append(told, Signal("finished", w)) \in Seq(Message)
      BY <3>2, QueueAppend
    <3>4. queue' = told \/ queue' = Append(told, Signal("finished", w))
      BY <2>a DEF Emit
    <3> QED
      BY <2>a, <3>2, <3>3, <3>4 DEF Emit
  <2>b. {"result", "error", "cancelled"} \subseteq Signals
    BY DEF Signals
  <2>1. CASE RunEnter(w)
    BY <2>1, <2>a, <2>b DEF RunEnter
  <2>2. CASE TaskReturn(w)
    BY <2>2 DEF TaskReturn
  <2>3. CASE TaskCancelled(w)
    BY <2>3, <2>a, <2>b DEF TaskCancelled
  <2>4. CASE TaskError(w)
    BY <2>4, <2>a, <2>b DEF TaskError
  <2>5. CASE RunCommit(w)
    BY <2>5, <2>a, <2>b DEF RunCommit
  <2>6. CASE RunExit(w)
    BY <2>6, QueueAppend DEF RunExit
  <2> QED
    BY <2>1, <2>2, <2>3, <2>4, <2>5, <2>6 DEF Run
<1>2. CASE \E w \in Workers : start_managed_worker(w)
  BY <1>00, <1>2 DEF TypeOK, start_managed_worker, StartWorker, closeVars, Pcs, Started
<1>3. CASE \E w \in Workers : start_legacy_worker(w)
  BY <1>00, <1>3 DEF TypeOK, start_legacy_worker, StartWorker, closeVars, Pcs, Started
<1>4. CASE \E w \in Workers : stop_worker(w)
  BY <1>4 DEF TypeOK, stop_worker, Cancel, slotVars, closeVars
<1>5. CASE DeliverOutcome
  BY <1>5, QueueHead DEF TypeOK, DeliverOutcome, threadVars, closeVars, history
<1>6. CASE DeliverFinished
  <2>1. Head(queue).worker \in Workers /\ queue' \in Seq(Message)
    BY <1>6, QueueHead DEF DeliverFinished, TypeOK
  <2>2. SlotOf[Head(queue).worker] \in Slots
    BY <1>00, <2>1
  <2>3. attr' \in [Slots -> Workers \cup {NoWorker}] /\ busy' \subseteq Slots
    BY <1>6, <2>2 DEF DeliverFinished, TypeOK
  <2>4. managed' \subseteq Workers
    BY <1>6 DEF DeliverFinished, TypeOK
  <2>5. UNCHANGED <<threadVars, closeFlag, gui, window, history>>
    BY <1>6 DEF DeliverFinished
  <2>6. timers' \in Nat
    <3>1. timers' = timers \/ timers' = timers + 1
      BY <1>6 DEF DeliverFinished, schedule_deferred_close_poll
    <3> QED
      BY <1>0, <3>1
  <2>7. pollScheduled' \in BOOLEAN
    BY <1>0, <1>6, Zenon DEF DeliverFinished, schedule_deferred_close_poll
  <2> QED
    BY <2>1, <2>3, <2>4, <2>5, <2>6, <2>7 DEF TypeOK, threadVars, history
<1>7. CASE closeEvent
  <2>1. discoverActiveWorkers \subseteq Workers
    BY DEF discoverActiveWorkers, TypeOK
  <2> HIDE DEF discoverActiveWorkers
  <2>2. /\ cancelEvent' \subseteq Workers /\ doomed' \subseteq Workers
        /\ managed' \subseteq Workers
    BY <1>7, <2>1 DEF closeEvent, EnterCloseEvent, Cancel, TypeOK
  <2> QED
    BY <1>7, <2>2 DEF closeEvent, EnterCloseEvent, AcceptClose, TypeOK
<1>8. CASE closeEventAfterWait
  <2>1. UNCHANGED <<threadVars, slotVars, queue, history>>
    BY <1>8 DEF closeEventAfterWait
  <2>2. timers' \in Nat
    <3>1. timers' = timers \/ timers' = timers + 1
      BY <1>8 DEF closeEventAfterWait, schedule_deferred_close_poll
    <3> QED
      BY <1>0, <3>1
  <2>3. /\ closeFlag' \in BOOLEAN /\ pollScheduled' \in BOOLEAN
        /\ gui' = "loop" /\ window' \in {"open", "closed"}
    BY <1>0, <1>8, Zenon DEF closeEventAfterWait, AcceptClose, schedule_deferred_close_poll
  <2> QED
    BY <2>1, <2>2, <2>3 DEF TypeOK, threadVars, slotVars, history
<1>9. CASE retry_deferred_close
  <2>1. UNCHANGED <<threadVars, slotVars, queue, gui, history>>
    BY <1>9 DEF retry_deferred_close
  <2>2. timers' \in Nat
    <3>1. timers > 0 /\ (timers' = timers \/ timers' = timers - 1)
      BY <1>9 DEF retry_deferred_close
    <3> QED
      BY <1>0, <3>1
  <2>3. /\ closeFlag' \in BOOLEAN /\ pollScheduled' \in BOOLEAN
        /\ window' \in {"open", "closed"}
    BY <1>0, <1>9, Zenon DEF retry_deferred_close, AcceptClose
  <2> QED
    BY <2>1, <2>2, <2>3 DEF TypeOK, threadVars, slotVars, history
<1>10. CASE UNCHANGED vars
  BY <1>10 DEF TypeOK, vars, threadVars, slotVars, closeVars, history
<1> QED
  BY <1>1, <1>2, <1>3, <1>4, <1>5, <1>6, <1>7, <1>8, <1>9, <1>10 DEF Next

\* Every variable keeps to its type (tools/worker.py, tools/base_tool.py).
THEOREM TypeCorrect == Spec => []TypeOK
<1>1. Init => TypeOK
  <2>1. <<>> \in Seq(Message)
    OBVIOUS
  <2>2. ASSUME Init PROVE /\ pc \in [Workers -> Pcs]
                          /\ outcome \in [Workers -> Signals \cup {"none"}]
                          /\ attr \in [Slots -> Workers \cup {NoWorker}]
    BY <2>2 DEF Init, Pcs
  <2>3. Init => timers \in Nat /\ cancelEvent \subseteq Workers
    BY DEF Init
  <2> QED
    BY <2>1, <2>2, <2>3 DEF Init, TypeOK
<1>2. TypeOK /\ [Next]_vars => TypeOK'
  BY TypeStep
<1> QED
  BY <1>1, <1>2, PTL DEF Spec

-----------------------------------------------------------------------------
\* The deferred close and its timer, which no thread or signal disturbs.
ArmedInv ==
    /\ DeferredCloseIsArmed
    /\ gui = "wait" => window = "open"
    /\ closeFlag => window = "open"

\* ArmedInv is inductive.
LEMMA ArmedStep == TypeOK /\ ArmedInv /\ [Next]_vars => ArmedInv'
<1> USE DEF ArmedInv, DeferredCloseIsArmed
<1> SUFFICES ASSUME TypeOK, ArmedInv, [Next]_vars PROVE ArmedInv'
  OBVIOUS
<1>1. CASE UNCHANGED closeVars
  BY <1>1 DEF closeVars
<1>2. CASE DeliverFinished
  BY <1>2 DEF DeliverFinished, schedule_deferred_close_poll, TypeOK
<1>3. CASE closeEvent
  BY <1>3 DEF closeEvent, Open, EnterCloseEvent, AcceptClose, TypeOK
<1>4. CASE closeEventAfterWait
  BY <1>4 DEF closeEventAfterWait, AcceptClose, schedule_deferred_close_poll, TypeOK
<1>5. CASE retry_deferred_close
  BY <1>5 DEF retry_deferred_close, AcceptClose, TypeOK
<1> QED
  BY <1>1, <1>2, <1>3, <1>4, <1>5 DEF Next, Run, RunEnter, TaskReturn,
     TaskCancelled, TaskError, RunCommit, RunExit, start_managed_worker,
     start_legacy_worker, StartWorker, stop_worker, DeliverOutcome, vars

\* A deferred close always has exactly one armed timer (base_tool.py:115-130).
THEOREM DeferredCloseArmed == Spec => []DeferredCloseIsArmed
<1>1. Init => ArmedInv
  BY DEF Init, ArmedInv, DeferredCloseIsArmed
<1>2. ArmedInv => DeferredCloseIsArmed
  BY DEF ArmedInv
<1> QED
  BY <1>1, <1>2, ArmedStep, TypeCorrect, PTL DEF Spec

-----------------------------------------------------------------------------
\* What cancel() has promised about a worker whose run() was not over yet.
DoomedInv ==
    /\ doomed \subseteq cancelEvent
    /\ \A w \in Workers : pc[w] \in {"unborn", "enter", "task", "recheck"} => outcome[w] = "none"
    /\ CancelledNeverPublishes

\* A worker cancelled before the last check of its run() never reports a result
\* (worker.py:52-62), in whatever order the two threads ran.
THEOREM CancelledStaysCancelled == Spec => []CancelledNeverPublishes
<1> USE LifecycleAssumption DEF DoomedInv, CancelledNeverPublishes, Modern
<1>1. Init => DoomedInv
  BY DEF Init
<1>2. TypeOK /\ DoomedInv /\ [Next]_vars => DoomedInv'
  <2> SUFFICES ASSUME TypeOK, DoomedInv, [Next]_vars PROVE DoomedInv'
    OBVIOUS
  <2> USE DEF TypeOK
  <2>1. CASE UNCHANGED <<threadVars, history>>
    BY <2>1 DEF threadVars, history
  <2>2. CASE \E w \in Workers : Run(w)
    <3> PICK w \in Workers : Run(w)
      BY <2>2
    <3>1. doomed' = doomed /\ cancelEvent' = cancelEvent
      BY DEF Run, RunEnter, TaskReturn, TaskCancelled, TaskError, RunCommit,
             RunExit, history, Emit
    <3>2. /\ pc[w] \in {"enter", "task", "recheck", "exit"}
          /\ pc' = [pc EXCEPT ![w] = pc'[w]]
          /\ outcome' = [outcome EXCEPT ![w] = outcome'[w]]
      BY DEF Run, RunEnter, TaskReturn, TaskCancelled, TaskError, RunCommit,
             RunExit, Emit
    <3>3. \/ outcome'[w] = outcome[w]
          \/ /\ pc'[w] = "exit"
             /\ outcome'[w] = "result" => pc[w] = "recheck" /\ (w \notin cancelEvent \/ ~Modern(w))
      BY DEF Run, RunEnter, TaskReturn, TaskCancelled, TaskError, RunCommit,
             RunExit, Emit
    <3>4. pc'[w] \in {"task", "recheck"} => outcome'[w] = outcome[w] /\ pc[w] # "exit"
      BY DEF Run, RunEnter, TaskReturn, TaskCancelled, TaskError, RunCommit,
             RunExit, Emit
    <3>5. pc'[w] \in {"task", "recheck", "exit", "done"}
      BY DEF Run, RunEnter, TaskReturn, TaskCancelled, TaskError, RunCommit,
             RunExit, Emit
    <3> QED
      BY <3>1, <3>2, <3>3, <3>4, <3>5
  <2>3. CASE \E w \in Workers : start_managed_worker(w) \/ start_legacy_worker(w)
    BY <2>3 DEF start_managed_worker, start_legacy_worker, StartWorker
  <2>4. CASE \E w \in Workers : stop_worker(w)
    BY <2>4 DEF stop_worker, Cancel
  <2>5. CASE closeEvent
    BY <2>5 DEF closeEvent, EnterCloseEvent, Cancel, discoverActiveWorkers
  <2> QED
    BY <2>1, <2>2, <2>3, <2>4, <2>5 DEF Next, vars, DeliverOutcome,
       DeliverFinished, closeEventAfterWait, retry_deferred_close
<1> QED
  BY <1>1, <1>2, TypeCorrect, PTL DEF Spec

-----------------------------------------------------------------------------
\* BaseTool knows every running worker of a managed slot, and has been told of the end of one only
\* after that end.  A legacy worker is held, and its button disabled, until its outcome is heard.
ManagedInv ==
    /\ \A w \in Workers : Modern(w) /\ isRunning(w) => w \in managed
    /\ \A i \in 1..Len(queue) :
          queue[i].kind = "finished" /\ Modern(queue[i].worker) => pc[queue[i].worker] = "done"

Unheard(w) == pc[w] \in {"enter", "task", "recheck"} \/ ~Heard(w)

OutcomeInv ==
    /\ \A w \in Workers : ~Heard(w) => pc[w] \in {"exit", "done"}
    /\ \A i, j \in 1..Len(queue) :
          queue[i].kind # "finished" /\ queue[j].kind # "finished" /\ queue[i].worker = queue[j].worker => i = j

LegacyInv ==
    /\ \A s \in Slots : attr[s] # NoWorker => SlotOf[attr[s]] = s
    /\ \A w \in Workers : ~Modern(w) /\ Unheard(w) => attr[SlotOf[w]] = w /\ SlotOf[w] \in busy

KnownInv == ManagedInv /\ OutcomeInv /\ LegacyInv

\* A worker BaseTool does not find while it runs is a legacy one whose outcome was heard.
LEMMA RunningIsFound ==
    ASSUME TypeOK, KnownInv
    PROVE  /\ NoLostWorker
           /\ Running \ Lost = discoverActiveWorkers
<1>1. discoverActiveWorkers \subseteq Running
  BY DEF discoverActiveWorkers, Running, TypeOK
<1>2. Lost \cap discoverActiveWorkers = {}
  BY DEF Lost
<1>3. ASSUME NEW w \in Running, w \notin discoverActiveWorkers
      PROVE  w \in Lost
  <2>1. w \in Workers /\ isRunning(w)
    BY DEF Running
  <2>0. w \notin managed /\ w # NoWorker
    BY <1>3, <2>1, LifecycleAssumption DEF discoverActiveWorkers
  <2>2. ~Modern(w)
    BY <2>0, <2>1 DEF KnownInv, ManagedInv
  <2>3. attr[SlotOf[w]] # w
    BY <1>3, <2>1, LifecycleAssumption DEF discoverActiveWorkers
  <2>4. ~Unheard(w)
    BY <2>1, <2>2, <2>3 DEF KnownInv, LegacyInv
  <2>5. pc[w] = "exit" /\ Heard(w)
    BY <2>1, <2>4 DEF Unheard, isRunning, Started
  <2> QED
    BY <1>3, <2>1, <2>2, <2>5 DEF Lost
<1> QED
  BY <1>1, <1>2, <1>3 DEF NoLostWorker

\* What a step of a worker thread does to the facts KnownInv relates.
LEMMA RunStep ==
    ASSUME TypeOK, NEW w \in Workers, Run(w)
    PROVE  /\ pc[w] \in Started
           /\ \E v \in {"task", "recheck", "exit", "done"} :
                 /\ pc' = [pc EXCEPT ![w] = v]
                 /\ pc[w] = "exit" <=> v = "done"
                 /\ \/ queue' = queue
                    \/ /\ v = "exit"
                       /\ \E k \in Signals : \/ queue' = Append(queue, Signal(k, w))
                                             \/ /\ ~Modern(w)
                                                /\ queue' = Append(Append(queue, Signal(k, w)), Signal("finished", w))
                    \/ v = "done" /\ queue' = Append(queue, Signal("finished", w))
           /\ UNCHANGED <<cancelEvent, slotVars, closeFlag, window, late>>
<1> USE DEF TypeOK, Started
<1>1. ~Modern(w) \/ w \notin Shadowing
  BY LifecycleAssumption DEF Modern
<1>2. ASSUME NEW k \in Signals, Emit(k, w)
      PROVE  /\ pc' = [pc EXCEPT ![w] = "exit"]
             /\ \/ queue' = Append(queue, Signal(k, w))
                \/ ~Modern(w) /\ queue' = Append(Append(queue, Signal(k, w)), Signal("finished", w))
  BY <1>1, <1>2 DEF Emit
<1>3. {"result", "error", "cancelled"} \subseteq Signals
  BY DEF Signals
<1>4. UNCHANGED <<cancelEvent, slotVars, closeFlag, window, late>>
  BY DEF Run, RunEnter, TaskReturn, TaskCancelled, TaskError, RunCommit, RunExit, slotVars, closeVars, history
<1>5. CASE RunEnter(w)
  BY <1>2, <1>3, <1>4, <1>5 DEF RunEnter
<1>6. CASE TaskReturn(w)
  BY <1>4, <1>6 DEF TaskReturn
<1>7. CASE TaskCancelled(w)
  BY <1>2, <1>3, <1>4, <1>7 DEF TaskCancelled
<1>8. CASE TaskError(w)
  BY <1>2, <1>3, <1>4, <1>8 DEF TaskError
<1>9. CASE RunCommit(w)
  BY <1>2, <1>3, <1>4, <1>9 DEF RunCommit
<1>10. CASE RunExit(w)
  BY <1>4, <1>10 DEF RunExit
<1> QED
  BY <1>5, <1>6, <1>7, <1>8, <1>9, <1>10 DEF Run

\* What such a step leaves in the queue, and what it adds.
LEMMA RunSends ==
    ASSUME TypeOK, NEW w \in Workers, Run(w)
    PROVE  /\ 1..Len(queue) \subseteq 1..Len(queue')
           /\ \A i \in 1..Len(queue') :
                 \/ i \in 1..Len(queue) /\ queue'[i] = queue[i]
                 \/ /\ queue'[i].worker = w
                    /\ queue'[i].kind = "finished" /\ Modern(w) => pc'[w] = "done"
                    /\ queue'[i].kind # "finished" =>
                          i = Len(queue) + 1 /\ pc'[w] = "exit" /\ pc[w] \in {"enter", "task", "recheck"}
<1>1. queue \in Seq(Message) /\ pc \in [Workers -> Pcs]
  BY DEF TypeOK
<1>2. PICK v \in {"task", "recheck", "exit", "done"} :
         /\ pc' = [pc EXCEPT ![w] = v]
         /\ pc[w] = "exit" <=> v = "done"
         /\ \/ queue' = queue
            \/ /\ v = "exit"
               /\ \E k \in Signals : \/ queue' = Append(queue, Signal(k, w))
                                     \/ /\ ~Modern(w)
                                        /\ queue' = Append(Append(queue, Signal(k, w)), Signal("finished", w))
            \/ v = "done" /\ queue' = Append(queue, Signal("finished", w))
  BY RunStep
<1>3. pc'[w] = v
  BY <1>1, <1>2
<1>4. CASE queue' = queue
  BY <1>4
<1>5. CASE v = "done" /\ queue' = Append(queue, Signal("finished", w))
  BY <1>1, <1>3, <1>5 DEF Signal
<1>6. ASSUME v = "exit", NEW k \in Signals, queue' = Append(queue, Signal(k, w))
             \/ (~Modern(w) /\ queue' = Append(Append(queue, Signal(k, w)), Signal("finished", w)))
      PROVE  /\ 1..Len(queue) \subseteq 1..Len(queue')
             /\ \A i \in 1..Len(queue') :
                   \/ i \in 1..Len(queue) /\ queue'[i] = queue[i]
                   \/ /\ queue'[i].worker = w
                      /\ queue'[i].kind = "finished" /\ Modern(w) => pc'[w] = "done"
                      /\ queue'[i].kind # "finished" =>
                            i = Len(queue) + 1 /\ pc'[w] = "exit" /\ pc[w] \in {"enter", "task", "recheck"}
  <2>1. pc[w] \in {"enter", "task", "recheck"} /\ k # "finished"
    BY <1>2, <1>6, RunStep DEF Started, Signals
  <2>2. CASE queue' = Append(queue, Signal(k, w))
    BY <1>1, <1>3, <1>6, <2>1, <2>2 DEF Signal
  <2>3. CASE ~Modern(w) /\ queue' = Append(Append(queue, Signal(k, w)), Signal("finished", w))
    <3>1. Append(queue, Signal(k, w)) \in Seq(Message)
      BY <1>1, <1>6, QueueAppend
    <3> DEFINE told == Append(queue, Signal(k, w))
    <3>2. Len(told) = Len(queue) + 1 /\ Len(queue) \in Nat /\ told[Len(queue) + 1] = Signal(k, w)
          /\ \A i \in 1..Len(queue) : told[i] = queue[i]
      BY <1>1
    <3> HIDE DEF told
    <3>3. queue' = Append(told, Signal("finished", w)) /\ told \in Seq(Message)
      BY <2>3, <3>1 DEF told
    <3>4. Len(queue') = Len(queue) + 2 /\ queue'[Len(queue) + 2] = Signal("finished", w)
          /\ \A i \in 1..(Len(queue) + 1) : queue'[i] = told[i]
      BY <3>2, <3>3
    <3>5. \A i \in 1..Len(queue') : i \in 1..Len(queue) \/ i = Len(queue) + 1 \/ i = Len(queue) + 2
      BY <3>2, <3>4
    <3> QED
      BY <1>3, <1>6, <2>1, <2>3, <3>2, <3>4, <3>5 DEF Signal
  <2> QED
    BY <1>6, <2>2, <2>3
<1> QED
  BY <1>2, <1>4, <1>5, <1>6

\* The step of a worker thread keeps KnownInv.
LEMMA RunKeeps ==
    ASSUME TypeOK, KnownInv, NEW w \in Workers, Run(w)
    PROVE  KnownInv'
<1> USE DEF KnownInv
<1>1. PICK v \in {"task", "recheck", "exit", "done"} : pc' = [pc EXCEPT ![w] = v] /\ (pc[w] = "exit" <=> v = "done")
  BY RunStep
<1>2. /\ pc[w] \in Started /\ UNCHANGED <<attr, busy, managed>>
      /\ pc \in [Workers -> Pcs] /\ queue \in Seq(Message)
  BY RunStep DEF TypeOK, slotVars
<1>3. \A u \in Workers : u # w => pc'[u] = pc[u]
  BY <1>1, <1>2
<1>4. pc'[w] = v
  BY <1>1, <1>2
<1>5. \A u \in Workers : isRunning(u)' => isRunning(u)
  BY <1>2, <1>3 DEF isRunning
<1>6. \A i \in 1..Len(queue) : queue[i].worker \in Workers
  BY <1>2, QueueElement
<1>7. \A u \in Workers : pc[u] = "done" => pc'[u] = "done"
  BY <1>2, <1>3 DEF Started
<1>8. ManagedInv'
  <2>1. ASSUME NEW i \in 1..Len(queue'), queue'[i].kind = "finished", Modern(queue'[i].worker)
        PROVE  pc'[queue'[i].worker] = "done"
    <3>1. CASE i \in 1..Len(queue) /\ queue'[i] = queue[i]
      BY <1>6, <1>7, <2>1, <3>1 DEF ManagedInv
    <3>2. CASE queue'[i].worker = w /\ (queue'[i].kind = "finished" /\ Modern(w) => pc'[w] = "done")
      BY <2>1, <3>2
    <3> QED
      BY <3>1, <3>2, RunSends
  <2> QED
    BY <1>2, <1>5, <2>1 DEF ManagedInv, Modern
<1>9. ASSUME NEW u \in Workers, ~Heard(u)'
      PROVE  \/ ~Heard(u)
             \/ u = w /\ pc'[w] = "exit" /\ pc[w] \in {"enter", "task", "recheck"}
  <2>1. PICK i \in 1..Len(queue') : queue'[i].worker = u /\ queue'[i].kind # "finished"
    <3>1. DOMAIN queue' = 1..Len(queue')
      <4>1. TypeOK'
        BY TypeStep DEF Next
      <4>2. queue' \in Seq(Message)
        BY <4>1 DEF TypeOK
      <4> QED
        BY <4>2
    <3> QED
      BY <1>9, <3>1 DEF Heard
  <2>2. DOMAIN queue = 1..Len(queue)
    BY <1>2
  <2> QED
    BY <2>1, <2>2, RunSends DEF Heard
<1>10. OutcomeInv'
  <2>1. ASSUME NEW u \in Workers, ~Heard(u)' PROVE pc'[u] \in {"exit", "done"}
    <3>1. CASE ~Heard(u)
      <4>1. pc[u] \in {"exit", "done"}
        BY <3>1 DEF OutcomeInv
      <4> QED
        BY <1>1, <1>2, <1>3, <1>4, <4>1 DEF Started
    <3> QED
      BY <1>9, <2>1, <3>1
  <2>2. ASSUME NEW i \in 1..Len(queue'), NEW j \in 1..Len(queue'),
               queue'[i].kind # "finished", queue'[j].kind # "finished", queue'[i].worker = queue'[j].worker
        PROVE  i = j
    <3>1. ASSUME NEW m \in 1..Len(queue), queue[m].kind # "finished", queue[m].worker = w
          PROVE  pc[w] \notin {"enter", "task", "recheck"}
      <4>1. ~Heard(w)
        BY <1>2, <3>1 DEF Heard
      <4> QED
        BY <4>1 DEF OutcomeInv
    <3>2. \A m \in 1..Len(queue') :
             \/ m \in 1..Len(queue) /\ queue'[m] = queue[m]
             \/ /\ queue'[m].worker = w
                /\ queue'[m].kind # "finished" => m = Len(queue) + 1 /\ pc[w] \in {"enter", "task", "recheck"}
      BY RunSends
    <3> QED
      BY <2>2, <3>1, <3>2 DEF OutcomeInv
  <2> QED
    BY <2>1, <2>2 DEF OutcomeInv
<1>11. LegacyInv'
  <2>1. ASSUME NEW u \in Workers, ~Modern(u), Unheard(u)' PROVE Unheard(u)
    <3>1. CASE pc'[u] \in {"enter", "task", "recheck"}
      BY <1>1, <1>2, <1>3, <1>4, <3>1 DEF Unheard, Started
    <3>2. CASE ~Heard(u)'
      BY <1>9, <3>2 DEF Unheard
    <3> QED
      BY <2>1, <3>1, <3>2 DEF Unheard
  <2> QED
    BY <1>2, <2>1 DEF LegacyInv, Modern
<1> QED
  BY <1>8, <1>10, <1>11

\* A start keeps KnownInv: it takes an attribute of which nothing unheard is left.
LEMMA StartKeeps ==
    ASSUME TypeOK, KnownInv, NEW w \in Workers, start_managed_worker(w) \/ start_legacy_worker(w)
    PROVE  KnownInv'
<1> USE DEF KnownInv
<1> DEFINE s == SlotOf[w]
<1>1. /\ pc[w] = "unborn" /\ pc' = [pc EXCEPT ![w] = "enter"] /\ queue' = queue
      /\ attr' = [attr EXCEPT ![s] = w] /\ busy' = busy \cup {s} /\ s \notin busy
      /\ managed' = managed \/ managed' = managed \cup {w}
      /\ Modern(w) => w \in managed'
  BY DEF start_managed_worker, start_legacy_worker, StartWorker, Modern
<1>2. pc \in [Workers -> Pcs] /\ queue \in Seq(Message) /\ attr \in [Slots -> Workers \cup {NoWorker}] /\ s \in Slots
  BY LifecycleAssumption DEF TypeOK
<1>3. pc'[w] = "enter" /\ \A u \in Workers : u # w => pc'[u] = pc[u]
  BY <1>1, <1>2
<1>4. attr'[s] = w /\ \A t \in Slots : t # s => attr'[t] = attr[t]
  BY <1>1, <1>2
<1>5. \A i \in 1..Len(queue) : queue[i].worker \in Workers
  BY <1>2, QueueElement
<1>6. \A u \in Workers : Heard(u)' = Heard(u)
  BY <1>1 DEF Heard
<1> HIDE DEF s
<1>7. ManagedInv'
  <2>1. \A u \in Workers : Modern(u) /\ isRunning(u)' => u \in managed'
    BY <1>1, <1>3 DEF ManagedInv, isRunning
  <2>2. \A i \in 1..Len(queue) : queue[i].kind = "finished" /\ Modern(queue[i].worker) => pc'[queue[i].worker] = "done"
    BY <1>1, <1>3, <1>5 DEF ManagedInv
  <2> QED
    BY <1>1, <2>1, <2>2 DEF ManagedInv, Modern
<1>8. OutcomeInv'
  <2>1. \A u \in Workers : ~Heard(u)' => pc'[u] \in {"exit", "done"}
    <3>1. Heard(w)
      BY <1>1 DEF OutcomeInv
    <3> QED
      BY <1>3, <1>6, <3>1 DEF OutcomeInv
  <2> QED
    BY <1>1, <2>1 DEF OutcomeInv
<1>9. LegacyInv'
  <2>1. ASSUME NEW u \in Workers, ~Modern(u), Unheard(u)'
        PROVE  attr'[SlotOf[u]] = u /\ SlotOf[u] \in busy'
    <3>1. CASE u = w
      BY <1>1, <1>4, <3>1 DEF s
    <3>2. CASE u # w
      <4>1. Unheard(u)
        BY <1>3, <1>6, <2>1, <3>2 DEF Unheard
      <4>2. attr[SlotOf[u]] = u /\ SlotOf[u] \in busy
        BY <2>1, <4>1 DEF LegacyInv
      <4>3. SlotOf[u] \in Slots /\ SlotOf[u] # s
        BY <1>1, <4>2, LifecycleAssumption
      <4> QED
        BY <1>1, <1>4, <4>2, <4>3
    <3> QED
      BY <3>1, <3>2
  <2>2. \A t \in Slots : attr'[t] # NoWorker => SlotOf[attr'[t]] = t
    BY <1>4 DEF LegacyInv, s
  <2> QED
    BY <2>1, <2>2 DEF LegacyInv, Modern
<1> QED
  BY <1>7, <1>8, <1>9

\* What a delivery leaves in the queue.
LEMMA RestOfQueue ==
    ASSUME TypeOK, queue # <<>>, queue' = Tail(queue)
    PROVE  /\ 1 \in 1..Len(queue) /\ Head(queue) = queue[1] /\ queue[1].worker \in Workers
           /\ \A i \in 1..Len(queue') : i + 1 \in 1..Len(queue) /\ queue'[i] = queue[i + 1] /\ i + 1 # 1
           /\ DOMAIN queue = 1..Len(queue) /\ DOMAIN queue' = 1..Len(queue')
           /\ \A u \in Workers : Heard(u) => Heard(u)'
<1>1. queue \in Seq(Message)
  BY DEF TypeOK
<1>2. \A i \in 1..Len(queue') : i + 1 \in 1..Len(queue) /\ queue'[i] = queue[i + 1] /\ i + 1 # 1
  BY <1>1
<1>3. 1 \in 1..Len(queue) /\ Head(queue) = queue[1]
  BY <1>1
<1>4. DOMAIN queue = 1..Len(queue) /\ DOMAIN queue' = 1..Len(queue')
  BY <1>1
<1>5. \A u \in Workers : Heard(u) => Heard(u)'
  BY <1>2, <1>4 DEF Heard
<1>6. queue[1].worker \in Workers
  BY <1>1, <1>3, QueueElement
<1> QED
  BY <1>2, <1>3, <1>4, <1>5, <1>6

\* A delivery keeps what the rest of the queue says.
LEMMA RestIsOutcome ==
    ASSUME TypeOK, OutcomeInv, queue # <<>>, queue' = Tail(queue), pc' = pc
    PROVE  OutcomeInv'
<1>1. \A u \in Workers : ~Heard(u)' => pc'[u] \in {"exit", "done"}
  BY RestOfQueue DEF OutcomeInv
<1>2. ASSUME NEW i \in 1..Len(queue'), NEW j \in 1..Len(queue'),
             queue'[i].kind # "finished", queue'[j].kind # "finished", queue'[i].worker = queue'[j].worker
      PROVE  i = j
  <2>1. i + 1 \in 1..Len(queue) /\ j + 1 \in 1..Len(queue) /\ queue'[i] = queue[i + 1] /\ queue'[j] = queue[j + 1]
    BY RestOfQueue
  <2>2. i + 1 = j + 1
    BY <1>2, <2>1 DEF OutcomeInv
  <2> QED
    BY <2>2
<1> QED
  BY <1>1, <1>2 DEF OutcomeInv

\* The slot of an outcome keeps KnownInv: it enables the button of the worker it was waiting for.
LEMMA OutcomeKeeps == ASSUME TypeOK, KnownInv, DeliverOutcome PROVE KnownInv'
<1> USE DEF KnownInv
<1>0. queue # <<>> /\ queue' = Tail(queue)
  BY DEF DeliverOutcome
<1> PICK w \in Workers : w = Head(queue).worker
  BY <1>0, RestOfQueue
<1>1. /\ queue # <<>> /\ queue' = Tail(queue) /\ Head(queue).kind \in Signals
      /\ UNCHANGED <<pc, attr, managed>> /\ busy' = busy \ (Legacy \cap {SlotOf[w]})
  BY DEF DeliverOutcome, threadVars
<1>2. w \in Workers /\ Head(queue) = queue[1] /\ queue[1].kind # "finished" /\ 1 \in 1..Len(queue)
  BY <1>1, RestOfQueue DEF Signals
<1>3. ~Heard(w) /\ pc[w] \in {"exit", "done"}
  BY <1>1, <1>2, RestOfQueue DEF Heard, OutcomeInv
<1>4. Heard(w)'
  <2>1. \A i \in 1..Len(queue') : queue'[i].worker = w => queue'[i].kind = "finished"
    BY <1>1, <1>2, RestOfQueue DEF OutcomeInv
  <2> QED
    BY <1>1, <2>1, RestOfQueue DEF Heard
<1>5. ManagedInv'
  BY <1>1, RestOfQueue DEF ManagedInv, Modern, isRunning
<1>6. OutcomeInv'
  BY <1>1, RestIsOutcome
<1>7. LegacyInv'
  <2>1. ASSUME NEW u \in Workers, ~Modern(u), Unheard(u)'
        PROVE  attr'[SlotOf[u]] = u /\ SlotOf[u] \in busy'
    <3>1. Unheard(u) /\ u # w
      BY <1>1, <1>3, <1>4, <2>1, RestOfQueue DEF Unheard
    <3>2. attr[SlotOf[u]] = u /\ SlotOf[u] \in busy
      BY <2>1, <3>1 DEF LegacyInv
    <3>3. ~Modern(w) => attr[SlotOf[w]] = w
      BY <1>2, <1>3 DEF LegacyInv, Unheard
    <3>4. SlotOf[u] \notin Legacy \cap {SlotOf[w]}
      BY <3>1, <3>2, <3>3 DEF Modern
    <3> QED
      BY <1>1, <3>2, <3>4
  <2> QED
    BY <1>1, <2>1 DEF LegacyInv, Modern
<1> QED
  BY <1>5, <1>6, <1>7

\* The slots of `finished' keep KnownInv: a managed worker is forgotten only when it has ended.
LEMMA FinishedKeeps == ASSUME TypeOK, KnownInv, DeliverFinished PROVE KnownInv'
<1> USE DEF KnownInv
<1> DEFINE w == Head(queue).worker
           s == SlotOf[w]
<1>1. /\ queue # <<>> /\ queue' = Tail(queue) /\ Head(queue).kind = "finished"
      /\ pc' = pc /\ managed' = managed \ {w}
      /\ \/ UNCHANGED <<attr, busy>>
         \/ s \notin Legacy /\ attr' = [attr EXCEPT ![s] = NoWorker] /\ busy' = busy \ {s}
  BY DEF DeliverFinished, threadVars
<1>2. w \in Workers /\ Head(queue) = queue[1] /\ 1 \in 1..Len(queue)
      /\ attr \in [Slots -> Workers \cup {NoWorker}] /\ s \in Slots
  BY <1>1, RestOfQueue, LifecycleAssumption DEF TypeOK
<1>3. Modern(w) => pc[w] = "done"
  BY <1>1, <1>2 DEF ManagedInv
<1>4. ManagedInv'
  <2>1. \A u \in Workers : Modern(u) /\ isRunning(u)' => u \in managed'
    BY <1>1, <1>3 DEF ManagedInv, isRunning, Started
  <2>2. \A i \in 1..Len(queue') : queue'[i].kind = "finished" /\ Modern(queue'[i].worker)
                                    => pc'[queue'[i].worker] = "done"
    BY <1>1, RestOfQueue DEF ManagedInv
  <2> QED
    BY <2>1, <2>2 DEF ManagedInv, Modern
<1>5. OutcomeInv'
  BY <1>1, RestIsOutcome
<1>6. LegacyInv'
  <2>1. ASSUME NEW u \in Workers, ~Modern(u), Unheard(u)'
        PROVE  attr'[SlotOf[u]] = u /\ SlotOf[u] \in busy'
    <3>1. Unheard(u)
      BY <1>1, <2>1, RestOfQueue DEF Unheard
    <3>2. attr[SlotOf[u]] = u /\ SlotOf[u] \in busy /\ SlotOf[u] \in Slots
      BY <2>1, <3>1, LifecycleAssumption DEF LegacyInv
    <3> QED
      BY <1>1, <1>2, <2>1, <3>2 DEF Modern
  <2>2. \A t \in Slots : attr'[t] # NoWorker => SlotOf[attr'[t]] = t
    BY <1>1, <1>2 DEF LegacyInv
  <2> QED
    BY <2>1, <2>2 DEF LegacyInv, Modern
<1> QED
  BY <1>4, <1>5, <1>6

\* KnownInv is inductive, whatever slots are legacy.
LEMMA KnownStep == ASSUME TypeOK, KnownInv, [Next]_vars PROVE KnownInv'
<1>1. ASSUME UNCHANGED <<pc, attr, busy, queue>>, managed \subseteq managed' PROVE KnownInv'
  BY <1>1 DEF KnownInv, ManagedInv, OutcomeInv, LegacyInv, isRunning, Modern, Heard, Unheard
<1>2. CASE UNCHANGED vars
  BY <1>1, <1>2 DEF vars, threadVars, slotVars
<1>3. CASE \E w \in Workers : stop_worker(w)
  BY <1>1, <1>3 DEF stop_worker, slotVars
<1>4. CASE closeEvent
  BY <1>1, <1>4 DEF closeEvent, EnterCloseEvent
<1>5. CASE closeEventAfterWait \/ retry_deferred_close
  BY <1>1, <1>5 DEF closeEventAfterWait, retry_deferred_close, threadVars, slotVars
<1> QED
  BY <1>2, <1>3, <1>4, <1>5, RunKeeps, StartKeeps, OutcomeKeeps, FinishedKeeps DEF Next

\* The invariant holds along every behaviour.
LEMMA KnownInvariant == Spec => [](TypeOK /\ ArmedInv /\ KnownInv)
<1>1. Init => ArmedInv /\ KnownInv
  <2>1. Init => ArmedInv
    BY DEF Init, ArmedInv, DeferredCloseIsArmed
  <2>2. ASSUME Init PROVE KnownInv
    <3>1. queue = <<>> /\ \A w \in Workers : Heard(w)
      BY <2>2 DEF Init, Heard
    <3> QED
      BY <2>2, <3>1 DEF Init, KnownInv, ManagedInv, OutcomeInv, LegacyInv, Unheard, isRunning, Started
  <2> QED
    BY <2>1, <2>2
<1>2. TypeOK /\ ArmedInv /\ [Next]_vars => ArmedInv'
  BY ArmedStep
<1>3. TypeOK /\ ArmedInv /\ KnownInv /\ [Next]_vars => KnownInv'
  BY KnownStep
<1> QED
  BY <1>1, <1>2, <1>3, TypeCorrect, PTL DEF Spec

\* No running worker is out of closeEvent's sight (base_tool.py:81-88) but a legacy one whose
\* outcome was heard and whose attribute the next start has taken.
THEOREM WorkersAreFound == Spec => []NoLostWorker
<1>1. TypeOK /\ KnownInv => NoLostWorker
  BY RunningIsFound
<1> QED
  BY <1>1, KnownInvariant, PTL

-----------------------------------------------------------------------------
\* A worker that is lost stays so until it ends.
LEMMA LostStays ==
    ASSUME TypeOK, KnownInv, [Next]_vars, NEW u \in Lost, u \in Running'
    PROVE  u \in Lost'
<1>1. u \in Workers /\ ~Modern(u) /\ pc[u] = "exit" /\ Heard(u) /\ u # NoWorker
  BY LifecycleAssumption DEF Lost
<1>2. u \notin managed /\ \A s \in Slots : attr[s] # u
  BY <1>1 DEF Lost, discoverActiveWorkers, isRunning, Started
<1>3. ASSUME pc'[u] = "exit", Heard(u)', u \notin managed', \A s \in Slots : attr'[s] # u
      PROVE  u \in Lost'
  BY <1>1, <1>3 DEF Lost, discoverActiveWorkers, Modern
<1>4. CASE \E w \in Workers : Run(w)
  <2> PICK w \in Workers : Run(w)
    BY <1>4
  <2>1. PICK v \in {"task", "recheck", "exit", "done"} :
           pc' = [pc EXCEPT ![w] = v] /\ (pc[w] = "exit" <=> v = "done")
    BY RunStep
  <2>2. UNCHANGED <<attr, managed>> /\ pc \in [Workers -> Pcs] /\ queue \in Seq(Message)
    BY RunStep DEF slotVars, TypeOK
  <2>3. u # w
    BY <1>1, <2>1, <2>2 DEF Running, isRunning, Started
  <2>4. pc'[u] = "exit"
    BY <1>1, <2>1, <2>2, <2>3
  <2>5. Heard(u)'
    <3>1. TypeOK'
      BY TypeStep
    <3>2. DOMAIN queue = 1..Len(queue) /\ DOMAIN queue' = 1..Len(queue')
      BY <2>2, <3>1 DEF TypeOK
    <3> QED
      BY <1>1, <2>3, <3>2, RunSends DEF Heard
  <2> QED
    BY <1>2, <1>3, <2>2, <2>4, <2>5
<1>5. CASE \E w \in Workers : start_managed_worker(w) \/ start_legacy_worker(w)
  <2> PICK w \in Workers : start_managed_worker(w) \/ start_legacy_worker(w)
    BY <1>5
  <2>1. /\ pc[w] = "unborn" /\ pc' = [pc EXCEPT ![w] = "enter"] /\ queue' = queue
        /\ attr' = [attr EXCEPT ![SlotOf[w]] = w] /\ managed' \subseteq managed \cup {w}
    BY DEF start_managed_worker, start_legacy_worker, StartWorker
  <2>2. u # w /\ pc \in [Workers -> Pcs] /\ attr \in [Slots -> Workers \cup {NoWorker}]
    BY <1>1, <2>1 DEF TypeOK
  <2>3. pc'[u] = "exit" /\ \A s \in Slots : attr'[s] # u
    BY <1>1, <1>2, <2>1, <2>2
  <2> QED
    BY <1>1, <1>2, <1>3, <2>1, <2>2, <2>3 DEF Heard
<1>6. CASE DeliverOutcome \/ DeliverFinished
  <2>1. /\ queue # <<>> /\ queue' = Tail(queue) /\ pc' = pc /\ managed' \subseteq managed
        /\ attr' = attr \/ \E s \in Slots : attr' = [attr EXCEPT ![s] = NoWorker]
    <3>1. CASE DeliverOutcome
      BY <3>1 DEF DeliverOutcome, threadVars
    <3>2. CASE DeliverFinished
      <4>1. queue # <<>> /\ queue' = Tail(queue)
        BY <3>2 DEF DeliverFinished
      <4>2. SlotOf[Head(queue).worker] \in Slots
        BY <4>1, RestOfQueue, LifecycleAssumption
      <4> QED
        BY <3>2, <4>1, <4>2 DEF DeliverFinished, threadVars
    <3> QED
      BY <1>6, <3>1, <3>2
  <2>2. \A s \in Slots : attr'[s] # u
    BY <1>1, <1>2, <2>1 DEF TypeOK
  <2> QED
    BY <1>1, <1>2, <1>3, <2>1, <2>2, RestOfQueue
<1>7. CASE closeEvent
  <2>1. UNCHANGED <<pc, attr, queue>> /\ managed' \subseteq managed \cup discoverActiveWorkers
    BY <1>7 DEF closeEvent, EnterCloseEvent
  <2>2. u \notin discoverActiveWorkers
    BY DEF Lost
  <2> QED
    BY <1>1, <1>2, <1>3, <2>1, <2>2 DEF Heard
<1>8. ASSUME UNCHANGED <<pc, attr, managed, queue>> PROVE u \in Lost'
  BY <1>1, <1>2, <1>3, <1>8 DEF Heard
<1>9. CASE \E w \in Workers : stop_worker(w)
  BY <1>8, <1>9 DEF stop_worker, slotVars
<1>10. CASE closeEventAfterWait \/ retry_deferred_close
  BY <1>8, <1>10 DEF closeEventAfterWait, retry_deferred_close, threadVars, slotVars
<1>11. CASE UNCHANGED vars
  BY <1>8, <1>11 DEF vars, threadVars, slotVars
<1> QED
  BY <1>4, <1>5, <1>6, <1>7, <1>9, <1>10, <1>11 DEF Next

\* What closing promises about the workers that run.
CloseInv == ClosedIsQuiet /\ DeferredCloseCancels

\* CloseInv is preserved: only closeEvent and its retry accept, and both look at what runs.
LEMMA CloseStep == ASSUME TypeOK, ArmedInv, KnownInv, CloseInv, [Next]_vars PROVE CloseInv'
<1> USE DEF CloseInv, ClosedIsQuiet, DeferredCloseCancels
<1>0. Running \subseteq discoverActiveWorkers \cup Lost
  BY RunningIsFound DEF NoLostWorker
<1>1. \A u \in Lost : u \in Running' => u \in Lost'
  BY LostStays
<1>2. ASSUME Running' \subseteq Running, UNCHANGED <<closeFlag, window, late>>, cancelEvent \subseteq cancelEvent'
      PROVE  CloseInv'
  BY <1>1, <1>2
<1>3. CASE \E w \in Workers : Run(w)
  <2> PICK w \in Workers : Run(w)
    BY <1>3
  <2>1. \E v \in {"task", "recheck", "exit", "done"} : pc' = [pc EXCEPT ![w] = v]
    BY RunStep
  <2>2. Running' \subseteq Running /\ UNCHANGED <<closeFlag, window, late, cancelEvent>>
    BY <2>1, RunStep DEF TypeOK, Running, isRunning, Started
  <2> QED
    BY <1>2, <2>2
<1>4. CASE \E w \in Workers : start_managed_worker(w) \/ start_legacy_worker(w)
  <2> PICK w \in Workers : start_managed_worker(w) \/ start_legacy_worker(w)
    BY <1>4
  <2>1. /\ window = "open" /\ pc' = [pc EXCEPT ![w] = "enter"]
        /\ late' = IF closeFlag THEN late \cup {w} ELSE late
        /\ UNCHANGED <<cancelEvent, closeFlag, window>>
    BY DEF start_managed_worker, start_legacy_worker, StartWorker, Open, closeVars
  <2>2. Running' \subseteq Running \cup {w}
    BY <2>1 DEF TypeOK, Running, isRunning
  <2> QED
    BY <1>1, <2>1, <2>2
<1>5. ASSUME pc' = pc PROVE Running' = Running
  BY <1>5 DEF Running, isRunning
<1>6. CASE closeEvent
  <2>1. Running' = Running /\ late' = late /\ EnterCloseEvent /\ window = "open"
    BY <1>5, <1>6 DEF closeEvent, Open
  <2>2. CASE discoverActiveWorkers = {}
    BY <1>0, <1>1, <2>1, <2>2 DEF EnterCloseEvent, AcceptClose
  <2>3. CASE discoverActiveWorkers # {}
    BY <1>0, <1>1, <2>1, <2>3 DEF EnterCloseEvent, Cancel
  <2> QED
    BY <2>2, <2>3
<1>7. CASE closeEventAfterWait \/ retry_deferred_close
  <2>1. Running' = Running /\ UNCHANGED <<cancelEvent, late>>
    BY <1>5, <1>7 DEF closeEventAfterWait, retry_deferred_close, threadVars, history
  <2>2. \/ UNCHANGED <<closeFlag, window>>
        \/ discoverActiveWorkers = {} /\ closeFlag' = FALSE
    BY <1>7 DEF closeEventAfterWait, retry_deferred_close, AcceptClose
  <2> QED
    BY <1>0, <1>1, <1>2, <2>1, <2>2
<1>8. CASE \E w \in Workers : stop_worker(w)
  BY <1>2, <1>5, <1>8 DEF stop_worker, Cancel, closeVars
<1>9. CASE DeliverOutcome \/ DeliverFinished
  BY <1>2, <1>5, <1>9 DEF DeliverOutcome, DeliverFinished, threadVars, closeVars, history
<1>10. CASE UNCHANGED vars
  BY <1>2, <1>5, <1>10 DEF vars, threadVars, closeVars, history
<1> QED
  BY <1>3, <1>4, <1>6, <1>7, <1>8, <1>9, <1>10 DEF Next

\* What closing promises holds along every behaviour.
LEMMA CloseInvariant == Spec => []CloseInv
<1>1. Init => CloseInv
  BY DEF Init, CloseInv, ClosedIsQuiet, DeferredCloseCancels
<1>2. TypeOK /\ ArmedInv /\ KnownInv /\ CloseInv /\ [Next]_vars => CloseInv'
  BY CloseStep
<1> QED
  BY <1>1, <1>2, KnownInvariant, PTL DEF Spec

\* "Cancel active workers and never destroy a running QThread" (base_tool.py:133): a window never
\* closes over a running worker that it had not lost before.
THEOREM CloseIsQuiet == Spec => []ClosedIsQuiet
BY CloseInvariant, PTL DEF CloseInv

\* While a close is owed, the only running workers that were not told to stop are those the user
\* started afterwards and those the window had lost (base_tool.py:121-130).
THEOREM CloseCancels == Spec => []DeferredCloseCancels
BY CloseInvariant, PTL DEF CloseInv

-----------------------------------------------------------------------------
\* The workers that are not lost are those closeEvent finds.
FoundInv == Running \ Lost = discoverActiveWorkers

\* Every step of BaseTool is a step of ToolWindow or leaves what it speaks of.
LEMMA PromiseStep ==
    ASSUME TypeOK, ArmedInv, KnownInv, FoundInv, FoundInv', [Next]_vars
    PROVE  [Abstract!Next]_(Abstract!vars)
<1> USE DEF Abstract!Next, Abstract!vars
<1> DEFINE found == discoverActiveWorkers
<1>0. Running \ Lost = found /\ (Running \ Lost)' = found'
  BY DEF FoundInv
<1>1. found = {w \in managed \cup {attr[s] : s \in Slots} : w # NoWorker /\ isRunning(w)} /\ found \subseteq Workers
  BY DEF discoverActiveWorkers, TypeOK
<1>2. ASSUME UNCHANGED <<pc, attr>>, managed' \subseteq managed \cup found, managed \subseteq managed'
      PROVE  found' = found
  BY <1>1, <1>2 DEF discoverActiveWorkers, isRunning
<1>3. ASSUME UNCHANGED <<pc, attr, managed, closeFlag, window>> PROVE UNCHANGED Abstract!vars
  BY <1>0, <1>2, <1>3
<1>4. CASE \E w \in Workers : Run(w)
  <2> PICK w \in Workers : Run(w)
    BY <1>4
  <2>1. pc[w] \in Started /\ UNCHANGED <<attr, managed, closeFlag, window>>
    BY RunStep DEF slotVars
  <2>2. PICK v \in {"task", "recheck", "exit", "done"} : pc' = [pc EXCEPT ![w] = v]
    BY RunStep
  <2>3. \A u \in Workers : isRunning(u)' <=> isRunning(u) /\ ~(u = w /\ v = "done")
    BY <2>1, <2>2 DEF isRunning, Started, TypeOK
  <2>4. found' = IF v = "done" THEN found \ {w} ELSE found
    BY <1>1, <2>1, <2>3 DEF discoverActiveWorkers, TypeOK
  <2> QED
    BY <1>0, <1>1, <2>1, <2>4 DEF Abstract!Stop
<1>5. CASE \E w \in Workers : start_managed_worker(w) \/ start_legacy_worker(w)
  <2> PICK w \in Workers : start_managed_worker(w) \/ start_legacy_worker(w)
    BY <1>5
  <2> DEFINE p == attr[SlotOf[w]]
  <2>1. /\ window = "open" /\ pc[w] = "unborn" /\ pc' = [pc EXCEPT ![w] = "enter"]
        /\ attr' = [attr EXCEPT ![SlotOf[w]] = w]
        /\ managed \subseteq managed' /\ managed' \subseteq managed \cup {w}
        /\ UNCHANGED <<closeFlag, window>>
        /\ SlotOf[w] \notin Legacy => p \notin Running
    BY DEF start_managed_worker, start_legacy_worker, StartWorker, Open, closeVars
  <2>2. \A u \in Workers : isRunning(u)' <=> isRunning(u) \/ u = w
    BY <2>1 DEF isRunning, Started, TypeOK
  <2>3. w \notin found /\ ~isRunning(w)
    BY <1>1, <2>1 DEF isRunning, Started
  <2>4. SlotOf[w] \in Slots /\ attr \in [Slots -> Workers \cup {NoWorker}] /\ NoWorker \notin Workers
    BY LifecycleAssumption DEF TypeOK
  <2>5. attr'[SlotOf[w]] = w /\ \A s \in Slots \ {SlotOf[w]} : attr'[s] = attr[s]
    BY <2>1, <2>4
  <2>6. found' \subseteq found \cup {w}
    BY <1>1, <2>1, <2>2, <2>4, <2>5 DEF discoverActiveWorkers, TypeOK
  <2>7. w \in found'
    BY <2>2, <2>4, <2>5 DEF discoverActiveWorkers
  <2>8. found \ {p} \subseteq found'
    BY <1>1, <2>1, <2>2, <2>4, <2>5 DEF discoverActiveWorkers
  <2>9. p \in found => p \in Workers /\ ~Modern(p)
    <3>1. p \in found => p \in Running /\ p \in Workers /\ p # NoWorker
      BY <1>1 DEF Running
    <3>2. p # NoWorker => SlotOf[p] = SlotOf[w]
      BY <2>4 DEF KnownInv, LegacyInv
    <3> QED
      BY <2>1, <3>1, <3>2 DEF Modern
  <2> HIDE DEF p, found
  <2>10. \E v \in {u \in Workers : ~Modern(u)} \cup {w} : found' = (found \ {v}) \cup {w}
    <3>1. CASE p \in found \ found'
      BY <2>3, <2>6, <2>7, <2>8, <2>9, <3>1
    <3>2. CASE p \notin found \ found'
      BY <2>3, <2>6, <2>7, <2>8, <3>2
    <3> QED
      BY <3>1, <3>2
  <2>11. Abstract!Start(w)
    BY <1>0, <2>1, <2>3, <2>10 DEF Abstract!Start
  <2> QED
    BY <2>11
<1>6. CASE DeliverFinished
  <2>1. /\ queue # <<>> /\ Head(queue).kind = "finished"
        /\ UNCHANGED <<pc, closeFlag, window>> /\ managed' = managed \ {Head(queue).worker}
    BY <1>6 DEF DeliverFinished, threadVars
  <2> PICK w \in Workers : w = Head(queue).worker
    BY <2>1, QueueHead DEF TypeOK
  <2>2. /\ managed' = managed \ {w} /\ SlotOf[w] \in Slots
        /\ \/ attr' = attr
           \/ SlotOf[w] \notin Legacy /\ attr' = [attr EXCEPT ![SlotOf[w]] = NoWorker]
    BY <1>6, <2>1, LifecycleAssumption DEF DeliverFinished
  <2>3. \A u \in Workers : isRunning(u)' = isRunning(u)
    BY <2>1 DEF isRunning
  <2>4. Modern(w) => ~isRunning(w)
    <3>1. queue \in Seq(Message)
      BY DEF TypeOK
    <3>2. 1 \in 1..Len(queue) /\ queue[1] = Head(queue)
      BY <2>1, <3>1
    <3> QED
      BY <2>1, <3>2 DEF KnownInv, ManagedInv, isRunning, Started
  <2>5. found' \subseteq found
    BY <1>1, <2>2, <2>3 DEF discoverActiveWorkers, TypeOK
  <2>6. ASSUME NEW u \in found, u # w PROVE u \in found'
    <3>1. u \in Workers /\ isRunning(u) /\ u # NoWorker
      BY <1>1, <2>6
    <3>2. CASE u \in managed
      BY <2>1, <2>2, <2>3, <2>6, <3>1, <3>2 DEF discoverActiveWorkers
    <3>3. CASE u \notin managed
      <4>1. ~Modern(u)
        BY <3>1, <3>3 DEF KnownInv, ManagedInv
      <4>2. PICK s \in Slots : attr[s] = u
        BY <1>1, <3>3
      <4>3. s \in Legacy
        BY <3>1, <4>1, <4>2 DEF KnownInv, LegacyInv, Modern
      <4>4. attr'[s] = u
        BY <2>2, <4>2, <4>3 DEF TypeOK
      <4> QED
        BY <2>3, <3>1, <4>4 DEF discoverActiveWorkers
    <3> QED
      BY <3>2, <3>3
  <2> HIDE DEF found
  <2>7. found' = found \/ (found' = found \ {w} /\ w \in found)
    BY <2>5, <2>6
  <2>8. UNCHANGED <<closeFlag, window>>
    BY <2>1
  <2> QED
    BY <1>0, <2>7, <2>8 DEF Abstract!Stop
<1>7. CASE closeEvent
  <2>1. window = "open" /\ UNCHANGED <<pc, attr>> /\ EnterCloseEvent
    BY <1>7 DEF closeEvent, Open
  <2>2. found' = found
    BY <1>2, <2>1 DEF EnterCloseEvent
  <2>3. CASE found = {}
    BY <1>0, <2>1, <2>2, <2>3 DEF EnterCloseEvent, AcceptClose, Abstract!Close
  <2>4. CASE found # {}
    BY <1>0, <2>1, <2>2, <2>4 DEF EnterCloseEvent, Abstract!AskClose
  <2> QED
    BY <2>3, <2>4
<1>8. CASE closeEventAfterWait \/ retry_deferred_close
  <2>1. found' = found
    BY <1>2, <1>8 DEF closeEventAfterWait, retry_deferred_close, threadVars, slotVars
  <2>2. \/ UNCHANGED <<closeFlag, window>>
        \/ found = {} /\ window = "open" /\ AcceptClose
    BY <1>8 DEF closeEventAfterWait, retry_deferred_close, ArmedInv
  <2> QED
    BY <1>0, <2>1, <2>2 DEF AcceptClose, Abstract!Close
<1>9. CASE DeliverOutcome
  BY <1>3, <1>9 DEF DeliverOutcome, threadVars, closeVars
<1>10. CASE \E w \in Workers : stop_worker(w)
  BY <1>3, <1>10 DEF stop_worker, slotVars, closeVars
<1>11. CASE UNCHANGED vars
  BY <1>3, <1>11 DEF vars, threadVars, slotVars, closeVars
<1> QED
  BY <1>4, <1>5, <1>6, <1>7, <1>8, <1>9, <1>10, <1>11 DEF Next

\* A BaseTool window implements the promise of ToolWindow for the workers it has not lost.
THEOREM BaseToolKeepsPromise == Spec => KeepsPromise
<1>1. ASSUME Init PROVE Abstract!Init
  <2>1. Running = {}
    BY <1>1 DEF Init, Running, isRunning, Started
  <2> QED
    BY <1>1, <2>1 DEF Init, Abstract!Init
<1>2. TypeOK /\ KnownInv => FoundInv
  BY RunningIsFound DEF FoundInv
<1>3. TypeOK /\ ArmedInv /\ KnownInv /\ FoundInv /\ FoundInv' /\ [Next]_vars => [Abstract!Next]_(Abstract!vars)
  BY PromiseStep
<1> QED
  BY <1>1, <1>2, <1>3, KnownInvariant, PTL DEF Spec, KeepsPromise, Abstract!Spec
=============================================================================
