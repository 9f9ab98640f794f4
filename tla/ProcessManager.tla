--------------------------- MODULE ProcessManager ---------------------------
(***************************************************************************)
(* The process manager: the list of processes, the end of one that the user *)
(* confirmed, and the analysis of an executable, while processes come and   *)
(* go and their numbers are used again.                                     *)
(***************************************************************************)
EXTENDS Integers, Sequences, FiniteSets

CONSTANTS
    Pids, Own, System,   \* numbers; that of the program itself; those of the system
    MaxBirths,           \* processes ever started
    MaxLoads,            \* lists ever loaded
    None

VARIABLES task, world

vars == <<task, world>>

\* A process is <<pid, birth>>: no two share a birth, the time they were created.
Alive(pid) == world.alive[pid]
Live == {<<p, Alive(p)>> : p \in {q \in Pids : Alive(q) # 0}}

(* task is the window and its workers.  loads are the list workers, each          *)
(* [step, seen, cancelled]; current is the one whose answer counts; table the rows  *)
(* shown, each [by, process]; events what the workers posted and the window has not  *)
(* handled yet; dialog the question on the screen; analysis the analysis worker.     *)
(* agreed and ended are history: the processes the user agreed to end, and those     *)
(* that the window ended.                                                            *)
NoAnalysis == [step |-> "none", process |-> None, cancelled |-> FALSE, button |-> FALSE]

Started(t) ==
    LET previous == [i \in DOMAIN t.loads |->
                        IF i = t.current /\ t.loads[i].step # "over"
                        THEN [t.loads[i] EXCEPT !.cancelled = TRUE] ELSE t.loads[i]]
    IN  [t EXCEPT !.loads = Append(previous, [step |-> "sample", seen |-> {}, cancelled |-> FALSE]),
                  !.current = Len(t.loads) + 1, !.table = {}, !.loading = TRUE]

Init ==
    /\ \E alive \in [Pids -> {0, 1}] :
          /\ alive[Own] = 1
          /\ world = [alive |-> [p \in Pids |-> IF alive[p] = 0 THEN 0 ELSE p], births |-> Cardinality(Pids)]
    /\ task = Started([loads |-> <<>>, current |-> 0, table |-> {}, loading |-> FALSE, events |-> <<>>,
                       dialog |-> None, analysis |-> NoAnalysis, agreed |-> {}, ended |-> {}])

Free == task.dialog = None

load_processes ==
    /\ Free /\ Len(task.loads) < MaxLoads
    /\ task' = Started(task)
    /\ UNCHANGED world

\* load_processes_task: the candidates, and after the CPU sample those that still live and pass the filters.
Posted(i, kind, rows) ==
    [task EXCEPT !.loads[i].step = "over",
                 !.events = @ \o <<[kind |-> kind, by |-> i, rows |-> rows], [kind |-> "finished", by |-> i, rows |-> {}]>>]

load_processes_task ==
    \E i \in DOMAIN task.loads :
        /\ task.loads[i].step # "over"
        /\ IF task.loads[i].cancelled THEN task' = Posted(i, "cancelled", {})
           ELSE IF task.loads[i].step = "sample"
           THEN task' = [task EXCEPT !.loads[i].step = "collect", !.loads[i].seen = Live]
           ELSE \E filtered \in {{}, System} :
                    task' = Posted(i, "result", {row \in task.loads[i].seen \cap Live : row[1] \notin filtered})
        /\ UNCHANGED world

\* Mutant: the answer of a list that another one replaced is shown too.
_process_load_result_Any(t, by, rows) ==
    [t EXCEPT !.table = @ \cup {[by |-> by, process |-> row] : row \in rows}]

_process_load_result(t, by, rows) ==
    IF by = t.current THEN [t EXCEPT !.table = @ \cup {[by |-> by, process |-> row] : row \in rows}] ELSE t

_process_load_finished(t, by) ==
    IF by = t.current THEN [t EXCEPT !.current = 0, !.loading = FALSE] ELSE t

\* The window handles one event, also below a dialog.
Handle ==
    /\ task.events # <<>>
    /\ LET e == Head(task.events)
           t == [task EXCEPT !.events = Tail(@)]
       IN  task' = CASE e.kind = "result" -> _process_load_result(t, e.by, e.rows)
                     [] e.kind = "finished" -> _process_load_finished(t, e.by)
                     [] OTHER -> t
    /\ UNCHANGED world

\* kill_process: the process that has the number now is the one the dialog names.
get_termination_target ==
    /\ Free
    /\ \E row \in task.table :
        LET pid == row.process[1]
        IN  task' = IF pid = Own \/ Alive(pid) = 0 THEN task
                    ELSE [task EXCEPT !.dialog = [ask |-> "confirm", process |-> <<pid, Alive(pid)>>]]
    /\ UNCHANGED world

kill_process_Declined ==
    /\ ~Free
    /\ task' = [task EXCEPT !.dialog = None]
    /\ UNCHANGED world

\* Mutant: the process is looked up again by its number only.
terminate_process_ByPid(process) ==
    IF process[1] # Own /\ Alive(process[1]) # 0 THEN {<<process[1], Alive(process[1])>>} ELSE {}

\* psutil looks at the creation time again before it ends a process, so looking and ending are one step.
terminate_process(process) ==
    IF process[1] # Own /\ process \in Live THEN {process} ELSE {}

kill_process_Confirmed ==
    /\ ~Free /\ Len(task.loads) < MaxLoads
    /\ LET process == task.dialog.process
           ended == terminate_process(process)
           t == [task EXCEPT !.dialog = None, !.agreed = @ \cup {process}, !.ended = @ \cup ended]
       IN  IF task.dialog.ask = "confirm" /\ process[1] \in System
           THEN /\ task' = [task EXCEPT !.dialog.ask = "system"]
                /\ UNCHANGED world
           ELSE /\ task' = IF ended = {} THEN t ELSE Started(t)
                /\ world' = [world EXCEPT !.alive = [p \in Pids |-> IF <<p, @[p]>> \in ended THEN 0 ELSE @[p]]]

\* analyze_process: one at a time, of the process that has the number when the worker looks.
analyze_process ==
    /\ Free /\ task.analysis.step \in {"none", "over"}
    /\ \E row \in task.table :
          task' = [task EXCEPT !.analysis = [step |-> "look", process |-> row.process, cancelled |-> FALSE, button |-> TRUE]]
    /\ UNCHANGED world

cancel_analysis ==
    /\ Free /\ task.analysis.button /\ task.analysis.step # "over"
    /\ task' = [task EXCEPT !.analysis.cancelled = TRUE, !.analysis.button = FALSE]
    /\ UNCHANGED world

\* Reading the process, hashing its file, asking: a cancellation is noticed in each but the first.
analyze_process_task ==
    LET a == task.analysis
        pid == a.process[1]
    IN  /\ a.step \in {"look", "hash", "ask"}
        /\ task' = CASE a.step = "look" /\ Alive(pid) # 0 ->
                            [task EXCEPT !.analysis.step = "hash", !.analysis.process = <<pid, Alive(pid)>>]
                     [] a.step = "hash" /\ ~a.cancelled -> [task EXCEPT !.analysis.step = "ask"]
                     [] OTHER -> [task EXCEPT !.analysis.step = "over"]
        /\ UNCHANGED world

_analysis_finished ==
    /\ task.analysis.step = "over"
    /\ task' = [task EXCEPT !.analysis = NoAnalysis]
    /\ UNCHANGED world

\* The system starts a process under a free number, or one ends.
Born ==
    \E pid \in Pids :
        /\ Alive(pid) = 0 /\ world.births < MaxBirths
        /\ world' = [alive |-> [world.alive EXCEPT ![pid] = world.births + 1], births |-> world.births + 1]
        /\ UNCHANGED task
Dies ==
    \E pid \in Pids \ {Own} :
        /\ Alive(pid) # 0
        /\ world' = [world EXCEPT !.alive[pid] = 0]
        /\ UNCHANGED task

Next ==
    \/ load_processes \/ load_processes_task \/ Handle
    \/ get_termination_target \/ kill_process_Declined \/ kill_process_Confirmed
    \/ analyze_process \/ cancel_analysis \/ analyze_process_task \/ _analysis_finished
    \/ Born \/ Dies

Spec == Init /\ [][Next]_vars

-----------------------------------------------------------------------------
(* Properties. *)

\* Only a process that a dialog named and the user agreed to end is ended, never the program itself.
EndsOnlyAgreed == task.ended \subseteq {p \in task.agreed : p[1] # Own}

\* The rows are those of the last list asked for, at most one for a number, and the window says it is
\* loading exactly while that list is on its way.
TableIsOfTheLastList ==
    /\ \A row \in task.table : row.by = Len(task.loads)
    /\ \A row, other \in task.table : row.process[1] = other.process[1] => row = other
    /\ task.loading <=> task.current # 0
    /\ task.current \in {0, Len(task.loads)}
=============================================================================
