---------------------------- MODULE EventViewer ----------------------------
(***************************************************************************)
(* The event viewer: a worker reads the chosen logs one after the other,     *)
(* each through a child process; the window filters what was read, exports   *)
(* it and leaves the riskiest events for the technical report.               *)
(***************************************************************************)
EXTENDS Integers, Sequences, FiniteSets, Ranking

CONSTANTS
    Logs,        \* the logs in the order of the window, the last one unchecked at first
    Events,      \* [id, log, level, kind, at]: at is the age in days
    MaxEvents,   \* the limits the user may set
    Reported,    \* how many events the technical report takes, 25 in the code
    Printed,     \* how many the PDF prints, 100 in the code
    MaxReads,
    None

ViewerConstants ==
    /\ IsFiniteSet(Logs) /\ IsFiniteSet(Events)
    /\ \A e \in Events : e.id \in Nat /\ e.at \in Nat
    /\ \A e, f \in Events : e.id = f.id => e = f
    /\ MaxEvents \subseteq Nat /\ Reported \in Nat /\ Printed \in Nat

VARIABLES task, world

vars == <<task, world>>

-----------------------------------------------------------------------------
(* service.py. *)

Normal == 0
Bajo == 1
Medio == 2
Alto == 3

classify_risk(e) ==
    CASE e.level = 1 \/ e.kind \in {"power", "disk", "filesystem", "hardware", "bugcheck", "shutdown"} -> Alto
      [] e.level # 1 /\ e.kind \in {"service", "dns", "update", "logon"} -> Medio
      [] e.level = 2 /\ e.kind = "other" -> Medio
      [] e.level = 3 /\ e.kind = "other" -> Bajo
      [] OTHER -> Normal

\* The query: levels 1 to 3, information on demand, and the age unless it is 0.
build_event_query(days, info) ==
    {e \in Events : (e.level \in 1..3 \/ (info /\ e.level = 4)) /\ (days > 0 => e.at <= days)}

Newer == {x \in Events \X Events : x[1].at < x[2].at \/ (x[1].at = x[2].at /\ x[1].id < x[2].id)}
Least(a, b) == IF a <= b THEN a ELSE b
First(list, n) == SubSeq(list, 1, Least(n, Len(list)))

Newest(S, n) == Elements(First(Ranked(S, Newer), n))

\* What the child prints for a log.
Matching(query, log, n) == Newest({e \in query : e.log = log}, n)

\* The riskiest first, then the newest.
Before ==
    {x \in Events \X Events :
        \/ classify_risk(x[1]) > classify_risk(x[2])
        \/ classify_risk(x[1]) = classify_risk(x[2]) /\ x \in Newer}

\* Mutant: the events are cut off in the order they were read.
Sorted_Cut(S, n) == Ranked(Newest(S, n), Before)

Sorted(S, n) == First(Ranked(S, Before), n)

-----------------------------------------------------------------------------
(* task is the window and its worker.  query is what the worker was asked for, left   *)
(* the logs it has still to read, read and warned what it has; shown and visible are   *)
(* the window's events; exported, asked, complete and partial are history: what was      *)
(* last written of those shown and where, their query, the logs read to the end for it,  *)
(* and whether the reading was cancelled.  world is the child process.                   *)

Init ==
    /\ task = [step |-> "idle", query |-> None, left |-> <<>>, read |-> {}, warned |-> {}, complete |-> {},
               cancelled |-> FALSE, cancelButton |-> FALSE, buttons |-> TRUE, reads |-> 0,
               shown |-> <<>>, risk |-> None, visible |-> <<>>, rows |-> 0,
               exported |-> None, asked |-> None, partial |-> FALSE]
    /\ world = "none"

refresh_events ==
    /\ task.buttons /\ task.reads < MaxReads
    /\ \E chosen \in SUBSET Logs, days \in {0, 1}, n \in MaxEvents, info \in BOOLEAN :
        /\ chosen # {}
        /\ task' = [task EXCEPT !.step = "next", !.left = Listed(chosen), !.read = {}, !.warned = {}, !.complete = {},
                                !.query = [logs |-> chosen, days |-> days, n |-> n, info |-> info],
                                !.cancelled = FALSE, !.cancelButton = TRUE, !.buttons = FALSE,
                                !.rows = 0, !.exported = None, !.reads = @ + 1]
    /\ UNCHANGED world

cancel_loading ==
    /\ task.cancelButton
    /\ task' = [task EXCEPT !.cancelled = TRUE, !.cancelButton = FALSE]
    /\ UNCHANGED world

\* collect_events: the next log, unless the reading was cancelled or there is none.
collect_events ==
    /\ task.step = "next"
    /\ IF task.cancelled \/ task.left = <<>>
       THEN /\ task' = [task EXCEPT !.step = "answer"]
            /\ UNCHANGED world
       ELSE \E started \in BOOLEAN :
            /\ world' = IF started THEN "running" ELSE "none"
            /\ task' = IF started THEN [task EXCEPT !.step = "reading"]
                       ELSE [task EXCEPT !.left = Tail(@), !.warned = @ \cup {Head(task.left)}]

Warned == [task EXCEPT !.step = "next", !.left = Tail(@), !.warned = @ \cup {Head(task.left)}]

\* Mutant: a child that takes too long is left to itself.
_kill_and_drain_process_Forgotten(why) == IF why = "timeout" THEN world ELSE "none"

_kill_and_drain_process(why) == "none"

\* run_wevtutil: the child ends, with output that can be read or not, or it is killed.
run_wevtutil_Read ==
    /\ task.step = "reading"
    /\ world' = "none"
    /\ LET q == task.query
           found == Matching(build_event_query(q.days, q.info), Head(task.left), q.n)
       IN  task' = [task EXCEPT !.step = "next", !.left = Tail(@), !.read = @ \cup found,
                                !.complete = @ \cup {Head(task.left)}]
run_wevtutil_Failed ==
    /\ task.step = "reading"
    /\ \E why \in {"timeout", "exit", "xml"} :
          world' = IF why = "timeout" THEN _kill_and_drain_process(why) ELSE "none"
    /\ task' = Warned
run_wevtutil_Cancelled ==
    /\ task.step = "reading" /\ task.cancelled
    /\ world' = _kill_and_drain_process("cancel")
    /\ task' = [task EXCEPT !.step = "answer"]

Filtered(t) ==
    LET visible == SelectSeq(t.shown, LAMBDA e : t.risk = None \/ classify_risk(e) = t.risk)
    IN  [t EXCEPT !.visible = visible, !.rows = Len(visible)]

\* The filters stay enabled while a worker reads, and fill the table with the events of the last one.
populate_table ==
    /\ \E risk \in {None, Alto, Medio} : risk # task.risk /\ task' = Filtered([task EXCEPT !.risk = risk])
    /\ UNCHANGED world

on_events_loaded ==
    /\ task.step = "answer"
    /\ task' = Filtered([task EXCEPT !.step = "idle", !.shown = Sorted(task.read, task.query.n),
                                     !.buttons = TRUE, !.cancelButton = FALSE,
                                     !.asked = task.query, !.partial = task.cancelled])
    /\ UNCHANGED world

\* The collection itself fails.
on_events_failed ==
    /\ task.step = "next" /\ task.left # <<>> /\ ~task.cancelled
    /\ task' = [task EXCEPT !.step = "idle", !.shown = <<>>, !.visible = <<>>, !.rows = 0,
                            !.buttons = TRUE, !.cancelButton = FALSE, !.asked = None]
    /\ UNCHANGED world

Written(by, events) == [task EXCEPT !.exported = [by |-> by, events |-> events]]

\* CSV and HTML hold the loaded events, whatever the filters show.
Export ==
    /\ task.buttons /\ task.shown # <<>>
    /\ task' = Written("file", Elements(task.shown))
    /\ UNCHANGED world

\* The PDF prints the first of them.
export_pdf ==
    /\ task.buttons /\ task.shown # <<>>
    /\ task' = Written("pdf", Elements(First(task.shown, Printed)))
    /\ UNCHANGED world

Rank(e) == <<classify_risk(e), e.level \in {1, 2}>>
Leads(e, f) == \/ classify_risk(e) > classify_risk(f)
               \/ classify_risk(e) = classify_risk(f) /\ e.level \in {1, 2} /\ f.level \notin {1, 2}

\* The first Reported events by risk and severity; the sort keeps the order of equals.
add_to_technical_report ==
    /\ task.buttons /\ task.shown # <<>>
    /\ LET Ahead(i) == {j \in DOMAIN task.shown : \/ Leads(task.shown[j], task.shown[i])
                                                   \/ (Rank(task.shown[j]) = Rank(task.shown[i]) /\ j < i)}
       IN  task' = Written("report", {task.shown[i] : i \in {k \in DOMAIN task.shown : Cardinality(Ahead(k)) < Reported}})
    /\ UNCHANGED world

Next ==
    \/ refresh_events \/ cancel_loading \/ collect_events
    \/ run_wevtutil_Read \/ run_wevtutil_Failed \/ run_wevtutil_Cancelled
    \/ populate_table \/ on_events_loaded \/ on_events_failed
    \/ Export \/ export_pdf \/ add_to_technical_report

Spec == Init /\ [][Next]_vars

-----------------------------------------------------------------------------
(* Properties. *)

\* A child is running only while the worker reads from it: each is reaped on every way out.
EveryChildIsReaped == world = "running" <=> task.step = "reading"

\* Unless the reading was cancelled, what is shown holds the riskiest of the newest events of every log
\* that answered: none that was left out is riskier than one that is shown, and every log is
\* accounted for.  What was written of them leaves out none that is riskier than one it has; the
\* technical report leaves out no error either for a warning of the same risk (the PDF may: it
\* prints the events in the order of the window, in which the age comes before the level).
ShownAreTheRiskiest ==
    /\ task.exported # None =>
          LET written == task.exported.events
          IN  \A e \in written, out \in Elements(task.shown) \ written :
                  /\ e \in Elements(task.shown)
                  /\ classify_risk(out) <= classify_risk(e)
                  /\ task.exported.by = "report" => ~Leads(out, e)
    /\ task.asked # None /\ task.step = "idle" /\ ~task.partial =>
        LET q == task.asked
            asked == UNION {Matching(build_event_query(q.days, q.info), log, q.n) : log \in task.complete}
        IN  /\ task.complete \cup task.warned = q.logs
            /\ Elements(task.shown) \subseteq asked
            /\ Len(task.shown) = Least(q.n, Cardinality(asked))
            /\ \A out \in asked \ Elements(task.shown), e \in Elements(task.shown) : classify_risk(out) <= classify_risk(e)
=============================================================================
