----------------------------- MODULE ToolWindow -----------------------------
(***************************************************************************)
(* What every tool window promises about closing, whichever protocol its   *)
(* closeEvent follows: the window goes away only while none of the QThreads *)
(* it holds runs, a close that finds work running is remembered instead of  *)
(* dropped, and a window that is gone starts nothing.  BaseTool, the PDF and          *)
(* converter windows and the network window each implement this promise in  *)
(* their own way; the modules that model them refine this one.              *)
(***************************************************************************)
CONSTANTS
    Workers,          \* the QThread objects the window may ever create
    Replaceable       \* those a window holds only until it starts the next

VARIABLES
    running,          \* the workers the window holds whose isRunning() is true
    asked,            \* a close was asked for and is still owed
    window            \* "open" | "closed"

vars == <<running, asked, window>>

Init ==
    /\ running = {}
    /\ asked = FALSE
    /\ window = "open"

\* A user action or a timer of an open window starts a worker, which may take the place of another.
Start(w) ==
    /\ window = "open"
    /\ w \notin running
    /\ \E v \in Replaceable \cup {w} : running' = (running \ {v}) \cup {w}
    /\ UNCHANGED <<asked, window>>

\* The thread's run() has returned, or the window has let go of it.
Stop(w) ==
    /\ w \in running
    /\ running' = running \ {w}
    /\ UNCHANGED <<asked, window>>

\* Closing was requested while work was running: the request is kept.
AskClose ==
    /\ window = "open"
    /\ running # {}
    /\ asked' = TRUE
    /\ UNCHANGED <<running, window>>

\* The close event is accepted.
Close ==
    /\ window = "open"
    /\ running = {}
    /\ asked' = FALSE
    /\ window' = "closed"
    /\ UNCHANGED running

Next ==
    \/ \E w \in Workers : Start(w) \/ Stop(w)
    \/ AskClose
    \/ Close

Spec == Init /\ [][Next]_vars
=============================================================================
