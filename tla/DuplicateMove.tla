---------------------------- MODULE DuplicateMove ----------------------------
(***************************************************************************)
(* The duplicate finder: a scan groups the files of equal content, and a later   *)
(* operation moves all of a group but its first into one folder, with a restore  *)
(* manifest that is rewritten around every move.                                 *)
(*                                                                         *)
(* The files all have the same name, so that every move competes for the names   *)
(* "name", "name_1"... of that folder.  The user edits, deletes and hard-links    *)
(* files at any moment, cancels, and the process may die; every write of the      *)
(* manifest and every move can fail.                                             *)
(***************************************************************************)
EXTENDS Naturals, FiniteSets, Sequences, Ranking

CONSTANTS
    Paths,      \* places of the scanned folder, numbers in the order of their names
    Contents,
    MaxMoves,   \* bound: names used in the folder of duplicates
    MaxRuns,    \* bound: operations that write a manifest
    MaxEdits,   \* bound: changes the user makes
    Gone, Copy  \* no file; what a move that failed half-way copied

DuplicateConstants ==
    /\ Paths \subseteq Nat \ {0} /\ IsFiniteSet(Paths)
    /\ MaxMoves \in Nat /\ MaxRuns \in Nat /\ MaxEdits \in Nat
    /\ Gone # Copy /\ {Gone, Copy} \cap Paths = {}

Slots == 1..MaxMoves

\* A physical file is named after the path it first had.
Files == Paths

VARIABLES
    at,         \* the file at each path
    slot,       \* the folder of duplicates
    content,    \* of each physical file
    groups,     \* self.duplicates
    todo,       \* the groups, and in the first the sources, still to be visited
    pc,         \* where the worker is
    manifests,  \* the manifest files, one per operation
    memory,     \* the manifest being built
    cancel,     \* the worker's cancel event
    shown,      \* what the window was last told
    origin,     \* history: the path whose file was moved to each slot, 0 for none
    touched,    \* history: the user changed a file since the comparison began
    edits       \* history: how often the user changed a file

vars == <<at, slot, content, groups, todo, pc, manifests, memory, cancel, shown, origin, touched,
          edits>>
files == <<at, slot, content, origin>>
record == <<manifests, memory>>

Statuses == {"planned", "moved", "failed"}
Move == [source : Paths, slot : Slots, original : Paths, status : Statuses]
Manifest == [status : {"in_progress", "cancelled", "complete"}, moves : Seq(Move),
             count : 0..MaxMoves]
NoManifest == [status |-> "in_progress", moves |-> <<>>, count |-> 0]

Pcs == {"idle", "begin", "group", "source", "verify", "plan", "move", "moved", "failed",
        "cancelling", "completing", "returned"}

TypeOK ==
    /\ at \in [Paths -> Files \cup {Gone}]
    /\ slot \in [Slots -> Files \cup {Gone, Copy}]
    /\ content \in [Files -> Contents]
    /\ groups \in Seq(Seq(Paths)) /\ todo \in Seq(Seq(Paths))
    /\ pc \in Pcs
    /\ manifests \in Seq(Manifest) /\ Len(manifests) <= MaxRuns /\ memory \in Manifest
    /\ {cancel, touched} \subseteq BOOLEAN
    /\ shown \in {"nothing", "result", "cancelled", "failed"}
    /\ origin \in [Slots -> Paths \cup {0}]
    /\ edits \in 0..MaxEdits

Init ==
    /\ at = [p \in Paths |-> p]
    /\ content \in [Files -> Contents]
    /\ slot = [s \in Slots |-> Gone] /\ origin = [s \in Slots |-> 0]
    /\ groups = <<>> /\ todo = <<>> /\ pc = "idle"
    /\ manifests = <<>> /\ memory = NoManifest
    /\ cancel = FALSE /\ shown = "nothing" /\ touched = FALSE /\ edits = 0

-----------------------------------------------------------------------------
(* The scan.  It sees one path of each physical file and nothing of the folder of  *)
(* duplicates; what happens to the files while it reads is revalidated by the move.*)

Smaller == {pair \in Paths \X Paths : pair[1] < pair[2]}

Duplicates(seen) ==
    LET Class(p) == {q \in seen : content[at[q]] = content[at[p]]}
    IN Listed({Ranked(Class(p), Smaller) : p \in {q \in seen : Class(q) # {q}}})

Scan ==
    /\ pc = "idle"
    /\ \E seen \in SUBSET {p \in Paths : at[p] # Gone} :
        /\ \A p, q \in seen : at[p] = at[q] => p = q
        /\ \A p \in Paths : at[p] # Gone => \E q \in seen : at[p] = at[q]
        /\ groups' = Duplicates(seen)
    /\ shown' = "nothing"
    /\ UNCHANGED <<files, edits, todo, pc, record, cancel, touched>>

\* The window starts the move of the groups it shows.
StartMove ==
    /\ pc = "idle" /\ groups # <<>>
    /\ Len(manifests) < MaxRuns /\ Cardinality({s \in Slots : slot[s] = Gone}) > 1
    /\ todo' = groups /\ pc' = "begin" /\ cancel' = FALSE
    /\ UNCHANGED <<files, edits, groups, record, shown, touched>>

-----------------------------------------------------------------------------
(* The manifest file, and the end of the operation. *)

\* The slot of the outcome forgets the groups, and the worker is dropped.
End(how) ==
    /\ pc' = "idle" /\ shown' = how
    /\ groups' = <<>> /\ todo' = <<>>
    /\ memory' = NoManifest /\ cancel' = FALSE /\ touched' = FALSE

Continue(then) ==
    /\ pc' = then
    /\ UNCHANGED <<groups, shown, cancel, touched>>

\* The manifest in memory becomes m, which replaces the file; if the file cannot be
\* written the exception ends the task, and the file stays as it was.
Save(m, then, rest) ==
    /\ \/ /\ manifests' = [manifests EXCEPT ![Len(manifests)] = m]
          /\ memory' = m /\ todo' = rest
          /\ Continue(then)
       \/ UNCHANGED manifests /\ End("failed")
    /\ UNCHANGED <<files, edits>>

Begin ==
    /\ pc = "begin"
    /\ \/ cancel /\ End("cancelled") /\ UNCHANGED manifests
       \/ ~cancel /\ End("failed") /\ UNCHANGED manifests
       \/ /\ ~cancel
          /\ manifests' = Append(manifests, NoManifest)
          /\ UNCHANGED <<memory, todo>>
          /\ Continue("group")
    /\ UNCHANGED <<files, edits>>

\* _finish_cancelled_manifest, then the exception goes on to Worker.run.
Cancelling ==
    /\ pc = "cancelling"
    /\ \/ /\ manifests' = [manifests EXCEPT ![Len(manifests)] =
                              [memory EXCEPT !.status = "cancelled"]]
          /\ End("cancelled")
       \/ UNCHANGED manifests /\ End("failed")
    /\ UNCHANGED <<files, edits>>

Complete ==
    /\ pc = "completing"
    /\ Save([memory EXCEPT !.status = "complete"], "returned", todo)

\* Worker.run looks at the event once more.
Return ==
    /\ pc = "returned"
    /\ End(IF cancel THEN "cancelled" ELSE "result")
    /\ UNCHANGED <<files, edits, manifests>>

-----------------------------------------------------------------------------
(* One source of one group. *)

Original == todo[1][1]
Source == todo[1][2]

\* The first group without its source, or without any source left.
Rest == <<<<Original>> \o SubSeq(todo[1], 3, Len(todo[1]))>> \o Tail(todo)

GroupStep ==
    /\ pc = "group"
    /\ IF cancel THEN pc' = "cancelling" /\ UNCHANGED todo
       ELSE IF todo = <<>> THEN pc' = "completing" /\ UNCHANGED todo
       ELSE IF at[Original] = Gone THEN todo' = Tail(todo) /\ UNCHANGED pc
       ELSE pc' = "source" /\ UNCHANGED todo
    /\ UNCHANGED <<files, edits, groups, record, cancel, shown, touched>>

Skip == pc' = "source" /\ todo' = Rest

\* Mutant: the physical identity is not looked at.
SourceStep_IgnoresLinks ==
    /\ pc = "source"
    /\ IF Len(todo[1]) = 1 THEN pc' = "group" /\ todo' = Tail(todo)
       ELSE IF cancel THEN pc' = "cancelling" /\ UNCHANGED todo
       ELSE IF at[Source] = Gone THEN Skip
       ELSE pc' = "verify" /\ UNCHANGED todo
    /\ touched' = FALSE
    /\ UNCHANGED <<files, edits, groups, record, cancel, shown>>

SourceStep ==
    /\ pc = "source"
    /\ IF Len(todo[1]) = 1 THEN pc' = "group" /\ todo' = Tail(todo)
       ELSE IF cancel THEN pc' = "cancelling" /\ UNCHANGED todo
       ELSE IF at[Source] \in {Gone, at[Original]} THEN Skip
       ELSE pc' = "verify" /\ UNCHANGED todo
    /\ touched' = FALSE
    /\ UNCHANGED <<files, edits, groups, record, cancel, shown>>

\* Hashes and a comparison byte by byte.  A file that changes meanwhile may compare
\* either way; a file that cannot be read is skipped.
Equal ==
    \/ touched
    \/ at[Source] # Gone /\ at[Original] # Gone /\ content[at[Source]] = content[at[Original]]

Verify ==
    /\ pc = "verify"
    /\ \/ cancel /\ pc' = "cancelling" /\ UNCHANGED todo
       \/ Equal /\ pc' = "plan" /\ UNCHANGED todo
       \/ Skip
    /\ UNCHANGED <<files, edits, groups, record, cancel, shown, touched>>

\* The first free name, recorded before anything moves.
Free == {s \in Slots : slot[s] = Gone /\ \A t \in 1..s - 1 : slot[t] # Gone}

Entry(s) == [source |-> Source, slot |-> s, original |-> Original, status |-> "planned"]

Unplanned ==
    /\ IF cancel THEN pc' = "cancelling" /\ UNCHANGED todo ELSE at[Source] = Gone /\ Skip
    /\ UNCHANGED <<files, edits, groups, record, cancel, shown, touched>>

\* Mutant: the plan is kept in memory until the file has moved.
Plan_Unsaved ==
    /\ pc = "plan"
    /\ \/ Unplanned
       \/ ~cancel /\ at[Source] # Gone /\ \E s \in Free :
            /\ memory' = [memory EXCEPT !.moves = Append(@, Entry(s))]
            /\ Continue("move")
            /\ UNCHANGED <<files, edits, todo, manifests>>

Plan ==
    /\ pc = "plan"
    /\ \/ Unplanned
       \/ ~cancel /\ at[Source] # Gone /\ \E s \in Free :
            Save([memory EXCEPT !.moves = Append(@, Entry(s))], "move", todo)

Planned == memory.moves[Len(memory.moves)]

MoveStep ==
    /\ pc = "move"
    /\ IF cancel THEN pc' = "cancelling" /\ UNCHANGED files
       ELSE \/ /\ at[Source] # Gone
               /\ at' = [at EXCEPT ![Source] = Gone]
               /\ slot' = [slot EXCEPT ![Planned.slot] = at[Source]]
               /\ origin' = [origin EXCEPT ![Planned.slot] = Source]
               /\ pc' = "moved" /\ UNCHANGED content
            \/ /\ \E left \in {Gone, Copy} : slot' = [slot EXCEPT ![Planned.slot] = left]
               /\ pc' = "failed" /\ UNCHANGED <<at, content, origin>>
    /\ UNCHANGED <<groups, todo, record, cancel, shown, touched, edits>>

Settled(status) == [memory EXCEPT !.moves = [@ EXCEPT ![Len(memory.moves)].status = status],
                                  !.count = IF status = "moved" THEN @ + 1 ELSE @]

Record ==
    /\ pc \in {"moved", "failed"}
    /\ Save(Settled(pc), "source", Rest)

-----------------------------------------------------------------------------
(* The user, and the end of the process. *)

\* A file is written in place, removed, or replaced by a hard link to another.
Edit ==
    /\ edits < MaxEdits /\ edits' = edits + 1
    /\ touched' = (pc \in {"verify", "plan", "move"})
    /\ \/ \E p \in Paths, c \in Contents :
            /\ at[p] # Gone /\ content' = [content EXCEPT ![at[p]] = c]
            /\ UNCHANGED at
       \/ \E p \in Paths : at' = [at EXCEPT ![p] = Gone] /\ UNCHANGED content
       \/ \E p, q \in Paths :
            /\ at[q] # Gone /\ at' = [at EXCEPT ![p] = at[q]]
            /\ UNCHANGED content
    /\ UNCHANGED <<slot, groups, todo, pc, record, cancel, shown, origin>>

Cancel ==
    /\ pc # "idle" /\ ~cancel
    /\ cancel' = TRUE
    /\ UNCHANGED <<files, edits, groups, todo, pc, record, shown, touched>>

Crash ==
    /\ pc # "idle"
    /\ End("nothing")
    /\ UNCHANGED <<files, edits, manifests>>

Step ==
    \/ Begin \/ GroupStep \/ SourceStep \/ Verify \/ Plan \/ MoveStep \/ Record
    \/ Cancelling \/ Complete \/ Return

Next == Scan \/ StartMove \/ Step \/ Edit \/ Cancel \/ Crash

Spec == Init /\ [][Next]_vars

-----------------------------------------------------------------------------
(* Correctness. *)

AllMoves == UNION {{m.moves[k] : k \in DOMAIN m.moves} : m \in {manifests[i] : i \in DOMAIN manifests}}

\* Every file in the folder of duplicates is named, with the path it came from, by
\* a manifest on disk, whatever write or move failed and whenever the process died;
\* and an entry marked as moved names the file that is there.
Restorable ==
    /\ \A s \in Slots : slot[s] \in Files =>
        \E e \in AllMoves : e.slot = s /\ e.source = origin[s] /\ e.status # "failed"
    /\ \A e \in AllMoves : e.status = "moved" => slot[e.slot] \in Files /\ origin[e.slot] = e.source

\* The manifest of a complete operation has no move left open and counts its moves,
\* one that was cancelled has at most its last move open, and the window reports the
\* success of complete operations only.
StatusIsTrue ==
    /\ \A i \in DOMAIN manifests :
        LET m == manifests[i]
            open == {k \in DOMAIN m.moves : m.moves[k].status = "planned"}
        IN /\ m.status = "complete" => open = {}
           /\ m.status = "cancelled" => open \subseteq {Len(m.moves)}
           /\ m.status # "in_progress" =>
                m.count = Cardinality({k \in DOMAIN m.moves : m.moves[k].status = "moved"})
    /\ shown = "result" => manifests[Len(manifests)].status = "complete"

\* A file is moved only if another physical file of the scanned folder has its
\* content, unless the user changed a file after the comparison began.
KeepsACopyStep ==
    \A p \in Paths : pc = "move" /\ at[p] # Gone /\ at'[p] = Gone /\ ~touched /\ edits' = edits
        => \E q \in Paths : at'[q] \notin {Gone, at[p]} /\ content[at'[q]] = content[at[p]]
KeepsACopy == [][KeepsACopyStep]_vars
=============================================================================
