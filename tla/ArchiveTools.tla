---------------------------- MODULE ArchiveTools ----------------------------
(***************************************************************************)
(* The archive tools: extracting a ZIP or a 7Z and creating one.  All is      *)
(* written next to the destination first and put in its place in one step;     *)
(* the worker looks at the cancellation before every chunk.                     *)
(*                                                                              *)
(* An archive is [size, members], a member [key, safe, kind, declared, packed,     *)
(* actual]: its name without regard to case, whether its path may be extracted,    *)
(* "file", "dir", "link" or "special", the two sizes in its header (packed is None *)
(* for most members of a 7Z), and the chunks it yields.  Removing what was written  *)
(* next to the destination is taken to succeed.                                      *)
(***************************************************************************)
EXTENDS Integers, Sequences, FiniteSets, FiniteSetsExt, Ranking

CONSTANTS
    Archives,   \* the archives that may be opened
    Sources,    \* how many chunks each file to be compressed has
    MaxFiles, MaxSingle, MaxTotal, MaxRatio,   \* ArchiveLimits
    Other, None \* what another program put at the destination; nothing

VARIABLES task, world

vars == <<task, world>>

ArchiveConstants ==
    /\ Other # None
    /\ Sources \in Seq(Nat)
    /\ \A archive \in Archives : archive.members \in Seq({archive.members[i] : i \in DOMAIN archive.members})

(* task is the window's worker: op what it was started for, given its input, left what    *)
(* it has left of it, written the chunks of the member it is in, total those of all,       *)
(* answer what the window was told.  world is the directory of the destination: dest what  *)
(* is there, staging what is written next to it, from nothing to chunk counts by key.      *)

Idle == [step |-> "idle", op |-> None, given |-> <<>>, left |-> <<>>, written |-> 0, total |-> 0,
         cancelled |-> FALSE, button |-> FALSE, answer |-> None]

Init ==
    /\ task = Idle
    /\ world \in [dest : {None, Other}, staging : {None}]

Extracting == task.op \in {"zip", "7z"}

_start_task ==
    /\ task.step = "idle"
    /\ \/ \E op \in {"zip", "7z"}, given \in Archives :
              task' = [Idle EXCEPT !.step = "open", !.op = op, !.given = given, !.left = given.members, !.button = TRUE]
       \/ task' = [Idle EXCEPT !.step = "open", !.op = "create", !.left = Sources, !.given = Sources, !.button = TRUE]
    /\ UNCHANGED world

cancel_operation ==
    /\ task.button /\ task.step # "over"
    /\ task' = [task EXCEPT !.cancelled = TRUE, !.button = FALSE]
    /\ UNCHANGED world

\* An exception: what was written is removed and the window is told.
Failed(answer) ==
    /\ task' = [task EXCEPT !.step = "over", !.answer = answer]
    /\ world' = [world EXCEPT !.staging = None]
check_cancelled == task.cancelled /\ Failed("cancelled")

-----------------------------------------------------------------------------
(* infrastructure/archives.py. *)

Files(members) == {m \in Elements(members) : m.kind = "file"}
Total(members) == MapThenSumSet(LAMBDA i : IF members[i].kind = "file" THEN members[i].declared ELSE 0, DOMAIN members)

\* Mutant: only the sizes in the headers are looked at.
validate_archive_members_Sizes(archive) ==
    LET members == archive.members
    IN  \A i \in DOMAIN members : members[i].kind = "file" => members[i].declared <= MaxSingle

validate_archive_members(archive) ==
    LET members == archive.members
    IN  /\ Len(members) <= MaxFiles
        /\ \A i, j \in DOMAIN members : i # j => members[i].key # members[j].key
        /\ \A m \in Elements(members) : m.safe /\ m.kind \in {"file", "dir"}
        /\ \A m \in Files(members) :
              m.declared <= MaxSingle /\ (m.packed # None => m.declared <= MaxRatio * m.packed)
        /\ Total(members) <= MaxTotal
        /\ archive.size > 0 => Total(members) <= MaxRatio * archive.size

_verify_extracted_tree(tree) ==
    /\ Cardinality(DOMAIN tree) <= MaxFiles
    /\ \A key \in DOMAIN tree : tree[key] <= MaxSingle
    /\ MapThenSumSet(LAMBDA key : tree[key], DOMAIN tree) <= MaxTotal

-----------------------------------------------------------------------------
(* service.py. *)

\* The members are validated before anything is written; an encrypted ZIP is refused with them.
Open ==
    /\ task.step = "open"
    /\ \/ check_cancelled
       \/ /\ ~task.cancelled
          /\ Extracting => validate_archive_members(task.given) /\ world.dest = None
          /\ task' = [task EXCEPT !.step = "member"]
          /\ world' = [world EXCEPT !.staging = [key \in {} |-> 0]]
       \/ ~task.cancelled /\ Failed("error")

Member == Head(task.left)
Chunks == IF Extracting THEN Member.actual ELSE Member

\* The next member; a directory and an empty file have no chunk.
NextMember ==
    /\ task.step = "member"
    /\ \/ check_cancelled
       \/ /\ ~task.cancelled
          /\ IF task.left = <<>> THEN task' = [task EXCEPT !.step = "verify"] /\ UNCHANGED world
             ELSE IF Extracting /\ Member.kind = "dir"
             THEN task' = [task EXCEPT !.left = Tail(@)] /\ UNCHANGED world
             ELSE task' = [task EXCEPT !.step = "chunk", !.written = 0] /\ UNCHANGED world
       \/ ~task.cancelled /\ task.left # <<>> /\ Failed("error")

Key == IF Extracting THEN Member.key ELSE Len(task.left)
Tree(count) == [key \in DOMAIN world.staging \cup {Key} |-> IF key = Key THEN count ELSE world.staging[key]]

\* Mutant: a member that ends early is taken as it is.
Complete_Any(count) == TRUE

\* A ZIP member must have exactly its declared size; py7zr compares a checksum.
Complete(count) == Extracting => count = Member.declared

\* One chunk: more than was declared or than the limits allow is refused.
WriteChunk ==
    /\ task.step = "chunk"
    /\ \/ check_cancelled
       \/ /\ ~task.cancelled /\ task.written < Chunks
          /\ LET count == task.written + 1
             IN  IF Extracting /\ (count > MaxSingle \/ count > Member.declared \/ task.total + 1 > MaxTotal)
                 THEN Failed("error")
                 ELSE /\ task' = [task EXCEPT !.written = count, !.total = @ + 1]
                      /\ world' = [world EXCEPT !.staging = Tree(count)]
       \/ /\ ~task.cancelled /\ task.written = Chunks
          /\ IF Complete(task.written)
             THEN /\ task' = [task EXCEPT !.step = "member", !.left = Tail(@)]
                  /\ world' = [world EXCEPT !.staging = Tree(task.written)]
             ELSE Failed("error")
       \/ ~task.cancelled /\ Failed("error")

Verify ==
    /\ task.step = "verify"
    /\ \/ check_cancelled
       \/ /\ ~task.cancelled
          /\ IF Extracting => _verify_extracted_tree(world.staging)
             THEN task' = [task EXCEPT !.step = "publish"] /\ UNCHANGED world
             ELSE Failed("error")

\* Mutant: what is there is replaced.
_publish_staging_Over ==
    /\ task' = [task EXCEPT !.step = "return"]
    /\ world' = [dest |-> world.staging, staging |-> None]

\* Extraction refuses a destination that has appeared, and so does Windows if it appears after the look; a
\* new archive replaces the old one.
_publish_staging ==
    IF Extracting /\ world.dest # None THEN Failed("error")
    ELSE /\ task' = [task EXCEPT !.step = "return"]
         /\ world' = [dest |-> world.staging, staging |-> None]

Publish == task.step = "publish" /\ (_publish_staging \/ Failed("error"))

\* Worker.run looks at the cancellation once more, after all is in its place.
Return ==
    /\ task.step = "return"
    /\ task' = [task EXCEPT !.step = "over", !.answer = IF task.cancelled THEN "cancelled" ELSE "done"]
    /\ UNCHANGED world

_on_finished ==
    /\ task.step = "over"
    /\ task' = Idle
    /\ world' \in [dest : {None, Other}, staging : {None}] \* the user picks another destination

\* Another program creates the destination.
Appear ==
    /\ task.step \notin {"idle", "return", "over"} /\ world.dest = None
    /\ world' = [world EXCEPT !.dest = Other]
    /\ UNCHANGED task

Next ==
    \/ _start_task \/ cancel_operation \/ Open \/ NextMember \/ WriteChunk
    \/ Verify \/ Publish \/ Return \/ _on_finished \/ Appear

Spec == Init /\ [][Next]_vars

-----------------------------------------------------------------------------
(* Properties. *)

\* What a task leaves at the destination is all it was asked for and nothing else; a failed task leaves
\* what was there, and no task leaves anything next to it.
WholeOrNothing ==
    task.step = "over" =>
        /\ world.staging = None
        /\ task.answer = "error" => world.dest \in {None, Other}
        /\ task.answer = "done" =>
               IF Extracting
               THEN /\ DOMAIN world.dest = {m.key : m \in Files(task.given.members)}
                    /\ \A m \in Files(task.given.members) : world.dest[m.key] = m.declared
               ELSE world.dest = [n \in 1..Len(Sources) |-> Sources[Len(Sources) - n + 1]]

\* What an extraction puts in place is within the limits and holds no link and no path that leads outside.
StaysWithinLimits ==
    task.step = "over" /\ Extracting /\ world.dest \notin {None, Other} =>
        /\ _verify_extracted_tree(world.dest)
        /\ \A m \in Elements(task.given.members) : m.safe /\ m.kind \in {"file", "dir"}

\* A step of an extraction never replaces what another program put at the destination.
ReplacedStep == Extracting /\ task.step # "over" /\ world.dest = Other => world'.dest = Other
NothingOfOthersIsReplaced == [][ReplacedStep]_vars
=============================================================================
