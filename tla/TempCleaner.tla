---------------------------- MODULE TempCleaner ----------------------------
(***************************************************************************)
(* The temporary-file cleaner: which directories it may empty, the preview, *)
(* and the traversal that empties one while other programs use it.          *)
(*                                                                          *)
(* The cleaner works with paths and every path is resolved again by every    *)
(* call, so what it looked at may be another thing when it is removed.  Every *)
(* look at the disk is an action of its own, and so is every removal.         *)
(***************************************************************************)
EXTENDS Integers, FiniteSets, Sequences

CONSTANTS
    Machines,     \* environments, see below
    Disks,        \* what may lie in the target's container, see below
    Newcomers,    \* files that other programs may create
    Swapped,      \* the link a program may leave in the place of a directory
    MaxChanges,   \* how often other programs change the disk
    None

VARIABLES task, world

vars == <<task, world>>

-----------------------------------------------------------------------------
(* The directories that may be emptied.  A machine is [windows, home, local, root, *)
(* temp, tmp, real, through]: absolute paths or None, the real directories and the  *)
(* paths that lead through a link.  A path is a sequence of names.                  *)

Places == Seq(STRING) \ {<<>>}

MachineConstants ==
    \A m \in Machines :
        /\ m.real \subseteq Places /\ None \notin m.real /\ m.real \cap m.through = {}
        /\ m.home \in Places /\ {m.local, m.root, m.temp, m.tmp} \subseteq Places \cup {None}
        /\ ~m.windows => m.root = None

Given(path, default) == IF path = None THEN default ELSE path
Drive(path) == <<path[1]>>

_resolve_existing(m, path) == IF path \in m.real THEN {path} ELSE {}
_resolved_path(m, path) == IF path = None \/ path \in m.through THEN {} ELSE {path}

_temp_candidates(m) == IF m.windows THEN {m.temp, m.tmp} \ {None} ELSE {}

_browser_cache_root(m) == Given(m.local, m.home \o <<"cache">>)

_browser_cache_candidates(m) ==
    {_browser_cache_root(m) \o <<browser>> : browser \in {"Chrome", "Edge"}}
    \cup {path \in m.real : \E profile \in {"p", "q"} :
              path = _browser_cache_root(m) \o <<"Firefox", profile, "cache2">>}

_log_candidates(m) == IF m.windows THEN {Given(m.root, <<"C:", "Windows">>) \o <<"Temp">>} ELSE {}

\* That of a drive is the drive itself.
Parent(path) == IF Len(path) = 1 THEN path ELSE SubSeq(path, 1, Len(path) - 1)
Parents(m) == UNION {{Parent(path) : path \in _resolved_path(m, temp)} : temp \in {m.temp, m.tmp} \ {None}}

_allowed_clean_containers(m) ==
    IF m.windows
    THEN _resolved_path(m, m.local) \cup _resolved_path(m, Given(m.root, <<"C:", "Windows">>)) \cup Parents(m)
    ELSE _resolved_path(m, _browser_cache_root(m))

_forbidden_clean_roots(m) ==
    LET general == {m.home} \cup (IF m.windows THEN {m.local, m.root} \ {None} ELSE {})
        resolved == UNION {_resolved_path(m, path) : path \in general}
    IN  resolved \cup {Drive(path) : path \in resolved}
        \cup (IF m.windows THEN Parents(m) ELSE _allowed_clean_containers(m))

_allowed_exact_clean_targets(m) ==
    UNION {_resolve_existing(m, path) :
               path \in _temp_candidates(m) \cup _browser_cache_candidates(m) \cup _log_candidates(m)}

IsInside(c, path) == Len(c) < Len(path) /\ SubSeq(path, 1, Len(c)) = c

_is_safe_clean_root(m, path) ==
    /\ path \in _allowed_exact_clean_targets(m) \ _forbidden_clean_roots(m)
    /\ \E container \in _allowed_clean_containers(m) : IsInside(container, path)

\* Mutant: a path that leads through a link is resolved like any other.
_unique_safe_targets_Links(m, candidates) ==
    {path \in candidates : _is_safe_clean_root([m EXCEPT !.real = @ \cup m.through, !.through = {}], path)}

_unique_safe_targets(m, candidates) ==
    {path \in candidates : _resolve_existing(m, path) # {} /\ _is_safe_clean_root(m, path)}

-----------------------------------------------------------------------------
(* The disk is a function from inodes to [in, name, kind, to, locked, kept]: the      *)
(* directory that holds the inode (None: removed or moved away), "dir", "file" or     *)
(* "link", where a link leads, whether removing or listing it fails, and whether it is *)
(* of other programs, outside the target.  Inode 0 is the container and <<"temp">> the *)
(* path of the target in it.                                                          *)

Container == 0
Target == <<"temp">>
Node == {"in", "name", "kind", "to", "locked", "kept"}

\* A name stands for one entry of its directory; what other programs keep is not below what
\* they do not.
FileSystem(disk) ==
    /\ \A i \in DOMAIN disk : DOMAIN disk[i] = Node /\ disk[i].name \in STRING
    /\ \A i \in DOMAIN disk : disk[i].in # None =>
          /\ disk[i].in \in DOMAIN disk /\ disk[disk[i].in].kind = "dir"
          /\ disk[i].kept => disk[disk[i].in].kept
    /\ \A i, j \in DOMAIN disk :
          i # j /\ disk[i].in # None /\ disk[i].in = disk[j].in => disk[i].name # disk[j].name

DiskConstants ==
    /\ Swapped \notin Newcomers
    /\ \A disk \in Disks :
        /\ FileSystem(disk) /\ IsFiniteSet(DOMAIN disk)
        /\ {Container, Swapped} \cup Newcomers \subseteq DOMAIN disk /\ None \notin DOMAIN disk
        /\ disk[Container].kind = "dir" /\ disk[Container].in = None
        /\ \A i \in DOMAIN disk : disk[i].in = Container /\ disk[i].name = Target[1] => ~disk[i].kept
        /\ disk[Swapped].kind = "link" /\ ~disk[Swapped].kept
        /\ \A n \in Newcomers :
              /\ disk[n].kind = "file" /\ ~disk[n].kept /\ disk[n].in = None
              /\ \A i \in DOMAIN disk \ {n} : disk[i].name # disk[n].name

Listing(disk, directory) == {i \in DOMAIN disk : disk[i].in = directory}
Followed(disk, i) == IF i # None /\ disk[i].kind = "link" THEN disk[i].to ELSE i
Held(disk, directory, name) ==
    LET there == {i \in Listing(disk, directory) : disk[i].name = name}
    IN  IF directory = None \/ there = {} THEN None ELSE CHOOSE i \in there : TRUE

\* What the first names of a path lead to, and all of them.  Path.lstat follows every link but
\* the last.
Trail(disk, path) ==
    LET trail[k \in 0..Len(path)] ==
            IF k = 0 THEN Container ELSE Held(disk, Followed(disk, trail[k - 1]), path[k])
    IN  trail
lstat(disk, path) == Trail(disk, path)[Len(path)]

_directory_matches(disk, path, id) == id # None /\ lstat(disk, path) = id /\ disk[id].kind = "dir"
_directory_identity(disk, path) ==
    LET i == lstat(disk, path) IN IF i # None /\ disk[i].kind = "dir" THEN i ELSE None

\* What the preview counts: everything below the target, links not followed. A pass for each level,
\* of which there are no more than items.
_preview_directory(disk, root) ==
    LET items == Cardinality(DOMAIN disk)
        below[k \in 0..items] ==
            IF k = 0 THEN {} ELSE
            LET found == below[k - 1]
                listable == {d \in found \cup {root} : disk[d].kind = "dir" /\ ~disk[d].locked}
            IN  found \cup {i \in DOMAIN disk : disk[i].in \in listable}
    IN  below[items]

-----------------------------------------------------------------------------
(* task is the cleaner's: step says what it does next, targets what it offers,     *)
(* stack the directories it is in, each [path, id, todo], entry the path it has just *)
(* looked at.  listed, lost, came, late, raced, strayed and quiet are history: the *)
(* directories listed so far, what the cleaner removed, the newcomers that have    *)
(* come and those of a directory already listed, whether a directory was replaced   *)
(* since the last look of the cleaner at a directory before a removal, whether it   *)
(* works in a directory, or on names, that it found through such a replacement,      *)
(* and that nothing has changed at all.                                              *)

Init ==
    \E m \in Machines, disk \in Disks :
        /\ world = [disk |-> disk, machine |-> m, changes |-> 0]
        /\ task = [step |-> "choose", targets |-> {}, stack |-> <<>>, entry |-> None, link |-> FALSE,
                   items |-> 0, deleted |-> 0, failed |-> 0,
                   listed |-> {}, lost |-> {}, came |-> {}, late |-> {}, raced |-> FALSE,
                   strayed |-> FALSE, quiet |-> TRUE]

Disk == world.disk
Top == task.stack[Len(task.stack)]
TopMatches == _directory_matches(Disk, Top.path, Top.id)

\* clean_action: the checked options, their targets and the preview (window.py).
clean_action ==
    /\ task.step = "choose"
    /\ \E temp, cache, logs \in BOOLEAN :
        LET m == world.machine
            targets == (IF temp THEN _unique_safe_targets(m, _temp_candidates(m)) ELSE {})
                       \cup (IF cache THEN _unique_safe_targets(m, _browser_cache_candidates(m)) ELSE {})
                       \cup (IF logs THEN _unique_safe_targets(m, _log_candidates(m)) ELSE {})
            root == _directory_identity(Disk, Target)
        IN  task' = [task EXCEPT !.targets = targets,
                                 !.step = IF targets = {} \/ root = None THEN "done" ELSE "confirm",
                                 !.items = IF targets = {} \/ root = None THEN 0
                                           ELSE Cardinality(_preview_directory(Disk, root))]
    /\ UNCHANGED world

\* The user confirms; the target is looked at again before anything is removed.
delete_folder_contents ==
    /\ task.step = "confirm"
    /\ \E yes \in BOOLEAN :
        LET root == _directory_identity(Disk, Target)
        IN  task' = IF yes /\ root # None
                    THEN [task EXCEPT !.step = "list", !.targets = {},
                                      !.stack = <<[path |-> Target, id |-> root, todo |-> {}]>>]
                    ELSE [task EXCEPT !.step = "done", !.targets = {}]
    /\ world' = [world EXCEPT !.machine = None]

\* The traversal of a directory ends: completed says whether its own removal is tried.
Returned(t, completed) ==
    IF Len(t.stack) = 1 THEN [t EXCEPT !.step = "done", !.stack = <<>>]
    ELSE [t EXCEPT !.step = IF completed THEN "leave" ELSE "look", !.stack = SubSeq(@, 1, Len(@) - 1),
                   !.entry = IF completed THEN <<t.stack[Len(t.stack)].path, t.stack[Len(t.stack)].id>> ELSE None]
_record_failure(t) == [t EXCEPT !.failed = @ + 1]

_delete_directory_contents_List ==
    /\ task.step = "list"
    /\ task' = IF TopMatches THEN [task EXCEPT !.step = "scan"] ELSE Returned(_record_failure(task), FALSE)
    /\ UNCHANGED world

\* os.scandir follows the path anew, through a link if one has come to lie there.
_delete_directory_contents_Scan ==
    /\ task.step = "scan"
    /\ LET d == Followed(Disk, lstat(Disk, Top.path))
       IN  task' = IF d \in DOMAIN Disk /\ Disk[d].kind = "dir" /\ ~Disk[d].locked
                   THEN [task EXCEPT !.step = "recheck", !.listed = @ \cup ({d} \cap {Top.id}),
                                     !.stack[Len(task.stack)].todo = {Disk[i].name : i \in Listing(Disk, d)}]
                   ELSE Returned(_record_failure(task), FALSE)
    /\ UNCHANGED world

\* The names are those of another directory if this one was not the one listed.
_delete_directory_contents_Recheck ==
    /\ task.step = "recheck"
    /\ task' = IF TopMatches THEN [task EXCEPT !.step = "look", !.strayed = @ \/ Top.id \notin task.listed]
               ELSE Returned(_record_failure(task), FALSE)
    /\ UNCHANGED world

Taken(name) == [task EXCEPT !.step = "stat", !.stack[Len(task.stack)].todo = @ \ {name},
                            !.entry = Append(Top.path, name), !.raced = FALSE]

\* Mutant: the directory is not looked at again before the next of its entries.
_delete_directory_contents_Look_Trusting ==
    /\ task.step = "look"
    /\ IF Top.todo = {} THEN task' = Returned(task, TopMatches)
       ELSE \E name \in Top.todo : task' = Taken(name)
    /\ UNCHANGED world

_delete_directory_contents_Look ==
    /\ task.step = "look"
    /\ IF Top.todo = {} THEN task' = Returned(task, TopMatches)
       ELSE IF ~TopMatches THEN task' = Returned(_record_failure(task), FALSE)
       ELSE \E name \in Top.todo : task' = Taken(name)
    /\ UNCHANGED world

Enter(i) ==
    [task EXCEPT !.step = "list", !.entry = None, !.strayed = @ \/ (task.raced /\ Disk[i].in # Top.id),
                 !.stack = Append(@, [path |-> task.entry, id |-> i, todo |-> {}])]

_delete_directory_contents_Stat ==
    /\ task.step = "stat"
    /\ LET i == lstat(Disk, task.entry)
       IN  task' = CASE i = None -> [_record_failure(task) EXCEPT !.step = "look", !.entry = None]
                     [] i # None /\ Disk[i].kind = "dir" -> Enter(i)
                     [] OTHER -> [task EXCEPT !.step = "act", !.link = Disk[i].kind = "link"]
    /\ UNCHANGED world

Removed(i, next) ==
    IF i # None /\ ~Disk[i].locked
    THEN /\ world' = [world EXCEPT !.disk[i].in = None]
         /\ task' = [task EXCEPT !.step = next, !.entry = None, !.deleted = @ + 1, !.lost = @ \cup {i}]
    ELSE /\ task' = [_record_failure(task) EXCEPT !.step = next, !.entry = None]
         /\ UNCHANGED world

\* A file, or a link itself: only what was a link may by now be removed as an empty directory.
_remove_link_or_reparse(path) ==
    LET i == lstat(Disk, path)
        removable == i # None /\ (Disk[i].kind = "dir" => task.link /\ Listing(Disk, i) = {})
    IN  Removed(IF removable THEN i ELSE None, "look")

_delete_directory_contents_Act == task.step = "act" /\ _remove_link_or_reparse(task.entry)

_delete_directory_contents_Leave ==
    /\ task.step = "leave"
    /\ task' = IF TopMatches THEN [task EXCEPT !.step = "verify"] ELSE Returned(_record_failure(task), FALSE)
    /\ UNCHANGED world

_delete_directory_contents_Verify ==
    /\ task.step = "verify"
    /\ task' = IF _directory_matches(Disk, task.entry[1], task.entry[2])
               THEN [task EXCEPT !.step = "rmdir", !.raced = FALSE]
               ELSE [_record_failure(task) EXCEPT !.step = "look", !.entry = None]
    /\ UNCHANGED world

\* Mutant: the directory is removed with whatever it holds by now.
_delete_directory_contents_Rmdir_Tree ==
    /\ task.step = "rmdir"
    /\ LET i == lstat(Disk, task.entry[1])
           gone == {i} \cup Listing(Disk, i)
       IN  IF i # None /\ Disk[i].kind = "dir" /\ ~Disk[i].locked
           THEN /\ world' = [world EXCEPT !.disk = [j \in DOMAIN @ |-> IF j \in gone THEN [@[j] EXCEPT !.in = None] ELSE @[j]]]
                /\ task' = [task EXCEPT !.step = "look", !.entry = None, !.deleted = @ + 1, !.lost = @ \cup gone]
           ELSE Removed(None, "look")

\* Not recursive: content that has just arrived makes it fail.
_delete_directory_contents_Rmdir ==
    /\ task.step = "rmdir"
    /\ LET i == lstat(Disk, task.entry[1])
       IN  Removed(IF i # None /\ Disk[i].kind = "dir" /\ Listing(Disk, i) = {} THEN i ELSE None, "look")

-----------------------------------------------------------------------------
(* Other programs. *)

Changed(disk) ==
    /\ task.step # "done" /\ world.changes < MaxChanges
    /\ world' = [world EXCEPT !.changes = @ + 1, !.disk = disk]

Arrive ==
    \E n \in Newcomers \ task.came, d \in DOMAIN Disk \ {Container} :
        /\ Disk[d].kind = "dir" /\ Disk[d].in # None
        /\ Changed([Disk EXCEPT ![n].in = d])
        /\ task' = [task EXCEPT !.came = @ \cup {n}, !.late = IF d \in task.listed THEN @ \cup {n} ELSE @,
                                !.quiet = FALSE]

Vanish ==
    \E i \in DOMAIN Disk :
        /\ Disk[i].kind # "dir" /\ Disk[i].in # None
        /\ Changed([Disk EXCEPT ![i].in = None])
        /\ task' = [task EXCEPT !.quiet = FALSE]

\* A directory is moved away and a link to another one takes its place.
Swap ==
    \E d \in DOMAIN Disk \ {Container} :
        /\ Disk[d].kind = "dir" /\ Disk[d].in # None /\ Disk[Swapped].in = None /\ Swapped \notin task.lost
        /\ d # Disk[Swapped].to
        /\ Changed([Disk EXCEPT ![d].in = None, ![Swapped].in = Disk[d].in, ![Swapped].name = Disk[d].name])
        /\ task' = [task EXCEPT !.raced = TRUE, !.quiet = FALSE]

Next ==
    \/ clean_action \/ delete_folder_contents
    \/ _delete_directory_contents_List \/ _delete_directory_contents_Scan \/ _delete_directory_contents_Recheck
    \/ _delete_directory_contents_Look \/ _delete_directory_contents_Stat \/ _delete_directory_contents_Act
    \/ _delete_directory_contents_Leave \/ _delete_directory_contents_Verify \/ _delete_directory_contents_Rmdir
    \/ Arrive \/ Vanish \/ Swap

Spec == Init /\ [][Next]_vars

-----------------------------------------------------------------------------
(* Properties. *)

\* The offered targets are real directories, none is the home, a drive or a directory that programs
\* keep their data in, and none is reached through a link (_is_safe_clean_root).
TargetsAreSafe ==
    \A path \in task.targets :
        LET m == world.machine
        IN  path \in m.real /\ path \notin m.through /\ path \notin {m.home, m.local, m.root} /\ Len(path) > 1

\* What lies outside the target is removed only if a directory was replaced between two looks that
\* follow each other: after the look at the directory that is emptied, or left, and before the
\* removal, or before the entry was looked at, which then was a directory of others and was entered
\* (_directory_matches, then child.lstat).
ContainedStep == \A i \in task'.lost \ task.lost : Disk[i].kept => task.raced \/ task.strayed
CleaningIsContained == [][ContainedStep]_vars

\* A file that arrives in a directory already listed stays, as long as no directory was entered so.
NewcomersStay == ~task.strayed => task.lost \cap task.late = {}

\* The report counts what was removed.
DeletedIsExact == task.deleted = Cardinality(task.lost)

\* With no other program at work it accounts for every item of the preview, once the target could
\* be listed.
ItemsAreAccounted ==
    task.step = "done" /\ task.quiet /\ task.listed # {} => task.deleted + task.failed = task.items
=============================================================================
