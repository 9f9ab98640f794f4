--------------------------- MODULE SnapshotHistory ---------------------------
(***************************************************************************)
(* The automatic snapshots of Network Intelligence, the retention policy that  *)
(* deletes them and the History Center dialog that edits the policy and cleans *)
(* by hand.                                                                     *)
(*                                                                         *)
(* The dialog is modal but runs the event loop, so a scheduled run publishes    *)
(* and prunes while it is open.  A publication whose retention failed shows a   *)
(* warning before it is recorded: `suspended' holds those publications.         *)
(*                                                                         *)
(* A snapshot file is a scope and the time its name and content carry.          *)
(***************************************************************************)
EXTENDS Naturals, Sequences, FiniteSets

CONSTANTS
    Scopes,         \* IPv4 scopes, as numbers in the order of their file names
    MaxTime,        \* bound: the latest clock value
    MaxFiles,       \* bound: snapshot files on disk
    Policies,       \* retention policies: [keep, age], age 0 for no limit
    Default,        \* RetentionPolicy()
    MIN_KEEP,       \* MIN_KEEP_PER_SCOPE
    MAX_CATALOG,    \* MAX_CATALOG_FILES
    LosesSaves,     \* a save of the schedule may fail, the process may die before it
    Unattended,     \* the next run may end while the retention warning is open
    ClockMovesBack, \* the system clock may be set back
    NoFile

ASSUME HistoryAssumption ==
    /\ Scopes \subseteq Nat
    /\ MaxTime \in Nat \ {0}
    /\ MaxFiles \in Nat
    /\ MIN_KEEP \in Nat \ {0}
    /\ MAX_CATALOG \in Nat \ {0}
    /\ Policies \subseteq [keep : {k \in Nat : k >= MIN_KEEP}, age : Nat]
    /\ Default \in Policies
    /\ {LosesSaves, Unattended, ClockMovesBack} \subseteq BOOLEAN
    /\ NoFile \notin [scope : Scopes, stamp : 1..MaxTime]

File == [scope : Scopes, stamp : 1..MaxTime]

VARIABLES
    disk,           \* the scheduled_*.json files
    corrupt,        \* those that load_network_report refuses
    now,            \* the clock
    schedule,       \* self.schedule_config: scope and last_snapshot
    scheduleFile,   \* what is saved of it
    policy,         \* self.retention_policy
    policyFile,     \* network_intelligence_retention.json
    diverged,       \* history: the last policy used could not be saved, or the
                    \* one saved could not be loaded
    suspended,      \* publications under their retention warning, innermost last
    dialog,         \* the History Center: "closed" | "open" | "asking"
    catalog,        \* dialog.catalog.entries
    dialogPolicy,   \* dialog.policy
    question        \* the cleanup being confirmed: policy, scopes, now

files == <<disk, corrupt>>
center == <<dialog, catalog, dialogPolicy, question>>
policies == <<policy, policyFile, diverged>>
vars == <<files, now, schedule, scheduleFile, policies, suspended, center>>

\* A history center that is not open, and one that asks nothing.
NoQuestion == [policy |-> Default, scopes |-> {}, now |-> 1]
NoCenter == dialog' = "closed" /\ catalog' = {} /\ dialogPolicy' = Default /\ question' = NoQuestion

Init ==
    /\ disk = {} /\ corrupt = {}
    /\ now = 1
    /\ schedule \in [scope : Scopes, last : {NoFile}]
    /\ scheduleFile = schedule
    /\ policy = Default /\ policyFile = Default /\ diverged = FALSE
    /\ suspended = <<>>
    /\ dialog = "closed" /\ catalog = {} /\ dialogPolicy = Default
    /\ question = NoQuestion

-----------------------------------------------------------------------------
(* Pure functions of retention.py. *)

Newer(f, S) == {g \in S : g.scope = f.scope /\ g.stamp > f.stamp}

\* The files after f in sorted(root.glob("scheduled_*.json")): by scope, then time.
NamedAfter(f, S) == {g \in S : g.scope > f.scope} \cup Newer(f, S)

\* Mutant: a file that cannot be read is an entry like any other.
load_snapshot_catalog_Unchecked(d, bad) ==
    {f \in d : Cardinality(NamedAfter(f, d)) < MAX_CATALOG}

\* The valid ones among the last MAX_CATALOG_FILES names.
load_snapshot_catalog(d, bad) ==
    {f \in d : Cardinality(NamedAfter(f, d)) < MAX_CATALOG} \ bad

\* Mutant: the newest of a scope is protected, not the newest pair.
retention_candidates_One(entries, p, t, scopes) ==
    {f \in entries :
        /\ f.scope \in scopes
        /\ Cardinality(Newer(f, entries)) >= 1
        /\ \/ Cardinality(Newer(f, entries)) >= p.keep
           \/ p.age > 0 /\ f.stamp + p.age < t}

\* Mutant: one too many is kept.
retention_candidates_OffByOne(entries, p, t, scopes) ==
    {f \in entries :
        /\ f.scope \in scopes
        /\ Cardinality(Newer(f, entries)) >= MIN_KEEP
        /\ \/ Cardinality(Newer(f, entries)) > p.keep
           \/ p.age > 0 /\ f.stamp + p.age < t}

\* What the policy removes: never the MIN_KEEP newest of a scope.
retention_candidates(entries, p, t, scopes) ==
    {f \in entries :
        /\ f.scope \in scopes
        /\ Cardinality(Newer(f, entries)) >= MIN_KEEP
        /\ \/ Cardinality(Newer(f, entries)) >= p.keep
           \/ p.age > 0 /\ f.stamp + p.age < t}

\* apply_retention_policy deletes the candidates oldest first; when a deletion
\* raises, the older ones are gone and the rest stays.
Removals(candidates, complete) ==
    IF complete THEN {candidates}
    ELSE {R \in SUBSET candidates :
             \A f \in R, g \in candidates \ R : f.stamp <= g.stamp}

-----------------------------------------------------------------------------
(* Scheduled runs. *)

\* The run is recorded in the schedule, and the save may fail.
RecordSuccess(f) ==
    /\ schedule' = [schedule EXCEPT !.last = f]
    /\ scheduleFile' \in {schedule'} \cup {s \in {scheduleFile} : LosesSaves}

Writable == Unattended \/ suspended = <<>>

\* Publish the snapshot of a run, then apply the policy held in memory to its
\* scope.  An incomplete retention is warned about before the run is recorded.
create_automatic_snapshot(complete) ==
    LET f == [scope |-> schedule.scope, stamp |-> now]
        written == disk \cup {f}
        readable == corrupt \ {f}
        entries == load_snapshot_catalog(written, readable) IN
    /\ Cardinality(written) <= MaxFiles
    /\ \E removed \in Removals(retention_candidates(entries, policy, now, {f.scope}), complete) :
          disk' = written \ removed
    /\ corrupt' = readable
    /\ IF complete
       THEN RecordSuccess(f) /\ UNCHANGED suspended
       ELSE /\ suspended' = Append(suspended, [snapshot |-> f, previous |-> schedule.last])
            /\ UNCHANGED <<schedule, scheduleFile>>

Publish ==
    /\ Unattended \/ suspended = <<>>
    /\ Len(suspended) < 2                       \* bound
    /\ \E complete \in BOOLEAN : create_automatic_snapshot(complete)
    /\ UNCHANGED <<now, policies, center>>

\* The warning is dismissed: the innermost publication is recorded.
Resume ==
    /\ suspended # <<>>
    /\ RecordSuccess(suspended[Len(suspended)].snapshot)
    /\ suspended' = SubSeq(suspended, 1, Len(suspended) - 1)
    /\ UNCHANGED <<files, now, policies, center>>

\* The schedule is created again, for the same scope or another.
create_schedule ==
    /\ suspended = <<>> /\ dialog = "closed"
    /\ schedule' \in [scope : Scopes, last : {NoFile}]
    /\ scheduleFile' = schedule'
    /\ UNCHANGED <<files, now, policies, suspended, center>>

-----------------------------------------------------------------------------
(* The History Center. *)

_open_history_center ==
    /\ dialog = "closed" /\ suspended = <<>>
    /\ dialog' = "open"
    /\ catalog' = load_snapshot_catalog(disk, corrupt)
    /\ dialogPolicy' = policy
    /\ UNCHANGED <<files, now, schedule, scheduleFile, policies, suspended, question>>

_save_policy(p) ==
    /\ dialog = "open" /\ suspended = <<>>
    /\ policyFile' = p
    /\ dialogPolicy' = p
    /\ diverged' = FALSE
    /\ UNCHANGED <<files, now, schedule, scheduleFile, policy, suspended, dialog, catalog, question>>

\* Clean now, up to the question: what it counts comes from the catalog loaded
\* when the dialog was opened.
_clean_now(p, scopes) ==
    /\ dialog = "open" /\ suspended = <<>>
    /\ retention_candidates(catalog, p, now, scopes) # {}
    /\ dialog' = "asking"
    /\ question' = [policy |-> p, scopes |-> scopes, now |-> now]
    /\ UNCHANGED <<files, now, schedule, scheduleFile, policies, suspended, catalog, dialogPolicy>>

\* The answer is yes: the policy is applied to the files of the moment, then kept.
Confirm(complete) ==
    /\ dialog = "asking" /\ suspended = <<>>
    /\ dialog' = "open"
    /\ LET entries == load_snapshot_catalog(disk, corrupt)
           candidates == retention_candidates(entries, question.policy, question.now,
                                              question.scopes) IN
       \E removed \in Removals(candidates, complete) : disk' = disk \ removed
    /\ \/ /\ complete
          /\ dialogPolicy' = question.policy
          /\ catalog' = load_snapshot_catalog(disk', corrupt)
          /\ \/ policyFile' = question.policy /\ diverged' = FALSE
             \/ policyFile' = policyFile /\ diverged' = (policyFile # question.policy)
       \/ /\ ~complete
          /\ UNCHANGED <<dialogPolicy, catalog, policyFile, diverged>>
    /\ question' = NoQuestion
    /\ UNCHANGED <<corrupt, now, schedule, scheduleFile, policy, suspended>>

Decline ==
    /\ dialog = "asking" /\ suspended = <<>>
    /\ dialog' = "open"
    /\ question' = NoQuestion
    /\ UNCHANGED <<files, now, schedule, scheduleFile, policies, suspended, catalog, dialogPolicy>>

\* Mutant: the window goes on with the policy it had.
CloseHistory_Forgets ==
    /\ dialog = "open" /\ suspended = <<>>
    /\ NoCenter
    /\ UNCHANGED <<files, now, schedule, scheduleFile, policies, suspended>>

\* exec_() returns to _open_history_center.
CloseHistory ==
    /\ dialog = "open" /\ suspended = <<>>
    /\ policy' = dialogPolicy
    /\ NoCenter
    /\ UNCHANGED <<files, now, schedule, scheduleFile, policyFile, diverged, suspended>>

-----------------------------------------------------------------------------
(* The environment. *)

Clock ==
    /\ now' \in 1..MaxTime
    /\ now' = now + 1 \/ (ClockMovesBack /\ now' < now)
    /\ UNCHANGED <<files, schedule, scheduleFile, policies, suspended, center>>

\* A file on disk is damaged.
Damage ==
    /\ \E f \in disk \ corrupt : corrupt' = corrupt \cup {f}
    /\ UNCHANGED <<disk, now, schedule, scheduleFile, policies, suspended, center>>

\* The program ends, in the middle of a publication only if LosesSaves, and starts.
\* A retention policy that cannot be loaded is replaced by the default one in this
\* process only; a schedule that cannot be loaded publishes nothing until
\* create_schedule.
Restart ==
    /\ LosesSaves \/ suspended = <<>>
    /\ schedule' = scheduleFile
    /\ policy' \in {policyFile, Default} /\ diverged' = (policy' # policyFile)
    /\ suspended' = <<>>
    /\ NoCenter
    /\ UNCHANGED <<files, now, scheduleFile, policyFile>>

Next ==
    \/ Publish \/ Resume \/ create_schedule
    \/ _open_history_center \/ Decline \/ CloseHistory
    \/ \E p \in Policies : _save_policy(p)
    \/ \E p \in Policies, scopes \in {Scopes} \cup {{s} : s \in Scopes} : _clean_now(p, scopes)
    \/ \E complete \in BOOLEAN : Confirm(complete)
    \/ Clock \/ Damage \/ Restart

Spec == Init /\ [][Next]_vars

-----------------------------------------------------------------------------
(* Properties. *)

\* Every variable keeps its type; a deleted file is not remembered as corrupt.
TypeOK ==
    /\ disk \subseteq File /\ corrupt \subseteq disk
    /\ now \in 1..MaxTime
    /\ schedule \in [scope : Scopes, last : File \cup {NoFile}]
    /\ scheduleFile \in [scope : Scopes, last : File \cup {NoFile}]
    /\ {policy, policyFile, dialogPolicy} \subseteq Policies
    /\ diverged \in BOOLEAN
    /\ suspended \in Seq([snapshot : File, previous : File \cup {NoFile}])
    /\ dialog \in {"closed", "open", "asking"}
    /\ catalog \subseteq File
    /\ question \in [policy : Policies, scopes : SUBSET Scopes, now : 1..MaxTime]

\* Nothing that cannot be read is deleted, and whatever is deleted leaves MIN_KEEP
\* newer readable snapshots of its scope on the disk ("The two newest valid
\* snapshots in every scope are always protected").
SparesThePair ==
    [][\A f \in disk \ disk' :
          f \notin corrupt /\ Cardinality(Newer(f, disk' \ corrupt')) >= MIN_KEEP]_vars

\* The last recorded snapshot, and those a suspended publication will compare, are
\* still there for the comparison.
BaselineAvailable ==
    /\ schedule.last \in disk \cup {NoFile}
    /\ \A k \in 1..Len(suspended) :
          /\ suspended[k].snapshot \in disk
          /\ suspended[k].previous \in disk \cup {NoFile}

\* A run recorded without a warning: its retention was complete.
Recorded == suspended = <<>> /\ schedule'.last \notin {schedule.last, NoFile}

WithinPolicy ==
    Recorded /\ Cardinality(disk) < MAX_CATALOG
    => Cardinality({f \in disk' \ corrupt' : f.scope = schedule.scope}) <= policy.keep

\* It leaves its scope no more readable snapshots than the policy allows, unless
\* the catalog was truncated.
RetentionBounds == [][WithinPolicy]_vars

\* With the History Center closed, scheduled runs use the policy on disk, unless the
\* last save or load of it failed: _open_history_center adopts what the dialog ended
\* with, and the dialog begins with what the window had.
PolicyAdopted == dialog = "closed" /\ ~diverged => policy = policyFile
=============================================================================
