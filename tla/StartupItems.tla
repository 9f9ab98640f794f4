---------------------------- MODULE StartupItems ----------------------------
(***************************************************************************)
(* The startup manager: programs registered to start with Windows, in a Run     *)
(* key of the registry or as a file of a Startup folder, which the user         *)
(* disables and enables again.                                                   *)
(*                                                                         *)
(* Disabling saves a backup before it removes the entry, enabling restores the   *)
(* entry before it removes the backup, and every call on the way can fail and    *)
(* starts a rollback whose calls can fail too.  The window acts on the list of   *)
(* its last reload, while other programs register themselves again.              *)
(*                                                                         *)
(* One step is one call of the operating system: a check and the write that      *)
(* relies on it are two wherever another program can write in between.           *)
(***************************************************************************)
EXTENDS Naturals

CONSTANTS
    Entries,        \* startup entries
    Registry,       \* those of a Run key; the others are files or directories
    OtherVolume,    \* those whose folder is on another volume than the backups
    Updated,        \* those that a program registers again or removes; not those of another
                    \* volume, since the copy and the deletion of a move between volumes are one step
    Versions,       \* commands or contents of an entry
    Ids,            \* backup identifiers
    Absent, Torn,   \* no entry; a directory copied or deleted by half
    None

StartupConstants ==
    /\ Registry \subseteq Entries
    /\ OtherVolume \subseteq Entries \ Registry
    /\ Updated \subseteq Entries \ OtherVolume
    /\ Absent \notin Versions /\ Torn \notin Versions /\ Absent # Torn
    /\ None \notin Ids \cup Entries

Content == Versions \cup {Absent, Torn}
Outcomes == {"none", "success", "error", "transaction", "crash"}

VARIABLES
    active,     \* the Run values and the files of the Startup folders
    backups,    \* the disabled entries: what each backup holds and its metadata
    listed,     \* self.items: active entries (None) and backups
    op,         \* the operation in progress, and what it started from
    outcome,    \* history: how the last operation ended
    current,    \* history: what its program last made of each entry
    excused,    \* history: entries whose backup was left without metadata
    overwritten \* history: entries whose latest version came after a check and was written over or deleted

vars == <<active, backups, listed, op, outcome, current, excused, overwritten>>

Item == [entry : Entries, content : Content, id : Ids \cup {None}]

\* A backup's metadata is the registry key with its values, or the JSON file.
Metadata == {"unused", "partial", "pending", "published", "none"}
Published(e) == {i \in Ids : backups[i].entry = e /\ backups[i].meta = "published"}

Steps == {"create", "fill", "delete", "unbackup",
          "pending", "move", "publish", "checkMoveBack", "moveBack", "preserve", "cleanup",
          "check", "write", "unback", "unwrite",
          "open", "checkRestore", "restore", "unmeta", "takeBack"}

Idle == [step |-> "idle"]
Operation == [step : Steps, item : Item, id : Ids, touched : BOOLEAN,
              before : Content, kept : SUBSET Ids]
Running == op # Idle

TypeOK ==
    /\ active \in [Entries -> Content]
    /\ backups \in [Ids -> [entry : Entries \cup {None}, content : Content, meta : Metadata]]
    /\ listed \subseteq Item
    /\ op \in Operation \cup {Idle}
    /\ outcome \in Outcomes
    /\ current \in [Entries -> Versions \cup {Absent}]
    /\ excused \subseteq Entries /\ overwritten \subseteq Entries

\* collect_startup_items.
Listing ==
    {[entry |-> e, content |-> active[e], id |-> None] :
        e \in {x \in Entries : active[x] # Absent}}
    \cup
    {[entry |-> backups[i].entry, content |-> backups[i].content, id |-> i] :
        i \in {j \in Ids : backups[j].meta = "published"}}

Init ==
    /\ active \in [Entries -> Versions \cup {Absent}]
    /\ backups = [i \in Ids |-> [entry |-> None, content |-> Absent, meta |-> "unused"]]
    /\ listed = Listing
    /\ op = Idle
    /\ outcome = "none"
    /\ current = active
    /\ excused = {} /\ overwritten = {}

Entry == op.item.entry
Enabling == op.item.id # None

-----------------------------------------------------------------------------
(* How a step goes on, or ends the operation. *)

Goto(step) ==
    /\ op' = [op EXCEPT !.step = step]
    /\ UNCHANGED <<listed, outcome>>

\* Only a success reloads the list.
End(how) ==
    /\ op' = Idle
    /\ outcome' = how
    /\ listed' = IF how = "success" THEN Listing' ELSE listed

\* _move_path first looks: the source is there and the destination is not.
CanMove(s, d) == s # Absent /\ d = Absent

\* Then os.replace or shutil.move, which write over a destination that is there by now: whether
\* they return, and what they leave.  Between volumes the second copies, then deletes, and either
\* can fail half-way.
Replace(s, d) ==
    {[ok |-> TRUE, from |-> Absent, to |-> s], [ok |-> FALSE, from |-> s, to |-> d]}
    \cup {[ok |-> FALSE, from |-> r[1], to |-> r[2]] :
            r \in {x \in {<<s, Torn>>, <<s, s>>, <<Torn, s>>} : Entry \in OtherVolume}}

\* Both at once, to a backup: nobody else writes there, and a source that has gone fails either.
Move(s, d) == IF CanMove(s, d) THEN Replace(s, d) ELSE {[ok |-> FALSE, from |-> s, to |-> d]}

Backup == backups[op.id]
SetBackup(content, meta) ==
    backups' = [backups EXCEPT ![op.id] = [entry |-> Entry, content |-> content, meta |-> meta]]
SetActive(content) == active' = [active EXCEPT ![Entry] = content]

At(s) == Running /\ op.step = s /\ UNCHANGED current
Step(s) == At(s) /\ UNCHANGED overwritten

\* Another program wrote the entry since the operation, or the listing it acts on, looked at it.
Raced == op.touched \/ (~Enabling /\ op.before # op.item.content)

\* What is active now is written over or deleted, and of it only kept is in the backup.
Overwrites(kept) ==
    overwritten' = IF Raced /\ active[Entry] \notin {Absent, kept}
                   THEN overwritten \cup {Entry} ELSE overwritten

-----------------------------------------------------------------------------
(* The user chooses a listed item and confirms.  A backup gets a fresh identifier. *)

Start(item, step, i) ==
    /\ ~Running
    /\ item \in listed
    /\ op' = [step |-> step, item |-> item, id |-> i, touched |-> FALSE,
              before |-> active[item.entry], kept |-> Published(item.entry)]
    /\ outcome' = "none"
    /\ UNCHANGED <<active, backups, listed, current, excused, overwritten>>

Disable ==
    \E item \in listed, i \in Ids :
        /\ item.id = None
        /\ backups[i].meta = "unused" /\ backups[i].entry = None
        /\ Start(item, IF item.entry \in Registry THEN "create" ELSE "pending", i)

Enable ==
    \E item \in listed :
        /\ item.id # None
        /\ Start(item, IF item.entry \in Registry THEN "check" ELSE "open", item.id)

Refresh ==
    /\ ~Running
    /\ listed' = Listing
    /\ UNCHANGED <<active, backups, op, outcome, current, excused, overwritten>>

-----------------------------------------------------------------------------
(* disable_registry_item: create_disabled_registry_backup, then DeleteValue. *)

CreateBackup ==
    /\ Step("create")
    /\ UNCHANGED <<active, excused>>
    /\ \/ UNCHANGED backups /\ End("error")
       \/ SetBackup(Absent, "partial") /\ Goto("fill")

FillBackup ==
    /\ Step("fill")
    /\ UNCHANGED <<active, excused>>
    /\ \/ SetBackup(op.item.content, "published") /\ Goto("delete")
       \/ UNCHANGED backups /\ Goto("unbackup")

\* Mutant: the failure of the deletion leaves the backup.
DeleteValue_KeepsBackup ==
    /\ At("delete")
    /\ UNCHANGED <<backups, excused>>
    /\ \/ active[Entry] # Absent /\ SetActive(Absent) /\ Overwrites(Backup.content) /\ End("success")
       \/ UNCHANGED <<active, overwritten>> /\ End("error")

DeleteValue ==
    /\ At("delete")
    /\ UNCHANGED <<backups, excused>>
    /\ \/ active[Entry] # Absent /\ SetActive(Absent) /\ Overwrites(Backup.content) /\ End("success")
       \/ UNCHANGED <<active, overwritten>> /\ Goto("unbackup")

DeleteBackup ==
    /\ Step("unbackup")
    /\ UNCHANGED <<active, excused>>
    /\ \/ SetBackup(Absent, "none") /\ End("error")
       \/ UNCHANGED backups /\ End("transaction")

-----------------------------------------------------------------------------
(* disable_folder_item: pending metadata, move, publish the metadata. *)

WritePending ==
    /\ Step("pending")
    /\ UNCHANGED <<active, excused>>
    /\ \/ active[Entry] # Absent /\ SetBackup(Absent, "pending") /\ Goto("move")
       \/ UNCHANGED backups /\ End("error")
       \/ active[Entry] # Absent /\ SetBackup(Absent, "pending") /\ End("error")

MoveAway ==
    /\ Step("move")
    /\ UNCHANGED excused
    /\ \E m \in Move(active[Entry], Absent) :
        /\ SetActive(m.from)
        /\ SetBackup(m.to, "pending")
        /\ Goto(IF m.ok THEN "publish"
                ELSE IF m.to # Absent /\ m.from = Absent THEN "checkMoveBack" ELSE "cleanup")

\* Mutant: a metadata file that cannot be published is cleaned up at once.
Publish_Cleans ==
    /\ Step("publish")
    /\ UNCHANGED <<active, excused>>
    /\ \/ SetBackup(Backup.content, "published") /\ End("success")
       \/ UNCHANGED backups /\ Goto("cleanup")

Publish ==
    /\ Step("publish")
    /\ UNCHANGED <<active, excused>>
    /\ \/ SetBackup(Backup.content, "published") /\ End("success")
       \/ UNCHANGED backups /\ Goto("checkMoveBack")

CheckMoveBack ==
    /\ Step("checkMoveBack")
    /\ UNCHANGED <<active, backups, excused>>
    /\ Goto(IF CanMove(Backup.content, active[Entry]) THEN "moveBack" ELSE "preserve")

MoveBack ==
    /\ At("moveBack")
    /\ UNCHANGED excused
    /\ \E m \in Replace(Backup.content, active[Entry]) :
        /\ SetActive(m.to)
        /\ Overwrites(m.to)
        /\ SetBackup(m.from, "pending")
        /\ Goto(IF m.ok THEN "cleanup" ELSE "preserve")

\* _preserve_disabled_folder_metadata; both errors are reported.
Preserve ==
    /\ Step("preserve")
    /\ UNCHANGED active
    /\ \/ SetBackup(Backup.content, "published") /\ UNCHANGED excused
       \/ UNCHANGED backups /\ excused' = excused \cup {Entry}
    /\ End("transaction")

Cleanup ==
    /\ Step("cleanup")
    /\ UNCHANGED <<active, excused>>
    /\ \/ SetBackup(Backup.content, "none")
       \/ UNCHANGED backups
    /\ End("error")

-----------------------------------------------------------------------------
(* enable_registry_item: never over a value, the backup goes last. *)

CheckValue ==
    /\ Step("check")
    /\ UNCHANGED <<active, backups, excused>>
    /\ \/ active[Entry] = Absent /\ Goto("write")
       \/ End("error")

WriteValue ==
    /\ At("write")
    /\ UNCHANGED <<backups, excused>>
    /\ \/ SetActive(op.item.content) /\ Overwrites(Backup.content) /\ Goto("unback")
       \/ UNCHANGED <<active, overwritten>> /\ End("error")

RemoveBackup ==
    /\ Step("unback")
    /\ UNCHANGED <<active, excused>>
    /\ \/ Backup.meta = "published" /\ SetBackup(Absent, "none") /\ End("success")
       \/ UNCHANGED backups /\ Goto("unwrite")

UnwriteValue ==
    /\ At("unwrite")
    /\ UNCHANGED <<backups, excused>>
    /\ \/ active[Entry] # Absent /\ SetActive(Absent) /\ Overwrites(Backup.content) /\ End("error")
       \/ UNCHANGED <<active, overwritten>> /\ End("transaction")

-----------------------------------------------------------------------------
(* enable_folder_item: the file goes back, then its metadata is removed. *)

OpenBackup ==
    /\ Step("open")
    /\ UNCHANGED <<active, backups, excused>>
    /\ \/ /\ Backup.content # Absent /\ Backup.meta = "published"
          /\ active[Entry] = Absent
          /\ Goto("checkRestore")
       \/ End("error")

CheckRestore ==
    /\ Step("checkRestore")
    /\ UNCHANGED <<active, backups, excused>>
    /\ IF CanMove(Backup.content, active[Entry]) THEN Goto("restore") ELSE End("error")

Restore ==
    /\ At("restore")
    /\ UNCHANGED excused
    /\ \E m \in Replace(Backup.content, active[Entry]) :
        /\ SetActive(m.to)
        /\ Overwrites(m.to)
        /\ SetBackup(m.from, "published")
        /\ IF m.ok THEN Goto("unmeta") ELSE End("error")

RemoveMetadata ==
    /\ Step("unmeta")
    /\ UNCHANGED <<active, excused>>
    /\ \/ SetBackup(Backup.content, "none") /\ End("success")
       \/ UNCHANGED backups /\ Goto("takeBack")

TakeBack ==
    /\ Step("takeBack")
    /\ UNCHANGED excused
    /\ \E m \in Move(active[Entry], Backup.content) :
        /\ SetActive(m.from)
        /\ SetBackup(m.to, "published")
        /\ End(IF m.ok THEN "error" ELSE "transaction")

-----------------------------------------------------------------------------
(* The environment: the process dies, and programs register themselves. *)

\* The next window lists what it finds.
Crash ==
    /\ Running
    /\ op' = Idle
    /\ outcome' = "crash"
    /\ listed' = Listing
    /\ excused' = IF op.step \in {"publish", "checkMoveBack", "moveBack", "preserve"}
                  THEN excused \cup {Entry} ELSE excused
    /\ UNCHANGED <<active, backups, current, overwritten>>

Touch(e) == IF Running THEN op' = [op EXCEPT !.touched = @ \/ Entry = e] ELSE UNCHANGED op

Register(e, v) ==
    /\ e \in Updated /\ v # current[e]
    /\ active' = [active EXCEPT ![e] = v]
    /\ current' = [current EXCEPT ![e] = v]
    /\ overwritten' = overwritten \ {e}
    /\ Touch(e)
    /\ UNCHANGED <<backups, listed, outcome, excused>>

Unregister(e) ==
    /\ e \in Updated /\ active[e] # Absent
    /\ active' = [active EXCEPT ![e] = Absent]
    /\ current' = [current EXCEPT ![e] = Absent]
    /\ overwritten' = overwritten \ {e}
    /\ Touch(e)
    /\ UNCHANGED <<backups, listed, outcome, excused>>

Others ==
    \/ Crash
    \/ \E e \in Entries : Unregister(e) \/ \E v \in Versions : Register(e, v)

Call ==
    \/ CreateBackup \/ FillBackup \/ DeleteValue \/ DeleteBackup
    \/ WritePending \/ MoveAway \/ Publish \/ CheckMoveBack \/ MoveBack \/ Preserve \/ Cleanup
    \/ CheckValue \/ WriteValue \/ RemoveBackup \/ UnwriteValue
    \/ OpenBackup \/ CheckRestore \/ Restore \/ RemoveMetadata \/ TakeBack

Next == Disable \/ Enable \/ Refresh \/ Call \/ Others

Spec == Init /\ [][Next]_vars

-----------------------------------------------------------------------------
(* Correctness. *)

\* What a program last registered is active or in some backup: neither a failing
\* call, nor a failing rollback, nor a crash, nor a copy between volumes that
\* stops half-way destroys it.  It is gone only if it came between a look at the
\* entry and the call that relied on that look: between the listing and the
\* deletion of a value, or between an existence check and the write after it.
NothingDestroyed ==
    \A e \in Entries \ overwritten : current[e] # Absent =>
        \/ active[e] = current[e]
        \/ \E i \in Ids : backups[i].entry = e /\ backups[i].content = current[e]

\* Outside an operation on it, that backup is one the window lists, so that the
\* user can enable it again (disable_*_item keep recoverable state first).  The
\* excused entries are those whose loss of metadata was reported, or interrupted.
RecoverableBut(lost) ==
    \A e \in Entries \ (excused \cup OtherVolume \cup lost) :
        /\ current[e] # Absent
        /\ ~(Running /\ Entry = e)
        => \/ active[e] = current[e]
           \/ \E i \in Published(e) : backups[i].content = current[e]
Recoverable == RecoverableBut(overwritten)

\* docs/security.md:121 says so of every supported change, whoever else writes.
AlwaysRecoverable == RecoverableBut({})

\* An operation that reports success has moved the entry between the active ones
\* and the backups, one that reports an ordinary error has left both as they were
\* (the rollbacks of service.py:491-502, 596-615 and 636-646).
AllOrNothingStep ==
    \A e \in Entries \ OtherVolume :
        Running /\ Entry = e /\ op' = Idle /\ ~op.touched
        => LET shown == Published(e)' IN
           CASE outcome' = "success" /\ Enabling ->
                     active'[e] # Absent /\ op.before = Absent /\ shown = op.kept \ {op.id}
             [] outcome' = "success" /\ ~Enabling ->
                     active'[e] = Absent /\ shown = op.kept \cup {op.id}
             [] outcome' = "error" -> active'[e] = op.before /\ shown = op.kept
             [] OTHER -> TRUE
AllOrNothing == [][AllOrNothingStep]_vars
=============================================================================
