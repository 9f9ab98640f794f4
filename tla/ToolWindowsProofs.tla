-------------------------- MODULE ToolWindowsProofs --------------------------
(***************************************************************************)
(* What the windows of the tools promise, for every set of entries, files,      *)
(* processes, events, connections, scans, archives and outputs.                  *)
(*                                                                         *)
(* One window is open at a time.  Here are the startup manager and the windows    *)
(* that look at the machine and the network, each with an invariant of its own,     *)
(* StartupInv to AnalysisInv; the others are in FileWindowsProofs.  IInv is the       *)
(* invariant of the open window.                                                      *)
(***************************************************************************)
EXTENDS FileWindowsProofs

-----------------------------------------------------------------------------
(* The startup manager: no entry is lost, for every set of entries, versions and backups.          *)
(*                                                                                               *)
(* The argument follows the calls of one operation.  OpInv says, for the call that comes next,     *)
(* what the operation's own backup holds; AgreeInv says what is active meanwhile, unless another   *)
(* program changed it; ListInv ties the list of the window to the disk.  Every backup that is not   *)
(* the operation's is either published or empty (ShownInv), which is why nothing has to be           *)
(* searched for.                                                                                     *)
DisableSteps == {"create", "fill", "delete", "unbackup",
                 "pending", "move", "publish", "checkMoveBack", "moveBack", "preserve", "cleanup"}
RegistrySteps == {"create", "fill", "delete", "unbackup", "check", "write", "unback", "unwrite"}

\* A list, once made, names published backups; the value of a registry entry is that
\* of its backup.
ListInv ==
    \A item \in listed :
        /\ item.id # None =>
              /\ backups[item.id].entry = item.entry
              /\ backups[item.id].meta = "published"
              /\ item.entry \in Registry => backups[item.id].content = item.content
        /\ item.entry \in Registry => item.content # Absent

\* A published backup belongs to an entry, and one of a Run key has a value.
BackupInv ==
    \A i \in Ids : backups[i].meta = "published" =>
        /\ backups[i].entry \in Entries
        /\ backups[i].entry \in Registry => backups[i].content # Absent

\* What the operation's own backup holds at each call.
OwnBackup(s, b) ==
    /\ s \in {"create", "pending"} => b.entry = None /\ b.meta = "unused"
    /\ s \notin {"create", "pending"} => b.entry = Startup!Entry
    /\ s = "fill" => b.meta = "partial" /\ b.content = Absent
    /\ s \in {"delete", "check", "write", "unback", "unwrite"} =>
          b.meta = "published" /\ b.content = op.item.content
    /\ s = "unbackup" =>
          \/ b.meta = "partial" /\ b.content = Absent
          \/ b.meta = "published" /\ b.content = op.item.content
    /\ s = "move" => b.meta = "pending" /\ b.content = Absent
    /\ s \in {"publish", "checkMoveBack", "moveBack", "preserve"} => b.meta = "pending"
    /\ s = "cleanup" => b.meta = "pending" /\ (Startup!Entry \notin OtherVolume => b.content = Absent)
    /\ s \in {"open", "checkRestore", "restore", "unmeta", "takeBack"} => b.meta = "published"
    /\ s \in {"moveBack", "restore"} => b.content # Absent
    /\ s \in {"unmeta", "takeBack"} => b.content = Absent

\* A Run value that was restored is there, or what its program has made of it since; and whatever
\* was absent still is, if nobody wrote it.
OwnValue(s, a) ==
    /\ s \in {"unback", "unwrite"} =>
          IF op.touched = TRUE THEN a \in {op.item.content, current[Startup!Entry]} ELSE a = op.item.content
    /\ s \in {"write", "moveBack", "restore"} /\ op.touched # TRUE => a = Absent

\* The calls of disabling and enabling, of Run keys and folders, are apart.
Family(s) ==
    /\ Startup!Enabling <=> s \notin DisableSteps
    /\ Startup!Entry \in Registry <=> s \in RegistrySteps

\* What was not listed when the operation started is not listed before it ends.
Unlisted(s) == s \in DisableSteps => \A item \in listed : item.id # op.id

OpInv ==
    Startup!Running =>
        /\ Family(op.step)
        /\ Startup!Enabling => op.item.id = op.id
        /\ Startup!Entry \in Registry => op.item.content # Absent
        /\ OwnBackup(op.step, Startup!Backup)
        /\ OwnValue(op.step, active[Startup!Entry])
        /\ Unlisted(op.step)

\* The published backups of the entry are those of the start, but for the operation's own.
KeptInv ==
    Startup!Running =>
        /\ \A i \in Ids \ {op.id} : i \in op.kept <=> i \in Startup!Published(Startup!Entry)
        /\ op.id \in op.kept <=> Startup!Enabling

\* What is active at each call, when no other program intervenes.
Agrees(s, a, b) ==
    /\ s \in {"create", "fill", "delete", "unbackup", "pending", "move", "cleanup", "check", "open"} =>
          a = op.before
    /\ s \in {"write", "checkRestore", "restore"} => a = Absent /\ op.before = Absent
    /\ s \in {"unback", "unwrite", "unmeta", "takeBack"} => a # Absent /\ op.before = Absent
    /\ s \in {"publish", "checkMoveBack", "moveBack"} => a = Absent /\ b.content = op.before

Undisturbed == op.touched # TRUE /\ Startup!Entry \notin OtherVolume

AgreeInv == Startup!Running /\ Undisturbed => Agrees(op.step, active[Startup!Entry], Startup!Backup)

\* A backup the window does not show is empty, unless it belongs to the operation in progress.
ShownInv ==
    \A e \in Entries \ (excused \cup OtherVolume), i \in Ids :
        backups[i].entry = e /\ backups[i].content # Absent /\ backups[i].meta # "published" =>
            Startup!Running /\ op.id = i /\ op.step \in {"publish", "checkMoveBack", "moveBack", "preserve"}

EntriesInv == Startup!TypeOK /\ ListInv /\ BackupInv /\ OpInv /\ KeptInv /\ AgreeInv /\ ShownInv

-----------------------------------------------------------------------------
(* What one call does, and what it must leave behind. *)

BackupRow == [entry : Entries \cup {None}, content : Startup!Content, meta : Startup!Metadata]
BackupOf(c, meta) == [entry |-> Startup!Entry, content |-> c, meta |-> meta]

\* The call leaves a active and b in the operation's backup.
Changes(a, b) ==
    /\ active' = [active EXCEPT ![Startup!Entry] = a]
    /\ backups' = [backups EXCEPT ![op.id] = b]
    /\ current' = current
    /\ overwritten \subseteq overwritten' /\ overwritten' \subseteq overwritten \cup {Startup!Entry}

Continues(a, b, s) ==
    /\ Changes(a, b)
    /\ op' = [op EXCEPT !.step = s]
    /\ listed' = listed /\ outcome' = outcome /\ excused' = excused

Ends(a, b, how) ==
    /\ Changes(a, b)
    /\ op' = Startup!Idle /\ outcome' = how
    /\ listed' = IF how = "success" THEN Startup!Listing' ELSE listed

\* The call s finds what it needs.
Ready(s, a, b) ==
    /\ Family(s) /\ OwnBackup(s, b)
    /\ OwnValue(s, a) /\ Unlisted(s)
    /\ Undisturbed => Agrees(s, a, b)

\* The latest version is not lost from both places, unless the call wrote over it.  The removal of a
\* backup whose value could not be deleted takes only a copy with it (Elsewhere).
Keeps(a, b) ==
    op.step # "unbackup" /\ Startup!Entry \notin overwritten' =>
        \A c \in Versions :
            /\ c = current[Startup!Entry]
            /\ active[Startup!Entry] = c \/ (Startup!Backup.entry = Startup!Entry /\ Startup!Backup.content = c)
            => a = c \/ (b.entry = Startup!Entry /\ b.content = c)

\* A published backup has an owner and, if it is a Run key's, a value.
Whole(b) == b.meta = "published" => b.entry = Startup!Entry /\ (Startup!Entry \in Registry => b.content # Absent)

\* The list that the window still shows stays true.
StaysListed(b) ==
    Startup!Enabling => b.meta = "published" /\ (Startup!Entry \in Registry => b.content = Startup!Backup.content)

\* The operation's backup is shown, or empty, or its entry excused.
Settled(b, who) ==
    Startup!Entry \notin who \cup OtherVolume /\ b.entry = Startup!Entry => b.content = Absent \/ b.meta = "published"

\* What is reported is what happened.
Tells(a, b, how) ==
    Undisturbed =>
        /\ how = "success" /\ Startup!Enabling => a # Absent /\ op.before = Absent /\ b.meta # "published"
        /\ how = "success" /\ ~Startup!Enabling => a = Absent /\ b.meta = "published"
        /\ how = "error" => a = op.before /\ (b.meta = "published" <=> Startup!Enabling)

\* One call of the operation, seen from the disk.
Effect(a, b) ==
    /\ Startup!Running /\ a \in Startup!Content /\ b \in BackupRow /\ Keeps(a, b) /\ Whole(b) /\ (b = Startup!Backup \/ b.entry = Startup!Entry)
    /\ \/ \E s \in Startup!Steps : Continues(a, b, s) /\ Ready(s, a, b) /\ StaysListed(b)
       \/ \E how \in Startup!Outcomes :
             /\ Ends(a, b, how) /\ Settled(b, excused') /\ Tells(a, b, how)
             /\ how # "success" => StaysListed(b)
             /\ excused \subseteq excused' /\ excused' \subseteq excused \cup {Startup!Entry}

Effective == \E a \in Startup!Content, b \in BackupRow : Effect(a, b)

\* What holds before a call.
LEMMA BeforeCall ==
    ASSUME Startup!StartupConstants, EntriesInv, Startup!Running
    PROVE  /\ op \in Startup!Operation /\ Startup!Entry \in Entries /\ op.id \in Ids /\ op.step \in Startup!Steps
           /\ op.item.content \in Startup!Content /\ op.before \in Startup!Content
           /\ active[Startup!Entry] \in Startup!Content /\ Startup!Backup \in BackupRow
           /\ active = [active EXCEPT ![Startup!Entry] = active[Startup!Entry]]
           /\ backups = [backups EXCEPT ![op.id] = Startup!Backup]
           /\ Ready(op.step, active[Startup!Entry], Startup!Backup)
           /\ Startup!Entry \in Registry => op.item.content # Absent
           /\ Startup!Enabling => op.item.id = op.id
<1>1. op \in Startup!Operation
  BY DEF EntriesInv, Startup!TypeOK, Startup!Running, Startup!Idle, Startup!Operation
<1>2. Startup!Entry \in Entries /\ op.id \in Ids /\ op.step \in Startup!Steps /\ op.item.content \in Startup!Content /\ op.before \in Startup!Content
  BY <1>1 DEF Startup!Operation, Startup!Item, Startup!Entry
<1>3. active \in [Entries -> Startup!Content] /\ backups \in [Ids -> BackupRow]
  BY DEF EntriesInv, Startup!TypeOK, BackupRow
<1>4. active = [active EXCEPT ![Startup!Entry] = active[Startup!Entry]] /\ backups = [backups EXCEPT ![op.id] = Startup!Backup]
  BY <1>2, <1>3 DEF Startup!Backup
<1>5. Ready(op.step, active[Startup!Entry], Startup!Backup)
  BY DEF EntriesInv, OpInv, AgreeInv, Ready
<1>6. Startup!Entry \in Registry => op.item.content # Absent
  BY DEF EntriesInv, OpInv
<1>7. Startup!Enabling => op.item.id = op.id
  BY DEF EntriesInv, OpInv
<1>8. active[Startup!Entry] \in Startup!Content /\ Startup!Backup \in BackupRow
  BY <1>2, <1>3 DEF Startup!Backup
<1> QED
  BY <1>1, <1>2, <1>4, <1>5, <1>6, <1>7, <1>8

LEMMA Continuing ==
    ASSUME NEW a \in Startup!Content, NEW b \in BackupRow, NEW s \in Startup!Steps,
           Startup!Running, b = Startup!Backup \/ b.entry = Startup!Entry,
           Continues(a, b, s), Ready(s, a, b), Keeps(a, b), Whole(b), StaysListed(b)
    PROVE  Effective
BY DEF Effective, Effect

LEMMA Ending ==
    ASSUME NEW a \in Startup!Content, NEW b \in BackupRow, NEW how \in Startup!Outcomes,
           Startup!Running, b = Startup!Backup \/ b.entry = Startup!Entry,
           Ends(a, b, how), Keeps(a, b), Whole(b), how # "success" => StaysListed(b),
           Settled(b, excused'), Tells(a, b, how),
           excused \subseteq excused', excused' \subseteq excused \cup {Startup!Entry}
    PROVE  Effective
BY DEF Effective, Effect

\* What a call writes over is in the backup, unless another program wrote it after the look.
LEMMA OnlyRacesOverwrite ==
    ASSUME Startup!StartupConstants, EntriesInv, Startup!Running, NEW k, Startup!Overwrites(k),
           \/ op.step \in {"moveBack", "restore"}
           \/ op.step \in {"delete", "write", "unwrite"} /\ k = Startup!Backup.content
    PROVE  active[Startup!Entry] \in {Absent, k} \/ Startup!Entry \in overwritten'
<1>1. CASE Startup!Raced
  BY <1>1 DEF Startup!Overwrites
<1>2. CASE ~Startup!Raced
  <2>1. op.touched # TRUE /\ (~Startup!Enabling => op.before = op.item.content)
    BY <1>2, Zenon DEF Startup!Raced
  <2>2. CASE op.step \in {"write", "moveBack", "restore"}
    BY <2>1, <2>2, BeforeCall DEF Ready, OwnValue
  <2>3. CASE op.step = "unwrite"
    BY <2>1, <2>3, BeforeCall DEF Ready, OwnValue, OwnBackup
  <2>4. CASE op.step = "delete"
    <3>1. ~Startup!Enabling /\ Startup!Entry \in Registry
      BY <2>4, BeforeCall DEF Ready, Family, DisableSteps, RegistrySteps
    <3>2. Undisturbed
      BY <2>1, <3>1 DEF Undisturbed, Startup!StartupConstants
    <3>3. active[Startup!Entry] = op.before /\ Startup!Backup.content = op.item.content
      BY <2>4, <3>2, BeforeCall DEF Ready, Agrees, OwnBackup
    <3> QED
      BY <2>1, <2>4, <3>1, <3>3
  <2> QED
    BY <2>2, <2>3, <2>4
<1> QED
  BY <1>1, <1>2

LEMMA CreateBackupEffect ==
    ASSUME Startup!StartupConstants, EntriesInv, Startup!CreateBackup
    PROVE  Effective
<1>1. Startup!Running /\ op.step = "create"
  BY DEF Startup!CreateBackup, Startup!Step, Startup!At
<1>2. CASE UNCHANGED backups /\ Startup!End("error")
  <2>1. Ends(active[Startup!Entry], Startup!Backup, "error") /\ excused' = excused
    BY <1>1, <1>2, BeforeCall DEF Startup!CreateBackup, Startup!Step, Startup!At, Startup!Overwrites, Startup!End, Startup!Goto, Startup!SetBackup, Startup!SetActive, Changes, BackupOf, Ends
  <2>2. active[Startup!Entry] \in Startup!Content /\ Startup!Backup \in BackupRow
    BY <1>1, BeforeCall DEF BackupRow, BackupOf, Startup!Content, Startup!Metadata
  <2>3. Keeps(active[Startup!Entry], Startup!Backup)
    BY <1>1, <1>2, BeforeCall DEF Keeps
  <2>4. Whole(Startup!Backup) /\ StaysListed(Startup!Backup)
    BY <1>1, <1>2, BeforeCall DEF Ready, Family, OwnBackup, DisableSteps, Whole, StaysListed
  <2>5. Settled(Startup!Backup, excused')
    BY <1>1, <1>2, BeforeCall DEF Ready, OwnBackup, Startup!StartupConstants, Settled
  <2>6. Tells(active[Startup!Entry], Startup!Backup, "error")
    BY <1>1, <1>2, BeforeCall DEF Ready, Family, OwnBackup, Agrees, DisableSteps, Tells
  <2> QED
    BY <1>1, <2>1, <2>2, <2>3, <2>4, <2>5, <2>6, Ending DEF Startup!Outcomes, BackupOf
<1>3. CASE Startup!SetBackup(Absent, "partial") /\ Startup!Goto("fill")
  <2>1. Continues(active[Startup!Entry], BackupOf(Absent, "partial"), "fill")
    BY <1>1, <1>3, BeforeCall
       DEF Startup!CreateBackup, Startup!Step, Startup!At, Startup!Overwrites, Startup!End, Startup!Goto, Startup!SetBackup, Startup!SetActive, Changes, BackupOf, Continues
  <2>2. active[Startup!Entry] \in Startup!Content /\ BackupOf(Absent, "partial") \in BackupRow
    BY <1>1, BeforeCall DEF BackupRow, BackupOf, Startup!Content, Startup!Metadata
  <2>3. Keeps(active[Startup!Entry], BackupOf(Absent, "partial"))
    BY <1>1, <1>3, BeforeCall DEF Ready, OwnBackup, Startup!StartupConstants, Keeps
  <2>4. Whole(BackupOf(Absent, "partial")) /\ StaysListed(BackupOf(Absent, "partial"))
    BY <1>1, <1>3, BeforeCall DEF Ready, Family, DisableSteps, Whole, StaysListed, BackupOf
  <2>5. Ready("fill", active[Startup!Entry], BackupOf(Absent, "partial"))
    BY <1>1, <1>3, BeforeCall
       DEF Ready, Family, OwnBackup, OwnValue, Unlisted, Agrees, DisableSteps, RegistrySteps, BackupOf
  <2> QED
    BY <1>1, <2>1, <2>2, <2>3, <2>4, <2>5, Continuing DEF Startup!Steps, BackupOf
<1> QED
  BY <1>1, <1>2, <1>3 DEF Startup!CreateBackup

LEMMA FillBackupEffect ==
    ASSUME Startup!StartupConstants, EntriesInv, Startup!FillBackup
    PROVE  Effective
<1>1. Startup!Running /\ op.step = "fill"
  BY DEF Startup!FillBackup, Startup!Step, Startup!At
<1>2. CASE Startup!SetBackup(op.item.content, "published") /\ Startup!Goto("delete")
  <2>1. Continues(active[Startup!Entry], BackupOf(op.item.content, "published"), "delete")
    BY <1>1, <1>2, BeforeCall
       DEF Startup!FillBackup, Startup!Step, Startup!At, Startup!Overwrites, Startup!End, Startup!Goto, Startup!SetBackup, Startup!SetActive, Changes, BackupOf, Continues
  <2>2. active[Startup!Entry] \in Startup!Content /\ BackupOf(op.item.content, "published") \in BackupRow
    BY <1>1, BeforeCall DEF BackupRow, BackupOf, Startup!Content, Startup!Metadata
  <2>3. Keeps(active[Startup!Entry], BackupOf(op.item.content, "published"))
    BY <1>1, <1>2, BeforeCall DEF Ready, OwnBackup, Startup!StartupConstants, Keeps
  <2>4. Whole(BackupOf(op.item.content, "published")) /\ StaysListed(BackupOf(op.item.content, "published"))
    BY <1>1, <1>2, BeforeCall DEF Ready, Family, DisableSteps, Whole, StaysListed, BackupOf
  <2>5. Ready("delete", active[Startup!Entry], BackupOf(op.item.content, "published"))
    BY <1>1, <1>2, BeforeCall
       DEF Ready, Family, OwnBackup, OwnValue, Unlisted, Agrees, DisableSteps, RegistrySteps, BackupOf
  <2> QED
    BY <1>1, <2>1, <2>2, <2>3, <2>4, <2>5, Continuing DEF Startup!Steps, BackupOf
<1>3. CASE UNCHANGED backups /\ Startup!Goto("unbackup")
  <2>1. Continues(active[Startup!Entry], Startup!Backup, "unbackup")
    BY <1>1, <1>3, BeforeCall
       DEF Startup!FillBackup, Startup!Step, Startup!At, Startup!Overwrites, Startup!End, Startup!Goto, Startup!SetBackup, Startup!SetActive, Changes, BackupOf, Continues
  <2>2. active[Startup!Entry] \in Startup!Content /\ Startup!Backup \in BackupRow
    BY <1>1, BeforeCall DEF BackupRow, BackupOf, Startup!Content, Startup!Metadata
  <2>3. Keeps(active[Startup!Entry], Startup!Backup)
    BY <1>1, <1>3, BeforeCall DEF Keeps
  <2>4. Whole(Startup!Backup) /\ StaysListed(Startup!Backup)
    BY <1>1, <1>3, BeforeCall DEF Ready, Family, OwnBackup, DisableSteps, Whole, StaysListed
  <2>5. Ready("unbackup", active[Startup!Entry], Startup!Backup)
    BY <1>1, <1>3, BeforeCall
       DEF Ready, Family, OwnBackup, OwnValue, Unlisted, Agrees, DisableSteps, RegistrySteps
  <2> QED
    BY <1>1, <2>1, <2>2, <2>3, <2>4, <2>5, Continuing DEF Startup!Steps, BackupOf
<1> QED
  BY <1>1, <1>2, <1>3 DEF Startup!FillBackup

LEMMA DeleteValueEffect ==
    ASSUME Startup!StartupConstants, EntriesInv, Startup!DeleteValue
    PROVE  Effective
<1>1. Startup!Running /\ op.step = "delete"
  BY DEF Startup!DeleteValue, Startup!Step, Startup!At
<1>2. CASE active[Startup!Entry] # Absent /\ Startup!SetActive(Absent) /\ Startup!Overwrites(Startup!Backup.content) /\ Startup!End("success")
  <2>1. Ends(Absent, Startup!Backup, "success") /\ excused' = excused
    BY <1>1, <1>2, BeforeCall DEF Startup!DeleteValue, Startup!Step, Startup!At, Startup!Overwrites, Startup!End, Startup!Goto, Startup!SetBackup, Startup!SetActive, Changes, BackupOf, Ends
  <2>2. Absent \in Startup!Content /\ Startup!Backup \in BackupRow
    BY <1>1, BeforeCall DEF BackupRow, BackupOf, Startup!Content, Startup!Metadata
  <2>3. Keeps(Absent, Startup!Backup)
    BY <1>1, <1>2, BeforeCall, OnlyRacesOverwrite DEF Ready, OwnBackup, Startup!StartupConstants, Keeps
  <2>4. Whole(Startup!Backup)
    BY <1>1, <1>2, BeforeCall DEF Ready, OwnBackup, Whole
  <2>5. Settled(Startup!Backup, excused')
    BY <1>1, <1>2, BeforeCall DEF Ready, OwnBackup, Settled
  <2>6. Tells(Absent, Startup!Backup, "success")
    BY <1>1, <1>2, BeforeCall DEF Ready, Family, OwnBackup, DisableSteps, Tells
  <2> QED
    BY <1>1, <2>1, <2>2, <2>3, <2>4, <2>5, <2>6, Ending DEF Startup!Outcomes, BackupOf
<1>3. CASE UNCHANGED <<active, overwritten>> /\ Startup!Goto("unbackup")
  <2>1. Continues(active[Startup!Entry], Startup!Backup, "unbackup")
    BY <1>1, <1>3, BeforeCall
       DEF Startup!DeleteValue, Startup!Step, Startup!At, Startup!Overwrites, Startup!End, Startup!Goto, Startup!SetBackup, Startup!SetActive, Changes, BackupOf, Continues
  <2>2. active[Startup!Entry] \in Startup!Content /\ Startup!Backup \in BackupRow
    BY <1>1, BeforeCall DEF BackupRow, BackupOf, Startup!Content, Startup!Metadata
  <2>3. Keeps(active[Startup!Entry], Startup!Backup)
    BY <1>1, <1>3, BeforeCall DEF Keeps
  <2>4. Whole(Startup!Backup) /\ StaysListed(Startup!Backup)
    BY <1>1, <1>3, BeforeCall DEF Ready, OwnBackup, Whole, StaysListed
  <2>5. Ready("unbackup", active[Startup!Entry], Startup!Backup)
    BY <1>1, <1>3, BeforeCall
       DEF Ready, Family, OwnBackup, OwnValue, Unlisted, Agrees, DisableSteps, RegistrySteps
  <2> QED
    BY <1>1, <2>1, <2>2, <2>3, <2>4, <2>5, Continuing DEF Startup!Steps, BackupOf
<1> QED
  BY <1>1, <1>2, <1>3 DEF Startup!DeleteValue

LEMMA DeleteBackupEffect ==
    ASSUME Startup!StartupConstants, EntriesInv, Startup!DeleteBackup
    PROVE  Effective
<1>1. Startup!Running /\ op.step = "unbackup"
  BY DEF Startup!DeleteBackup, Startup!Step, Startup!At
<1>2. CASE Startup!SetBackup(Absent, "none") /\ Startup!End("error")
  <2>1. Ends(active[Startup!Entry], BackupOf(Absent, "none"), "error") /\ excused' = excused
    BY <1>1, <1>2, BeforeCall DEF Startup!DeleteBackup, Startup!Step, Startup!At, Startup!Overwrites, Startup!End, Startup!Goto, Startup!SetBackup, Startup!SetActive, Changes, BackupOf, Ends
  <2>2. active[Startup!Entry] \in Startup!Content /\ BackupOf(Absent, "none") \in BackupRow
    BY <1>1, BeforeCall DEF BackupRow, BackupOf, Startup!Content, Startup!Metadata
  <2>3. Keeps(active[Startup!Entry], BackupOf(Absent, "none"))
    BY <1>1, <1>2, BeforeCall DEF Ready, Family, OwnBackup, OwnValue, RegistrySteps, Startup!StartupConstants, Keeps
  <2>4. Whole(BackupOf(Absent, "none")) /\ StaysListed(BackupOf(Absent, "none"))
    BY <1>1, <1>2, BeforeCall DEF Ready, Family, DisableSteps, Whole, StaysListed, BackupOf
  <2>5. Settled(BackupOf(Absent, "none"), excused')
    BY <1>1, <1>2, BeforeCall DEF Settled, BackupOf
  <2>6. Tells(active[Startup!Entry], BackupOf(Absent, "none"), "error")
    BY <1>1, <1>2, BeforeCall DEF Ready, Family, Agrees, DisableSteps, Tells, BackupOf
  <2> QED
    BY <1>1, <2>1, <2>2, <2>3, <2>4, <2>5, <2>6, Ending DEF Startup!Outcomes, BackupOf
<1>3. CASE UNCHANGED backups /\ Startup!End("transaction")
  <2>1. Ends(active[Startup!Entry], Startup!Backup, "transaction") /\ excused' = excused
    BY <1>1, <1>3, BeforeCall DEF Startup!DeleteBackup, Startup!Step, Startup!At, Startup!Overwrites, Startup!End, Startup!Goto, Startup!SetBackup, Startup!SetActive, Changes, BackupOf, Ends
  <2>2. active[Startup!Entry] \in Startup!Content /\ Startup!Backup \in BackupRow
    BY <1>1, BeforeCall DEF BackupRow, BackupOf, Startup!Content, Startup!Metadata
  <2>3. Keeps(active[Startup!Entry], Startup!Backup)
    BY <1>1, <1>3, BeforeCall DEF Keeps
  <2>4. Whole(Startup!Backup) /\ StaysListed(Startup!Backup)
    BY <1>1, <1>3, BeforeCall DEF Ready, Family, OwnBackup, DisableSteps, Whole, StaysListed
  <2>5. Settled(Startup!Backup, excused')
    BY <1>1, <1>3, BeforeCall DEF Ready, OwnBackup, Settled
  <2>6. Tells(active[Startup!Entry], Startup!Backup, "transaction")
    BY <1>1, <1>3, BeforeCall DEF Tells
  <2> QED
    BY <1>1, <2>1, <2>2, <2>3, <2>4, <2>5, <2>6, Ending DEF Startup!Outcomes, BackupOf
<1> QED
  BY <1>1, <1>2, <1>3 DEF Startup!DeleteBackup

LEMMA WritePendingEffect ==
    ASSUME Startup!StartupConstants, EntriesInv, Startup!WritePending
    PROVE  Effective
<1>1. Startup!Running /\ op.step = "pending"
  BY DEF Startup!WritePending, Startup!Step, Startup!At
<1>2. CASE active[Startup!Entry] # Absent /\ Startup!SetBackup(Absent, "pending") /\ Startup!Goto("move")
  <2>1. Continues(active[Startup!Entry], BackupOf(Absent, "pending"), "move")
    BY <1>1, <1>2, BeforeCall
       DEF Startup!WritePending, Startup!Step, Startup!At, Startup!Overwrites, Startup!End, Startup!Goto, Startup!SetBackup, Startup!SetActive, Changes, BackupOf, Continues
  <2>2. active[Startup!Entry] \in Startup!Content /\ BackupOf(Absent, "pending") \in BackupRow
    BY <1>1, BeforeCall DEF BackupRow, BackupOf, Startup!Content, Startup!Metadata
  <2>3. Keeps(active[Startup!Entry], BackupOf(Absent, "pending"))
    BY <1>1, <1>2, BeforeCall DEF Ready, OwnBackup, Startup!StartupConstants, Keeps
  <2>4. Whole(BackupOf(Absent, "pending")) /\ StaysListed(BackupOf(Absent, "pending"))
    BY <1>1, <1>2, BeforeCall DEF Ready, Family, DisableSteps, Whole, StaysListed, BackupOf
  <2>5. Ready("move", active[Startup!Entry], BackupOf(Absent, "pending"))
    BY <1>1, <1>2, BeforeCall
       DEF Ready, Family, OwnBackup, OwnValue, Unlisted, Agrees, DisableSteps, RegistrySteps, BackupOf
  <2> QED
    BY <1>1, <2>1, <2>2, <2>3, <2>4, <2>5, Continuing DEF Startup!Steps, BackupOf
<1>3. CASE UNCHANGED backups /\ Startup!End("error")
  <2>1. Ends(active[Startup!Entry], Startup!Backup, "error") /\ excused' = excused
    BY <1>1, <1>3, BeforeCall DEF Startup!WritePending, Startup!Step, Startup!At, Startup!Overwrites, Startup!End, Startup!Goto, Startup!SetBackup, Startup!SetActive, Changes, BackupOf, Ends
  <2>2. active[Startup!Entry] \in Startup!Content /\ Startup!Backup \in BackupRow
    BY <1>1, BeforeCall DEF BackupRow, BackupOf, Startup!Content, Startup!Metadata
  <2>3. Keeps(active[Startup!Entry], Startup!Backup)
    BY <1>1, <1>3, BeforeCall DEF Keeps
  <2>4. Whole(Startup!Backup) /\ StaysListed(Startup!Backup)
    BY <1>1, <1>3, BeforeCall DEF Ready, Family, OwnBackup, DisableSteps, Whole, StaysListed
  <2>5. Settled(Startup!Backup, excused')
    BY <1>1, <1>3, BeforeCall DEF Ready, OwnBackup, Startup!StartupConstants, Settled
  <2>6. Tells(active[Startup!Entry], Startup!Backup, "error")
    BY <1>1, <1>3, BeforeCall DEF Ready, Family, OwnBackup, Agrees, DisableSteps, Tells
  <2> QED
    BY <1>1, <2>1, <2>2, <2>3, <2>4, <2>5, <2>6, Ending DEF Startup!Outcomes, BackupOf
<1>4. CASE active[Startup!Entry] # Absent /\ Startup!SetBackup(Absent, "pending") /\ Startup!End("error")
  <2>1. Ends(active[Startup!Entry], BackupOf(Absent, "pending"), "error") /\ excused' = excused
    BY <1>1, <1>4, BeforeCall DEF Startup!WritePending, Startup!Step, Startup!At, Startup!Overwrites, Startup!End, Startup!Goto, Startup!SetBackup, Startup!SetActive, Changes, BackupOf, Ends
  <2>2. active[Startup!Entry] \in Startup!Content /\ BackupOf(Absent, "pending") \in BackupRow
    BY <1>1, BeforeCall DEF BackupRow, BackupOf, Startup!Content, Startup!Metadata
  <2>3. Keeps(active[Startup!Entry], BackupOf(Absent, "pending"))
    BY <1>1, <1>4, BeforeCall DEF Ready, OwnBackup, Startup!StartupConstants, Keeps
  <2>4. Whole(BackupOf(Absent, "pending")) /\ StaysListed(BackupOf(Absent, "pending"))
    BY <1>1, <1>4, BeforeCall DEF Ready, Family, DisableSteps, Whole, StaysListed, BackupOf
  <2>5. Settled(BackupOf(Absent, "pending"), excused')
    BY <1>1, <1>4, BeforeCall DEF Settled, BackupOf
  <2>6. Tells(active[Startup!Entry], BackupOf(Absent, "pending"), "error")
    BY <1>1, <1>4, BeforeCall DEF Ready, Family, Agrees, DisableSteps, Tells, BackupOf
  <2> QED
    BY <1>1, <2>1, <2>2, <2>3, <2>4, <2>5, <2>6, Ending DEF Startup!Outcomes, BackupOf
<1> QED
  BY <1>1, <1>2, <1>3, <1>4 DEF Startup!WritePending

LEMMA PublishEffect ==
    ASSUME Startup!StartupConstants, EntriesInv, Startup!Publish
    PROVE  Effective
<1>1. Startup!Running /\ op.step = "publish"
  BY DEF Startup!Publish, Startup!Step, Startup!At
<1>2. CASE Startup!SetBackup(Startup!Backup.content, "published") /\ Startup!End("success")
  <2>1. Ends(active[Startup!Entry], BackupOf(Startup!Backup.content, "published"), "success") /\ excused' = excused
    BY <1>1, <1>2, BeforeCall DEF Startup!Publish, Startup!Step, Startup!At, Startup!Overwrites, Startup!End, Startup!Goto, Startup!SetBackup, Startup!SetActive, Changes, BackupOf, Ends
  <2>2. active[Startup!Entry] \in Startup!Content /\ BackupOf(Startup!Backup.content, "published") \in BackupRow
    BY <1>1, BeforeCall DEF BackupRow, BackupOf, Startup!Content, Startup!Metadata
  <2>3. Keeps(active[Startup!Entry], BackupOf(Startup!Backup.content, "published"))
    BY <1>1, <1>2, BeforeCall DEF Keeps, BackupOf
  <2>4. Whole(BackupOf(Startup!Backup.content, "published"))
    BY <1>1, <1>2, BeforeCall DEF Ready, Family, RegistrySteps, Whole, BackupOf
  <2>5. Settled(BackupOf(Startup!Backup.content, "published"), excused')
    BY <1>1, <1>2, BeforeCall DEF Settled, BackupOf
  <2>6. Tells(active[Startup!Entry], BackupOf(Startup!Backup.content, "published"), "success")
    BY <1>1, <1>2, BeforeCall DEF Ready, Family, Agrees, DisableSteps, Tells, BackupOf
  <2> QED
    BY <1>1, <2>1, <2>2, <2>3, <2>4, <2>5, <2>6, Ending DEF Startup!Outcomes, BackupOf
<1>3. CASE UNCHANGED backups /\ Startup!Goto("checkMoveBack")
  <2>1. Continues(active[Startup!Entry], Startup!Backup, "checkMoveBack")
    BY <1>1, <1>3, BeforeCall DEF Startup!Publish, Startup!Step, Startup!At, Startup!Overwrites, Startup!End, Startup!Goto, Startup!SetBackup, Startup!SetActive, Changes, BackupOf, Continues
  <2>2. active[Startup!Entry] \in Startup!Content /\ Startup!Backup \in BackupRow
    BY <1>1, BeforeCall DEF BackupRow, BackupOf, Startup!Content, Startup!Metadata
  <2>3. Keeps(active[Startup!Entry], Startup!Backup)
    BY <1>1, <1>3, BeforeCall DEF Keeps
  <2>4. Whole(Startup!Backup) /\ StaysListed(Startup!Backup)
    BY <1>1, <1>3, BeforeCall DEF Ready, Family, OwnBackup, DisableSteps, Whole, StaysListed
  <2>5. Ready("checkMoveBack", active[Startup!Entry], Startup!Backup)
    BY <1>1, <1>3, BeforeCall DEF Ready, Family, OwnBackup, OwnValue, Unlisted, Agrees, DisableSteps, RegistrySteps
  <2> QED
    BY <1>1, <2>1, <2>2, <2>3, <2>4, <2>5, Continuing DEF Startup!Steps, BackupOf
<1> QED
  BY <1>1, <1>2, <1>3 DEF Startup!Publish

LEMMA CleanupEffect ==
    ASSUME Startup!StartupConstants, EntriesInv, Startup!Cleanup
    PROVE  Effective
<1>1. Startup!Running /\ op.step = "cleanup"
  BY DEF Startup!Cleanup, Startup!Step, Startup!At
<1>2. CASE Startup!SetBackup(Startup!Backup.content, "none") /\ Startup!End("error")
  <2>1. Ends(active[Startup!Entry], BackupOf(Startup!Backup.content, "none"), "error") /\ excused' = excused
    BY <1>1, <1>2, BeforeCall DEF Startup!Cleanup, Startup!Step, Startup!At, Startup!Overwrites, Startup!End, Startup!Goto, Startup!SetBackup, Startup!SetActive, Changes, BackupOf, Ends
  <2>2. active[Startup!Entry] \in Startup!Content /\ BackupOf(Startup!Backup.content, "none") \in BackupRow
    BY <1>1, BeforeCall DEF BackupRow, BackupOf, Startup!Content, Startup!Metadata
  <2>3. Keeps(active[Startup!Entry], BackupOf(Startup!Backup.content, "none"))
    BY <1>1, <1>2, BeforeCall DEF Keeps, BackupOf
  <2>4. Whole(BackupOf(Startup!Backup.content, "none")) /\ StaysListed(BackupOf(Startup!Backup.content, "none"))
    BY <1>1, <1>2, BeforeCall DEF Ready, Family, DisableSteps, Whole, StaysListed, BackupOf
  <2>5. Settled(BackupOf(Startup!Backup.content, "none"), excused')
    BY <1>1, <1>2, BeforeCall DEF Ready, OwnBackup, Settled, BackupOf
  <2>6. Tells(active[Startup!Entry], BackupOf(Startup!Backup.content, "none"), "error")
    BY <1>1, <1>2, BeforeCall DEF Ready, Family, Agrees, DisableSteps, Tells, BackupOf
  <2> QED
    BY <1>1, <2>1, <2>2, <2>3, <2>4, <2>5, <2>6, Ending DEF Startup!Outcomes, BackupOf
<1>3. CASE UNCHANGED backups /\ Startup!End("error")
  <2>1. Ends(active[Startup!Entry], Startup!Backup, "error") /\ excused' = excused
    BY <1>1, <1>3, BeforeCall DEF Startup!Cleanup, Startup!Step, Startup!At, Startup!Overwrites, Startup!End, Startup!Goto, Startup!SetBackup, Startup!SetActive, Changes, BackupOf, Ends
  <2>2. active[Startup!Entry] \in Startup!Content /\ Startup!Backup \in BackupRow
    BY <1>1, BeforeCall DEF BackupRow, BackupOf, Startup!Content, Startup!Metadata
  <2>3. Keeps(active[Startup!Entry], Startup!Backup)
    BY <1>1, <1>3, BeforeCall DEF Keeps
  <2>4. Whole(Startup!Backup) /\ StaysListed(Startup!Backup)
    BY <1>1, <1>3, BeforeCall DEF Ready, Family, OwnBackup, DisableSteps, Whole, StaysListed
  <2>5. Settled(Startup!Backup, excused')
    BY <1>1, <1>3, BeforeCall DEF Ready, OwnBackup, Settled
  <2>6. Tells(active[Startup!Entry], Startup!Backup, "error")
    BY <1>1, <1>3, BeforeCall DEF Ready, Family, OwnBackup, Agrees, DisableSteps, Tells
  <2> QED
    BY <1>1, <2>1, <2>2, <2>3, <2>4, <2>5, <2>6, Ending DEF Startup!Outcomes, BackupOf
<1> QED
  BY <1>1, <1>2, <1>3 DEF Startup!Cleanup

LEMMA CheckValueEffect ==
    ASSUME Startup!StartupConstants, EntriesInv, Startup!CheckValue
    PROVE  Effective
<1>1. Startup!Running /\ op.step = "check"
  BY DEF Startup!CheckValue, Startup!Step, Startup!At
<1>2. CASE active[Startup!Entry] = Absent /\ Startup!Goto("write")
  <2>1. Continues(active[Startup!Entry], Startup!Backup, "write")
    BY <1>1, <1>2, BeforeCall
       DEF Startup!CheckValue, Startup!Step, Startup!At, Startup!Overwrites, Startup!End, Startup!Goto, Startup!SetBackup, Startup!SetActive, Changes, BackupOf, Continues
  <2>2. active[Startup!Entry] \in Startup!Content /\ Startup!Backup \in BackupRow
    BY <1>1, BeforeCall DEF BackupRow, BackupOf, Startup!Content, Startup!Metadata
  <2>3. Keeps(active[Startup!Entry], Startup!Backup)
    BY <1>1, <1>2, BeforeCall DEF Keeps
  <2>4. Whole(Startup!Backup) /\ StaysListed(Startup!Backup)
    BY <1>1, <1>2, BeforeCall DEF Ready, OwnBackup, Whole, StaysListed
  <2>5. Ready("write", active[Startup!Entry], Startup!Backup)
    BY <1>1, <1>2, BeforeCall DEF Ready, Family, OwnBackup, OwnValue, Unlisted, Agrees, DisableSteps, RegistrySteps
  <2> QED
    BY <1>1, <2>1, <2>2, <2>3, <2>4, <2>5, Continuing DEF Startup!Steps, BackupOf
<1>3. CASE Startup!End("error")
  <2>1. Ends(active[Startup!Entry], Startup!Backup, "error") /\ excused' = excused
    BY <1>1, <1>3, BeforeCall DEF Startup!CheckValue, Startup!Step, Startup!At, Startup!Overwrites, Startup!End, Startup!Goto, Startup!SetBackup, Startup!SetActive, Changes, BackupOf, Ends
  <2>2. active[Startup!Entry] \in Startup!Content /\ Startup!Backup \in BackupRow
    BY <1>1, BeforeCall DEF BackupRow, BackupOf, Startup!Content, Startup!Metadata
  <2>3. Keeps(active[Startup!Entry], Startup!Backup)
    BY <1>1, <1>3, BeforeCall DEF Keeps
  <2>4. Whole(Startup!Backup) /\ StaysListed(Startup!Backup)
    BY <1>1, <1>3, BeforeCall DEF Ready, OwnBackup, Whole, StaysListed
  <2>5. Settled(Startup!Backup, excused')
    BY <1>1, <1>3, BeforeCall DEF Ready, OwnBackup, Settled
  <2>6. Tells(active[Startup!Entry], Startup!Backup, "error")
    BY <1>1, <1>3, BeforeCall DEF Ready, Family, OwnBackup, Agrees, DisableSteps, Tells
  <2> QED
    BY <1>1, <2>1, <2>2, <2>3, <2>4, <2>5, <2>6, Ending DEF Startup!Outcomes, BackupOf
<1> QED
  BY <1>1, <1>2, <1>3 DEF Startup!CheckValue

LEMMA WriteValueEffect ==
    ASSUME Startup!StartupConstants, EntriesInv, Startup!WriteValue
    PROVE  Effective
<1>1. Startup!Running /\ op.step = "write"
  BY DEF Startup!WriteValue, Startup!Step, Startup!At
<1>2. CASE Startup!SetActive(op.item.content) /\ Startup!Overwrites(Startup!Backup.content) /\ Startup!Goto("unback")
  <2>1. Continues(op.item.content, Startup!Backup, "unback")
    BY <1>1, <1>2, BeforeCall
       DEF Startup!WriteValue, Startup!Step, Startup!At, Startup!Overwrites, Startup!End, Startup!Goto, Startup!SetBackup, Startup!SetActive, Changes, BackupOf, Continues
  <2>2. op.item.content \in Startup!Content /\ Startup!Backup \in BackupRow
    BY <1>1, BeforeCall DEF BackupRow, BackupOf, Startup!Content, Startup!Metadata
  <2>3. Keeps(op.item.content, Startup!Backup)
    BY <1>1, <1>2, BeforeCall, OnlyRacesOverwrite DEF Ready, OwnBackup, Startup!StartupConstants, Keeps
  <2>4. Whole(Startup!Backup) /\ StaysListed(Startup!Backup)
    BY <1>1, <1>2, BeforeCall DEF Ready, OwnBackup, Unlisted, Whole, StaysListed
  <2>5. Ready("unback", op.item.content, Startup!Backup)
    BY <1>1, <1>2, BeforeCall
       DEF Ready, Family, OwnBackup, OwnValue, Unlisted, Agrees, DisableSteps, RegistrySteps
  <2> QED
    BY <1>1, <2>1, <2>2, <2>3, <2>4, <2>5, Continuing DEF Startup!Steps, BackupOf
<1>3. CASE UNCHANGED <<active, overwritten>> /\ Startup!End("error")
  <2>1. Ends(active[Startup!Entry], Startup!Backup, "error") /\ excused' = excused
    BY <1>1, <1>3, BeforeCall DEF Startup!WriteValue, Startup!Step, Startup!At, Startup!Overwrites, Startup!End, Startup!Goto, Startup!SetBackup, Startup!SetActive, Changes, BackupOf, Ends
  <2>2. active[Startup!Entry] \in Startup!Content /\ Startup!Backup \in BackupRow
    BY <1>1, BeforeCall DEF BackupRow, BackupOf, Startup!Content, Startup!Metadata
  <2>3. Keeps(active[Startup!Entry], Startup!Backup)
    BY <1>1, <1>3, BeforeCall DEF Keeps
  <2>4. Whole(Startup!Backup) /\ StaysListed(Startup!Backup)
    BY <1>1, <1>3, BeforeCall DEF Ready, OwnBackup, Whole, StaysListed
  <2>5. Settled(Startup!Backup, excused')
    BY <1>1, <1>3, BeforeCall DEF Ready, OwnBackup, Settled
  <2>6. Tells(active[Startup!Entry], Startup!Backup, "error")
    BY <1>1, <1>3, BeforeCall DEF Ready, Family, OwnBackup, Agrees, DisableSteps, Tells
  <2> QED
    BY <1>1, <2>1, <2>2, <2>3, <2>4, <2>5, <2>6, Ending DEF Startup!Outcomes, BackupOf
<1> QED
  BY <1>1, <1>2, <1>3 DEF Startup!WriteValue

LEMMA RemoveBackupEffect ==
    ASSUME Startup!StartupConstants, EntriesInv, Startup!RemoveBackup
    PROVE  Effective
<1>1. Startup!Running /\ op.step = "unback"
  BY DEF Startup!RemoveBackup, Startup!Step, Startup!At
<1>2. CASE Startup!Backup.meta = "published" /\ Startup!SetBackup(Absent, "none") /\ Startup!End("success")
  <2>1. Ends(active[Startup!Entry], BackupOf(Absent, "none"), "success") /\ excused' = excused
    BY <1>1, <1>2, BeforeCall DEF Startup!RemoveBackup, Startup!Step, Startup!At, Startup!Overwrites, Startup!End, Startup!Goto, Startup!SetBackup, Startup!SetActive, Changes, BackupOf, Ends
  <2>2. active[Startup!Entry] \in Startup!Content /\ BackupOf(Absent, "none") \in BackupRow
    BY <1>1, BeforeCall DEF BackupRow, BackupOf, Startup!Content, Startup!Metadata
  <2>3. Keeps(active[Startup!Entry], BackupOf(Absent, "none"))
    BY <1>1, <1>2, BeforeCall DEF Ready, Family, OwnBackup, OwnValue, RegistrySteps, Keeps
  <2>4. Whole(BackupOf(Absent, "none"))
    BY <1>1, <1>2, BeforeCall DEF Whole, BackupOf
  <2>5. Settled(BackupOf(Absent, "none"), excused')
    BY <1>1, <1>2, BeforeCall DEF Settled, BackupOf
  <2>6. Tells(active[Startup!Entry], BackupOf(Absent, "none"), "success")
    BY <1>1, <1>2, BeforeCall DEF Ready, Family, Agrees, DisableSteps, Tells, BackupOf
  <2> QED
    BY <1>1, <2>1, <2>2, <2>3, <2>4, <2>5, <2>6, Ending DEF Startup!Outcomes, BackupOf
<1>3. CASE UNCHANGED backups /\ Startup!Goto("unwrite")
  <2>1. Continues(active[Startup!Entry], Startup!Backup, "unwrite")
    BY <1>1, <1>3, BeforeCall
       DEF Startup!RemoveBackup, Startup!Step, Startup!At, Startup!Overwrites, Startup!End, Startup!Goto, Startup!SetBackup, Startup!SetActive, Changes, BackupOf, Continues
  <2>2. active[Startup!Entry] \in Startup!Content /\ Startup!Backup \in BackupRow
    BY <1>1, BeforeCall DEF BackupRow, BackupOf, Startup!Content, Startup!Metadata
  <2>3. Keeps(active[Startup!Entry], Startup!Backup)
    BY <1>1, <1>3, BeforeCall DEF Keeps
  <2>4. Whole(Startup!Backup) /\ StaysListed(Startup!Backup)
    BY <1>1, <1>3, BeforeCall DEF Ready, OwnBackup, Whole, StaysListed
  <2>5. Ready("unwrite", active[Startup!Entry], Startup!Backup)
    BY <1>1, <1>3, BeforeCall
       DEF Ready, Family, OwnBackup, OwnValue, Unlisted, Agrees, DisableSteps, RegistrySteps
  <2> QED
    BY <1>1, <2>1, <2>2, <2>3, <2>4, <2>5, Continuing DEF Startup!Steps, BackupOf
<1> QED
  BY <1>1, <1>2, <1>3 DEF Startup!RemoveBackup

LEMMA UnwriteValueEffect ==
    ASSUME Startup!StartupConstants, EntriesInv, Startup!UnwriteValue
    PROVE  Effective
<1>1. Startup!Running /\ op.step = "unwrite"
  BY DEF Startup!UnwriteValue, Startup!Step, Startup!At
<1>2. CASE active[Startup!Entry] # Absent /\ Startup!SetActive(Absent) /\ Startup!Overwrites(Startup!Backup.content) /\ Startup!End("error")
  <2>1. Ends(Absent, Startup!Backup, "error") /\ excused' = excused
    BY <1>1, <1>2, BeforeCall DEF Startup!UnwriteValue, Startup!Step, Startup!At, Startup!Overwrites, Startup!End, Startup!Goto, Startup!SetBackup, Startup!SetActive, Changes, BackupOf, Ends
  <2>2. Absent \in Startup!Content /\ Startup!Backup \in BackupRow
    BY <1>1, BeforeCall DEF BackupRow, BackupOf, Startup!Content, Startup!Metadata
  <2>3. Keeps(Absent, Startup!Backup)
    BY <1>1, <1>2, BeforeCall, OnlyRacesOverwrite DEF Ready, OwnBackup, Startup!StartupConstants, Keeps
  <2>4. Whole(Startup!Backup) /\ StaysListed(Startup!Backup)
    BY <1>1, <1>2, BeforeCall DEF Ready, OwnBackup, Unlisted, Whole, StaysListed
  <2>5. Settled(Startup!Backup, excused')
    BY <1>1, <1>2, BeforeCall DEF Ready, OwnBackup, Settled
  <2>6. Tells(Absent, Startup!Backup, "error")
    BY <1>1, <1>2, BeforeCall DEF Ready, Family, OwnBackup, Agrees, DisableSteps, Tells
  <2> QED
    BY <1>1, <2>1, <2>2, <2>3, <2>4, <2>5, <2>6, Ending DEF Startup!Outcomes, BackupOf
<1>3. CASE UNCHANGED <<active, overwritten>> /\ Startup!End("transaction")
  <2>1. Ends(active[Startup!Entry], Startup!Backup, "transaction") /\ excused' = excused
    BY <1>1, <1>3, BeforeCall DEF Startup!UnwriteValue, Startup!Step, Startup!At, Startup!Overwrites, Startup!End, Startup!Goto, Startup!SetBackup, Startup!SetActive, Changes, BackupOf, Ends
  <2>2. active[Startup!Entry] \in Startup!Content /\ Startup!Backup \in BackupRow
    BY <1>1, BeforeCall DEF BackupRow, BackupOf, Startup!Content, Startup!Metadata
  <2>3. Keeps(active[Startup!Entry], Startup!Backup)
    BY <1>1, <1>3, BeforeCall DEF Keeps
  <2>4. Whole(Startup!Backup) /\ StaysListed(Startup!Backup)
    BY <1>1, <1>3, BeforeCall DEF Ready, OwnBackup, Whole, StaysListed
  <2>5. Settled(Startup!Backup, excused')
    BY <1>1, <1>3, BeforeCall DEF Ready, OwnBackup, Settled
  <2>6. Tells(active[Startup!Entry], Startup!Backup, "transaction")
    BY <1>1, <1>3, BeforeCall DEF Tells
  <2> QED
    BY <1>1, <2>1, <2>2, <2>3, <2>4, <2>5, <2>6, Ending DEF Startup!Outcomes, BackupOf
<1> QED
  BY <1>1, <1>2, <1>3 DEF Startup!UnwriteValue

LEMMA OpenBackupEffect ==
    ASSUME Startup!StartupConstants, EntriesInv, Startup!OpenBackup
    PROVE  Effective
<1>1. Startup!Running /\ op.step = "open"
  BY DEF Startup!OpenBackup, Startup!Step, Startup!At
<1>2. CASE Startup!Backup.content # Absent /\ Startup!Backup.meta = "published" /\ active[Startup!Entry] = Absent /\ Startup!Goto("checkRestore")
  <2>1. Continues(active[Startup!Entry], Startup!Backup, "checkRestore")
    BY <1>1, <1>2, BeforeCall
       DEF Startup!OpenBackup, Startup!Step, Startup!At, Startup!Overwrites, Startup!End, Startup!Goto, Startup!SetBackup, Startup!SetActive, Changes, BackupOf, Continues
  <2>2. active[Startup!Entry] \in Startup!Content /\ Startup!Backup \in BackupRow
    BY <1>1, BeforeCall DEF BackupRow, BackupOf, Startup!Content, Startup!Metadata
  <2>3. Keeps(active[Startup!Entry], Startup!Backup)
    BY <1>1, <1>2, BeforeCall DEF Keeps
  <2>4. Whole(Startup!Backup) /\ StaysListed(Startup!Backup)
    BY <1>1, <1>2, BeforeCall DEF Ready, OwnBackup, Whole, StaysListed
  <2>5. Ready("checkRestore", active[Startup!Entry], Startup!Backup)
    BY <1>1, <1>2, BeforeCall DEF Ready, Family, OwnBackup, OwnValue, Unlisted, Agrees, DisableSteps, RegistrySteps
  <2> QED
    BY <1>1, <2>1, <2>2, <2>3, <2>4, <2>5, Continuing DEF Startup!Steps, BackupOf
<1>3. CASE Startup!End("error")
  <2>1. Ends(active[Startup!Entry], Startup!Backup, "error") /\ excused' = excused
    BY <1>1, <1>3, BeforeCall DEF Startup!OpenBackup, Startup!Step, Startup!At, Startup!Overwrites, Startup!End, Startup!Goto, Startup!SetBackup, Startup!SetActive, Changes, BackupOf, Ends
  <2>2. active[Startup!Entry] \in Startup!Content /\ Startup!Backup \in BackupRow
    BY <1>1, BeforeCall DEF BackupRow, BackupOf, Startup!Content, Startup!Metadata
  <2>3. Keeps(active[Startup!Entry], Startup!Backup)
    BY <1>1, <1>3, BeforeCall DEF Keeps
  <2>4. Whole(Startup!Backup) /\ StaysListed(Startup!Backup)
    BY <1>1, <1>3, BeforeCall DEF Ready, Family, OwnBackup, RegistrySteps, Whole, StaysListed
  <2>5. Settled(Startup!Backup, excused')
    BY <1>1, <1>3, BeforeCall DEF Ready, OwnBackup, Settled
  <2>6. Tells(active[Startup!Entry], Startup!Backup, "error")
    BY <1>1, <1>3, BeforeCall DEF Ready, Family, OwnBackup, Agrees, DisableSteps, Tells
  <2> QED
    BY <1>1, <2>1, <2>2, <2>3, <2>4, <2>5, <2>6, Ending DEF Startup!Outcomes, BackupOf
<1> QED
  BY <1>1, <1>2, <1>3 DEF Startup!OpenBackup

LEMMA RemoveMetadataEffect ==
    ASSUME Startup!StartupConstants, EntriesInv, Startup!RemoveMetadata
    PROVE  Effective
<1>1. Startup!Running /\ op.step = "unmeta"
  BY DEF Startup!RemoveMetadata, Startup!Step, Startup!At
<1>2. CASE Startup!SetBackup(Startup!Backup.content, "none") /\ Startup!End("success")
  <2>1. Ends(active[Startup!Entry], BackupOf(Startup!Backup.content, "none"), "success") /\ excused' = excused
    BY <1>1, <1>2, BeforeCall
       DEF Startup!RemoveMetadata, Startup!Step, Startup!At, Startup!Overwrites, Startup!End, Startup!Goto, Startup!SetBackup, Startup!SetActive, Changes, BackupOf, Ends
  <2>2. active[Startup!Entry] \in Startup!Content /\ BackupOf(Startup!Backup.content, "none") \in BackupRow
    BY <1>1, BeforeCall DEF BackupRow, BackupOf, Startup!Content, Startup!Metadata
  <2>3. Keeps(active[Startup!Entry], BackupOf(Startup!Backup.content, "none"))
    BY <1>1, <1>2, BeforeCall DEF Ready, OwnBackup, Startup!StartupConstants, Keeps
  <2>4. Whole(BackupOf(Startup!Backup.content, "none"))
    BY <1>1, <1>2, BeforeCall DEF Whole, BackupOf
  <2>5. Settled(BackupOf(Startup!Backup.content, "none"), excused')
    BY <1>1, <1>2, BeforeCall DEF Ready, OwnBackup, Settled, BackupOf
  <2>6. Tells(active[Startup!Entry], BackupOf(Startup!Backup.content, "none"), "success")
    BY <1>1, <1>2, BeforeCall DEF Ready, Family, Agrees, DisableSteps, Tells, BackupOf
  <2> QED
    BY <1>1, <2>1, <2>2, <2>3, <2>4, <2>5, <2>6, Ending DEF Startup!Outcomes, BackupOf
<1>3. CASE UNCHANGED backups /\ Startup!Goto("takeBack")
  <2>1. Continues(active[Startup!Entry], Startup!Backup, "takeBack")
    BY <1>1, <1>3, BeforeCall
       DEF Startup!RemoveMetadata, Startup!Step, Startup!At, Startup!Overwrites, Startup!End, Startup!Goto, Startup!SetBackup, Startup!SetActive, Changes, BackupOf, Continues
  <2>2. active[Startup!Entry] \in Startup!Content /\ Startup!Backup \in BackupRow
    BY <1>1, BeforeCall DEF BackupRow, BackupOf, Startup!Content, Startup!Metadata
  <2>3. Keeps(active[Startup!Entry], Startup!Backup)
    BY <1>1, <1>3, BeforeCall DEF Keeps
  <2>4. Whole(Startup!Backup) /\ StaysListed(Startup!Backup)
    BY <1>1, <1>3, BeforeCall DEF Ready, Family, OwnBackup, RegistrySteps, Whole, StaysListed
  <2>5. Ready("takeBack", active[Startup!Entry], Startup!Backup)
    BY <1>1, <1>3, BeforeCall DEF Ready, Family, OwnBackup, OwnValue, Unlisted, Agrees, DisableSteps, RegistrySteps
  <2> QED
    BY <1>1, <2>1, <2>2, <2>3, <2>4, <2>5, Continuing DEF Startup!Steps, BackupOf
<1> QED
  BY <1>1, <1>2, <1>3 DEF Startup!RemoveMetadata

\* What _move_path leaves, by whether it returns.
MoveLeaves(s, d, m) ==
    /\ m.from \in Startup!Content /\ m.to \in Startup!Content /\ m.ok \in {TRUE, FALSE}
    /\ m.ok = TRUE => m.from = Absent /\ m.to = s
    /\ m.ok = FALSE => \/ m.from = s /\ m.to = d
                       \/ Startup!Entry \in OtherVolume /\ (m.from = s \/ m.to = s)

LEMMA ReplaceFacts ==
    ASSUME NEW s \in Startup!Content, NEW d \in Startup!Content, NEW m \in Startup!Replace(s, d)
    PROVE  MoveLeaves(s, d, m)
<1>1. \/ m = [ok |-> TRUE, from |-> Absent, to |-> s]
      \/ m = [ok |-> FALSE, from |-> s, to |-> d]
      \/ \E r \in {x \in {<<s, Torn>>, <<s, s>>, <<Torn, s>>} : Startup!Entry \in OtherVolume} :
            m = [ok |-> FALSE, from |-> r[1], to |-> r[2]]
  BY DEF Startup!Replace
<1>2. ASSUME NEW r \in {x \in {<<s, Torn>>, <<s, s>>, <<Torn, s>>} : Startup!Entry \in OtherVolume},
             m = [ok |-> FALSE, from |-> r[1], to |-> r[2]]
      PROVE  MoveLeaves(s, d, m)
  BY <1>2 DEF MoveLeaves, Startup!Content
<1>3. CASE m = [ok |-> TRUE, from |-> Absent, to |-> s]
  BY <1>3 DEF MoveLeaves, Startup!Content
<1>4. CASE m = [ok |-> FALSE, from |-> s, to |-> d]
  BY <1>4 DEF MoveLeaves, Startup!Content
<1> QED
  BY <1>1, <1>2, <1>3, <1>4

LEMMA MoveFacts ==
    ASSUME NEW s \in Startup!Content, NEW d \in Startup!Content, NEW m \in Startup!Move(s, d)
    PROVE  /\ MoveLeaves(s, d, m)
           /\ m.ok = TRUE \/ m.from # s \/ m.to # d => s # Absent /\ d = Absent
<1>1. CASE Startup!CanMove(s, d)
  BY <1>1, ReplaceFacts DEF Startup!Move, Startup!CanMove
<1>2. CASE ~Startup!CanMove(s, d)
  <2>1. m = [ok |-> FALSE, from |-> s, to |-> d]
    BY <1>2 DEF Startup!Move
  <2> QED
    BY <2>1 DEF MoveLeaves
<1> QED
  BY <1>1, <1>2

LEMMA MoveAwayEffect ==
    ASSUME Startup!StartupConstants, EntriesInv, Startup!MoveAway
    PROVE  Effective
<1>1. Startup!Running /\ op.step = "move" /\ excused' = excused
  BY DEF Startup!MoveAway, Startup!Step, Startup!At
<1>2. PICK m \in Startup!Move(active[Startup!Entry], Absent) :
          /\ Startup!SetActive(m.from) /\ Startup!SetBackup(m.to, "pending")
          /\ Startup!Goto(IF m.ok THEN "publish"
                  ELSE IF m.to # Absent /\ m.from = Absent THEN "checkMoveBack" ELSE "cleanup")
  BY DEF Startup!MoveAway
<1>3. /\ m.from \in Startup!Content /\ BackupOf(m.to, "pending") \in BackupRow
      /\ MoveLeaves(active[Startup!Entry], Absent, m)
      /\ m.ok = TRUE \/ m.from # active[Startup!Entry] \/ m.to # Absent => active[Startup!Entry] # Absent /\ Absent = Absent
  <2>1. active[Startup!Entry] \in Startup!Content /\ Absent \in Startup!Content /\ Startup!Entry \in Entries
    BY <1>1, BeforeCall DEF BackupRow, Startup!Content
  <2>2. /\ MoveLeaves(active[Startup!Entry], Absent, m)
        /\ m.ok = TRUE \/ m.from # active[Startup!Entry] \/ m.to # Absent => active[Startup!Entry] # Absent /\ Absent = Absent
    BY <2>1, MoveFacts
  <2> QED
    BY <2>1, <2>2 DEF MoveLeaves, BackupRow, BackupOf, Startup!Metadata
<1>4. Keeps(m.from, BackupOf(m.to, "pending")) /\ Whole(BackupOf(m.to, "pending")) /\ StaysListed(BackupOf(m.to, "pending"))
  <2>1. Keeps(m.from, BackupOf(m.to, "pending"))
    BY <1>1, <1>3, BeforeCall DEF Ready, OwnBackup, Startup!StartupConstants, Keeps, BackupOf, MoveLeaves
  <2>2. Startup!Entry \notin Registry
    BY <1>1, BeforeCall DEF Ready, Family, RegistrySteps
  <2> QED
    BY <1>1, <2>1, <2>2, BeforeCall DEF Ready, Family, DisableSteps, Whole, StaysListed, BackupOf
<1>5. CASE m.ok = TRUE
  <2>1. Continues(m.from, BackupOf(m.to, "pending"), "publish")
    BY <1>1, <1>2, <1>5, BeforeCall
       DEF Startup!End, Startup!Goto, Startup!SetBackup, Startup!SetActive, Changes, BackupOf, Continues, Startup!MoveAway, Startup!Step, Startup!At, Startup!Overwrites
  <2>2. Ready("publish", m.from, BackupOf(m.to, "pending"))
    BY <1>1, <1>3, <1>5, BeforeCall
       DEF Ready, Family, OwnBackup, OwnValue, Unlisted, Agrees, DisableSteps, RegistrySteps, BackupOf, MoveLeaves
  <2> QED
    BY <1>1, <1>3, <1>4, <2>1, <2>2, Continuing DEF Startup!Steps, BackupOf
<1>6. CASE m.ok = FALSE /\ m.to # Absent /\ m.from = Absent
  <2>1. Continues(m.from, BackupOf(m.to, "pending"), "checkMoveBack")
    BY <1>1, <1>2, <1>6, BeforeCall
       DEF Startup!End, Startup!Goto, Startup!SetBackup, Startup!SetActive, Changes, BackupOf, Continues, Startup!MoveAway, Startup!Step, Startup!At, Startup!Overwrites
  <2>2. Ready("checkMoveBack", m.from, BackupOf(m.to, "pending"))
    BY <1>1, <1>3, <1>6, BeforeCall
       DEF Ready, Family, OwnBackup, OwnValue, Unlisted, Agrees, DisableSteps, RegistrySteps, BackupOf, MoveLeaves
  <2> QED
    BY <1>1, <1>3, <1>4, <2>1, <2>2, Continuing DEF Startup!Steps, BackupOf
<1>7. CASE m.ok = FALSE /\ ~(m.to # Absent /\ m.from = Absent)
  <2>1. Continues(m.from, BackupOf(m.to, "pending"), "cleanup")
    BY <1>1, <1>2, <1>7, BeforeCall
       DEF Startup!End, Startup!Goto, Startup!SetBackup, Startup!SetActive, Changes, BackupOf, Continues, Startup!MoveAway, Startup!Step, Startup!At, Startup!Overwrites
  <2>2. Ready("cleanup", m.from, BackupOf(m.to, "pending"))
    BY <1>1, <1>3, <1>7, BeforeCall
       DEF Ready, Family, OwnBackup, OwnValue, Unlisted, Agrees, DisableSteps, RegistrySteps, Undisturbed, BackupOf,
           MoveLeaves
  <2> QED
    BY <1>1, <1>3, <1>4, <2>1, <2>2, Continuing DEF Startup!Steps, BackupOf
<1> QED
  BY <1>3, <1>5, <1>6, <1>7 DEF MoveLeaves

LEMMA CheckMoveBackEffect ==
    ASSUME Startup!StartupConstants, EntriesInv, Startup!CheckMoveBack
    PROVE  Effective
<1>1. Startup!Running /\ op.step = "checkMoveBack" /\ UNCHANGED <<active, backups, excused, overwritten, current>>
  BY DEF Startup!CheckMoveBack, Startup!Step, Startup!At
<1>2. PICK s \in {"moveBack", "preserve"} :
          Startup!Goto(s) /\ (s = "moveBack" => Startup!CanMove(Startup!Backup.content, active[Startup!Entry]))
  BY Zenon DEF Startup!CheckMoveBack
<1>3. Continues(active[Startup!Entry], Startup!Backup, s)
  BY <1>1, <1>2, BeforeCall DEF Startup!Goto, Changes, Continues
<1>4. Keeps(active[Startup!Entry], Startup!Backup) /\ Whole(Startup!Backup) /\ StaysListed(Startup!Backup)
  BY <1>1, BeforeCall DEF Ready, Family, OwnBackup, DisableSteps, Keeps, Whole, StaysListed
<1>5. Ready(s, active[Startup!Entry], Startup!Backup)
  BY <1>1, <1>2, BeforeCall
     DEF Ready, Family, OwnBackup, OwnValue, Unlisted, Agrees, DisableSteps, RegistrySteps, Startup!CanMove
<1> QED
  BY <1>1, <1>2, <1>3, <1>4, <1>5, BeforeCall, Continuing DEF Startup!Steps

LEMMA MoveBackEffect ==
    ASSUME Startup!StartupConstants, EntriesInv, Startup!MoveBack
    PROVE  Effective
<1>1. Startup!Running /\ op.step = "moveBack" /\ excused' = excused
  BY DEF Startup!MoveBack, Startup!Step, Startup!At
<1>2. PICK m \in Startup!Replace(Startup!Backup.content, active[Startup!Entry]) :
          /\ Startup!SetActive(m.to) /\ Startup!Overwrites(m.to) /\ Startup!SetBackup(m.from, "pending")
          /\ Startup!Goto(IF m.ok THEN "cleanup" ELSE "preserve")
  BY DEF Startup!MoveBack
<1>3. /\ m.to \in Startup!Content /\ BackupOf(m.from, "pending") \in BackupRow
      /\ MoveLeaves(Startup!Backup.content, active[Startup!Entry], m)
  <2>1. Startup!Backup.content \in Startup!Content /\ active[Startup!Entry] \in Startup!Content /\ Startup!Entry \in Entries
    BY <1>1, BeforeCall DEF BackupRow, Startup!Content
  <2>2. MoveLeaves(Startup!Backup.content, active[Startup!Entry], m)
    BY <2>1, ReplaceFacts
  <2> QED
    BY <2>1, <2>2 DEF MoveLeaves, BackupRow, BackupOf, Startup!Metadata
<1>4. Keeps(m.to, BackupOf(m.from, "pending")) /\ Whole(BackupOf(m.from, "pending")) /\ StaysListed(BackupOf(m.from, "pending"))
  <2>1. active[Startup!Entry] \in {Absent, m.to} \/ Startup!Entry \in overwritten'
    BY <1>1, <1>2, OnlyRacesOverwrite
  <2>2. Keeps(m.to, BackupOf(m.from, "pending"))
    BY <1>1, <1>3, <2>1, BeforeCall DEF Ready, OwnBackup, Startup!StartupConstants, Keeps, BackupOf, MoveLeaves
  <2>3. Startup!Entry \notin Registry
    BY <1>1, BeforeCall DEF Ready, Family, RegistrySteps
  <2> QED
    BY <1>1, <2>2, <2>3, BeforeCall DEF Ready, Family, DisableSteps, Whole, StaysListed, BackupOf
<1>5. CASE m.ok = TRUE
  <2>1. Continues(m.to, BackupOf(m.from, "pending"), "cleanup")
    BY <1>1, <1>2, <1>5, BeforeCall
       DEF Startup!End, Startup!Goto, Startup!SetBackup, Startup!SetActive, Changes, BackupOf, Continues, Startup!MoveBack, Startup!Step, Startup!At, Startup!Overwrites
  <2>2. Ready("cleanup", m.to, BackupOf(m.from, "pending"))
    BY <1>1, <1>3, <1>5, BeforeCall
       DEF Ready, Family, OwnBackup, OwnValue, Unlisted, Agrees, DisableSteps, RegistrySteps, BackupOf, MoveLeaves
  <2> QED
    BY <1>1, <1>3, <1>4, <2>1, <2>2, Continuing DEF Startup!Steps, BackupOf
<1>6. CASE m.ok = FALSE
  <2>1. Continues(m.to, BackupOf(m.from, "pending"), "preserve")
    BY <1>1, <1>2, <1>6, BeforeCall
       DEF Startup!End, Startup!Goto, Startup!SetBackup, Startup!SetActive, Changes, BackupOf, Continues, Startup!MoveBack, Startup!Step, Startup!At, Startup!Overwrites
  <2>2. Ready("preserve", m.to, BackupOf(m.from, "pending"))
    BY <1>1, <1>3, <1>6, BeforeCall
       DEF Ready, Family, OwnBackup, OwnValue, Unlisted, Agrees, DisableSteps, RegistrySteps, BackupOf
  <2> QED
    BY <1>1, <1>3, <1>4, <2>1, <2>2, Continuing DEF Startup!Steps, BackupOf
<1> QED
  BY <1>3, <1>5, <1>6 DEF MoveLeaves

LEMMA CheckRestoreEffect ==
    ASSUME Startup!StartupConstants, EntriesInv, Startup!CheckRestore
    PROVE  Effective
<1>1. Startup!Running /\ op.step = "checkRestore" /\ UNCHANGED <<active, backups, excused, overwritten, current>>
  BY DEF Startup!CheckRestore, Startup!Step, Startup!At
<1>2. Keeps(active[Startup!Entry], Startup!Backup) /\ Whole(Startup!Backup) /\ StaysListed(Startup!Backup)
  BY <1>1, BeforeCall DEF Ready, Family, OwnBackup, RegistrySteps, Keeps, Whole, StaysListed
<1>3. CASE Startup!CanMove(Startup!Backup.content, active[Startup!Entry])
  <2>1. Continues(active[Startup!Entry], Startup!Backup, "restore")
    BY <1>1, <1>3, BeforeCall DEF Startup!CheckRestore, Startup!Goto, Changes, Continues
  <2>2. Ready("restore", active[Startup!Entry], Startup!Backup)
    BY <1>1, <1>3, BeforeCall
       DEF Ready, Family, OwnBackup, OwnValue, Unlisted, Agrees, DisableSteps, RegistrySteps, Startup!CanMove
  <2> QED
    BY <1>1, <1>2, <2>1, <2>2, BeforeCall, Continuing DEF Startup!Steps
<1>4. CASE ~Startup!CanMove(Startup!Backup.content, active[Startup!Entry])
  <2>1. Ends(active[Startup!Entry], Startup!Backup, "error")
    BY <1>1, <1>4, BeforeCall DEF Startup!CheckRestore, Startup!End, Changes, Ends
  <2>2. Settled(Startup!Backup, excused') /\ Tells(active[Startup!Entry], Startup!Backup, "error")
    BY <1>1, BeforeCall DEF Ready, Family, OwnBackup, Agrees, DisableSteps, Settled, Tells
  <2> QED
    BY <1>1, <1>2, <2>1, <2>2, BeforeCall, Ending DEF Startup!Outcomes
<1> QED
  BY <1>3, <1>4

LEMMA RestoreEffect ==
    ASSUME Startup!StartupConstants, EntriesInv, Startup!Restore
    PROVE  Effective
<1>1. Startup!Running /\ op.step = "restore" /\ excused' = excused
  BY DEF Startup!Restore, Startup!Step, Startup!At
<1>2. PICK m \in Startup!Replace(Startup!Backup.content, active[Startup!Entry]) :
          /\ Startup!SetActive(m.to) /\ Startup!Overwrites(m.to) /\ Startup!SetBackup(m.from, "published")
          /\ IF m.ok THEN Startup!Goto("unmeta") ELSE Startup!End("error")
  BY DEF Startup!Restore
<1>3. /\ m.to \in Startup!Content /\ BackupOf(m.from, "published") \in BackupRow
      /\ MoveLeaves(Startup!Backup.content, active[Startup!Entry], m)
  <2>1. Startup!Backup.content \in Startup!Content /\ active[Startup!Entry] \in Startup!Content /\ Startup!Entry \in Entries
    BY <1>1, BeforeCall DEF BackupRow, Startup!Content
  <2>2. MoveLeaves(Startup!Backup.content, active[Startup!Entry], m)
    BY <2>1, ReplaceFacts
  <2> QED
    BY <2>1, <2>2 DEF MoveLeaves, BackupRow, BackupOf, Startup!Metadata
<1>4. Keeps(m.to, BackupOf(m.from, "published")) /\ Whole(BackupOf(m.from, "published")) /\ StaysListed(BackupOf(m.from, "published"))
  <2>1. active[Startup!Entry] \in {Absent, m.to} \/ Startup!Entry \in overwritten'
    BY <1>1, <1>2, OnlyRacesOverwrite
  <2>2. Keeps(m.to, BackupOf(m.from, "published"))
    BY <1>1, <1>3, <2>1, BeforeCall DEF Ready, OwnBackup, Startup!StartupConstants, Keeps, BackupOf, MoveLeaves
  <2>3. Startup!Entry \notin Registry
    BY <1>1, BeforeCall DEF Ready, Family, RegistrySteps
  <2> QED
    BY <1>1, <2>2, <2>3, BeforeCall DEF Whole, StaysListed, BackupOf
<1>5. CASE m.ok = TRUE
  <2>1. Continues(m.to, BackupOf(m.from, "published"), "unmeta")
    BY <1>1, <1>2, <1>5, BeforeCall
       DEF Startup!End, Startup!Goto, Startup!SetBackup, Startup!SetActive, Changes, BackupOf, Continues, Startup!Restore, Startup!Step, Startup!At, Startup!Overwrites
  <2>2. Ready("unmeta", m.to, BackupOf(m.from, "published"))
    BY <1>1, <1>3, <1>5, BeforeCall
       DEF Ready, Family, OwnBackup, OwnValue, Unlisted, Agrees, DisableSteps, RegistrySteps, BackupOf, MoveLeaves
  <2> QED
    BY <1>1, <1>3, <1>4, <2>1, <2>2, Continuing DEF Startup!Steps, BackupOf
<1>6. CASE m.ok = FALSE
  <2>1. Ends(m.to, BackupOf(m.from, "published"), "error")
    BY <1>1, <1>2, <1>6, BeforeCall DEF Startup!End, Startup!Goto, Startup!SetBackup, Startup!SetActive, Changes, BackupOf, Ends, Startup!Restore, Startup!Step, Startup!At, Startup!Overwrites
  <2>2. Settled(BackupOf(m.from, "published"), excused')
    BY <1>1, <1>3, <1>6, BeforeCall DEF Settled, BackupOf
  <2>3. Tells(m.to, BackupOf(m.from, "published"), "error")
    BY <1>1, <1>3, <1>6, BeforeCall
       DEF Ready, Family, Agrees, DisableSteps, Tells, Undisturbed, BackupOf, MoveLeaves
  <2> QED
    BY <1>1, <1>3, <1>4, <2>1, <2>2, <2>3, Ending DEF Startup!Outcomes, BackupOf
<1> QED
  BY <1>3, <1>5, <1>6 DEF MoveLeaves

LEMMA TakeBackEffect ==
    ASSUME Startup!StartupConstants, EntriesInv, Startup!TakeBack
    PROVE  Effective
<1>1. Startup!Running /\ op.step = "takeBack" /\ excused' = excused
  BY DEF Startup!TakeBack, Startup!Step, Startup!At
<1>2. PICK m \in Startup!Move(active[Startup!Entry], Startup!Backup.content) :
          /\ Startup!SetActive(m.from) /\ Startup!SetBackup(m.to, "published")
          /\ Startup!End(IF m.ok THEN "error" ELSE "transaction")
  BY DEF Startup!TakeBack
<1>3. /\ m.from \in Startup!Content /\ BackupOf(m.to, "published") \in BackupRow
      /\ MoveLeaves(active[Startup!Entry], Startup!Backup.content, m)
      /\ m.ok = TRUE \/ m.from # active[Startup!Entry] \/ m.to # Startup!Backup.content => active[Startup!Entry] # Absent /\ Startup!Backup.content = Absent
  <2>1. active[Startup!Entry] \in Startup!Content /\ Startup!Backup.content \in Startup!Content /\ Startup!Entry \in Entries
    BY <1>1, BeforeCall DEF BackupRow, Startup!Content
  <2>2. /\ MoveLeaves(active[Startup!Entry], Startup!Backup.content, m)
        /\ m.ok = TRUE \/ m.from # active[Startup!Entry] \/ m.to # Startup!Backup.content => active[Startup!Entry] # Absent /\ Startup!Backup.content = Absent
    BY <2>1, MoveFacts
  <2> QED
    BY <2>1, <2>2 DEF MoveLeaves, BackupRow, BackupOf, Startup!Metadata
<1>4. Keeps(m.from, BackupOf(m.to, "published")) /\ Whole(BackupOf(m.to, "published")) /\ StaysListed(BackupOf(m.to, "published"))
  <2>1. Keeps(m.from, BackupOf(m.to, "published"))
    BY <1>1, <1>3, BeforeCall DEF Startup!StartupConstants, Keeps, BackupOf, MoveLeaves
  <2>2. Startup!Entry \notin Registry
    BY <1>1, BeforeCall DEF Ready, Family, RegistrySteps
  <2> QED
    BY <1>1, <2>1, <2>2, BeforeCall DEF Whole, StaysListed, BackupOf
<1>5. CASE m.ok = TRUE
  <2>1. Ends(m.from, BackupOf(m.to, "published"), "error")
    BY <1>1, <1>2, <1>5, BeforeCall
       DEF Startup!End, Startup!Goto, Startup!SetBackup, Startup!SetActive, Changes, BackupOf, Ends, Startup!TakeBack, Startup!Step, Startup!At, Startup!Overwrites
  <2>2. Settled(BackupOf(m.to, "published"), excused')
    BY <1>1, <1>3, <1>5, BeforeCall DEF Settled, BackupOf
  <2>3. Tells(m.from, BackupOf(m.to, "published"), "error")
    BY <1>1, <1>3, <1>5, BeforeCall DEF Ready, Family, Agrees, DisableSteps, Tells, BackupOf, MoveLeaves
  <2> QED
    BY <1>1, <1>3, <1>4, <2>1, <2>2, <2>3, Ending DEF Startup!Outcomes, BackupOf
<1>6. CASE m.ok = FALSE
  <2>1. Ends(m.from, BackupOf(m.to, "published"), "transaction")
    BY <1>1, <1>2, <1>6, BeforeCall
       DEF Startup!End, Startup!Goto, Startup!SetBackup, Startup!SetActive, Changes, BackupOf, Ends, Startup!TakeBack, Startup!Step, Startup!At, Startup!Overwrites
  <2>2. Settled(BackupOf(m.to, "published"), excused')
    BY <1>1, <1>3, <1>6, BeforeCall DEF Settled, BackupOf
  <2>3. Tells(m.from, BackupOf(m.to, "published"), "transaction")
    BY <1>1, <1>3, <1>6, BeforeCall DEF Tells
  <2> QED
    BY <1>1, <1>3, <1>4, <2>1, <2>2, <2>3, Ending DEF Startup!Outcomes, BackupOf
<1> QED
  BY <1>3, <1>5, <1>6 DEF MoveLeaves

LEMMA PreserveEffect ==
    ASSUME Startup!StartupConstants, EntriesInv, Startup!Preserve
    PROVE  Effective
<1>1. Startup!Running /\ op.step = "preserve"
  BY DEF Startup!Preserve, Startup!Step, Startup!At
<1>2. CASE Startup!SetBackup(Startup!Backup.content, "published") /\ UNCHANGED excused
  <2>1. Ends(active[Startup!Entry], BackupOf(Startup!Backup.content, "published"), "transaction")
    BY <1>1, <1>2, BeforeCall DEF Startup!Preserve, Startup!Step, Startup!At, Startup!Overwrites, Startup!End, Startup!SetBackup, Ends, Changes, BackupOf
  <2>2. BackupOf(Startup!Backup.content, "published") \in BackupRow
    BY <1>1, BeforeCall DEF BackupRow, BackupOf, Startup!Metadata
  <2>3. /\ Keeps(active[Startup!Entry], BackupOf(Startup!Backup.content, "published")) /\ Whole(BackupOf(Startup!Backup.content, "published"))
        /\ StaysListed(BackupOf(Startup!Backup.content, "published"))
    BY <1>1, BeforeCall DEF Ready, Family, RegistrySteps, Keeps, Whole, StaysListed, BackupOf
  <2> QED
    BY <1>1, <1>2, <2>1, <2>2, <2>3, BeforeCall, Ending DEF Startup!Outcomes, BackupOf, Settled, Tells
<1>3. CASE UNCHANGED backups /\ excused' = excused \cup {Startup!Entry}
  <2>1. Ends(active[Startup!Entry], Startup!Backup, "transaction")
    BY <1>1, <1>3, BeforeCall DEF Startup!Preserve, Startup!Step, Startup!At, Startup!Overwrites, Startup!End, Ends, Changes
  <2>2. Keeps(active[Startup!Entry], Startup!Backup) /\ Whole(Startup!Backup) /\ StaysListed(Startup!Backup)
    BY <1>1, BeforeCall DEF Ready, Family, OwnBackup, DisableSteps, Keeps, Whole, StaysListed
  <2> QED
    BY <1>1, <1>3, <2>1, <2>2, BeforeCall, Ending DEF Startup!Outcomes, Settled, Tells
<1> QED
  BY <1>2, <1>3 DEF Startup!Preserve

LEMMA CallEffect ==
    ASSUME Startup!StartupConstants, EntriesInv, Startup!Call
    PROVE  Effective
BY CreateBackupEffect, FillBackupEffect, DeleteValueEffect, DeleteBackupEffect, WritePendingEffect, MoveAwayEffect,
   PublishEffect, CheckMoveBackEffect, MoveBackEffect, PreserveEffect, CleanupEffect, CheckValueEffect, WriteValueEffect,
   RemoveBackupEffect, UnwriteValueEffect, OpenBackupEffect, CheckRestoreEffect, RestoreEffect, RemoveMetadataEffect, TakeBackEffect
   DEF Startup!Call

-----------------------------------------------------------------------------
(* From the effect of a call to the invariant. *)

DiskTyped == active \in [Entries -> Startup!Content] /\ backups \in [Ids -> BackupRow]

\* A list just made is true.
LEMMA ListingIsTrue ==
    ASSUME Startup!StartupConstants, DiskTyped', BackupInv', listed' = Startup!Listing'
    PROVE  ListInv' /\ listed' \subseteq Startup!Item
<1> SUFFICES ASSUME NEW item \in Startup!Listing'
             PROVE  /\ item \in Startup!Item
                    /\ item.id # None =>
                          /\ backups'[item.id].entry = item.entry
                          /\ backups'[item.id].meta = "published"
                          /\ item.entry \in Registry => backups'[item.id].content = item.content
                    /\ item.entry \in Registry => item.content # Absent
  BY Zenon DEF ListInv
<1>1. CASE \E e \in {x \in Entries : active'[x] # Absent} :
              item = [entry |-> e, content |-> active'[e], id |-> None]
  BY <1>1 DEF Startup!Item, DiskTyped, BackupRow
<1>2. CASE \E i \in {j \in Ids : backups'[j].meta = "published"} :
              item = [entry |-> backups'[i].entry, content |-> backups'[i].content, id |-> i]
  <2>1. PICK i \in Ids : /\ backups'[i].meta = "published"
                         /\ item = [entry |-> backups'[i].entry, content |-> backups'[i].content, id |-> i]
    BY <1>2
  <2>2. i # None /\ backups'[i] \in BackupRow
    BY DEF Startup!StartupConstants, DiskTyped
  <2>3. backups'[i].entry \in Entries /\ (backups'[i].entry \in Registry => backups'[i].content # Absent)
    BY <2>1 DEF BackupInv
  <2> QED
    BY <2>1, <2>2, <2>3 DEF Startup!Item, BackupRow
<1> QED
  BY <1>1, <1>2 DEF Startup!Listing

\* The disk after a call, place by place.
LEMMA Disk ==
    ASSUME Startup!StartupConstants, EntriesInv, Startup!Running, NEW a \in Startup!Content, NEW b \in BackupRow, Changes(a, b)
    PROVE  /\ DiskTyped'
           /\ active'[Startup!Entry] = a /\ \A e \in Entries \ {Startup!Entry} : active'[e] = active[e]
           /\ backups'[op.id] = b /\ \A i \in Ids \ {op.id} : backups'[i] = backups[i]
<1>1. active \in [Entries -> Startup!Content] /\ backups \in [Ids -> BackupRow]
  BY DEF EntriesInv, Startup!TypeOK, BackupRow
<1>2. Startup!Entry \in Entries /\ op.id \in Ids
  BY BeforeCall
<1> QED
  BY <1>1, <1>2 DEF Changes, DiskTyped

LEMMA BackupsStay ==
    ASSUME Startup!StartupConstants, EntriesInv, Startup!Running, NEW a \in Startup!Content, NEW b \in BackupRow, Changes(a, b), Whole(b)
    PROVE  BackupInv'
<1> SUFFICES ASSUME NEW i \in Ids, backups'[i].meta = "published"
             PROVE  backups'[i].entry \in Entries /\ (backups'[i].entry \in Registry => backups'[i].content # Absent)
  BY DEF BackupInv
<1>1. CASE i = op.id
  BY <1>1, Disk, BeforeCall DEF Whole
<1>2. CASE i # op.id
  BY <1>2, Disk DEF EntriesInv, BackupInv
<1> QED
  BY <1>1, <1>2

LEMMA ListStays ==
    ASSUME Startup!StartupConstants, EntriesInv, Startup!Running, NEW a \in Startup!Content, NEW b \in BackupRow, Changes(a, b), Whole(b),
           StaysListed(b), listed' = listed
    PROVE  ListInv'
<1> SUFFICES ASSUME NEW item \in listed
             PROVE  /\ item.id # None =>
                          /\ backups'[item.id].entry = item.entry
                          /\ backups'[item.id].meta = "published"
                          /\ item.entry \in Registry => backups'[item.id].content = item.content
                    /\ item.entry \in Registry => item.content # Absent
  BY Zenon DEF ListInv
<1>1. item \in Startup!Item
  BY DEF EntriesInv, Startup!TypeOK
<1>2. /\ item.id # None =>
            /\ backups[item.id].entry = item.entry
            /\ backups[item.id].meta = "published"
            /\ item.entry \in Registry => backups[item.id].content = item.content
      /\ item.entry \in Registry => item.content # Absent
  BY DEF EntriesInv, ListInv
<1>3. CASE item.id = None
  BY <1>2, <1>3
<1>4. CASE item.id # None /\ item.id # op.id
  BY <1>1, <1>2, <1>4, Disk DEF Startup!Item
<1>5. CASE item.id # None /\ item.id = op.id
  <2>1. Startup!Enabling /\ Startup!Backup.entry = Startup!Entry
    BY <1>5, BeforeCall DEF Ready, Family, Unlisted, OwnBackup, DisableSteps
  <2>2. b.meta = "published" /\ b.entry = Startup!Entry /\ (Startup!Entry \in Registry => b.content = Startup!Backup.content)
    BY <2>1 DEF StaysListed, Whole
  <2> QED
    BY <1>2, <1>5, <2>1, <2>2, Disk DEF Startup!Backup
<1> QED
  BY <1>3, <1>4, <1>5

\* The operation goes on.
LEMMA ContinuingKeeps ==
    ASSUME Startup!StartupConstants, EntriesInv, Startup!Running, NEW a \in Startup!Content, NEW b \in BackupRow, NEW s \in Startup!Steps,
           Continues(a, b, s), Ready(s, a, b), Whole(b), StaysListed(b), b = Startup!Backup \/ b.entry = Startup!Entry
    PROVE  EntriesInv'
<1>1. Changes(a, b) /\ op' = [op EXCEPT !.step = s] /\ listed' = listed /\ outcome' = outcome /\ excused' = excused
      /\ current' = current /\ overwritten' \subseteq overwritten \cup {Startup!Entry}
  BY DEF Continues, Changes
<1>2. op' \in Startup!Operation /\ op'.step = s /\ op'.item = op.item /\ op'.id = op.id /\ op'.touched = op.touched
      /\ op'.before = op.before /\ op'.kept = op.kept
  BY <1>1, BeforeCall DEF Startup!Operation
<1>3. Startup!Running'
  BY <1>2 DEF Startup!Running, Startup!Idle, Startup!Steps
<1>4. Startup!Entry' = Startup!Entry /\ (Startup!Enabling' <=> Startup!Enabling) /\ Startup!Backup' = b /\ active'[Startup!Entry] = a
  BY <1>1, <1>2, Disk DEF Startup!Entry, Startup!Enabling, Startup!Backup
<1>5. Startup!TypeOK'
  BY <1>1, <1>2, Disk, BeforeCall DEF EntriesInv, Startup!TypeOK, DiskTyped, BackupRow
<1>6. ListInv' /\ BackupInv'
  BY <1>1, ListStays, BackupsStay
<1>7. OpInv'
  <2>1. Family(s)' /\ Unlisted(s)' /\ OwnBackup(s, b)' /\ OwnValue(s, a)'
    BY <1>1, <1>2, <1>4 DEF Ready, Family, Unlisted, OwnBackup, OwnValue
  <2> QED
    BY <1>2, <1>4, <2>1, BeforeCall DEF OpInv, Startup!Entry, Startup!Enabling
<1>8. KeptInv'
  <2>1. \A i \in Ids \ {op.id} : i \in Startup!Published(Startup!Entry)' <=> i \in Startup!Published(Startup!Entry)
    BY <1>1, <1>4, Disk DEF Startup!Published
  <2> QED
    BY <1>2, <1>4, <2>1 DEF EntriesInv, KeptInv
<1>9. AgreeInv'
  BY <1>2, <1>4 DEF AgreeInv, Undisturbed, Ready, Agrees
<1>10. ShownInv'
  <2> SUFFICES ASSUME NEW e \in Entries \ (excused \cup OtherVolume), NEW i \in Ids,
                      backups'[i].entry = e, backups'[i].content # Absent, backups'[i].meta # "published"
               PROVE  op.id = i /\ s \in {"publish", "checkMoveBack", "moveBack", "preserve"}
    BY <1>1, <1>2, <1>3 DEF ShownInv
  <2>1. CASE i # op.id
    <3>1. Startup!Running /\ op.id = i
      BY <1>1, <2>1, Disk DEF EntriesInv, ShownInv
    <3> QED
      BY <2>1, <3>1
  <2>2. CASE i = op.id
    BY <1>1, <2>2, Disk DEF Ready, OwnBackup, Startup!Steps, Startup!StartupConstants, BackupRow
  <2> QED
    BY <2>1, <2>2
<1> QED
  BY <1>5, <1>6, <1>7, <1>8, <1>9, <1>10 DEF EntriesInv

\* The operation ends.
LEMMA EndingKeeps ==
    ASSUME Startup!StartupConstants, EntriesInv, Startup!Running, NEW a \in Startup!Content, NEW b \in BackupRow, NEW how \in Startup!Outcomes,
           Ends(a, b, how), Settled(b, excused'), Whole(b), how # "success" => StaysListed(b),
           b = Startup!Backup \/ b.entry = Startup!Entry, excused \subseteq excused', excused' \subseteq excused \cup {Startup!Entry}
    PROVE  EntriesInv'
<1>1. Changes(a, b) /\ op' = Startup!Idle /\ outcome' = how /\ current' = current
      /\ ((listed' = listed /\ StaysListed(b)) \/ listed' = Startup!Listing')
  BY DEF Ends, Changes
<1>2. BackupInv'
  BY <1>1, BackupsStay
<1>3. ListInv' /\ listed' \subseteq Startup!Item
  <2>1. CASE listed' = listed /\ StaysListed(b)
    BY <1>1, <2>1, ListStays DEF EntriesInv, Startup!TypeOK
  <2>2. CASE listed' = Startup!Listing'
    BY <1>1, <1>2, <2>2, Disk, ListingIsTrue
  <2> QED
    BY <1>1, <2>1, <2>2
<1>4. Startup!TypeOK'
  <2>1. excused' \subseteq Entries /\ overwritten' \subseteq Entries
    BY <1>1, BeforeCall DEF EntriesInv, Startup!TypeOK, Changes
  <2> QED
    BY <1>1, <1>3, <2>1, Disk DEF EntriesInv, Startup!TypeOK, DiskTyped, BackupRow
<1>5. OpInv' /\ KeptInv' /\ AgreeInv'
  BY <1>1 DEF OpInv, KeptInv, AgreeInv, Startup!Running
<1>6. ShownInv'
  <2> SUFFICES ASSUME NEW e \in Entries \ (excused' \cup OtherVolume), NEW i \in Ids,
                      backups'[i].entry = e, backups'[i].content # Absent, backups'[i].meta # "published"
               PROVE  FALSE
    BY DEF ShownInv
  <2>1. CASE i # op.id
    <3>1. op.id = i
      BY <1>1, <2>1, Disk DEF EntriesInv, ShownInv
    <3> QED
      BY <2>1, <3>1
  <2>2. CASE i = op.id
    <3>1. b.entry = e /\ b.content # Absent /\ b.meta # "published"
      BY <1>1, <2>2, Disk
    <3>2. Startup!Backup.entry \in {Startup!Entry, None} /\ e # None
      BY BeforeCall DEF Ready, OwnBackup, Startup!StartupConstants
    <3> QED
      BY <3>1, <3>2 DEF Settled
  <2> QED
    BY <2>1, <2>2
<1> QED
  BY <1>2, <1>3, <1>4, <1>5, <1>6 DEF EntriesInv

LEMMA CallKeeps ==
    ASSUME Startup!StartupConstants, EntriesInv, Startup!Call
    PROVE  EntriesInv'
<1>1. PICK a \in Startup!Content, b \in BackupRow : Effect(a, b)
  BY CallEffect DEF Effective
<1>2. ASSUME NEW s \in Startup!Steps, Continues(a, b, s), Ready(s, a, b), StaysListed(b)
      PROVE  EntriesInv'
  BY <1>1, <1>2, ContinuingKeeps DEF Effect
<1>3. ASSUME NEW how \in Startup!Outcomes, Ends(a, b, how), Settled(b, excused'), Tells(a, b, how),
             how # "success" => StaysListed(b), excused \subseteq excused', excused' \subseteq excused \cup {Startup!Entry}
      PROVE  EntriesInv'
  BY <1>1, <1>3, EndingKeeps DEF Effect
<1> QED
  BY <1>1, <1>2, <1>3 DEF Effect

-----------------------------------------------------------------------------
(* The user and the environment. *)

LEMMA StartKeeps ==
    ASSUME Startup!StartupConstants, EntriesInv, NEW item \in listed, NEW s \in Startup!Steps, NEW i \in Ids, Startup!Start(item, s, i),
           \/ item.id = None /\ s = (IF item.entry \in Registry THEN "create" ELSE "pending")
              /\ backups[i].meta = "unused" /\ backups[i].entry = None
           \/ item.id # None /\ s = (IF item.entry \in Registry THEN "check" ELSE "open") /\ i = item.id
    PROVE  EntriesInv'
<1>1. item \in Startup!Item /\ item.entry \in Entries /\ active[item.entry] \in Startup!Content /\ Startup!Published(item.entry) \subseteq Ids
  BY DEF EntriesInv, Startup!TypeOK, Startup!Item, Startup!Published
<1>2. /\ ~Startup!Running /\ UNCHANGED <<active, backups, listed, current, excused, overwritten>> /\ outcome' = "none"
      /\ op' = [step |-> s, item |-> item, id |-> i, touched |-> FALSE,
                before |-> active[item.entry], kept |-> Startup!Published(item.entry)]
  BY DEF Startup!Start
<1>3. op' \in Startup!Operation /\ op'.step = s /\ op'.item = item /\ op'.id = i /\ op'.before = active[item.entry]
      /\ op'.kept = Startup!Published(item.entry)
  BY <1>1, <1>2 DEF Startup!Operation
<1>4. Startup!Running' /\ Startup!Entry' = item.entry /\ (Startup!Enabling' <=> item.id # None) /\ Startup!Backup' = backups[i]
  BY <1>2, <1>3 DEF Startup!Running, Startup!Idle, Startup!Steps, Startup!Entry, Startup!Enabling, Startup!Backup
<1>5. Startup!TypeOK'
  BY <1>2, <1>3 DEF EntriesInv, Startup!TypeOK, Startup!Outcomes
<1>6. ListInv' /\ BackupInv'
  BY <1>2 DEF EntriesInv, ListInv, BackupInv
<1>7. /\ item.id # None =>
            /\ backups[item.id].entry = item.entry
            /\ backups[item.id].meta = "published"
            /\ item.entry \in Registry => backups[item.id].content = item.content
      /\ item.entry \in Registry => item.content # Absent
  BY DEF EntriesInv, ListInv
<1>8. OpInv'
  <2>1. Family(s)'
    BY <1>3, <1>4 DEF Family, DisableSteps, RegistrySteps
  <2>2. OwnBackup(s, backups[i])'
    BY <1>2, <1>3, <1>4, <1>7 DEF OwnBackup
  <2>3. OwnValue(s, active[Startup!Entry])'
    BY <1>2, <1>3, <1>4, <1>7 DEF OwnValue
  <2>4. Unlisted(s)'
    <3>1. s \in DisableSteps => \A x \in listed : x.id # i
      BY DEF DisableSteps, EntriesInv, ListInv, Startup!StartupConstants
    <3> QED
      BY <1>2, <1>3, <3>1 DEF Unlisted
  <2> QED
    BY <1>2, <1>3, <1>4, <1>7, <2>1, <2>2, <2>3, <2>4 DEF OpInv, Startup!Entry, Startup!Enabling
<1>9. KeptInv'
  <2>1. Startup!Published(item.entry)' = Startup!Published(item.entry)
    BY <1>2 DEF Startup!Published
  <2>2. i \in Startup!Published(item.entry) <=> item.id # None
    BY <1>1, <1>7 DEF Startup!Published
  <2> QED
    BY <1>3, <1>4, <2>1, <2>2 DEF KeptInv
<1>10. AgreeInv'
  BY <1>2, <1>3, <1>4 DEF AgreeInv, Agrees
<1>11. ShownInv'
  BY <1>2 DEF EntriesInv, ShownInv, Startup!Running
<1> QED
  BY <1>5, <1>6, <1>8, <1>9, <1>10, <1>11 DEF EntriesInv

LEMMA UserKeeps ==
    ASSUME Startup!StartupConstants, EntriesInv, Startup!Disable \/ Startup!Enable \/ Startup!Refresh
    PROVE  EntriesInv'
<1>1. CASE Startup!Disable
  <2>1. PICK item \in listed, i \in Ids :
               /\ item.id = None /\ backups[i].meta = "unused" /\ backups[i].entry = None
               /\ Startup!Start(item, IF item.entry \in Registry THEN "create" ELSE "pending", i)
    BY <1>1 DEF Startup!Disable
  <2> QED
    BY <2>1, StartKeeps DEF Startup!Steps
<1>2. CASE Startup!Enable
  <2>1. PICK item \in listed :
               item.id # None /\ Startup!Start(item, IF item.entry \in Registry THEN "check" ELSE "open", item.id)
    BY <1>2 DEF Startup!Enable
  <2>2. item.id \in Ids
    BY <2>1 DEF EntriesInv, Startup!TypeOK, Startup!Item
  <2> QED
    BY <2>1, <2>2, StartKeeps DEF Startup!Steps
<1>3. CASE Startup!Refresh
  <2>1. listed' = Startup!Listing' /\ UNCHANGED <<active, backups, op, outcome, current, excused, overwritten>> /\ ~Startup!Running
    BY <1>3 DEF Startup!Refresh, Startup!Listing
  <2>2. DiskTyped' /\ BackupInv' /\ ShownInv'
    BY <2>1 DEF EntriesInv, Startup!TypeOK, DiskTyped, BackupRow, BackupInv, ShownInv, Startup!Running
  <2>3. ListInv' /\ listed' \subseteq Startup!Item
    BY <2>1, <2>2, ListingIsTrue
  <2>4. Startup!TypeOK'
    BY <2>1, <2>3 DEF EntriesInv, Startup!TypeOK
  <2>5. OpInv' /\ KeptInv' /\ AgreeInv'
    BY <2>1 DEF OpInv, KeptInv, AgreeInv, Startup!Running
  <2> QED
    BY <2>2, <2>3, <2>4, <2>5 DEF EntriesInv
<1> QED
  BY <1>1, <1>2, <1>3

LEMMA CrashKeeps ==
    ASSUME Startup!StartupConstants, EntriesInv, Startup!Crash
    PROVE  EntriesInv'
<1>1. /\ Startup!Running /\ op' = Startup!Idle /\ outcome' = "crash" /\ UNCHANGED <<active, backups, current, overwritten>>
      /\ listed' = Startup!Listing'
      /\ excused \subseteq excused' /\ excused' \subseteq excused \cup {Startup!Entry}
      /\ op.step \in {"publish", "checkMoveBack", "moveBack", "preserve"} => Startup!Entry \in excused'
  BY DEF Startup!Crash, Startup!Listing
<1>2. DiskTyped' /\ BackupInv'
  BY <1>1 DEF EntriesInv, Startup!TypeOK, DiskTyped, BackupRow, BackupInv
<1>3. ListInv' /\ listed' \subseteq Startup!Item
  BY <1>1, <1>2, ListingIsTrue
<1>4. Startup!TypeOK'
  <2>1. excused' \subseteq Entries
    BY <1>1, BeforeCall DEF EntriesInv, Startup!TypeOK
  <2> QED
    BY <1>1, <1>3, <2>1 DEF EntriesInv, Startup!TypeOK, Startup!Outcomes
<1>5. OpInv' /\ KeptInv' /\ AgreeInv'
  BY <1>1 DEF OpInv, KeptInv, AgreeInv, Startup!Running
<1>6. ShownInv'
  <2> SUFFICES ASSUME NEW e \in Entries \ (excused' \cup OtherVolume), NEW i \in Ids,
                      backups[i].entry = e, backups[i].content # Absent, backups[i].meta # "published"
               PROVE  FALSE
    BY <1>1 DEF ShownInv
  <2>1. op.id = i /\ op.step \in {"publish", "checkMoveBack", "moveBack", "preserve"}
    BY <1>1 DEF EntriesInv, ShownInv
  <2>2. Startup!Entry = e
    BY <1>1, <2>1, BeforeCall DEF Ready, OwnBackup, Startup!Backup
  <2> QED
    BY <1>1, <2>1, <2>2
<1> QED
  BY <1>2, <1>3, <1>4, <1>5, <1>6 DEF EntriesInv

LEMMA TouchFacts ==
    ASSUME Startup!StartupConstants, EntriesInv, NEW e \in Entries, Startup!Touch(e)
    PROVE  /\ ~Startup!Running => op' = op
           /\ Startup!Running => /\ op' \in Startup!Operation /\ op'.step = op.step /\ op'.item = op.item /\ op'.id = op.id
                                 /\ op'.before = op.before /\ op'.kept = op.kept
                                 /\ op'.touched # TRUE => op.touched # TRUE /\ Startup!Entry # e
<1>1. CASE ~Startup!Running
  BY <1>1 DEF Startup!Touch
<1>2. CASE Startup!Running
  <2>1. op' = [op EXCEPT !.touched = op.touched \/ Startup!Entry = e] /\ op \in Startup!Operation
    BY <1>2, BeforeCall DEF Startup!Touch
  <2>2. op.touched \in BOOLEAN
    BY <2>1, Zenon DEF Startup!Operation
  <2>3. (op.touched \/ Startup!Entry = e) \in BOOLEAN
    BY <2>2, Zenon
  <2>4. (op.touched = TRUE \/ Startup!Entry = e) => (op.touched \/ Startup!Entry = e) = TRUE
    BY <2>2, Zenon
  <2>5. op' = [op EXCEPT !.touched = TRUE] \/ op' = [op EXCEPT !.touched = FALSE]
    BY <2>1, <2>3, Zenon
  <2>6. op'.touched = (op.touched \/ Startup!Entry = e)
    BY <2>1 DEF Startup!Operation
  <2>7. op'.touched # TRUE => op.touched # TRUE /\ Startup!Entry # e
    BY <2>4, <2>6, Zenon
  <2> QED
    BY <1>2, <2>1, <2>5, <2>7 DEF Startup!Operation
<1> QED
  BY <1>1, <1>2

\* Another program writes an entry.
LEMMA WriteKeeps ==
    ASSUME Startup!StartupConstants, EntriesInv, NEW e \in Updated, NEW v \in Versions \cup {Absent},
           active' = [active EXCEPT ![e] = v], current' = [current EXCEPT ![e] = v], overwritten' = overwritten \ {e}, Startup!Touch(e),
           UNCHANGED <<backups, listed, outcome, excused>>
    PROVE  EntriesInv'
<1>1. e \in Entries /\ v \in Startup!Content
  BY DEF Startup!StartupConstants, Startup!Content
<1>2. active \in [Entries -> Startup!Content]
  BY DEF EntriesInv, Startup!TypeOK
<1>3. active' \in [Entries -> Startup!Content] /\ active'[e] = v /\ \A x \in Entries \ {e} : active'[x] = active[x]
  BY <1>1, <1>2
<1>4. Startup!Running' <=> Startup!Running
  BY <1>1, TouchFacts DEF Startup!Running, Startup!Idle, Startup!Operation, Startup!Steps
<1>5. Startup!TypeOK'
  <2>1. current' \in [Entries -> Versions \cup {Absent}]
    BY <1>1 DEF EntriesInv, Startup!TypeOK
  <2>2. op' \in Startup!Operation \cup {Startup!Idle}
    BY <1>1, TouchFacts DEF EntriesInv, Startup!TypeOK, Startup!Running
  <2> QED
    BY <1>3, <2>1, <2>2 DEF EntriesInv, Startup!TypeOK
<1>6. ListInv' /\ BackupInv'
  <2>1. BackupInv'
    BY DEF EntriesInv, BackupInv
  <2>2. listed \subseteq Startup!Item
    BY DEF EntriesInv, Startup!TypeOK
  <2> QED
    BY <1>3, <2>1, <2>2 DEF EntriesInv, ListInv, Startup!Item
<1>7. CASE ~Startup!Running
  BY <1>1, <1>4, <1>5, <1>6, <1>7, TouchFacts DEF EntriesInv, OpInv, KeptInv, AgreeInv, ShownInv
<1>8. CASE Startup!Running
  <2>1. /\ op'.step = op.step /\ op'.item = op.item /\ op'.id = op.id /\ op'.before = op.before /\ op'.kept = op.kept
        /\ op'.touched # TRUE => op.touched # TRUE /\ Startup!Entry # e
    BY <1>1, <1>8, TouchFacts
  <2>2. Startup!Entry' = Startup!Entry /\ Startup!Entry \in Entries /\ (Startup!Enabling' <=> Startup!Enabling) /\ Startup!Backup' = Startup!Backup
    BY <1>8, <2>1, BeforeCall DEF Startup!Entry, Startup!Enabling, Startup!Backup
  <2>3. \/ active'[Startup!Entry] = active[Startup!Entry] /\ current'[Startup!Entry] = current[Startup!Entry]
        \/ active'[Startup!Entry] = current'[Startup!Entry]
    BY <1>1, <1>3, <2>2 DEF EntriesInv, Startup!TypeOK
  <2>4. OpInv'
    <3>1. Ready(op.step, active[Startup!Entry], Startup!Backup)
      BY <1>8, BeforeCall
    <3>2. Family(op.step)' /\ Unlisted(op.step)' /\ OwnBackup(op.step, Startup!Backup)'
      BY <2>1, <2>2, <3>1 DEF Ready, Family, Unlisted, OwnBackup
    <3>3. OwnValue(op.step, active[Startup!Entry])'
      <4>1. CASE op'.touched = TRUE
        BY <2>1, <2>2, <2>3, <3>1, <4>1 DEF Ready, OwnValue
      <4>2. CASE op'.touched # TRUE
        <5>1. active'[Startup!Entry] = active[Startup!Entry] /\ op.touched # TRUE
          BY <1>3, <2>1, <2>2, <4>2
        <5> QED
          BY <2>1, <2>2, <3>1, <4>2, <5>1 DEF Ready, OwnValue
      <4> QED
        BY <4>1, <4>2
    <3> QED
      BY <1>8, <2>1, <2>2, <3>2, <3>3, BeforeCall DEF OpInv, Startup!Entry, Startup!Enabling
  <2>5. KeptInv'
    <3>1. Startup!Published(Startup!Entry)' = Startup!Published(Startup!Entry)
      BY <2>2 DEF Startup!Published
    <3> QED
      BY <1>8, <2>1, <2>2, <3>1 DEF EntriesInv, KeptInv
  <2>6. AgreeInv'
    <3> SUFFICES ASSUME Undisturbed' PROVE Agrees(op.step, active[Startup!Entry], Startup!Backup)'
      BY <2>1 DEF AgreeInv
    <3>1. Undisturbed /\ active'[Startup!Entry] = active[Startup!Entry]
      BY <1>3, <2>1, <2>2 DEF Undisturbed
    <3>2. Agrees(op.step, active[Startup!Entry], Startup!Backup)
      BY <1>8, <3>1, BeforeCall DEF Ready
    <3> QED
      BY <2>1, <2>2, <3>1, <3>2 DEF Agrees
  <2>7. ShownInv'
    BY <1>4, <1>8, <2>1 DEF EntriesInv, ShownInv
  <2> QED
    BY <1>5, <1>6, <2>4, <2>5, <2>6, <2>7 DEF EntriesInv
<1> QED
  BY <1>7, <1>8

LEMMA OthersKeep ==
    ASSUME Startup!StartupConstants, EntriesInv, Startup!Others
    PROVE  EntriesInv'
<1>1. ASSUME NEW e \in Entries, Startup!Unregister(e) PROVE EntriesInv'
  BY <1>1, WriteKeeps DEF Startup!Unregister
<1>2. ASSUME NEW e \in Entries, NEW v \in Versions, Startup!Register(e, v) PROVE EntriesInv'
  BY <1>2, WriteKeeps DEF Startup!Register
<1> QED
  BY <1>1, <1>2, CrashKeeps DEF Startup!Others

LEMMA StutterKeeps ==
    ASSUME EntriesInv, UNCHANGED Startup!vars
    PROVE  EntriesInv'
<1>1. UNCHANGED <<active, backups, listed, op, outcome, current, excused, overwritten>>
  BY DEF Startup!vars
<1>2. Startup!TypeOK' /\ ListInv' /\ BackupInv' /\ ShownInv'
  BY <1>1 DEF EntriesInv, Startup!TypeOK, ListInv, BackupInv, ShownInv, Startup!Running
<1>3. KeptInv' /\ AgreeInv'
  BY <1>1 DEF EntriesInv, KeptInv, AgreeInv, Startup!Running, Startup!Published, Undisturbed, Agrees, Startup!Entry, Startup!Enabling, Startup!Backup
<1>4. OpInv'
  BY <1>1 DEF EntriesInv, OpInv, Startup!Running, Family, Unlisted, OwnBackup, OwnValue, Startup!Entry, Startup!Enabling, Startup!Backup
<1> QED
  BY <1>2, <1>3, <1>4 DEF EntriesInv

LEMMA EntriesInit == ASSUME Startup!StartupConstants, Startup!Init PROVE EntriesInv
<1>1. op = Startup!Idle /\ outcome = "none" /\ excused = {} /\ overwritten = {} /\ current = active
      /\ active \in [Entries -> Versions \cup {Absent}]
      /\ backups = [i \in Ids |-> [entry |-> None, content |-> Absent, meta |-> "unused"]]
      /\ listed = {[entry |-> e, content |-> active[e], id |-> None] : e \in {x \in Entries : active[x] # Absent}}
  BY DEF Startup!Init, Startup!Listing
<1>2. ~Startup!Running /\ BackupInv /\ ShownInv
  BY <1>1 DEF Startup!Running, BackupInv, ShownInv
<1>3. listed \subseteq Startup!Item /\ ListInv
  BY <1>1 DEF Startup!Item, Startup!Content, ListInv
<1>4. Startup!TypeOK
  BY <1>1, <1>3 DEF Startup!TypeOK, Startup!Content, Startup!Metadata, Startup!Outcomes
<1> QED
  BY <1>2, <1>3, <1>4 DEF EntriesInv, OpInv, KeptInv, AgreeInv

LEMMA EntriesInductive == ASSUME Startup!StartupConstants PROVE Startup!Spec => []EntriesInv
<1>1. Startup!Init => EntriesInv
  BY EntriesInit
<1>2. EntriesInv /\ [Startup!Next]_(Startup!vars) => EntriesInv'
  BY UserKeeps, CallKeeps, OthersKeep, StutterKeeps DEF Startup!Next
<1> QED
  BY <1>1, <1>2, PTL DEF Startup!Spec

-----------------------------------------------------------------------------
(* Theorems. *)

\* Every variable of the startup manager keeps its type.
THEOREM StartupIsTyped == ASSUME Startup!StartupConstants PROVE Startup!Spec => []Startup!TypeOK
<1>1. EntriesInv => Startup!TypeOK
  BY DEF EntriesInv
<1> QED
  BY <1>1, EntriesInductive, PTL

\* A version of an entry, where it is.
Somewhere(e, c) ==
    \/ active[e] = c
    \/ \E i \in Ids : backups[i].entry = e /\ backups[i].content = c

\* A backup made for a disabling that goes no further is a copy: without it the latest version is
\* where it was.
CopySteps == {"create", "fill", "delete", "unbackup"}
Elsewhere ==
    Startup!Running /\ op.step \in CopySteps /\ Startup!Entry \notin overwritten /\ current[Startup!Entry] # Absent =>
        \/ active[Startup!Entry] = current[Startup!Entry]
        \/ \E i \in Ids \ {op.id} : backups[i].entry = Startup!Entry /\ backups[i].content = current[Startup!Entry]

LEMMA CallDestroysNothing ==
    ASSUME Startup!StartupConstants, EntriesInv, Startup!NothingDestroyed, Elsewhere, Startup!Call
    PROVE  Startup!NothingDestroyed'
<1>1. PICK a \in Startup!Content, b \in BackupRow : Effect(a, b)
  BY CallEffect DEF Effective
<1>2. Startup!Running /\ Changes(a, b) /\ Keeps(a, b) /\ (b = Startup!Backup \/ b.entry = Startup!Entry)
  BY <1>1 DEF Effect, Continues, Ends
<1> SUFFICES ASSUME NEW e \in Entries \ overwritten', current[e] # Absent
             PROVE  Somewhere(e, current[e])'
  BY <1>2 DEF Startup!NothingDestroyed, Somewhere, Changes
<1>3. e \notin overwritten /\ current[e] \in Versions /\ Somewhere(e, current[e])
  BY <1>2 DEF EntriesInv, Startup!TypeOK, Startup!NothingDestroyed, Somewhere, Changes
<1>4. Startup!Entry \in Entries /\ op.id \in Ids /\ Startup!Backup.entry \in {Startup!Entry, None} /\ None \notin Entries
  BY <1>2, BeforeCall DEF Ready, OwnBackup, Startup!StartupConstants
<1>5. /\ active'[Startup!Entry] = a /\ \A x \in Entries \ {Startup!Entry} : active'[x] = active[x]
      /\ backups'[op.id] = b /\ \A i \in Ids \ {op.id} : backups'[i] = backups[i]
      /\ current' = current
  BY <1>2, Disk DEF Changes
<1>6. CASE \E i \in Ids \ {op.id} : backups[i].entry = e /\ backups[i].content = current[e]
  BY <1>5, <1>6 DEF Somewhere
<1>7. CASE e # Startup!Entry
  BY <1>3, <1>4, <1>5, <1>6, <1>7 DEF Somewhere, Startup!Backup
<1>8. CASE e = Startup!Entry /\ op.step # "unbackup"
           /\ (active[Startup!Entry] = current[e] \/ (Startup!Backup.entry = Startup!Entry /\ Startup!Backup.content = current[e]))
  <2>1. a = current[e] \/ (b.entry = Startup!Entry /\ b.content = current[e])
    BY <1>2, <1>3, <1>8 DEF Keeps
  <2> QED
    BY <1>4, <1>5, <1>8, <2>1 DEF Somewhere
<1>9. CASE e = Startup!Entry /\ op.step = "unbackup"
  <2>1. Startup!DeleteBackup
    BY <1>9 DEF Startup!Call, Startup!CreateBackup, Startup!FillBackup, Startup!DeleteValue, Startup!WritePending,
                Startup!MoveAway, Startup!Publish, Startup!CheckMoveBack, Startup!MoveBack, Startup!Preserve,
                Startup!Cleanup, Startup!CheckValue, Startup!WriteValue, Startup!RemoveBackup, Startup!UnwriteValue,
                Startup!OpenBackup, Startup!CheckRestore, Startup!Restore, Startup!RemoveMetadata, Startup!TakeBack,
                Startup!Step, Startup!At
  <2>2. active' = active
    BY <2>1 DEF Startup!DeleteBackup
  <2>3. active[e] = current[e] \/ \E i \in Ids \ {op.id} : backups[i].entry = e /\ backups[i].content = current[e]
    BY <1>2, <1>3, <1>9 DEF Elsewhere, CopySteps
  <2> QED
    BY <1>5, <1>6, <2>2, <2>3 DEF Somewhere
<1> QED
  BY <1>3, <1>6, <1>7, <1>8, <1>9 DEF Somewhere, Startup!Backup

\* Only the calls that make the copy lead from one of its steps to the next.
LEMMA CallKeepsElsewhere ==
    ASSUME Startup!StartupConstants, EntriesInv, Elsewhere, Startup!Call
    PROVE  Elsewhere'
<1>1. Startup!Running /\ op \in Startup!Operation
  <2>1. Startup!Running
    BY CallEffect DEF Effective, Effect
  <2> QED
    BY <2>1, BeforeCall
<1>2. ASSUME op'.step \in CopySteps, Startup!Running'
      PROVE  Startup!CreateBackup \/ Startup!FillBackup \/ Startup!DeleteValue
  <2>1. ASSUME NEW s \in Startup!Steps \ CopySteps PROVE op' # [op EXCEPT !.step = s]
    <3>1. [op EXCEPT !.step = s].step = s
      BY <1>1 DEF Startup!Operation
    <3> QED
      BY <1>2, <3>1
  <2> QED
    BY <1>2, <2>1
       DEF Startup!Call, Startup!DeleteBackup, Startup!WritePending,
           Startup!MoveAway, Startup!Publish, Startup!CheckMoveBack, Startup!MoveBack, Startup!Preserve,
           Startup!Cleanup, Startup!CheckValue, Startup!WriteValue, Startup!RemoveBackup, Startup!UnwriteValue,
           Startup!OpenBackup, Startup!CheckRestore, Startup!Restore, Startup!RemoveMetadata, Startup!TakeBack,
           Startup!Goto, Startup!End, Startup!Running, Startup!Steps, CopySteps
<1>3. ASSUME Startup!Running', Startup!CreateBackup \/ Startup!FillBackup \/ Startup!DeleteValue
      PROVE  /\ op.step \in CopySteps /\ op'.item = op.item /\ op'.id = op.id
             /\ UNCHANGED <<active, current, overwritten>>
             /\ \A i \in Ids \ {op.id} : backups'[i] = backups[i]
  <2>1. backups \in [Ids -> BackupRow]
    BY DEF EntriesInv, Startup!TypeOK, BackupRow
  <2>2. op.step \in CopySteps /\ UNCHANGED current
    BY <1>3 DEF Startup!CreateBackup, Startup!FillBackup, Startup!DeleteValue, Startup!Step, Startup!At, CopySteps
  <2>3. UNCHANGED <<active, overwritten>>
    BY <1>3 DEF Startup!CreateBackup, Startup!FillBackup, Startup!DeleteValue, Startup!Step, Startup!End, Startup!Running
  <2>4. \A i \in Ids \ {op.id} : backups'[i] = backups[i]
    BY <1>3, <2>1 DEF Startup!CreateBackup, Startup!FillBackup, Startup!DeleteValue, Startup!SetBackup
  <2>5. \E s \in Startup!Steps : op' = [op EXCEPT !.step = s]
    BY <1>3 DEF Startup!CreateBackup, Startup!FillBackup, Startup!DeleteValue, Startup!Goto, Startup!End, Startup!Running, Startup!Steps
  <2> QED
    BY <1>1, <2>2, <2>3, <2>4, <2>5 DEF Startup!Operation
<1>4. SUFFICES ASSUME op'.step \in CopySteps, Startup!Running' PROVE Elsewhere'
  BY DEF Elsewhere
<1>5. Startup!Entry' = Startup!Entry
  BY <1>2, <1>3, <1>4 DEF Startup!Entry
<1> QED
  BY <1>1, <1>2, <1>3, <1>4, <1>5 DEF Elsewhere

LEMMA WriteDestroysNothing ==
    ASSUME Startup!StartupConstants, EntriesInv, Startup!NothingDestroyed, Elsewhere, NEW e \in Updated, NEW v \in Versions \cup {Absent},
           active' = [active EXCEPT ![e] = v], current' = [current EXCEPT ![e] = v], overwritten' = overwritten \ {e},
           Startup!Touch(e), backups' = backups
    PROVE  Startup!NothingDestroyed' /\ Elsewhere'
<1>1. e \in Entries /\ active \in [Entries -> Startup!Content] /\ current \in [Entries -> Versions \cup {Absent}]
  BY DEF Startup!StartupConstants, EntriesInv, Startup!TypeOK
<1>2. \A x \in Entries : x # e => active'[x] = active[x] /\ current'[x] = current[x]
  BY <1>1
<1>3. active'[e] = current'[e]
  BY <1>1
<1>4. Startup!NothingDestroyed'
  BY <1>2, <1>3 DEF Startup!NothingDestroyed
<1>5. Elsewhere'
  <2>1. CASE ~Startup!Running
    BY <1>1, <2>1, TouchFacts DEF Elsewhere, Startup!Running
  <2>2. CASE Startup!Running
    <3>1. op'.step = op.step /\ op'.item = op.item /\ op'.id = op.id /\ Startup!Entry \in Entries
      BY <1>1, <2>2, TouchFacts, BeforeCall
    <3>2. Startup!Entry' = Startup!Entry
      BY <3>1 DEF Startup!Entry
    <3> QED
      BY <1>2, <1>3, <2>2, <3>1, <3>2 DEF Elsewhere
  <2> QED
    BY <2>1, <2>2
<1> QED
  BY <1>4, <1>5

LEMMA StepDestroysNothing ==
    ASSUME Startup!StartupConstants, EntriesInv, Startup!NothingDestroyed, Elsewhere, [Startup!Next]_(Startup!vars)
    PROVE  Startup!NothingDestroyed' /\ Elsewhere'
<1>1. CASE Startup!Refresh \/ Startup!Crash \/ UNCHANGED Startup!vars
  <2>1. UNCHANGED <<active, backups, current, overwritten>> /\ (op' = op \/ op' = Startup!Idle)
    BY <1>1 DEF Startup!Refresh, Startup!Crash, Startup!vars
  <2>2. Startup!NothingDestroyed'
    BY <2>1 DEF Startup!NothingDestroyed
  <2>3. Elsewhere'
    BY <2>1 DEF Elsewhere, Startup!Running, Startup!Entry
  <2> QED
    BY <2>2, <2>3
<1>2. ASSUME NEW item \in listed, NEW s \in Startup!Steps, NEW i \in Ids, Startup!Start(item, s, i),
             s \in CopySteps => backups[i].entry = None
      PROVE  Startup!NothingDestroyed' /\ Elsewhere'
  <2>1. /\ UNCHANGED <<active, backups, current, overwritten>>
        /\ op'.step = s /\ op'.item = item /\ op'.id = i
    BY <1>2 DEF Startup!Start
  <2>2. Startup!NothingDestroyed'
    BY <2>1 DEF Startup!NothingDestroyed
  <2>3. Startup!Entry' = item.entry /\ item.entry \in Entries /\ None \notin Entries
    BY <2>1 DEF Startup!Entry, EntriesInv, Startup!TypeOK, Startup!Item, Startup!StartupConstants
  <2>4. Elsewhere'
    BY <1>2, <2>1, <2>3 DEF Elsewhere, Startup!NothingDestroyed
  <2> QED
    BY <2>2, <2>4
<1>3. CASE Startup!Disable
  <2>1. PICK item \in listed, i \in Ids :
               /\ backups[i].entry = None
               /\ Startup!Start(item, IF item.entry \in Registry THEN "create" ELSE "pending", i)
    BY <1>3 DEF Startup!Disable
  <2> QED
    BY <1>2, <2>1 DEF Startup!Steps
<1>4. CASE Startup!Enable
  <2>1. PICK item \in listed :
               item.id # None /\ Startup!Start(item, IF item.entry \in Registry THEN "check" ELSE "open", item.id)
    BY <1>4 DEF Startup!Enable
  <2>2. item.id \in Ids
    BY <2>1 DEF EntriesInv, Startup!TypeOK, Startup!Item
  <2> QED
    BY <1>2, <2>1, <2>2 DEF Startup!Steps, CopySteps
<1>5. ASSUME NEW e \in Entries, Startup!Unregister(e) PROVE Startup!NothingDestroyed' /\ Elsewhere'
  BY <1>5, WriteDestroysNothing DEF Startup!Unregister
<1>6. ASSUME NEW e \in Entries, NEW v \in Versions, Startup!Register(e, v) PROVE Startup!NothingDestroyed' /\ Elsewhere'
  BY <1>6, WriteDestroysNothing DEF Startup!Register
<1> QED
  BY <1>1, <1>3, <1>4, <1>5, <1>6, CallDestroysNothing, CallKeepsElsewhere DEF Startup!Next, Startup!Others

LEMMA ShownIsRecoverable == ASSUME Startup!StartupConstants, EntriesInv, Startup!NothingDestroyed PROVE Startup!Recoverable
<1> SUFFICES ASSUME NEW e \in Entries \ (excused \cup OtherVolume \cup overwritten), current[e] # Absent, ~(Startup!Running /\ Startup!Entry = e),
                    active[e] # current[e]
             PROVE  \E i \in Startup!Published(e) : backups[i].content = current[e]
  BY DEF Startup!Recoverable, Startup!RecoverableBut
<1>1. PICK i \in Ids : backups[i].entry = e /\ backups[i].content = current[e]
  BY DEF Startup!NothingDestroyed
<1>2. CASE backups[i].meta # "published"
  <2>1. Startup!Running /\ op.id = i /\ op.step \in {"publish", "checkMoveBack", "moveBack", "preserve"}
    BY <1>1, <1>2 DEF EntriesInv, ShownInv
  <2>2. Startup!Entry = e
    BY <1>1, <2>1, BeforeCall DEF Ready, OwnBackup, Startup!Backup
  <2> QED
    BY <2>1, <2>2
<1> QED
  BY <1>1, <1>2 DEF Startup!Published

\* A registered program is never destroyed, and outside an operation the window can enable it again:
\* whichever calls and rollbacks fail, whatever other programs register meanwhile, and wherever the
\* process ends.  The one exception is a version written over after the look that preceded the call;
\* startup_stale_backup shows it for a Run value.
THEOREM StartupIsRecoverable ==
    ASSUME Startup!StartupConstants
    PROVE  Startup!Spec => [](Startup!NothingDestroyed /\ Startup!Recoverable)
<1>1. Startup!Init => Startup!NothingDestroyed /\ Elsewhere
  BY DEF Startup!Init, Startup!NothingDestroyed, Elsewhere, Startup!Running
<1>2. EntriesInv /\ Startup!NothingDestroyed /\ Elsewhere /\ [Startup!Next]_(Startup!vars) =>
          Startup!NothingDestroyed' /\ Elsewhere'
  BY StepDestroysNothing
<1>3. EntriesInv /\ Startup!NothingDestroyed => Startup!Recoverable
  BY ShownIsRecoverable
<1> QED
  BY <1>1, <1>2, <1>3, EntriesInductive, PTL DEF Startup!Spec

LEMMA CallIsReported ==
    ASSUME Startup!StartupConstants, EntriesInv, Startup!Call
    PROVE  Startup!AllOrNothingStep
<1> SUFFICES ASSUME NEW e \in Entries \ OtherVolume, Startup!Running, Startup!Entry = e, op' = Startup!Idle, ~op.touched
             PROVE  /\ outcome' = "success" /\ Startup!Enabling =>
                          active'[e] # Absent /\ op.before = Absent /\ Startup!Published(e)' = op.kept \ {op.id}
                    /\ outcome' = "success" /\ ~Startup!Enabling =>
                          active'[e] = Absent /\ Startup!Published(e)' = op.kept \cup {op.id}
                    /\ outcome' = "error" => active'[e] = op.before /\ Startup!Published(e)' = op.kept
  BY Zenon DEF Startup!AllOrNothingStep
<1>1. PICK a \in Startup!Content, b \in BackupRow : Effect(a, b)
  BY CallEffect DEF Effective
<1>2. op \in Startup!Operation /\ op.step # "idle"
  BY BeforeCall DEF Startup!Steps
<1>3. op.touched # TRUE
  BY Zenon
<1>4. PICK how \in Startup!Outcomes : Ends(a, b, how) /\ Tells(a, b, how) /\ Whole(b)
  <2>1. ASSUME NEW s \in Startup!Steps PROVE ~Continues(a, b, s)
    <3>1. [op EXCEPT !.step = s].step = s
      BY <1>2 DEF Startup!Operation
    <3> QED
      BY <3>1 DEF Continues, Startup!Idle, Startup!Steps
  <2> QED
    BY <1>1, <2>1 DEF Effect
<1>5. /\ active'[e] = a /\ backups'[op.id] = b /\ \A i \in Ids \ {op.id} : backups'[i] = backups[i]
      /\ outcome' = how /\ op.id \in Ids
  BY <1>4, Disk, BeforeCall DEF Ends
<1>6. /\ op.kept \subseteq Ids
      /\ \A i \in Ids \ {op.id} : i \in op.kept <=> i \in Startup!Published(e)'
      /\ op.id \in op.kept <=> Startup!Enabling
  BY <1>2, <1>5 DEF EntriesInv, KeptInv, Startup!Operation, Startup!Published
<1>7. op.id \in Startup!Published(e)' <=> b.meta = "published"
  BY <1>4, <1>5 DEF Startup!Published, Whole
<1>8. Startup!Published(e)' \subseteq Ids
  BY DEF Startup!Published
<1>9. Undisturbed
  BY <1>3 DEF Undisturbed
<1> QED
  BY <1>4, <1>5, <1>6, <1>7, <1>8, <1>9 DEF Tells

LEMMA OthersReport ==
    ASSUME Startup!StartupConstants, EntriesInv, Startup!Disable \/ Startup!Enable \/ Startup!Refresh \/ Startup!Others \/ UNCHANGED Startup!vars
    PROVE  Startup!AllOrNothingStep
<1>1. CASE ~Startup!Running \/ op' # Startup!Idle
  BY <1>1 DEF Startup!AllOrNothingStep
<1>2. CASE Startup!Crash
  <2>1. outcome' = "crash"
    BY <1>2 DEF Startup!Crash
  <2> QED
    BY <2>1 DEF Startup!AllOrNothingStep
<1>3. Startup!Disable \/ Startup!Enable \/ Startup!Refresh => ~Startup!Running
  BY DEF Startup!Disable, Startup!Enable, Startup!Start, Startup!Refresh
<1>4. ASSUME NEW e \in Entries, Startup!Touch(e), Startup!Running PROVE op' # Startup!Idle
  <2>1. op' \in Startup!Operation
    BY <1>4, TouchFacts
  <2>2. op'.step # "idle"
    BY <2>1 DEF Startup!Operation, Startup!Steps
  <2> QED
    BY <2>2 DEF Startup!Idle
<1>5. UNCHANGED Startup!vars /\ Startup!Running => op' # Startup!Idle
  BY DEF Startup!vars, Startup!Running
<1> QED
  BY <1>1, <1>2, <1>3, <1>4, <1>5 DEF Startup!Others, Startup!Unregister, Startup!Register

\* An operation that reports success has moved the entry, one that reports an ordinary error has
\* left it and its backups as they were, unless another program wrote the entry meanwhile
\* (the rollbacks of service.py:491-502, 596-615 and 636-646).
THEOREM StartupIsReported == ASSUME Startup!StartupConstants PROVE Startup!Spec => Startup!AllOrNothing
<1>1. EntriesInv /\ [Startup!Next]_(Startup!vars) => [Startup!AllOrNothingStep]_(Startup!vars)
  BY CallIsReported, OthersReport DEF Startup!Next
<1> QED
  BY <1>1, EntriesInductive, PTL DEF Startup!Spec, Startup!AllOrNothing

-----------------------------------------------------------------------------
(* The startup manager as the open window. *)

LEMMA StartupTypes == Startup!StartupConstants
BY ToolWindowsAssumption

StartupInv == EntriesInv /\ Startup!NothingDestroyed /\ Elsewhere

LEMMA StartupInit == Startup!Init => StartupInv
<1> SUFFICES ASSUME Startup!Init PROVE StartupInv
  OBVIOUS
<1>1. EntriesInv
  BY StartupTypes, EntriesInit
<1>2. Startup!NothingDestroyed /\ Elsewhere
  BY DEF Startup!Init, Startup!NothingDestroyed, Elsewhere, Startup!Running
<1> QED
  BY <1>1, <1>2 DEF StartupInv

LEMMA StartupIsRight ==
    ASSUME StartupInv
    PROVE  Startup!NothingDestroyed /\ Startup!Recoverable
BY StartupTypes, ShownIsRecoverable DEF StartupInv

LEMMA StartupStep ==
    ASSUME StartupInv, [Startup!Next]_(Startup!vars)
    PROVE  StartupInv'
<1>1. EntriesInv'
  BY StartupTypes, UserKeeps, CallKeeps, OthersKeep, StutterKeeps DEF StartupInv, Startup!Next
<1>2. Startup!NothingDestroyed' /\ Elsewhere'
  BY StartupTypes, StepDestroysNothing DEF StartupInv
<1> QED
  BY <1>1, <1>2 DEF StartupInv

LEMMA StartupKeeps ==
    ASSUME StartupInv, [Startup!Next]_(Startup!vars)
    PROVE  Startup!AllOrNothingStep
BY StartupTypes, CallIsReported, OthersReport DEF StartupInv, Startup!Next

-----------------------------------------------------------------------------
(* The event viewer. *)

LEMMA ViewerLibrary ==
    /\ \A S : Viewer!IsFiniteSet(S) <=> IsFiniteSet(S)
    /\ \A S : Viewer!Cardinality(S) = Cardinality(S)
    /\ \A S : Viewer!Elements(S) = Elements(S)
    /\ \A S : Viewer!Listed(S) = Listed(S)
<1>1. \A S : Viewer!Cardinality(S) = Cardinality(S)
  BY DEF Viewer!Cardinality, Cardinality
<1>2. \A S : Viewer!Elements(S) = Elements(S)
  BY DEF Viewer!Elements, Elements
<1>3. \A S : Viewer!IsFiniteSet(S) <=> IsFiniteSet(S)
  BY DEF Viewer!IsFiniteSet, IsFiniteSet
<1> QED
  BY <1>1, <1>2, <1>3, Zenon DEF Viewer!Listed, Listed

ViewerFields ==
    {"step", "query", "left", "read", "warned", "complete", "cancelled", "cancelButton", "buttons", "reads",
     "shown", "risk", "visible", "rows", "exported", "asked", "partial"}

\* What the logs that have been read to the end hold for a query.
Found(q, logs) == UNION {Viewer!Matching(Viewer!build_event_query(q.days, q.info), log, q.n) : log \in logs}

\* A worker accounts for every log it was given.
ViewerReading ==
    /\ task.query.n \in Nat
    /\ task.left \in Seq(Logs)
    /\ task.read = Found(task.query, task.complete)
    /\ task.complete \cup task.warned \cup Elements(task.left) = task.query.logs
    /\ task.step = "reading" => task.left # <<>>
    /\ task.step = "answer" => task.cancelled \/ task.left = <<>>

\* The riskiest come first.
ByRisk(list) ==
    \A i, j \in 1..Len(list) : i < j => Viewer!classify_risk(list[j]) <= Viewer!classify_risk(list[i])

ViewerInv ==
    /\ DOMAIN task = ViewerFields
    /\ Viewer!EveryChildIsReaped
    /\ task.shown \in Seq(Events) /\ ByRisk(task.shown)
    /\ task.step \in {"idle", "next", "reading", "answer"}
    /\ task.step # "idle" => ~task.buttons /\ task.exported = None /\ ViewerReading
    /\ Viewer!ShownAreTheRiskiest

LEMMA ToSetTail ==
    ASSUME NEW S, NEW s \in Seq(S), s # <<>>
    PROVE  Head(s) \in S /\ Tail(s) \in Seq(S) /\ Elements(s) = {Head(s)} \cup Elements(Tail(s))
<1>1. Head(s) \in S /\ Tail(s) \in Seq(S) /\ Len(s) \in Nat \ {0} /\ Head(s) = s[1]
  OBVIOUS
<1>2. DOMAIN s = 1..Len(s) /\ DOMAIN Tail(s) = 1..Len(s) - 1 /\ \A i \in 1..Len(s) - 1 : Tail(s)[i] = s[i + 1]
  BY <1>1
<1>3. \A i \in 1..Len(s) : i = 1 \/ (i - 1 \in 1..Len(s) - 1 /\ s[i] = Tail(s)[i - 1])
  BY <1>1, <1>2
<1>4. \A i \in 1..Len(s) - 1 : i + 1 \in 1..Len(s)
  BY <1>1
<1>5. \A x \in Elements(s) : x = Head(s) \/ x \in Elements(Tail(s))
  <2> SUFFICES ASSUME NEW i \in 1..Len(s) PROVE s[i] = Head(s) \/ s[i] \in Elements(Tail(s))
    BY <1>2 DEF Elements
  <2> QED
    BY <1>1, <1>2, <1>3 DEF Elements
<1>6. Head(s) \in Elements(s) /\ \A x \in Elements(Tail(s)) : x \in Elements(s)
  BY <1>1, <1>2, <1>4 DEF Elements
<1> QED
  BY <1>1, <1>5, <1>6

LEMMA RiskIsANumber == \A e : Viewer!classify_risk(e) \in 0..3
  BY DEF Viewer!classify_risk, Viewer!Normal, Viewer!Bajo, Viewer!Medio, Viewer!Alto

LEMMA ViewerOrders ==
    ASSUME Viewer!ViewerConstants, NEW S \in SUBSET Events
    PROVE  IsFiniteSet(S) /\ StrictOrder(Viewer!Newer, S) /\ StrictOrder(Viewer!Before, S)
<1>1. IsFiniteSet(S)
  <2>1. IsFiniteSet(Events)
    BY ViewerLibrary DEF Viewer!ViewerConstants
  <2> QED
    BY <2>1, FS_Subset
<1>2. StrictOrder(Viewer!Newer, Events)
  BY DEF Viewer!ViewerConstants, Viewer!Newer, StrictOrder
<1>3. StrictOrder(Viewer!Before, Events)
  <2> DEFINE r == [e \in Events |-> Viewer!classify_risk(e)]
  <2>1. r \in [Events -> 0..3]
    BY RiskIsANumber
  <2>2. \A x, y \in Events : <<x, y>> \in Viewer!Before <=>
            r[x] > r[y] \/ (r[x] = r[y] /\ <<x, y>> \in Viewer!Newer)
    BY DEF Viewer!Before
  <2> HIDE DEF r
  <2> QED
    BY <1>2, <2>1, <2>2 DEF StrictOrder
<1> QED
  BY <1>1, <1>2, <1>3 DEF StrictOrder

LEMMA Smaller ==
    ASSUME NEW a \in Nat, NEW b \in Nat
    PROVE  /\ Viewer!Least(a, b) \in Nat
           /\ Viewer!Least(a, b) <= a /\ Viewer!Least(a, b) <= b
  BY DEF Viewer!Least

LEMMA ViewerRanked ==
    ASSUME NEW S, NEW R
    PROVE  Viewer!Ranked(S, R) = Ranked(S, R)
  BY DEF Viewer!Ranked, Ranked, Viewer!Cardinality, Cardinality

LEMMA NewestAreOfTheLog ==
    ASSUME Viewer!ViewerConstants, NEW S \in SUBSET Events, NEW n \in Nat
    PROVE  Viewer!Newest(S, n) \subseteq S
<1> DEFINE f == Ranked(S, Viewer!Newer)
           m == Viewer!Least(n, Cardinality(S))
<1>1. f \in Seq(S) /\ Len(f) = Cardinality(S) /\ Cardinality(S) \in Nat
  BY ViewerOrders, RankedOrders
<1>2. m \in Nat /\ m <= Len(f)
  BY <1>1, Smaller
<1>3. Viewer!Newest(S, n) = Elements(SubSeq(f, 1, m))
  BY <1>1, ViewerRanked, ViewerLibrary DEF Viewer!Newest, Viewer!First
<1> HIDE DEF f, m
<1>4. SubSeq(f, 1, m) \in Seq(S)
  BY <1>1, <1>2
<1> QED
  BY <1>3, <1>4 DEF Elements

LEMMA FoundAreEvents ==
    ASSUME Viewer!ViewerConstants, NEW q, q.n \in Nat, NEW logs
    PROVE  Found(q, logs) \subseteq Events
<1> SUFFICES ASSUME NEW log PROVE Viewer!Matching(Viewer!build_event_query(q.days, q.info), log, q.n) \subseteq Events
  BY DEF Found
<1> DEFINE S == {e \in Viewer!build_event_query(q.days, q.info) : e.log = log}
<1>1. S \in SUBSET Events
  BY DEF Viewer!build_event_query
<1>2. Viewer!Newest(S, q.n) \subseteq S
  BY <1>1, NewestAreOfTheLog
<1> QED
  BY <1>1, <1>2 DEF Viewer!Matching

\* The cut keeps the front of the order by risk.
LEMMA SortedKeepsTheRiskiest ==
    ASSUME Viewer!ViewerConstants, NEW S \in SUBSET Events, NEW n \in Nat
    PROVE  /\ Viewer!Sorted(S, n) \in Seq(S)
           /\ Len(Viewer!Sorted(S, n)) = Viewer!Least(n, Cardinality(S))
           /\ ByRisk(Viewer!Sorted(S, n))
           /\ \A out \in S \ Elements(Viewer!Sorted(S, n)), e \in Elements(Viewer!Sorted(S, n)) :
                  Viewer!classify_risk(out) <= Viewer!classify_risk(e)
<1> DEFINE f == Ranked(S, Viewer!Before)
           m == Viewer!Least(n, Cardinality(S))
           t == Viewer!Sorted(S, n)
<1>1. /\ f \in Seq(S) /\ Len(f) = Cardinality(S) /\ Cardinality(S) \in Nat
      /\ \A x \in S : \E i \in 1..Len(f) : f[i] = x
      /\ \A i, j \in 1..Len(f) : i < j => <<f[i], f[j]>> \in Viewer!Before
  BY ViewerOrders, RankedOrders
<1>2. m \in Nat /\ m <= Len(f)
  BY <1>1, Smaller
<1>3. t = SubSeq(f, 1, m)
  BY <1>1, ViewerRanked, ViewerLibrary DEF Viewer!Sorted, Viewer!First
<1> HIDE DEF f, m, t
<1>4. t \in Seq(S) /\ Len(t) = m /\ \A i \in 1..m : t[i] = f[i]
  BY <1>1, <1>2, <1>3
<1>5. ASSUME NEW out \in S \ Elements(t), NEW e \in Elements(t)
      PROVE  Viewer!classify_risk(out) <= Viewer!classify_risk(e)
  <2>1. PICK i \in 1..m : t[i] = e
    BY <1>4 DEF Elements
  <2>2. PICK k \in 1..Len(f) : f[k] = out
    BY <1>1
  <2>3. k \notin 1..m
    BY <1>4, <2>2 DEF Elements
  <2>4. i < k /\ i \in 1..Len(f)
    BY <1>1, <1>2, <2>3
  <2>5. <<e, out>> \in Viewer!Before
    BY <1>1, <1>4, <2>1, <2>2, <2>4
  <2>6. Viewer!classify_risk(e) \in 0..3 /\ Viewer!classify_risk(out) \in 0..3
    BY RiskIsANumber
  <2> QED
    BY <2>5, <2>6 DEF Viewer!Before
<1>6. ByRisk(t)
  <2> SUFFICES ASSUME NEW i \in 1..Len(t), NEW j \in 1..Len(t), i < j
               PROVE  Viewer!classify_risk(t[j]) <= Viewer!classify_risk(t[i])
    BY DEF ByRisk
  <2>1. i \in 1..Len(f) /\ j \in 1..Len(f) /\ t[i] = f[i] /\ t[j] = f[j]
    BY <1>1, <1>2, <1>4
  <2>2. <<t[i], t[j]>> \in Viewer!Before
    BY <1>1, <2>1
  <2>3. Viewer!classify_risk(t[i]) \in 0..3 /\ Viewer!classify_risk(t[j]) \in 0..3
    BY RiskIsANumber
  <2> QED
    BY <2>2, <2>3 DEF Viewer!Before
<1> QED
  BY <1>4, <1>5, <1>6 DEF m, t

LEMMA ViewerInit == Viewer!Init => ViewerInv
<1> SUFFICES ASSUME Viewer!Init PROVE ViewerInv
  OBVIOUS
<1>1. DOMAIN task = ViewerFields
  <2>1. \A f : f \in DOMAIN task <=> f \in ViewerFields
    BY DEF Viewer!Init, ViewerFields
  <2> QED
    BY <2>1
<1>2. task.step = "idle" /\ task.shown = <<>> /\ task.exported = None /\ task.asked = None
  BY DEF Viewer!Init
<1>3. Len(<<>>) = 0 /\ ByRisk(<<>>)
  BY DEF ByRisk
<1> QED
  BY <1>1, <1>2, <1>3 DEF Viewer!Init, ViewerInv, Viewer!EveryChildIsReaped, Viewer!ShownAreTheRiskiest

\* The fields of the window that a step of the worker leaves alone.
LEMMA ViewerKeeps ==
    ASSUME ViewerInv, DOMAIN task' = ViewerFields, task'.shown = task.shown, task'.exported = None,
           task'.step # "idle", task'.step \in {"next", "reading", "answer"}, ~task'.buttons,
           (Viewer!EveryChildIsReaped)', ViewerReading'
    PROVE  ViewerInv'
  BY DEF ViewerInv, Viewer!ShownAreTheRiskiest

LEMMA ViewerRefresh == ASSUME Viewer!ViewerConstants, ViewerInv, Viewer!refresh_events PROVE ViewerInv'
<1>1. PICK chosen \in SUBSET Logs, days \in {0, 1}, n \in MaxEvents, info \in BOOLEAN :
        /\ chosen # {}
        /\ task' = [task EXCEPT !.step = "next", !.left = Viewer!Listed(chosen), !.read = {}, !.warned = {}, !.complete = {},
                                !.query = [logs |-> chosen, days |-> days, n |-> n, info |-> info],
                                !.cancelled = FALSE, !.cancelButton = TRUE, !.buttons = FALSE,
                                !.rows = 0, !.exported = None, !.reads = @ + 1]
  BY Zenon DEF Viewer!refresh_events
<1>2. /\ DOMAIN task' = ViewerFields /\ task'.shown = task.shown /\ task'.exported = None
      /\ task'.step = "next" /\ ~task'.buttons /\ task'.left = Listed(chosen)
      /\ task'.query.n = n /\ task'.query.logs = chosen
      /\ task'.read = {} /\ task'.warned = {} /\ task'.complete = {}
  BY <1>1, ViewerLibrary DEF ViewerInv, ViewerFields
<1>3. n \in Nat /\ Listed(chosen) \in Seq(Logs) /\ Elements(Listed(chosen)) = chosen
  <2>1. IsFiniteSet(Logs)
    BY ViewerLibrary DEF Viewer!ViewerConstants
  <2>2. IsFiniteSet(chosen)
    BY <2>1, FS_Subset
  <2>3. Listed(chosen) \in Seq(chosen) /\ Elements(Listed(chosen)) = chosen
    BY <2>2, ListedLists
  <2> QED
    BY <2>3 DEF Viewer!ViewerConstants
<1>4. ViewerReading'
  BY <1>2, <1>3 DEF ViewerReading, Found
<1>5. (Viewer!EveryChildIsReaped)'
  BY <1>2 DEF ViewerInv, Viewer!EveryChildIsReaped, Viewer!refresh_events, ViewerReading
<1> QED
  BY <1>2, <1>4, <1>5, ViewerKeeps

LEMMA ViewerCollects == ASSUME ViewerInv, Viewer!collect_events PROVE ViewerInv'
<1>2. task.step = "next" /\ ViewerReading
  BY DEF Viewer!collect_events, ViewerInv
<1>3. CASE task.cancelled \/ task.left = <<>>
  <2>1. task' = [task EXCEPT !.step = "answer"] /\ world' = world
    BY <1>3 DEF Viewer!collect_events
  <2>2. /\ DOMAIN task' = ViewerFields /\ task'.shown = task.shown /\ task'.exported = None
        /\ task'.step = "answer" /\ ~task'.buttons /\ task'.left = task.left /\ task'.query = task.query
        /\ task'.read = task.read /\ task'.warned = task.warned /\ task'.complete = task.complete
        /\ task'.cancelled = task.cancelled
    BY <1>2, <2>1 DEF ViewerInv, ViewerFields
  <2>3. ViewerReading' /\ (Viewer!EveryChildIsReaped)'
    BY <1>2, <1>3, <2>1, <2>2 DEF ViewerReading, ViewerInv, Viewer!EveryChildIsReaped
  <2> QED
    BY <2>2, <2>3, ViewerKeeps
<1>4. CASE ~(task.cancelled \/ task.left = <<>>)
  <2>1. PICK started \in BOOLEAN :
          /\ world' = IF started THEN "running" ELSE "none"
          /\ task' = IF started THEN [task EXCEPT !.step = "reading"]
                     ELSE [task EXCEPT !.left = Tail(@), !.warned = @ \cup {Head(task.left)}]
    BY <1>4 DEF Viewer!collect_events
  <2>2. Tail(task.left) \in Seq(Logs) /\ Elements(task.left) = {Head(task.left)} \cup Elements(Tail(task.left))
    BY <1>2, <1>4, ToSetTail DEF ViewerReading
  <2>3. CASE started
    <3>1. /\ DOMAIN task' = ViewerFields /\ task'.shown = task.shown /\ task'.exported = None
          /\ task'.step = "reading" /\ ~task'.buttons /\ task'.left = task.left /\ task'.query = task.query
          /\ task'.read = task.read /\ task'.warned = task.warned /\ task'.complete = task.complete
          /\ world' = "running"
      BY <1>2, <2>1, <2>3 DEF ViewerInv, ViewerFields
    <3>2. ViewerReading' /\ (Viewer!EveryChildIsReaped)'
      BY <1>2, <1>4, <3>1 DEF ViewerReading, Viewer!EveryChildIsReaped
    <3> QED
      BY <3>1, <3>2, ViewerKeeps
  <2>4. CASE ~started
    <3>1. /\ DOMAIN task' = ViewerFields /\ task'.shown = task.shown /\ task'.exported = None
          /\ task'.step = "next" /\ ~task'.buttons /\ task'.left = Tail(task.left) /\ task'.query = task.query
          /\ task'.read = task.read /\ task'.complete = task.complete
          /\ task'.warned = task.warned \cup {Head(task.left)}
          /\ world' = "none"
      BY <1>2, <2>1, <2>4 DEF ViewerInv, ViewerFields
    <3>2. ViewerReading' /\ (Viewer!EveryChildIsReaped)'
      BY <1>2, <2>2, <3>1 DEF ViewerReading, Viewer!EveryChildIsReaped
    <3> QED
      BY <3>1, <3>2, ViewerKeeps
  <2> QED
    BY <2>3, <2>4
<1> QED
  BY <1>3, <1>4

LEMMA ViewerReads ==
    ASSUME ViewerInv,
           Viewer!run_wevtutil_Read \/ Viewer!run_wevtutil_Failed \/ Viewer!run_wevtutil_Cancelled
    PROVE  ViewerInv'
<1>1. task.step = "reading" /\ ViewerReading /\ task.left # <<>>
  BY DEF Viewer!run_wevtutil_Read, Viewer!run_wevtutil_Failed, Viewer!run_wevtutil_Cancelled, ViewerInv, ViewerReading
<1>2. world' = "none"
  BY DEF Viewer!run_wevtutil_Read, Viewer!run_wevtutil_Failed, Viewer!run_wevtutil_Cancelled, Viewer!_kill_and_drain_process
<1>3. Tail(task.left) \in Seq(Logs) /\ Elements(task.left) = {Head(task.left)} \cup Elements(Tail(task.left))
  BY <1>1, ToSetTail DEF ViewerReading
<1>4. CASE Viewer!run_wevtutil_Read
  <2> DEFINE q == task.query
             found == Viewer!Matching(Viewer!build_event_query(q.days, q.info), Head(task.left), q.n)
  <2>1. task' = [task EXCEPT !.step = "next", !.left = Tail(@), !.read = @ \cup found,
                             !.complete = @ \cup {Head(task.left)}]
    BY <1>4 DEF Viewer!run_wevtutil_Read
  <2>2. Found(q, task.complete \cup {Head(task.left)}) = Found(q, task.complete) \cup found
    BY DEF Found
  <2> HIDE DEF found
  <2>3. /\ DOMAIN task' = ViewerFields /\ task'.shown = task.shown /\ task'.exported = None
        /\ task'.step = "next" /\ ~task'.buttons /\ task'.left = Tail(task.left) /\ task'.query = task.query
        /\ task'.read = task.read \cup found /\ task'.complete = task.complete \cup {Head(task.left)}
        /\ task'.warned = task.warned
    BY <1>1, <2>1 DEF ViewerInv, ViewerFields
  <2>4. ViewerReading' /\ (Viewer!EveryChildIsReaped)'
    <3>1. task'.query.n \in Nat /\ task'.left \in Seq(Logs)
      BY <1>1, <1>3, <2>3 DEF ViewerReading
    <3>2. task'.read = Found(task'.query, task'.complete)
      BY <1>1, <2>2, <2>3 DEF ViewerReading
    <3>3. task'.complete \cup task'.warned \cup Elements(task'.left) = task'.query.logs
      BY <1>1, <1>3, <2>3 DEF ViewerReading
    <3> QED
      BY <1>2, <2>3, <3>1, <3>2, <3>3 DEF ViewerReading, Viewer!EveryChildIsReaped
  <2> QED
    BY <2>3, <2>4, ViewerKeeps
<1>5. CASE Viewer!run_wevtutil_Failed
  <2>1. task' = [task EXCEPT !.step = "next", !.left = Tail(@), !.warned = @ \cup {Head(task.left)}]
    BY <1>5 DEF Viewer!run_wevtutil_Failed, Viewer!Warned
  <2>2. /\ DOMAIN task' = ViewerFields /\ task'.shown = task.shown /\ task'.exported = None
        /\ task'.step = "next" /\ ~task'.buttons /\ task'.left = Tail(task.left) /\ task'.query = task.query
        /\ task'.read = task.read /\ task'.complete = task.complete
        /\ task'.warned = task.warned \cup {Head(task.left)}
    BY <1>1, <2>1 DEF ViewerInv, ViewerFields
  <2>3. ViewerReading' /\ (Viewer!EveryChildIsReaped)'
    BY <1>1, <1>2, <1>3, <2>2 DEF ViewerReading, Viewer!EveryChildIsReaped
  <2> QED
    BY <2>2, <2>3, ViewerKeeps
<1>6. CASE Viewer!run_wevtutil_Cancelled
  <2>1. task' = [task EXCEPT !.step = "answer"] /\ task.cancelled
    BY <1>6 DEF Viewer!run_wevtutil_Cancelled
  <2>2. /\ DOMAIN task' = ViewerFields /\ task'.shown = task.shown /\ task'.exported = None
        /\ task'.step = "answer" /\ ~task'.buttons /\ task'.left = task.left /\ task'.query = task.query
        /\ task'.read = task.read /\ task'.warned = task.warned /\ task'.complete = task.complete
        /\ task'.cancelled = task.cancelled
    BY <1>1, <2>1 DEF ViewerInv, ViewerFields
  <2>3. ViewerReading' /\ (Viewer!EveryChildIsReaped)'
    BY <1>1, <1>2, <2>1, <2>2 DEF ViewerReading, Viewer!EveryChildIsReaped
  <2> QED
    BY <2>2, <2>3, ViewerKeeps
<1> QED
  BY <1>4, <1>5, <1>6

\* A step that changes neither what is shown and written nor what the worker holds.
LEMMA ViewerOnlyShows ==
    ASSUME ViewerInv, DOMAIN task' = ViewerFields, world' = world,
           \A f \in ViewerFields \ {"risk", "visible", "rows", "cancelled", "cancelButton"} : task'[f] = task[f],
           task.cancelled => task'.cancelled
    PROVE  ViewerInv'
<1>1. /\ task'.step = task.step /\ task'.query = task.query /\ task'.left = task.left /\ task'.read = task.read
      /\ task'.warned = task.warned /\ task'.complete = task.complete /\ task'.buttons = task.buttons
      /\ task'.shown = task.shown /\ task'.exported = task.exported /\ task'.asked = task.asked
      /\ task'.partial = task.partial
  BY DEF ViewerFields
<1>2. (Viewer!ShownAreTheRiskiest)' <=> Viewer!ShownAreTheRiskiest
  BY <1>1 DEF Viewer!ShownAreTheRiskiest
<1>3. ViewerReading => ViewerReading'
  BY <1>1 DEF ViewerReading
<1> QED
  BY <1>1, <1>2, <1>3 DEF ViewerInv, Viewer!EveryChildIsReaped

LEMMA ViewerFilters ==
    ASSUME ViewerInv, Viewer!populate_table \/ Viewer!cancel_loading
    PROVE  ViewerInv'
<1>1. /\ DOMAIN task' = ViewerFields /\ world' = world
      /\ \A f \in ViewerFields \ {"risk", "visible", "rows", "cancelled", "cancelButton"} : task'[f] = task[f]
      /\ task.cancelled => task'.cancelled
  <2>1. CASE Viewer!populate_table
    BY <2>1 DEF Viewer!populate_table, Viewer!Filtered, ViewerInv, ViewerFields
  <2>2. CASE Viewer!cancel_loading
    BY <2>2 DEF Viewer!cancel_loading, ViewerInv, ViewerFields
  <2> QED
    BY <2>1, <2>2
<1> QED
  BY <1>1, ViewerOnlyShows

LEMMA ViewerLoaded == ASSUME Viewer!ViewerConstants, ViewerInv, Viewer!on_events_loaded PROVE ViewerInv'
<1>1. task.step = "answer" /\ ViewerReading /\ task.exported = None /\ world # "running" /\ world' = world
  BY DEF Viewer!on_events_loaded, ViewerInv, Viewer!EveryChildIsReaped
<1>2. /\ DOMAIN task' = ViewerFields /\ task'.step = "idle" /\ task'.shown = Viewer!Sorted(task.read, task.query.n)
      /\ task'.asked = task.query /\ task'.partial = task.cancelled /\ task'.exported = None
      /\ task'.complete = task.complete /\ task'.warned = task.warned
  BY <1>1 DEF Viewer!on_events_loaded, Viewer!Filtered, ViewerInv, ViewerFields
<1> DEFINE S == task.read
           t == Viewer!Sorted(S, task.query.n)
<1>3. S \in SUBSET Events /\ task.query.n \in Nat
  BY <1>1, FoundAreEvents DEF ViewerReading
<1>4. /\ t \in Seq(S) /\ t \in Seq(Events) /\ ByRisk(t)
      /\ Len(t) = Viewer!Least(task.query.n, Cardinality(S))
      /\ \A out \in S \ Elements(t), e \in Elements(t) : Viewer!classify_risk(out) <= Viewer!classify_risk(e)
  <2>1. t \in Seq(S)
    BY <1>3, SortedKeepsTheRiskiest
  <2> HIDE DEF t
  <2>2. t \in Seq(Events)
    BY <1>3, <2>1
  <2> QED
    BY <1>3, <2>1, <2>2, SortedKeepsTheRiskiest DEF t
<1>5. (Viewer!ShownAreTheRiskiest)'
  <2> HIDE DEF t
  <2>1. ASSUME ~task'.partial PROVE task'.complete \cup task'.warned = task'.asked.logs
    <3>1. task.left = <<>>
      BY <1>1, <1>2, <2>1 DEF ViewerReading
    <3>2. Elements(task.left) = {}
      BY <3>1 DEF Elements
    <3> QED
      BY <1>1, <1>2, <3>2 DEF ViewerReading
  <2>2. S = Found(task'.asked, task'.complete)
    BY <1>1, <1>2 DEF ViewerReading
  <2>3. Elements(t) \subseteq S
    BY <1>4 DEF Elements
  <2>4. task'.shown = t /\ task'.exported = None
    BY <1>2 DEF t
  <2>5. Viewer!Elements(t) = Elements(t) /\ Viewer!Cardinality(S) = Cardinality(S)
    BY ViewerLibrary
  <2>6. task'.asked.n = task.query.n
    BY <1>2
  <2> HIDE DEF S
  <2> QED
    BY <1>4, <2>1, <2>2, <2>3, <2>4, <2>5, <2>6 DEF Viewer!ShownAreTheRiskiest, Found
<1> QED
  BY <1>1, <1>2, <1>4, <1>5 DEF ViewerInv, Viewer!EveryChildIsReaped

LEMMA ViewerFailed == ASSUME ViewerInv, Viewer!on_events_failed PROVE ViewerInv'
<1>1. /\ DOMAIN task' = ViewerFields /\ task'.step = "idle" /\ task'.shown = <<>> /\ task'.exported = None
      /\ task'.asked = None /\ world' = world /\ world # "running"
  BY DEF Viewer!on_events_failed, ViewerInv, ViewerFields, Viewer!EveryChildIsReaped
<1>2. Len(<<>>) = 0 /\ ByRisk(<<>>)
  BY DEF ByRisk
<1> QED
  BY <1>1, <1>2 DEF ViewerInv, Viewer!EveryChildIsReaped, Viewer!ShownAreTheRiskiest

\* What is written leaves out nothing that is riskier than what it has, and the report nothing that leads it.
LEMMA ViewerWrites ==
    ASSUME ViewerInv, task.buttons, world' = world, NEW by, NEW out, out \subseteq Elements(task.shown),
           task' = Viewer!Written(by, out),
           \A e \in out, o \in Elements(task.shown) \ out :
               /\ Viewer!classify_risk(o) <= Viewer!classify_risk(e)
               /\ by = "report" => ~Viewer!Leads(o, e)
    PROVE  ViewerInv'
<1>1. /\ DOMAIN task' = ViewerFields /\ task'.exported = [by |-> by, events |-> out]
      /\ task'.step = task.step /\ task'.shown = task.shown /\ task'.asked = task.asked
      /\ task'.warned = task.warned /\ task'.complete = task.complete /\ task'.partial = task.partial
  BY DEF ViewerInv, ViewerFields, Viewer!Written
<1>2. task.step = "idle"
  BY DEF ViewerInv
<1>3. (Viewer!ShownAreTheRiskiest)'
  BY <1>1, ViewerLibrary DEF ViewerInv, Viewer!ShownAreTheRiskiest
<1> QED
  BY <1>1, <1>2, <1>3 DEF ViewerInv, Viewer!EveryChildIsReaped

LEMMA ViewerReports ==
    ASSUME Viewer!ViewerConstants, ViewerInv,
           Viewer!Export \/ Viewer!export_pdf \/ Viewer!add_to_technical_report
    PROVE  ViewerInv'
<1>1. CASE Viewer!Export
  <2>1. task.buttons /\ world' = world /\ task' = Viewer!Written("file", Elements(task.shown))
    BY <1>1, ViewerLibrary DEF Viewer!Export
  <2> QED
    BY <2>1, ViewerWrites
<1>3. CASE Viewer!export_pdf
  <2> DEFINE s == task.shown
             m == Viewer!Least(Printed, Len(s))
             t == SubSeq(s, 1, m)
  <2>1. task.buttons /\ world' = world /\ task' = Viewer!Written("pdf", Elements(t))
    BY <1>3, ViewerLibrary DEF Viewer!export_pdf, Viewer!First
  <2>2. s \in Seq(Events) /\ Len(s) \in Nat /\ DOMAIN s = 1..Len(s) /\ ByRisk(s)
    BY DEF ViewerInv
  <2>3. m \in Nat /\ m <= Len(s)
    BY <2>2, Smaller DEF Viewer!ViewerConstants
  <2> HIDE DEF s, m
  <2>4. DOMAIN t = 1..m /\ \A i \in 1..m : t[i] = s[i]
    BY <2>2, <2>3
  <2> HIDE DEF t
  <2>5. Elements(t) \subseteq Elements(s)
    BY <2>2, <2>3, <2>4 DEF Elements
  <2>6. ASSUME NEW e \in Elements(t), NEW o \in Elements(s) \ Elements(t)
        PROVE  Viewer!classify_risk(o) <= Viewer!classify_risk(e)
    <3>1. PICK i \in 1..m : s[i] = e
      BY <2>4 DEF Elements
    <3>2. PICK k \in 1..Len(s) : s[k] = o
      BY <2>2 DEF Elements
    <3>3. k \notin 1..m
      BY <2>4, <3>2 DEF Elements
    <3>4. i \in 1..Len(s) /\ i < k
      BY <2>2, <2>3, <3>3
    <3> QED
      BY <2>2, <3>1, <3>2, <3>4 DEF ByRisk
  <2> QED
    BY <2>1, <2>5, <2>6, ViewerWrites DEF s
<1>2. CASE Viewer!add_to_technical_report
  <2> DEFINE s == task.shown
             Ahead(i) == {j \in DOMAIN s : \/ Viewer!Leads(s[j], s[i])
                                           \/ Viewer!Rank(s[j]) = Viewer!Rank(s[i]) /\ j < i}
             out == {s[i] : i \in {k \in DOMAIN s : Viewer!Cardinality(Ahead(k)) < Reported}}
  <2>1. task.buttons /\ world' = world /\ task' = Viewer!Written("report", out)
    BY <1>2 DEF Viewer!add_to_technical_report
  <2>2. s \in Seq(Events) /\ Len(s) \in Nat /\ DOMAIN s = 1..Len(s)
    BY DEF ViewerInv
  <2>3. out \subseteq Elements(s)
    BY DEF Elements
  <2>4. ASSUME NEW e \in out, NEW o \in Elements(s) \ out, Viewer!Leads(o, e) PROVE FALSE
    <3>1. PICK i \in DOMAIN s : s[i] = e /\ Viewer!Cardinality(Ahead(i)) < Reported
      OBVIOUS
    <3>2. PICK k \in DOMAIN s : s[k] = o
      BY DEF Elements
    <3>3. ~(Viewer!Cardinality(Ahead(k)) < Reported)
      BY <3>2
    <3>4. Ahead(k) \subseteq Ahead(i)
      <4> SUFFICES ASSUME NEW j \in DOMAIN s, Viewer!Leads(s[j], s[k]) \/ Viewer!Rank(s[j]) = Viewer!Rank(s[k])
                   PROVE  Viewer!Leads(s[j], s[i])
        BY <2>2
      <4>1. /\ Viewer!classify_risk(s[j]) \in 0..3 /\ Viewer!classify_risk(s[k]) \in 0..3
            /\ Viewer!classify_risk(s[i]) \in 0..3
        BY RiskIsANumber
      <4>2. Viewer!Rank(s[j]) = Viewer!Rank(s[k]) =>
              /\ Viewer!classify_risk(s[j]) = Viewer!classify_risk(s[k])
              /\ (s[j].level \in {1, 2}) = (s[k].level \in {1, 2})
        BY DEF Viewer!Rank
      <4>3. Viewer!Leads(s[k], s[i])
        BY <2>4, <3>1, <3>2
      <4> HIDE DEF s
      <4> QED
        BY <4>1, <4>2, <4>3 DEF Viewer!Leads
    <3>5. IsFiniteSet(Ahead(i)) /\ IsFiniteSet(Ahead(k))
      <4>1. IsFiniteSet(DOMAIN s)
        BY <2>2, FS_Interval
      <4>2. Ahead(i) \subseteq DOMAIN s /\ Ahead(k) \subseteq DOMAIN s
        OBVIOUS
      <4> HIDE DEF Ahead
      <4> QED
        BY <4>1, <4>2, FS_Subset
    <3> HIDE DEF Ahead, s
    <3>6. Cardinality(Ahead(k)) <= Cardinality(Ahead(i))
      BY <3>4, <3>5, FS_Subset
    <3>7. Cardinality(Ahead(k)) \in Nat /\ Cardinality(Ahead(i)) \in Nat /\ Reported \in Nat
      BY <3>5, FS_CardinalityType DEF Viewer!ViewerConstants
    <3> QED
      BY <3>1, <3>3, <3>6, <3>7, ViewerLibrary
  <2>5. ASSUME NEW e \in out, NEW o \in Elements(s) \ out
        PROVE  Viewer!classify_risk(o) <= Viewer!classify_risk(e)
    <3>1. ~Viewer!Leads(o, e)
      BY <2>4
    <3>2. Viewer!classify_risk(o) \in 0..3 /\ Viewer!classify_risk(e) \in 0..3
      BY RiskIsANumber
    <3> HIDE DEF out, s
    <3> QED
      BY <3>1, <3>2 DEF Viewer!Leads
  <2> HIDE DEF out
  <2> QED
    BY <2>1, <2>3, <2>4, <2>5, ViewerWrites
<1> QED
  BY <1>1, <1>2, <1>3

LEMMA ViewerStep ==
    ASSUME Viewer!ViewerConstants, ViewerInv, [Viewer!Next]_Viewer!vars
    PROVE  ViewerInv'
<1>1. CASE UNCHANGED Viewer!vars
  <2>1. task' = task /\ world' = world
    BY <1>1 DEF Viewer!vars
  <2> QED
    BY <2>1, ViewerOnlyShows DEF ViewerInv
<1> QED
  BY <1>1, ViewerRefresh, ViewerCollects, ViewerReads, ViewerFilters, ViewerLoaded, ViewerFailed, ViewerReports DEF Viewer!Next

-----------------------------------------------------------------------------
(* The network monitor and its capture. *)

MonitorFields == {"monitor", "state", "cancelled", "running", "pcap", "active", "mine", "window", "took"}
StateFields == {"seen", "spike", "hosts", "fresh", "samples", "shown"}
WorldFields == {"session", "sessions", "inbox", "legacy", "history"}

IsSpike(reason) == reason[1] = "traffic_spike"
Announced(s) == {x[1] : x \in s.shown}

\* What has been announced, by number of the sample.
Alerts(s) ==
    /\ s.samples \in Nat
    /\ \A r \in s.seen : ~IsSpike(r)
    /\ \A x, y \in s.shown : x[1] = y[1] => x = y
    /\ \A x, y \in s.shown : IsSpike(x[1]) /\ IsSpike(y[1]) => x[2] # y[2] + 1
    /\ \A x \in s.shown :
          /\ x[2] \in Nat /\ x[2] <= s.samples
          /\ IsSpike(x[1]) => x[1] = <<"traffic_spike", x[2]>> /\ (x[2] = s.samples => s.spike)
          /\ ~IsSpike(x[1]) => x[1] \in s.seen

\* What a sample found new is not announced yet, and is all that is not.
Fresh(s) ==
    /\ s.seen \subseteq Announced(s) \cup s.fresh
    /\ s.fresh \cap Announced(s) = {}
    /\ \A x \in s.shown : x[2] < s.samples
    /\ \A r \in s.fresh :
          /\ IsSpike(r) => /\ r = <<"traffic_spike", s.samples>> /\ s.spike
                           /\ \A x \in s.shown : IsSpike(x[1]) => x[2] + 1 # s.samples
          /\ ~IsSpike(r) => r \in s.seen

MonitorInv ==
    /\ DOMAIN task = MonitorFields /\ DOMAIN task.state = StateFields /\ DOMAIN world = WorldFields
    /\ Alerts(task.state)
    /\ task.monitor = "sample" => task.state.fresh = {} /\ task.state.seen \subseteq Announced(task.state)
    /\ task.monitor \in {"store", "history"} => Fresh(task.state)
    /\ task.monitor = "history" => Monitor!Occurrences(task.state) \subseteq world.inbox \cup world.legacy
    /\ Monitor!AlertsAreStored

\* The session of another program is younger than the one the window has taken as its own.
CaptureInv ==
    /\ ~task.took
    /\ world.sessions \in Nat
    /\ world.session # None => world.session[2] \in Nat /\ world.session[2] <= world.sessions
    /\ task.active \/ task.pcap = "stop" =>
          /\ task.mine \in Nat /\ task.mine <= world.sessions
          /\ world.session # None /\ world.session[1] = "theirs" => task.mine < world.session[2]

LEMMA ReasonsAreNoSpikes == ASSUME NEW c, NEW r \in Monitor!Reasons(c) PROVE ~IsSpike(r)
  BY DEF Monitor!Reasons, IsSpike

LEMMA MonitorInit == Monitor!Init => MonitorInv /\ CaptureInv
<1> SUFFICES ASSUME Monitor!Init PROVE MonitorInv /\ CaptureInv
  OBVIOUS
<1>1. \A f : f \in DOMAIN task <=> f \in MonitorFields
  BY DEF Monitor!Init, MonitorFields
<1>2. \A f : f \in DOMAIN world <=> f \in WorldFields
  BY DEF Monitor!Init, WorldFields
<1>3. task.state = Monitor!NoSession /\ task.monitor = "none"
  BY DEF Monitor!Init
<1>4. \A f : f \in DOMAIN Monitor!NoSession <=> f \in StateFields
  BY DEF Monitor!NoSession, StateFields
<1>5. Alerts(Monitor!NoSession) /\ Monitor!NoSession.shown = {}
  BY DEF Monitor!NoSession, Alerts
<1>6. CaptureInv
  BY DEF Monitor!Init, CaptureInv
<1> QED
  BY <1>1, <1>2, <1>3, <1>4, <1>5, <1>6 DEF MonitorInv, Monitor!AlertsAreStored

\* What the capture does leaves the session of the monitor alone.
LEMMA MonitorKeeps ==
    ASSUME MonitorInv, DOMAIN task' = MonitorFields, DOMAIN world' = WorldFields,
           task'.state = task.state,
           world'.inbox = world.inbox, world'.legacy = world.legacy,
           task'.monitor \in {task.monitor, "over"}
    PROVE  MonitorInv'
  BY DEF MonitorInv, Monitor!AlertsAreStored, Monitor!Occurrences

\* What the monitor does leaves the capture alone.
LEMMA CaptureKeeps ==
    ASSUME CaptureInv, world'.session = world.session, world'.sessions = world.sessions,
           task'.took = task.took, task'.active = task.active, task'.pcap = task.pcap, task'.mine = task.mine
    PROVE  CaptureInv'
  BY DEF CaptureInv

LEMMA SampleIsFresh ==
    ASSUME MonitorInv, task.monitor = "sample", NEW connections, NEW rate,
           NEW state, NEW hosts, state = [task.state EXCEPT !.hosts = hosts]
    PROVE  LET s == Monitor!observe(state, connections, rate)
           IN  DOMAIN s = StateFields /\ Alerts(s) /\ Fresh(s) /\ s.shown = task.state.shown
<1> DEFINE t == task.state
           reasons == UNION {Monitor!Reasons(c) : c \in connections}
           above == rate >= Threshold
           spike == IF above /\ ~t.spike THEN {<<"traffic_spike", t.samples + 1>>} ELSE {}
           s == Monitor!observe(state, connections, rate)
<1>1. /\ DOMAIN t = StateFields /\ Alerts(t) /\ t.fresh = {} /\ t.seen \subseteq Announced(t)
  BY DEF MonitorInv
<1>2. \A r \in reasons : ~IsSpike(r)
  BY ReasonsAreNoSpikes
<1>3. /\ DOMAIN state = StateFields /\ state.seen = t.seen /\ state.spike = t.spike /\ state.samples = t.samples
      /\ state.shown = t.shown
  BY <1>1 DEF StateFields
<1>4. /\ DOMAIN s = StateFields /\ s.seen = t.seen \cup reasons /\ s.spike = above /\ s.samples = t.samples + 1
      /\ s.fresh = (reasons \ t.seen) \cup spike /\ s.shown = t.shown
  <2> HIDE DEF reasons
  <2>1. s = [state EXCEPT !.seen = @ \cup reasons, !.spike = above, !.samples = @ + 1,
                          !.fresh = (reasons \ t.seen) \cup spike]
    BY <1>3 DEF Monitor!observe, reasons
  <2> HIDE DEF s, t, spike, above
  <2> QED
    BY <1>3, <2>1 DEF StateFields
<1> HIDE DEF s, t, reasons
<1>5. t.samples \in Nat /\ s.samples \in Nat
  BY <1>1, <1>4 DEF Alerts
<1>6. Alerts(s)
  BY <1>1, <1>2, <1>4, <1>5 DEF Alerts
<1>7. \A r \in s.fresh : IsSpike(r) => above /\ ~t.spike /\ r = <<"traffic_spike", s.samples>>
  BY <1>2, <1>4
<1>8. \A r \in s.fresh : ~IsSpike(r) => r \in s.seen /\ r \notin t.seen
  BY <1>4 DEF IsSpike
<1>9. ASSUME NEW x \in s.shown, x[1] \in s.fresh PROVE FALSE
  <2>1. CASE IsSpike(x[1])
    <3>1. x[1] = <<"traffic_spike", x[2]>> /\ x[1] = <<"traffic_spike", s.samples>> /\ x[2] <= t.samples
      BY <1>1, <1>4, <1>7, <1>9, <2>1 DEF Alerts
    <3> QED
      BY <1>4, <1>5, <3>1
  <2>2. CASE ~IsSpike(x[1])
    BY <1>1, <1>4, <1>8, <1>9, <2>2 DEF Alerts
  <2> QED
    BY <2>1, <2>2
<1>10. s.seen \subseteq Announced(s) \cup s.fresh
  BY <1>1, <1>4 DEF Announced
<1>11. \A x \in s.shown : x[2] < s.samples /\ (IsSpike(x[1]) /\ ~t.spike => x[2] + 1 # s.samples)
  BY <1>1, <1>4, <1>5 DEF Alerts
<1>12. s.fresh \cap Announced(s) = {}
  BY <1>9 DEF Announced
<1>13. \A r \in s.fresh : IsSpike(r) => s.spike /\ \A x \in s.shown : IsSpike(x[1]) => x[2] + 1 # s.samples
  BY <1>4, <1>7, <1>11
<1>14. Fresh(s)
  BY <1>7, <1>8, <1>10, <1>11, <1>12, <1>13 DEF Fresh
<1>15. s.shown = task.state.shown
  BY <1>4 DEF t
<1> QED
  BY <1>4, <1>6, <1>14, <1>15 DEF s

LEMMA ReportIsAlert ==
    ASSUME NEW s, NEW r, Alerts(s), Fresh(s), s.samples \in Nat,
           r.samples = s.samples, r.seen = s.seen, r.spike = s.spike,
           r.shown = s.shown \cup {<<reason, s.samples>> : reason \in s.fresh}
    PROVE  Alerts(r) /\ r.seen \subseteq Announced(r)
<1>1. \A x \in r.shown : x \in s.shown \/ (x[1] \in s.fresh /\ x[2] = s.samples /\ x = <<x[1], s.samples>>)
  OBVIOUS
<1>2. \A x \in s.shown : x[1] \notin s.fresh
  BY DEF Fresh, Announced
<1>3. \A x, y \in r.shown : x[1] = y[1] => x = y
  BY <1>1, <1>2 DEF Alerts
<1>4. \A x \in r.shown : x[2] \in Nat /\ x[2] <= r.samples
  BY <1>1 DEF Alerts
<1>5. ASSUME NEW x \in r.shown, NEW y \in r.shown, IsSpike(x[1]), IsSpike(y[1]) PROVE x[2] # y[2] + 1
  <2>1. CASE x \in s.shown /\ y \in s.shown
    BY <1>5, <2>1 DEF Alerts
  <2>2. CASE x \in s.shown /\ y \notin s.shown
    <3>1. x[2] \in Nat /\ x[2] < s.samples /\ y[2] = s.samples
      BY <1>1, <2>2 DEF Alerts, Fresh
    <3> QED
      BY <3>1
  <2>3. CASE x \notin s.shown /\ y \in s.shown
    <3>1. x[1] \in s.fresh /\ x[2] = s.samples
      BY <1>1, <2>3
    <3>2. y[2] + 1 # s.samples
      BY <1>5, <2>3, <3>1 DEF Fresh
    <3> QED
      BY <3>1, <3>2
  <2>4. CASE x \notin s.shown /\ y \notin s.shown
    BY <1>1, <2>4
  <2> QED
    BY <2>1, <2>2, <2>3, <2>4
<1>6. \A x \in r.shown :
        /\ IsSpike(x[1]) => x[1] = <<"traffic_spike", x[2]>> /\ (x[2] = r.samples => r.spike)
        /\ ~IsSpike(x[1]) => x[1] \in r.seen
  BY <1>1 DEF Alerts, Fresh
<1>7. r.seen \subseteq Announced(r)
  <2>1. Announced(s) \subseteq Announced(r)
    BY DEF Announced
  <2>2. \A reason \in s.fresh : <<reason, s.samples>> \in r.shown /\ <<reason, s.samples>>[1] = reason
    OBVIOUS
  <2>3. s.fresh \subseteq Announced(r)
    BY <2>2 DEF Announced
  <2> QED
    BY <2>1, <2>3 DEF Fresh
<1> QED
  BY <1>3, <1>4, <1>5, <1>6, <1>7 DEF Alerts

LEMMA MonitorSession ==
    ASSUME MonitorInv, CaptureInv,
           \/ Monitor!start_monitoring \/ Monitor!stop_monitoring \/ Monitor!_run_monitor_Sample
           \/ Monitor!persist_monitor_events \/ Monitor!_run_monitor_Report \/ Monitor!_monitor_finished
    PROVE  MonitorInv' /\ CaptureInv'
<1> DEFINE t == task.state
<1>1. DOMAIN task = MonitorFields /\ DOMAIN t = StateFields /\ DOMAIN world = WorldFields
  BY DEF MonitorInv
<1>2. CASE Monitor!start_monitoring \/ Monitor!_monitor_finished
  <2>1. /\ DOMAIN task' = MonitorFields /\ DOMAIN world' = WorldFields
        /\ task'.state = Monitor!NoSession /\ task'.monitor \in {"sample", "none"}
        /\ task'.took = task.took /\ task'.active = task.active /\ task'.pcap = task.pcap /\ task'.mine = task.mine
        /\ world'.session = world.session /\ world'.sessions = world.sessions
    BY <1>1, <1>2 DEF Monitor!start_monitoring, Monitor!_monitor_finished, MonitorFields, WorldFields
  <2>2. \A f : f \in DOMAIN Monitor!NoSession <=> f \in StateFields
    BY DEF Monitor!NoSession, StateFields
  <2>3. Alerts(Monitor!NoSession) /\ Monitor!NoSession.shown = {} /\ Monitor!NoSession.fresh = {} /\ Monitor!NoSession.seen = {}
    BY DEF Monitor!NoSession, Alerts
  <2>4. MonitorInv'
    BY <2>1, <2>2, <2>3 DEF MonitorInv, Monitor!AlertsAreStored
  <2> QED
    BY <2>1, <2>4, CaptureKeeps
<1>3. CASE Monitor!stop_monitoring
  <2>1. /\ DOMAIN task' = MonitorFields /\ world' = world /\ task'.state = task.state /\ task'.monitor = task.monitor
        /\ task'.took = task.took /\ task'.active = task.active /\ task'.pcap = task.pcap /\ task'.mine = task.mine
    BY <1>1, <1>3 DEF Monitor!stop_monitoring, MonitorFields
  <2> QED
    BY <1>1, <2>1, MonitorKeeps, CaptureKeeps
<1>4. CASE Monitor!_run_monitor_Sample
  <2>1. CASE task' = [task EXCEPT !.monitor = "over"]
    <3>1. /\ DOMAIN task' = MonitorFields /\ world' = world /\ task'.state = task.state /\ task'.monitor = "over"
          /\ task'.took = task.took /\ task'.active = task.active /\ task'.pcap = task.pcap /\ task'.mine = task.mine
      BY <1>1, <1>4, <2>1 DEF Monitor!_run_monitor_Sample, MonitorFields
    <3> QED
      BY <1>1, <3>1, MonitorKeeps, CaptureKeeps
  <2>2. CASE \E connections \in SUBSET Connections, rate \in Busy :
                \E state \in Monitor!_enrich_dns(task.state, connections) :
                    task' = [task EXCEPT !.monitor = "store", !.state = Monitor!observe(state, connections, rate)]
    <3>1. task.monitor = "sample" /\ world' = world
      BY <1>4 DEF Monitor!_run_monitor_Sample
    <3>2. PICK connections \in SUBSET Connections, rate \in Busy :
            \E state \in Monitor!_enrich_dns(task.state, connections) :
                task' = [task EXCEPT !.monitor = "store", !.state = Monitor!observe(state, connections, rate)]
      BY <2>2
    <3>3. PICK state \in Monitor!_enrich_dns(task.state, connections) :
            task' = [task EXCEPT !.monitor = "store", !.state = Monitor!observe(state, connections, rate)]
      BY <3>2
    <3>4. PICK hosts : state = [task.state EXCEPT !.hosts = hosts]
      BY <3>3 DEF Monitor!_enrich_dns
    <3> DEFINE s == Monitor!observe(state, connections, rate)
    <3>5. DOMAIN s = StateFields /\ Alerts(s) /\ Fresh(s) /\ s.shown = task.state.shown
      BY <3>1, <3>4, SampleIsFresh
    <3> HIDE DEF s
    <3>6. /\ DOMAIN task' = MonitorFields /\ task'.state = s /\ task'.monitor = "store"
          /\ task'.took = task.took /\ task'.active = task.active /\ task'.pcap = task.pcap /\ task'.mine = task.mine
      BY <1>1, <3>3 DEF MonitorFields, s
    <3>7. MonitorInv'
      BY <1>1, <3>1, <3>5, <3>6 DEF MonitorInv, Monitor!AlertsAreStored
    <3> QED
      BY <3>1, <3>6, <3>7, CaptureKeeps
  <2> QED
    BY <1>4, <2>1, <2>2 DEF Monitor!_run_monitor_Sample
<1>5. CASE Monitor!persist_monitor_events
  <2>1. /\ DOMAIN task' = MonitorFields /\ DOMAIN world' = WorldFields /\ task'.state = task.state
        /\ task'.took = task.took /\ task'.active = task.active /\ task'.pcap = task.pcap /\ task'.mine = task.mine
        /\ world'.session = world.session /\ world'.sessions = world.sessions
        /\ world.inbox \cup world.legacy \subseteq world'.inbox \cup world'.legacy
        /\ \/ task'.monitor = "over"
           \/ /\ task'.monitor = "history"
              /\ Monitor!Occurrences(task.state) \subseteq world'.inbox \cup world'.legacy
    BY <1>1, <1>5 DEF Monitor!persist_monitor_events, MonitorFields, WorldFields
  <2>2. task.monitor = "store"
    BY <1>5 DEF Monitor!persist_monitor_events
  <2>4. MonitorInv'
    BY <1>1, <2>1, <2>2 DEF MonitorInv, Monitor!AlertsAreStored, Monitor!Occurrences
  <2> QED
    BY <2>1, <2>4, CaptureKeeps
<1>6. CASE Monitor!_run_monitor_Report /\ task' = [task EXCEPT !.monitor = "over"]
  <2>1. /\ DOMAIN task' = MonitorFields /\ task'.state = task.state /\ task'.monitor = "over"
        /\ task'.took = task.took /\ task'.active = task.active /\ task'.pcap = task.pcap /\ task'.mine = task.mine
    BY <1>1, <1>6 DEF MonitorFields
  <2>2. /\ DOMAIN world' = WorldFields
        /\ world'.inbox = world.inbox /\ world'.legacy = world.legacy
        /\ world'.session = world.session /\ world'.sessions = world.sessions
    BY <1>1, <1>6 DEF Monitor!_run_monitor_Report, WorldFields
  <2> QED
    BY <1>1, <2>1, <2>2, MonitorKeeps, CaptureKeeps
<1>7. CASE /\ Monitor!_run_monitor_Report
           /\ task' = [task EXCEPT !.monitor = "sample", !.state.shown = @ \cup Monitor!Occurrences(task.state),
                                   !.state.fresh = {}]
  <2>1. task.monitor = "history" /\ Alerts(t) /\ Fresh(t) /\ Monitor!Occurrences(t) \subseteq world.inbox \cup world.legacy
    BY <1>7 DEF Monitor!_run_monitor_Report, MonitorInv
  <2>2. /\ DOMAIN task' = MonitorFields /\ DOMAIN world' = WorldFields
        /\ world'.inbox = world.inbox /\ world'.legacy = world.legacy
        /\ world'.session = world.session /\ world'.sessions = world.sessions
    BY <1>1, <1>7 DEF Monitor!_run_monitor_Report, MonitorFields, WorldFields
  <2>3. task' = [task EXCEPT !.monitor = "sample", !.state.shown = @ \cup Monitor!Occurrences(t), !.state.fresh = {}]
    BY <1>7 DEF Monitor!_run_monitor_Report
  <2>4. /\ task'.monitor = "sample"
        /\ task'.took = task.took /\ task'.active = task.active /\ task'.pcap = task.pcap /\ task'.mine = task.mine
        /\ task'.state = [t EXCEPT !.shown = @ \cup Monitor!Occurrences(t), !.fresh = {}]
    BY <1>1, <2>3 DEF MonitorFields, StateFields
  <2> DEFINE r == task'.state
  <2>5. /\ DOMAIN r = StateFields /\ r.shown = t.shown \cup Monitor!Occurrences(t) /\ r.fresh = {}
        /\ r.samples = t.samples /\ r.seen = t.seen /\ r.spike = t.spike
    BY <1>1, <2>4 DEF StateFields
  <2> HIDE DEF t, r
  <2>6. Alerts(r) /\ r.seen \subseteq Announced(r)
    <3>1. t.samples \in Nat
      BY <2>1 DEF Alerts
    <3> QED
      BY <2>1, <2>5, <3>1, ReportIsAlert DEF Monitor!Occurrences
  <2>7. r.shown \subseteq world'.inbox \cup world'.legacy
    BY <2>1, <2>2, <2>5 DEF MonitorInv, Monitor!AlertsAreStored, t
  <2>8. MonitorInv'
    BY <2>2, <2>4, <2>5, <2>6, <2>7 DEF MonitorInv, Monitor!AlertsAreStored, r
  <2> QED
    BY <2>2, <2>4, <2>8, CaptureKeeps
<1> QED
  BY <1>2, <1>3, <1>4, <1>5, <1>6, <1>7 DEF Monitor!_run_monitor_Report

\* Stopping a capture ends no session older than its own.
LEMMA StoppingIsOurs ==
    ASSUME CaptureInv, task.active \/ task.pcap = "stop",
           NEW t, DOMAIN t = MonitorFields, t.took = task.took, t.active = task.active, t.mine = task.mine,
           t.state = task.state, t.monitor = task.monitor, t.pcap # "stop",
           MonitorInv, Monitor!Stopping(t)
    PROVE  MonitorInv' /\ CaptureInv'
<1>1. DOMAIN world = WorldFields
  BY DEF MonitorInv
<1>2. ~Monitor!Older(t)
  BY DEF CaptureInv, Monitor!Older
<1>3. /\ DOMAIN task' = MonitorFields /\ DOMAIN world' = WorldFields
      /\ task'.state = task.state /\ task'.monitor = task.monitor
      /\ world'.inbox = world.inbox /\ world'.legacy = world.legacy
      /\ world'.sessions = world.sessions /\ world'.session \in {None, world.session}
      /\ ~task'.took /\ task'.mine = task.mine /\ task'.pcap # "stop"
      /\ task'.active => task.active
  <2>0. ~t.took
    BY DEF CaptureInv
  <2>1. CASE world.session # None /\ world' = [world EXCEPT !.session = None]
             /\ task' = [t EXCEPT !.active = FALSE, !.took = @ \/ Monitor!Older(t)]
    BY <1>1, <1>2, <2>0, <2>1 DEF MonitorFields, WorldFields
  <2>2. CASE world' = world /\ task' = [t EXCEPT !.active = FALSE]
    BY <1>1, <2>0, <2>2 DEF MonitorFields
  <2>3. CASE world' \in {world, [world EXCEPT !.session = None]}
             /\ task' = [t EXCEPT !.took = @ \/ (Monitor!Older(t) /\ world'.session = None)]
    BY <1>1, <1>2, <2>0, <2>3 DEF MonitorFields, WorldFields
  <2> QED
    BY <2>1, <2>2, <2>3 DEF Monitor!Stopping
<1>4. MonitorInv'
  BY <1>3, MonitorKeeps
<1>5. CaptureInv'
  BY <1>3 DEF CaptureInv
<1> QED
  BY <1>4, <1>5

LEMMA MonitorCapture ==
    ASSUME MonitorInv, CaptureInv,
           \/ Monitor!start_pcap \/ Monitor!stop_pcap \/ Monitor!start \/ Monitor!stop \/ Monitor!_pcap_worker_finished
           \/ Monitor!closeEvent \/ Monitor!closeEvent_Accept \/ Monitor!closeEvent_Later \/ Monitor!Others
    PROVE  MonitorInv' /\ CaptureInv'
<1>1. DOMAIN task = MonitorFields /\ DOMAIN world = WorldFields
  BY DEF MonitorInv
<1>2. CASE \/ Monitor!start_pcap \/ Monitor!stop_pcap \/ Monitor!_pcap_worker_finished
           \/ Monitor!closeEvent_Accept \/ Monitor!closeEvent_Later
  <2>1. /\ DOMAIN task' = MonitorFields /\ world' = world /\ task'.state = task.state /\ task'.monitor = task.monitor
        /\ task'.took = task.took /\ task'.active = task.active /\ task'.mine = task.mine
        /\ task'.pcap = "stop" => task.active \/ task.pcap = "stop"
    BY <1>1, <1>2 DEF Monitor!start_pcap, Monitor!stop_pcap, Monitor!_pcap_worker_finished,
                      Monitor!closeEvent_Accept, Monitor!closeEvent_Later, MonitorFields
  <2>2. CaptureInv'
    BY <2>1 DEF CaptureInv
  <2> QED
    BY <1>1, <2>1, <2>2, MonitorKeeps
<1>3. CASE Monitor!start
  <2>1. world.sessions \in Nat
    BY DEF CaptureInv
  <2>2. /\ DOMAIN task' = MonitorFields /\ DOMAIN world' = WorldFields
        /\ task'.state = task.state /\ task'.monitor = task.monitor
        /\ world'.inbox = world.inbox /\ world'.legacy = world.legacy
    BY <1>1, <1>3 DEF Monitor!start, Monitor!Opened, MonitorFields, WorldFields
  <2>3. /\ task'.took = task.took /\ task'.pcap = "over"
        /\ \/ world'.session = world.session /\ world'.sessions = world.sessions
           \/ world'.session = <<"ours", world.sessions + 1>> /\ world'.sessions = world.sessions + 1
        /\ \/ task'.active = task.active /\ task'.mine = task.mine
           \/ /\ task'.active = TRUE /\ task'.mine = world.sessions + 1
              /\ world'.session = <<"ours", world.sessions + 1>> /\ world'.sessions = world.sessions + 1
    BY <1>1, <1>3 DEF Monitor!start, Monitor!Opened, Monitor!New, MonitorFields, WorldFields
  <2>4. CaptureInv'
    BY <2>1, <2>3 DEF CaptureInv
  <2> QED
    BY <2>2, <2>4, MonitorKeeps
<1>4. CASE Monitor!stop
  <2> DEFINE t == [task EXCEPT !.pcap = "over"]
  <2>1. task.pcap = "stop" /\ Monitor!Stopping(t)
    BY <1>4 DEF Monitor!stop
  <2>2. /\ DOMAIN t = MonitorFields /\ t.took = task.took /\ t.active = task.active /\ t.mine = task.mine
        /\ t.state = task.state /\ t.monitor = task.monitor /\ t.pcap # "stop"
    BY <1>1 DEF MonitorFields
  <2> HIDE DEF t
  <2> QED
    BY <2>1, <2>2, StoppingIsOurs
<1>5. CASE Monitor!closeEvent
  <2> DEFINE t == Monitor!Closing
  <2>1. /\ DOMAIN t = MonitorFields /\ t.took = task.took /\ t.active = task.active /\ t.mine = task.mine
        /\ t.state = task.state /\ t.monitor = task.monitor /\ t.pcap = task.pcap
    BY <1>1 DEF MonitorFields, Monitor!Closing
  <2> HIDE DEF t
  <2>2. CASE task.active /\ task.pcap \in {"none", "over"}
    <3>1. Monitor!Stopping(t)
      BY <1>5, <2>2 DEF Monitor!closeEvent, t
    <3>2. t.pcap # "stop"
      BY <2>1, <2>2
    <3> QED
      BY <2>1, <2>2, <3>1, <3>2, StoppingIsOurs
  <2>3. CASE ~(task.active /\ task.pcap \in {"none", "over"})
    <3>1. task' = t /\ world' = world
      BY <1>5, <2>3 DEF Monitor!closeEvent, t
    <3>2. CaptureInv'
      BY <2>1, <3>1 DEF CaptureInv
    <3> QED
      BY <1>1, <2>1, <3>1, <3>2, MonitorKeeps
  <2> QED
    BY <2>2, <2>3
<1>6. CASE Monitor!Others
  <2>1. /\ task' = task /\ DOMAIN world' = WorldFields /\ world'.inbox = world.inbox /\ world'.legacy = world.legacy
        /\ \/ world'.session = None /\ world'.sessions = world.sessions
           \/ world'.session = <<"theirs", world.sessions + 1>> /\ world'.sessions = world.sessions + 1
    BY <1>1, <1>6 DEF Monitor!Others, Monitor!Opened, Monitor!New, WorldFields
  <2>2. CaptureInv'
    BY <2>1 DEF CaptureInv
  <2> QED
    BY <1>1, <2>1, <2>2, MonitorKeeps
<1> QED
  BY <1>2, <1>3, <1>4, <1>5, <1>6

LEMMA MonitorStep ==
    ASSUME MonitorInv, CaptureInv, [Monitor!Next]_Monitor!vars
    PROVE  MonitorInv' /\ CaptureInv'
<1>1. CASE UNCHANGED Monitor!vars
  <2>1. task' = task /\ world' = world
    BY <1>1 DEF Monitor!vars
  <2> QED
    BY <2>1, CaptureKeeps, MonitorKeeps DEF MonitorInv
<1> QED
  BY <1>1, MonitorSession, MonitorCapture DEF Monitor!Next

LEMMA MonitorIsRight ==
    ASSUME MonitorInv, CaptureInv
    PROVE  Monitor!AlertsAreStored /\ Monitor!NewIsAnnouncedOnce /\ Monitor!StopsNoOlderSession
  BY DEF MonitorInv, CaptureInv, Alerts, Announced, IsSpike, Monitor!NewIsAnnouncedOnce, Monitor!StopsNoOlderSession

-----------------------------------------------------------------------------
(* The process manager. *)

ProcessFields == {"loads", "current", "table", "loading", "events", "dialog", "analysis", "agreed", "ended"}
LoadFields == {"step", "seen", "cancelled"}

OnePerNumber(rows) == \A p, q \in rows : p[1] = q[1] => p = q
IsResult(e) == e.kind = "result"

\* An answer in the queue is that of a list worker that has ended, and its only one.
QueueInv ==
    \A k \in DOMAIN task.events :
        LET e == task.events[k]
        IN  /\ e.by \in DOMAIN task.loads /\ task.loads[e.by].step = "over"
            /\ IsResult(e) => OnePerNumber(e.rows)
            /\ \A l \in DOMAIN task.events :
                  IsResult(e) /\ IsResult(task.events[l]) /\ task.events[l].by = e.by => l = k

\* Rows are shown only after the answer of the last list was handled.
TableInv ==
    task.table # {} =>
        /\ task.loads[Len(task.loads)].step = "over"
        /\ \A k \in DOMAIN task.events : IsResult(task.events[k]) => task.events[k].by # Len(task.loads)

ProcessInv ==
    /\ DOMAIN task = ProcessFields
    /\ IsSequence(task.loads) /\ Len(task.loads) >= 1 /\ \A i \in DOMAIN task.loads : DOMAIN task.loads[i] = LoadFields
    /\ IsSequence(task.events)
    /\ QueueInv /\ TableInv
    /\ Processes!TableIsOfTheLastList
    /\ Processes!EndsOnlyAgreed

\* A new list worker: the table is emptied and every earlier answer is late.
LEMMA StartedIsLast ==
    ASSUME NEW t, DOMAIN t = ProcessFields, IsSequence(t.loads), \A i \in DOMAIN t.loads : DOMAIN t.loads[i] = LoadFields
    PROVE  LET s == Processes!Started(t)
           IN  /\ DOMAIN s = ProcessFields /\ s.table = {} /\ s.loading = TRUE /\ s.events = t.events
               /\ s.agreed = t.agreed /\ s.ended = t.ended
               /\ IsSequence(s.loads) /\ Len(s.loads) = Len(t.loads) + 1 /\ Len(t.loads) \in Nat
               /\ s.current = Len(s.loads)
               /\ \A i \in DOMAIN s.loads : DOMAIN s.loads[i] = LoadFields
               /\ \A i \in DOMAIN t.loads : i \in DOMAIN s.loads /\ s.loads[i].step = t.loads[i].step
<1> DEFINE previous == [i \in DOMAIN t.loads |->
                           IF i = t.current /\ t.loads[i].step # "over"
                           THEN [t.loads[i] EXCEPT !.cancelled = TRUE] ELSE t.loads[i]]
           new == [step |-> "sample", seen |-> {}, cancelled |-> FALSE]
           s == Processes!Started(t)
<1>1. Len(t.loads) \in Nat /\ DOMAIN t.loads = 1..Len(t.loads)
  BY SequenceShape
<1>2. \A i \in DOMAIN t.loads : DOMAIN previous[i] = LoadFields /\ previous[i].step = t.loads[i].step
  BY DEF LoadFields
<1>3. PICK S : S = {previous[i] : i \in DOMAIN t.loads} \cup {new}
  OBVIOUS
<1>4. DOMAIN previous = 1..Len(t.loads) /\ previous \in [1..Len(t.loads) -> S]
  BY <1>1, <1>3
<1>5. DOMAIN new = LoadFields
  <2>1. \A f : f \in DOMAIN new <=> f \in LoadFields
    BY DEF LoadFields
  <2> QED
    BY <2>1
<1>6. new \in S
  BY <1>3
<1>7. s = [t EXCEPT !.loads = Append(previous, new), !.current = Len(t.loads) + 1, !.table = {}, !.loading = TRUE]
  BY DEF Processes!Started
<1> HIDE DEF previous, new, s
<1>8. previous \in Seq(S) /\ Len(previous) = Len(t.loads)
  BY <1>1, <1>4
<1>9. /\ Append(previous, new) \in Seq(S) /\ Len(Append(previous, new)) = Len(t.loads) + 1
      /\ \A i \in 1..Len(t.loads) : Append(previous, new)[i] = previous[i]
      /\ Append(previous, new)[Len(t.loads) + 1] = new
  BY <1>1, <1>6, <1>8
<1>10. /\ DOMAIN s = ProcessFields /\ s.table = {} /\ s.loading = TRUE /\ s.events = t.events
       /\ s.agreed = t.agreed /\ s.ended = t.ended /\ s.current = Len(t.loads) + 1
       /\ s.loads = Append(previous, new)
  BY <1>7 DEF ProcessFields
<1>11. DOMAIN s.loads = 1..Len(t.loads) + 1
  BY <1>1, <1>9, <1>10
<1>12. \A i \in 1..Len(t.loads) + 1 : i \in 1..Len(t.loads) \/ i = Len(t.loads) + 1
  BY <1>1
<1>13. \A i \in 1..Len(t.loads) : i \in 1..Len(t.loads) + 1
  BY <1>1
<1>14. \A i \in DOMAIN s.loads : DOMAIN s.loads[i] = LoadFields
  BY <1>1, <1>2, <1>5, <1>9, <1>10, <1>11, <1>12
<1>15. \A i \in DOMAIN t.loads : i \in DOMAIN s.loads /\ s.loads[i].step = t.loads[i].step
  BY <1>1, <1>2, <1>9, <1>10, <1>11, <1>13
<1>16. IsSequence(s.loads)
  BY <1>9, <1>10 DEF IsSequence
<1> QED
  BY <1>1, <1>9, <1>10, <1>14, <1>15, <1>16 DEF s

LEMMA StartedHolds ==
    ASSUME ProcessInv, NEW t, DOMAIN t = ProcessFields, t.loads = task.loads, t.events = task.events,
           t.ended \subseteq {p \in t.agreed : p[1] # Own},
           task' = Processes!Started(t)
    PROVE  ProcessInv'
<1> DEFINE s == Processes!Started(t)
<1>0. IsSequence(t.loads) /\ \A i \in DOMAIN t.loads : DOMAIN t.loads[i] = LoadFields
  BY DEF ProcessInv
<1>1. /\ DOMAIN s = ProcessFields /\ s.table = {} /\ s.loading = TRUE /\ s.events = t.events
      /\ s.agreed = t.agreed /\ s.ended = t.ended
      /\ IsSequence(s.loads) /\ Len(s.loads) = Len(t.loads) + 1 /\ Len(t.loads) \in Nat
      /\ s.current = Len(s.loads)
      /\ \A i \in DOMAIN s.loads : DOMAIN s.loads[i] = LoadFields
      /\ \A i \in DOMAIN t.loads : i \in DOMAIN s.loads /\ s.loads[i].step = t.loads[i].step
  BY <1>0, StartedIsLast, Zenon
<1>2. task' = s
  OBVIOUS
<1> HIDE DEF s
<1>3. QueueInv'
  BY <1>1, <1>2 DEF ProcessInv, QueueInv
<1>4. TableInv' /\ (Processes!TableIsOfTheLastList)' /\ (Processes!EndsOnlyAgreed)'
  BY <1>1, <1>2 DEF TableInv, Processes!TableIsOfTheLastList, Processes!EndsOnlyAgreed
<1> QED
  BY <1>1, <1>2, <1>3, <1>4 DEF ProcessInv

LEMMA ProcessInit == Processes!Init => ProcessInv
<1> SUFFICES ASSUME Processes!Init PROVE ProcessInv
  OBVIOUS
<1> DEFINE none == [loads |-> <<>>, current |-> 0, table |-> {}, loading |-> FALSE, events |-> <<>>,
                    dialog |-> None, analysis |-> Processes!NoAnalysis, agreed |-> {}, ended |-> {}]
           s == Processes!Started(none)
<1>1. task = s
  BY DEF Processes!Init
<1>2. DOMAIN none = ProcessFields
  <2>1. \A f : f \in DOMAIN none <=> f \in ProcessFields
    BY DEF ProcessFields
  <2> QED
    BY <2>1
<1>3. /\ none.loads = <<>> /\ none.events = <<>> /\ none.agreed = {} /\ none.ended = {}
  OBVIOUS
<1> HIDE DEF none
<1>4. IsSequence(none.loads) /\ IsSequence(none.events) /\ Len(none.loads) = 0 /\ DOMAIN none.events = {}
      /\ \A i \in DOMAIN none.loads : DOMAIN none.loads[i] = LoadFields
  <2>1. <<>> \in Seq({}) /\ Len(<<>>) = 0 /\ DOMAIN <<>> = {}
    OBVIOUS
  <2> QED
    BY <1>3, <2>1 DEF IsSequence
<1>5. /\ DOMAIN s = ProcessFields /\ s.table = {} /\ s.loading = TRUE /\ s.events = none.events
      /\ s.agreed = none.agreed /\ s.ended = none.ended
      /\ IsSequence(s.loads) /\ Len(s.loads) = Len(none.loads) + 1
      /\ s.current = Len(s.loads)
      /\ \A i \in DOMAIN s.loads : DOMAIN s.loads[i] = LoadFields
  BY <1>2, <1>4, StartedIsLast
<1> HIDE DEF s
<1>6. QueueInv /\ TableInv /\ Processes!TableIsOfTheLastList /\ Processes!EndsOnlyAgreed
  BY <1>1, <1>3, <1>4, <1>5 DEF QueueInv, TableInv, Processes!TableIsOfTheLastList, Processes!EndsOnlyAgreed
<1> QED
  BY <1>1, <1>4, <1>5, <1>6 DEF ProcessInv

\* What the list workers and the rows have nothing to do with.
ProcessRest == <<task.loads, task.current, task.table, task.loading, task.events, task.agreed, task.ended>>

LEMMA RestHolds ==
    ASSUME ProcessInv, DOMAIN task' = DOMAIN task, UNCHANGED ProcessRest
    PROVE  ProcessInv'
BY DEF ProcessInv, ProcessRest, QueueInv, TableInv, Processes!TableIsOfTheLastList, Processes!EndsOnlyAgreed

LEMMA ProcessDialogs ==
    ASSUME ProcessInv,
           \/ Processes!get_termination_target \/ Processes!kill_process_Declined
           \/ Processes!analyze_process \/ Processes!cancel_analysis
           \/ Processes!analyze_process_task \/ Processes!_analysis_finished
           \/ Processes!Born \/ Processes!Dies
    PROVE  ProcessInv'
<1>0. DOMAIN task = ProcessFields
  BY DEF ProcessInv
<1>1. CASE Processes!get_termination_target
  BY <1>0, <1>1, RestHolds DEF Processes!get_termination_target, ProcessRest, ProcessFields
<1>2. CASE Processes!kill_process_Declined
  BY <1>0, <1>2, RestHolds DEF Processes!kill_process_Declined, ProcessRest, ProcessFields
<1>3. CASE Processes!analyze_process
  BY <1>0, <1>3, RestHolds DEF Processes!analyze_process, ProcessRest, ProcessFields
<1>4. CASE Processes!cancel_analysis
  BY <1>0, <1>4, RestHolds DEF Processes!cancel_analysis, ProcessRest, ProcessFields
<1>5. CASE Processes!analyze_process_task
  BY <1>0, <1>5, RestHolds DEF Processes!analyze_process_task, ProcessRest, ProcessFields
<1>6. CASE Processes!_analysis_finished
  BY <1>0, <1>6, RestHolds DEF Processes!_analysis_finished, ProcessRest, ProcessFields
<1>7. CASE Processes!Born \/ Processes!Dies
  BY <1>7, RestHolds DEF Processes!Born, Processes!Dies, ProcessRest
<1> QED
  BY <1>1, <1>2, <1>3, <1>4, <1>5, <1>6, <1>7

LEMMA PostedHolds ==
    ASSUME ProcessInv, NEW i \in DOMAIN task.loads, task.loads[i].step # "over",
           NEW kind, kind \in {"result", "cancelled"}, NEW rows, OnePerNumber(rows),
           task' = Processes!Posted(i, kind, rows)
    PROVE  ProcessInv'
<1>0. PICK a, b : a = [kind |-> kind, by |-> i, rows |-> rows] /\ b = [kind |-> "finished", by |-> i, rows |-> {}]
  OBVIOUS
<1> DEFINE joined == task.events \o <<a, b>>
           n == Len(task.events)
           done == [task.loads[i] EXCEPT !.step = "over"]
           loads == [task.loads EXCEPT ![i] = done]
<1>1. a.kind = kind /\ a.by = i /\ a.rows = rows /\ b.kind = "finished" /\ b.by = i
  BY <1>0
<1>2. task' = [task EXCEPT !.loads = loads, !.events = joined]
  BY <1>0 DEF Processes!Posted, ProcessInv, ProcessFields
<1>3. /\ IsSequence(joined) /\ n \in Nat /\ DOMAIN joined = 1..n + 2
      /\ \A k \in 1..n : joined[k] = task.events[k]
      /\ joined[n + 1] = a /\ joined[n + 2] = b
      /\ DOMAIN task.events = 1..n
  <2>1. IsSequence(task.events)
    BY DEF ProcessInv
  <2>2. Joins(task.events, joined, a, b)
    BY <2>1, JoinedShape
  <2>3. DOMAIN task.events = 1..n
    BY <2>1, SequenceShape
  <2> QED
    BY <2>2, <2>3 DEF Joins
<1>4. /\ DOMAIN loads = DOMAIN task.loads /\ loads[i].step = "over"
      /\ \A j \in DOMAIN task.loads : j # i => loads[j] = task.loads[j]
      /\ \A j \in DOMAIN task.loads : DOMAIN loads[j] = LoadFields
  BY DEF ProcessInv, LoadFields
<1>5. IsSequence(loads) /\ Len(loads) = Len(task.loads)
  BY ReplacedShape DEF ProcessInv
<1> HIDE DEF joined, loads
<1>6. /\ DOMAIN task' = ProcessFields /\ task'.loads = loads /\ task'.events = joined
      /\ task'.table = task.table /\ task'.current = task.current /\ task'.loading = task.loading
      /\ task'.agreed = task.agreed /\ task'.ended = task.ended
  BY <1>2 DEF ProcessInv, ProcessFields
<1>7. \A k \in 1..n + 2 : k \in 1..n \/ k = n + 1 \/ k = n + 2
  BY <1>3
<1>8. \A k \in 1..n : task.events[k].by \in DOMAIN task.loads /\ task.loads[task.events[k].by].step = "over"
  BY <1>3 DEF ProcessInv, QueueInv
<1>9. \A k \in 1..n : task.events[k].by # i
  BY <1>8
<1>10. ASSUME NEW k \in 1..n + 2, NEW l \in 1..n + 2, IsResult(joined[k]), IsResult(joined[l]), joined[l].by = joined[k].by
       PROVE  l = k
  <2>1. k # n + 2 /\ l # n + 2
    BY <1>1, <1>3, <1>10 DEF IsResult
  <2>2. CASE k = n + 1
    BY <1>1, <1>3, <1>7, <1>9, <1>10, <2>1, <2>2
  <2>3. CASE l = n + 1
    BY <1>1, <1>3, <1>7, <1>9, <1>10, <2>1, <2>3
  <2>4. CASE k \in 1..n /\ l \in 1..n
    BY <1>3, <1>10, <2>4 DEF ProcessInv, QueueInv
  <2> QED
    BY <1>7, <2>1, <2>2, <2>3, <2>4
<1>11. ASSUME NEW k \in 1..n + 2
       PROVE  /\ joined[k].by \in DOMAIN loads /\ loads[joined[k].by].step = "over"
              /\ IsResult(joined[k]) => OnePerNumber(joined[k].rows)
  <2>1. CASE k \in 1..n
    BY <1>3, <1>4, <1>8, <1>9, <2>1 DEF ProcessInv, QueueInv
  <2>2. CASE k = n + 1 \/ k = n + 2
    BY <1>1, <1>3, <1>4, <2>2 DEF IsResult
  <2> QED
    BY <1>7, <2>1, <2>2
<1>12. QueueInv'
  BY <1>3, <1>6, <1>10, <1>11 DEF QueueInv
<1>13. TableInv'
  <2> SUFFICES ASSUME task.table # {}
               PROVE  /\ loads[Len(loads)].step = "over"
                      /\ \A k \in 1..n + 2 : IsResult(joined[k]) => joined[k].by # Len(loads)
    BY <1>3, <1>6 DEF TableInv
  <2>1. /\ task.loads[Len(task.loads)].step = "over"
        /\ \A k \in 1..n : IsResult(task.events[k]) => task.events[k].by # Len(task.loads)
    BY <1>3 DEF ProcessInv, TableInv
  <2>2. i # Len(task.loads) /\ Len(task.loads) \in DOMAIN task.loads
    BY <2>1, SequenceShape DEF ProcessInv
  <2>3. loads[Len(loads)].step = "over"
    BY <1>4, <1>5, <2>1, <2>2
  <2> QED
    BY <1>1, <1>3, <1>5, <1>7, <2>1, <2>2, <2>3
<1>14. (Processes!TableIsOfTheLastList)' /\ (Processes!EndsOnlyAgreed)'
  BY <1>5, <1>6 DEF ProcessInv, Processes!TableIsOfTheLastList, Processes!EndsOnlyAgreed
<1>15. Len(task'.loads) >= 1 /\ \A j \in DOMAIN task'.loads : DOMAIN task'.loads[j] = LoadFields
  BY <1>4, <1>5, <1>6 DEF ProcessInv
<1> QED
  BY <1>3, <1>5, <1>6, <1>12, <1>13, <1>14, <1>15 DEF ProcessInv

LEMMA ProcessLoads ==
    ASSUME ProcessInv, Processes!load_processes_task
    PROVE  ProcessInv'
<1>1. PICK i \in DOMAIN task.loads :
        /\ task.loads[i].step # "over"
        /\ IF task.loads[i].cancelled THEN task' = Processes!Posted(i, "cancelled", {})
           ELSE IF task.loads[i].step = "sample"
           THEN task' = [task EXCEPT !.loads[i].step = "collect", !.loads[i].seen = Processes!Live]
           ELSE \E filtered \in {{}, System} :
                    task' = Processes!Posted(i, "result", {row \in task.loads[i].seen \cap Processes!Live : row[1] \notin filtered})
  BY Zenon DEF Processes!load_processes_task
<1>2. CASE task.loads[i].cancelled
  <2>1. OnePerNumber({})
    BY DEF OnePerNumber
  <2> QED
    BY <1>1, <1>2, <2>1, PostedHolds
<1>3. CASE ~task.loads[i].cancelled /\ task.loads[i].step = "sample"
  <2> DEFINE taken == [task.loads[i] EXCEPT !.step = "collect", !.seen = Processes!Live]
             loads == [task.loads EXCEPT ![i] = taken]
  <2>1. task' = [task EXCEPT !.loads[i].step = "collect", !.loads[i].seen = Processes!Live]
    BY <1>1, <1>3
  <2>2. task' = [task EXCEPT !.loads = loads]
    BY <2>1 DEF ProcessInv, ProcessFields
  <2>3. /\ DOMAIN loads = DOMAIN task.loads
        /\ \A j \in DOMAIN task.loads : j # i => loads[j] = task.loads[j]
        /\ \A j \in DOMAIN task.loads : DOMAIN loads[j] = LoadFields
        /\ task.loads[i].step # "over"
    BY <1>1 DEF ProcessInv, LoadFields
  <2>4. IsSequence(loads) /\ Len(loads) = Len(task.loads)
    BY ReplacedShape DEF ProcessInv
  <2> HIDE DEF loads
  <2>5. /\ DOMAIN task' = ProcessFields /\ task'.loads = loads /\ task'.events = task.events
        /\ task'.table = task.table /\ task'.current = task.current /\ task'.loading = task.loading
        /\ task'.agreed = task.agreed /\ task'.ended = task.ended
    BY <2>2 DEF ProcessInv, ProcessFields
  <2>6. \A j \in DOMAIN task.loads : task.loads[j].step = "over" => loads[j].step = "over"
    BY <2>3
  <2>7. QueueInv'
    BY <2>3, <2>5, <2>6 DEF ProcessInv, QueueInv
  <2>8. TableInv'
    <3>1. Len(task.loads) \in DOMAIN task.loads
      BY SequenceShape DEF ProcessInv
    <3> QED
      BY <2>4, <2>5, <2>6, <3>1 DEF ProcessInv, TableInv
  <2>9. (Processes!TableIsOfTheLastList)' /\ (Processes!EndsOnlyAgreed)'
    BY <2>4, <2>5 DEF ProcessInv, Processes!TableIsOfTheLastList, Processes!EndsOnlyAgreed
  <2> QED
    BY <2>3, <2>4, <2>5, <2>7, <2>8, <2>9 DEF ProcessInv
<1>4. CASE ~task.loads[i].cancelled /\ task.loads[i].step # "sample"
  <2>1. PICK filtered \in {{}, System} :
          task' = Processes!Posted(i, "result", {row \in task.loads[i].seen \cap Processes!Live : row[1] \notin filtered})
    BY <1>1, <1>4
  <2>2. OnePerNumber({row \in task.loads[i].seen \cap Processes!Live : row[1] \notin filtered})
    BY DEF OnePerNumber, Processes!Live
  <2> HIDE DEF Processes!Live
  <2> QED
    BY <1>1, <2>1, <2>2, PostedHolds
<1> QED
  BY <1>2, <1>3, <1>4

LEMMA ProcessHandles ==
    ASSUME ProcessInv, Processes!Handle
    PROVE  ProcessInv'
<1> DEFINE e == Head(task.events)
           rest == Tail(task.events)
           t == [task EXCEPT !.events = rest]
           last == Len(task.loads)
           added == {[by |-> e.by, process |-> row] : row \in e.rows}
<1>1. /\ task.events # <<>>
      /\ task' = CASE e.kind = "result" -> Processes!_process_load_result(t, e.by, e.rows)
                   [] e.kind = "finished" -> Processes!_process_load_finished(t, e.by)
                   [] OTHER -> t
  BY DEF Processes!Handle
<1>2. /\ IsSequence(rest) /\ 1 \in DOMAIN task.events /\ e = task.events[1]
      /\ \A k \in DOMAIN rest : k + 1 \in DOMAIN task.events /\ rest[k] = task.events[k + 1] /\ k \in Nat /\ k + 1 # 1
  BY <1>1, TailShape DEF ProcessInv
<1>3. last \in Nat /\ last >= 1
  BY SequenceShape DEF ProcessInv
<1>4. /\ DOMAIN t = ProcessFields /\ t.loads = task.loads /\ t.events = rest /\ t.table = task.table
      /\ t.current = task.current /\ t.loading = task.loading /\ t.agreed = task.agreed /\ t.ended = task.ended
  BY DEF ProcessInv, ProcessFields
<1> HIDE DEF e, rest, t, last, added
<1>5. \A k \in DOMAIN rest : IsResult(e) /\ IsResult(rest[k]) => rest[k].by # e.by
  <2> SUFFICES ASSUME NEW k \in DOMAIN rest, IsResult(e), IsResult(rest[k]), rest[k].by = e.by
               PROVE  FALSE
    OBVIOUS
  <2>1. /\ k + 1 \in DOMAIN task.events /\ rest[k] = task.events[k + 1] /\ k + 1 # 1
        /\ 1 \in DOMAIN task.events /\ e = task.events[1]
    BY <1>2
  <2>2. \A i, j \in DOMAIN task.events : IsResult(task.events[i]) /\ IsResult(task.events[j])
                                        /\ task.events[j].by = task.events[i].by => j = i
    BY DEF ProcessInv, QueueInv
  <2> QED
    BY <2>1, <2>2, Zenon
<1>6. \A k, l \in DOMAIN rest :
         IsResult(rest[k]) /\ IsResult(rest[l]) /\ rest[l].by = rest[k].by => l = k
  <2> SUFFICES ASSUME NEW k \in DOMAIN rest, NEW l \in DOMAIN rest,
                      IsResult(rest[k]), IsResult(rest[l]), rest[l].by = rest[k].by
               PROVE  l = k
    OBVIOUS
  <2>1. /\ k + 1 \in DOMAIN task.events /\ rest[k] = task.events[k + 1] /\ k \in Nat
        /\ l + 1 \in DOMAIN task.events /\ rest[l] = task.events[l + 1] /\ l \in Nat
    BY <1>2
  <2>2. \A i, j \in DOMAIN task.events : IsResult(task.events[i]) /\ IsResult(task.events[j])
                                        /\ task.events[j].by = task.events[i].by => j = i
    BY DEF ProcessInv, QueueInv
  <2>3. k + 1 = l + 1
    BY <2>1, <2>2, Zenon
  <2> QED
    BY <2>1, <2>3
<1>7. ASSUME DOMAIN task' = ProcessFields, task'.loads = task.loads, task'.events = rest
      PROVE  QueueInv' /\ IsSequence(task'.loads) /\ Len(task'.loads) >= 1
             /\ (\A i \in DOMAIN task'.loads : DOMAIN task'.loads[i] = LoadFields) /\ IsSequence(task'.events)
  BY <1>2, <1>6, <1>7 DEF ProcessInv, QueueInv
<1>8. \A k \in DOMAIN rest : \E l \in DOMAIN task.events : rest[k] = task.events[l]
  BY <1>2
<1>9. ASSUME task'.loads = task.loads, task'.events = rest, task'.table = task.table
      PROVE  TableInv'
  BY <1>8, <1>9 DEF ProcessInv, TableInv
<1>10. CASE task' = t
  <2>1. QueueInv' /\ TableInv' /\ IsSequence(task'.events)
    BY <1>4, <1>7, <1>9, <1>10
  <2>2. (Processes!TableIsOfTheLastList)' /\ (Processes!EndsOnlyAgreed)'
    BY <1>4, <1>10 DEF ProcessInv, Processes!TableIsOfTheLastList, Processes!EndsOnlyAgreed
  <2> QED
    BY <1>4, <1>7, <1>10, <2>1, <2>2 DEF ProcessInv
<1>11. CASE e.kind = "finished" /\ e.by = task.current
  <2>1. task' = [t EXCEPT !.current = 0, !.loading = FALSE]
    BY <1>1, <1>4, <1>11 DEF Processes!_process_load_finished
  <2>2. /\ DOMAIN task' = ProcessFields /\ task'.loads = task.loads /\ task'.events = rest /\ task'.table = task.table
        /\ task'.current = 0 /\ task'.loading = FALSE /\ task'.agreed = task.agreed /\ task'.ended = task.ended
    BY <1>4, <2>1 DEF ProcessFields
  <2>3. QueueInv' /\ TableInv' /\ IsSequence(task'.events)
    BY <1>7, <1>9, <2>2
  <2>4. (Processes!TableIsOfTheLastList)' /\ (Processes!EndsOnlyAgreed)'
    BY <2>2 DEF ProcessInv, Processes!TableIsOfTheLastList, Processes!EndsOnlyAgreed
  <2> QED
    BY <1>7, <2>2, <2>3, <2>4 DEF ProcessInv
<1>12. CASE e.kind = "result" /\ e.by = task.current
  <2>1. task' = [t EXCEPT !.table = @ \cup added]
    BY <1>1, <1>4, <1>12 DEF Processes!_process_load_result, added
  <2>2. /\ DOMAIN task' = ProcessFields /\ task'.loads = task.loads /\ task'.events = rest
        /\ task'.table = task.table \cup added
        /\ task'.current = task.current /\ task'.loading = task.loading
        /\ task'.agreed = task.agreed /\ task'.ended = task.ended
    BY <1>4, <2>1 DEF ProcessFields
  <2>3. IsResult(e) /\ e.by \in DOMAIN task.loads /\ task.loads[e.by].step = "over" /\ OnePerNumber(e.rows)
    BY <1>2, <1>12 DEF ProcessInv, QueueInv, IsResult
  <2>4. e.by = last
    <3>1. e.by # 0
      BY <2>3, SequenceShape DEF ProcessInv
    <3> QED
      BY <1>12, <3>1 DEF ProcessInv, Processes!TableIsOfTheLastList, last
  <2>5. task.table = {}
    BY <1>2, <2>3, <2>4 DEF ProcessInv, TableInv, last
  <2>6. QueueInv' /\ IsSequence(task'.events)
    BY <1>7, <2>2
  <2>7. TableInv'
    BY <1>5, <2>2, <2>3, <2>4 DEF TableInv, last
  <2>8. \A row \in added : row.by = last
    BY <2>4 DEF added
  <2>9. \A row, other \in added : row.process[1] = other.process[1] => row = other
    BY <2>3 DEF added, OnePerNumber
  <2>10. (Processes!TableIsOfTheLastList)' /\ (Processes!EndsOnlyAgreed)'
    BY <2>2, <2>5, <2>8, <2>9 DEF ProcessInv, Processes!TableIsOfTheLastList, Processes!EndsOnlyAgreed, last
  <2> QED
    BY <1>7, <2>2, <2>6, <2>7, <2>10 DEF ProcessInv
<1> QED
  BY <1>1, <1>4, <1>10, <1>11, <1>12 DEF Processes!_process_load_result, Processes!_process_load_finished

LEMMA ProcessEnds ==
    ASSUME ProcessInv, Processes!kill_process_Confirmed
    PROVE  ProcessInv'
<1> DEFINE process == task.dialog.process
           ended == Processes!terminate_process(process)
           t == [task EXCEPT !.dialog = None, !.agreed = @ \cup {process}, !.ended = @ \cup ended]
<1>1. CASE task.dialog.ask = "confirm" /\ process[1] \in System
  <2>1. task' = [task EXCEPT !.dialog.ask = "system"]
    BY <1>1 DEF Processes!kill_process_Confirmed
  <2> QED
    BY <2>1, RestHolds DEF ProcessRest, ProcessInv, ProcessFields
<1>2. CASE ~(task.dialog.ask = "confirm" /\ process[1] \in System)
  <2>1. task' = IF ended = {} THEN t ELSE Processes!Started(t)
    BY <1>2 DEF Processes!kill_process_Confirmed
  <2>2. ended \subseteq {process} /\ \A p \in ended : p[1] # Own
    BY DEF Processes!terminate_process
  <2>3. /\ DOMAIN t = ProcessFields /\ t.loads = task.loads /\ t.events = task.events /\ t.table = task.table
        /\ t.current = task.current /\ t.loading = task.loading
        /\ t.agreed = task.agreed \cup {process} /\ t.ended = task.ended \cup ended
    BY DEF ProcessInv, ProcessFields
  <2> HIDE DEF t, ended, process
  <2>4. t.ended \subseteq {p \in t.agreed : p[1] # Own}
    BY <2>2, <2>3 DEF ProcessInv, Processes!EndsOnlyAgreed
  <2>5. CASE task' = t
    <3>1. QueueInv' /\ TableInv' /\ (Processes!TableIsOfTheLastList)' /\ (Processes!EndsOnlyAgreed)'
      BY <2>3, <2>4, <2>5 DEF ProcessInv, QueueInv, TableInv, Processes!TableIsOfTheLastList, Processes!EndsOnlyAgreed
    <3> QED
      BY <2>3, <2>5, <3>1 DEF ProcessInv
  <2>6. CASE task' = Processes!Started(t)
    BY <2>3, <2>4, <2>6, StartedHolds
  <2> QED
    BY <2>1, <2>5, <2>6
<1> QED
  BY <1>1, <1>2

LEMMA ProcessStep ==
    ASSUME ProcessInv, Processes!Next
    PROVE  ProcessInv'
<1>1. CASE Processes!load_processes
  <2>1. task' = Processes!Started(task)
    BY <1>1 DEF Processes!load_processes
  <2>2. task.ended \subseteq {p \in task.agreed : p[1] # Own} /\ DOMAIN task = ProcessFields
    BY DEF ProcessInv, Processes!EndsOnlyAgreed
  <2> QED
    BY <2>1, <2>2, StartedHolds
<1> QED
  BY <1>1, ProcessLoads, ProcessHandles, ProcessEnds, ProcessDialogs DEF Processes!Next

LEMMA ProcessIsRight ==
    ASSUME ProcessInv
    PROVE  Processes!EndsOnlyAgreed /\ Processes!TableIsOfTheLastList
BY DEF ProcessInv

-----------------------------------------------------------------------------
(* The network explorer. *)

ExplorerFields == {"scan", "target", "open", "found", "cameras", "window", "later", "scans"}
WorkerFields == {"step", "work", "target", "stop", "next", "pending", "ready", "batch", "checked", "found", "failed", "retry"}
NetworkFields == {"child", "file", "ended"}
Pools == {"hosts", "ports"}

IsPool(w) == w.step # "idle" /\ w.work \in Pools
Runs(w) == w.step \notin {"idle", "over"}
Reads(w) == w.step = "nerva" /\ w.work \notin Pools

\* Every item that was submitted is pending, in the batch or taken, until a stop drops some.
PoolInv(s, w) ==
    /\ w.work = s /\ w.next <= Items[s]
    /\ w.pending \cup w.batch \cup w.checked \subseteq 1..w.next
    /\ w.pending \cap w.batch = {}
    /\ w.checked \cap (w.pending \cup w.batch) = {}
    /\ w.step # "take" => w.batch = {}
    /\ w.found = w.checked \cap Hits[w.target]
    /\ w.step \in {"fill", "wait", "take"} => 1..w.next \subseteq w.pending \cup w.batch \cup w.checked
    /\ w.step = "drain" => w.stop
    /\ w.step \in {"end", "over"} /\ ~w.stop /\ ~w.failed => w.checked = 1..Items[s]

WorkerInv(s, w) ==
    /\ DOMAIN w = WorkerFields /\ w.next \in Nat
    /\ IsFiniteSet(w.pending) /\ Cardinality(w.pending) <= Pending
    /\ w.ready \subseteq w.pending
    /\ IsPool(w) => PoolInv(s, w)
    /\ ~IsPool(w) => w.pending = {} /\ w.batch = {} /\ w.checked = {}

IsTrue(entry) ==
    entry.work \in Pools =>
        /\ entry.found = entry.checked \cap Hits[entry.target]
        /\ ~entry.cancelled /\ ~entry.failed => entry.checked = 1..Items[entry.work]

FileInv(file) ==
    /\ IsSequence(file)
    /\ \A i \in DOMAIN file : IsSequence(file[i]) /\ \A j \in DOMAIN file[i] : IsTrue(file[i][j])

ExplorerInv ==
    /\ DOMAIN task = ExplorerFields /\ DOMAIN task.scan = DOMAIN Items /\ DOMAIN world = NetworkFields
    /\ \A s \in DOMAIN Items : WorkerInv(s, task.scan[s])
    /\ task.window = "closed" => \A s \in DOMAIN Items : ~Runs(task.scan[s])
    /\ world.child <=> Reads(task.scan["ports"])
    /\ FileInv(world.file)

LEMMA ExplorerLibrary ==
    /\ \A S : Explorer!IsFiniteSet(S) <=> IsFiniteSet(S)
    /\ \A S : Explorer!Cardinality(S) = Cardinality(S)
BY DEF Explorer!IsFiniteSet, IsFiniteSet, Explorer!Cardinality, Cardinality

LEMMA ExplorerTypes == DOMAIN Items = Pools /\ (\A s \in Pools : Items[s] \in Nat) /\ Pending \in Nat \ {0}
BY ToolWindowsAssumption DEF Explorer!ExplorerConstants, Pools

LEMMA ExplorerIsRight ==
    ASSUME ExplorerInv
    PROVE  Explorer!PoolIsBounded /\ Explorer!NothingOutlivesTheWindow /\ Explorer!SummariesAreTrue
<1>1. Explorer!PoolIsBounded
  BY ExplorerLibrary DEF ExplorerInv, WorkerInv, PoolInv, Explorer!PoolIsBounded
<1>2. Explorer!NothingOutlivesTheWindow
  BY DEF ExplorerInv, Explorer!NothingOutlivesTheWindow, Explorer!_running_workers, Explorer!running_worker,
         Explorer!Asking, Runs, Reads, Pools
<1>3. Explorer!SummariesAreTrue
  BY DEF ExplorerInv, FileInv, IsTrue, Pools, Explorer!SummariesAreTrue
<1> QED
  BY <1>1, <1>2, <1>3

LEMMA NoWorkerInv ==
    ASSUME NEW s \in DOMAIN Items
    PROVE  WorkerInv(s, Explorer!NoWorker) /\ Explorer!NoWorker.step = "idle"
<1> DEFINE w == [step |-> "idle", work |-> None, target |-> None, stop |-> FALSE, next |-> 0,
                 pending |-> {}, ready |-> {}, batch |-> {}, checked |-> {}, found |-> {},
                 failed |-> FALSE, retry |-> FALSE]
<1>1. Explorer!NoWorker = w
  BY DEF Explorer!NoWorker
<1>2. \A f : f \in DOMAIN w <=> f \in WorkerFields
  BY DEF WorkerFields
<1>3. DOMAIN w = WorkerFields
  BY <1>2
<1>4. w.step = "idle" /\ w.next = 0 /\ w.pending = {} /\ w.ready = {} /\ w.batch = {} /\ w.checked = {}
  OBVIOUS
<1> HIDE DEF w
<1>5. WorkerInv(s, w)
  BY <1>3, <1>4, FS_EmptySet, ExplorerTypes DEF WorkerInv, IsPool
<1> QED
  BY <1>1, <1>4, <1>5

LEMMA NewWorkerInv ==
    ASSUME NEW s \in DOMAIN Items, NEW work, NEW target, work \in Pools => work = s
    PROVE  /\ WorkerInv(s, Explorer!Worker(work, target))
           /\ Explorer!Worker(work, target).step = "fill" /\ Explorer!Worker(work, target).work = work
<1> DEFINE none == [step |-> "idle", work |-> None, target |-> None, stop |-> FALSE, next |-> 0,
                    pending |-> {}, ready |-> {}, batch |-> {}, checked |-> {}, found |-> {},
                    failed |-> FALSE, retry |-> FALSE]
           w == [none EXCEPT !.step = "fill", !.work = work, !.target = target]
<1>1. Explorer!Worker(work, target) = w
  BY DEF Explorer!NoWorker, Explorer!Worker
<1>2. \A f : f \in DOMAIN none <=> f \in WorkerFields
  BY DEF WorkerFields
<1>3. DOMAIN none = WorkerFields
  BY <1>2
<1>4. /\ none.next = 0 /\ none.found = {}
      /\ none.pending = {} /\ none.ready = {} /\ none.batch = {} /\ none.checked = {}
  OBVIOUS
<1> HIDE DEF none
<1>5. /\ DOMAIN w = WorkerFields
      /\ w.step = "fill" /\ w.work = work /\ w.target = target /\ w.next = 0 /\ w.found = {}
      /\ w.pending = {} /\ w.ready = {} /\ w.batch = {} /\ w.checked = {}
  BY <1>3, <1>4 DEF WorkerFields
<1> HIDE DEF w
<1>6. 1..0 = {} /\ s \in Pools /\ Items[s] \in Nat
  BY ExplorerTypes
<1>7. IsPool(w) => PoolInv(s, w)
  BY <1>5, <1>6 DEF IsPool, PoolInv
<1>8. WorkerInv(s, w)
  BY <1>5, <1>7, FS_EmptySet, ExplorerTypes DEF WorkerInv
<1> QED
  BY <1>1, <1>5, <1>8

\* One worker changes, and with it at most the child process that it reads.
LEMMA WorkerChanges ==
    ASSUME ExplorerInv, NEW s \in DOMAIN Items, NEW w, WorkerInv(s, w),
           DOMAIN task' = ExplorerFields, task'.scan = [task.scan EXCEPT ![s] = w],
           task'.window = task.window \/ (~Runs(w) /\ \A r \in DOMAIN Items : ~Runs(task.scan[r])),
           Runs(w) => Runs(task.scan[s]) \/ task.window # "closed",
           DOMAIN world' = NetworkFields,
           world'.child <=> (IF s = "ports" THEN Reads(w) ELSE world.child),
           FileInv(world'.file)
    PROVE  ExplorerInv'
<1>1. DOMAIN task'.scan = DOMAIN Items /\ \A r \in DOMAIN Items : task'.scan[r] = IF r = s THEN w ELSE task.scan[r]
  BY DEF ExplorerInv
<1>2. \A r \in DOMAIN Items : WorkerInv(r, task'.scan[r])
  BY <1>1 DEF ExplorerInv
<1>3. task'.window = "closed" => \A r \in DOMAIN Items : ~Runs(task'.scan[r])
  BY <1>1 DEF ExplorerInv
<1>4. "ports" \in DOMAIN Items
  BY ExplorerTypes DEF Pools
<1>5. world'.child <=> Reads(task'.scan["ports"])
  BY <1>1, <1>4 DEF ExplorerInv
<1> QED
  BY <1>1, <1>2, <1>3, <1>5 DEF ExplorerInv

LEMMA ExplorerInit == Explorer!Init => ExplorerInv
<1> SUFFICES ASSUME Explorer!Init PROVE ExplorerInv
  OBVIOUS
<1>1. PICK target :
        task = [scan |-> [s \in DOMAIN Items |-> Explorer!NoWorker], target |-> target, open |-> {}, found |-> {},
                cameras |-> {}, window |-> "open", later |-> FALSE, scans |-> 0]
  BY DEF Explorer!Init
<1>2. \A f : f \in DOMAIN task <=> f \in ExplorerFields
  BY <1>1 DEF ExplorerFields
<1>3. DOMAIN task = ExplorerFields
  BY <1>2
<1>4. task.scan = [s \in DOMAIN Items |-> Explorer!NoWorker] /\ task.window = "open"
  BY <1>1
<1>5. world = [child |-> FALSE, file |-> <<>>, ended |-> TRUE]
  BY DEF Explorer!Init
<1>6. \A f : f \in DOMAIN world <=> f \in NetworkFields
  BY <1>5 DEF NetworkFields
<1>7. DOMAIN world = NetworkFields
  BY <1>6
<1>8. world.child = FALSE /\ world.file = <<>>
  BY <1>5
<1>9. DOMAIN task.scan = DOMAIN Items /\ \A s \in DOMAIN Items : task.scan[s] = Explorer!NoWorker
  BY <1>4
<1>10. \A s \in DOMAIN Items : WorkerInv(s, task.scan[s]) /\ task.scan[s].step = "idle"
  BY <1>9, NoWorkerInv
<1>11. ~Reads(task.scan["ports"])
  BY <1>10, ExplorerTypes DEF Reads, Pools
<1>12. FileInv(world.file)
  <2>1. <<>> \in Seq({}) /\ DOMAIN <<>> = {}
    OBVIOUS
  <2> QED
    BY <1>8, <2>1 DEF FileInv, IsSequence
<1> QED
  BY <1>3, <1>4, <1>7, <1>8, <1>9, <1>10, <1>11, <1>12 DEF ExplorerInv

\* A worker of a pool changes and nothing else does.
LEMMA BecomesHolds ==
    ASSUME ExplorerInv, NEW s \in DOMAIN Items, NEW w, WorkerInv(s, w), Explorer!Becomes(s, w),
           Runs(w) => Runs(task.scan[s]), ~Reads(task.scan[s]), ~Reads(w)
    PROVE  ExplorerInv'
<1>1. DOMAIN task' = ExplorerFields /\ task'.scan = [task.scan EXCEPT ![s] = w] /\ task'.window = task.window
  BY DEF Explorer!Becomes, ExplorerInv, ExplorerFields
<1>2. world' = world
  BY DEF Explorer!Becomes
<1>3. world'.child <=> (IF s = "ports" THEN Reads(w) ELSE world.child)
  BY <1>2 DEF ExplorerInv
<1>4. Runs(w) => Runs(task.scan[s]) \/ task.window # "closed"
  OBVIOUS
<1>5. DOMAIN world' = NetworkFields /\ FileInv(world'.file)
  BY <1>2 DEF ExplorerInv
<1> QED
  BY <1>1, <1>3, <1>4, <1>5, WorkerChanges, Zenon

LEMMA SubmitHolds ==
    ASSUME NEW s \in DOMAIN Items, NEW w, WorkerInv(s, w), w.step = "fill", w.work \in Pools,
           w.next < Items[s], Cardinality(w.pending) < Pending
    PROVE  WorkerInv(s, [w EXCEPT !.next = @ + 1, !.pending = @ \cup {w.next + 1}])
<1> DEFINE n == w.next
           v == [w EXCEPT !.next = @ + 1, !.pending = @ \cup {n + 1}]
<1>1. /\ DOMAIN v = WorkerFields /\ v.next = n + 1 /\ v.pending = w.pending \cup {n + 1} /\ v.ready = w.ready
      /\ v.step = "fill" /\ v.work = w.work /\ v.batch = w.batch /\ v.checked = w.checked
      /\ v.found = w.found /\ v.target = w.target /\ v.stop = w.stop
  BY DEF WorkerInv, WorkerFields
<1>2. IsPool(w) /\ PoolInv(s, w) /\ n \in Nat /\ Items[s] \in Nat /\ Pending \in Nat
  BY ExplorerTypes DEF WorkerInv, IsPool
<1>3. 1..n \subseteq 1..n + 1 /\ n + 1 \in 1..n + 1 /\ 1..n + 1 \subseteq 1..n \cup {n + 1} /\ n + 1 \notin 1..n
  BY <1>2
<1>4. IsFiniteSet(v.pending) /\ Cardinality(v.pending) <= Pending
  <2>1. /\ IsFiniteSet(w.pending) /\ Cardinality(w.pending) \in Nat
    BY FS_CardinalityType DEF WorkerInv
  <2>2. /\ IsFiniteSet(w.pending \cup {n + 1})
        /\ \/ Cardinality(w.pending \cup {n + 1}) = Cardinality(w.pending)
           \/ Cardinality(w.pending \cup {n + 1}) = Cardinality(w.pending) + 1
    BY <2>1, FS_AddElement
  <2> QED
    BY <1>1, <1>2, <2>1, <2>2
<1> HIDE DEF v
<1>5. v.next <= Items[s]
  BY <1>1, <1>2
<1>6. PoolInv(s, v)
  BY <1>1, <1>2, <1>3, <1>5 DEF PoolInv
<1>7. WorkerInv(s, v)
  BY <1>1, <1>2, <1>4, <1>6 DEF WorkerInv, IsPool
<1> QED
  BY <1>7 DEF v

LEMMA FilledHolds ==
    ASSUME NEW s \in DOMAIN Items, NEW w, WorkerInv(s, w), w.step = "fill", w.work \in Pools,
           ~(w.next < Items[s] /\ ~w.stop /\ Cardinality(w.pending) < Pending)
    PROVE  WorkerInv(s, [w EXCEPT !.step = IF w.pending = {} THEN "end" ELSE "wait"])
<1> DEFINE v == [w EXCEPT !.step = IF w.pending = {} THEN "end" ELSE "wait"]
<1>1. /\ DOMAIN v = WorkerFields /\ v.step = (IF w.pending = {} THEN "end" ELSE "wait")
      /\ v.next = w.next /\ v.pending = w.pending /\ v.ready = w.ready
      /\ v.work = w.work /\ v.batch = w.batch /\ v.checked = w.checked
      /\ v.found = w.found /\ v.target = w.target /\ v.stop = w.stop /\ v.failed = w.failed
  BY DEF WorkerInv, WorkerFields
<1>2. IsPool(w) /\ PoolInv(s, w) /\ w.next \in Nat /\ Items[s] \in Nat /\ Pending \in Nat \ {0}
  BY ExplorerTypes DEF WorkerInv, IsPool
<1>3. ASSUME w.pending = {}, ~w.stop
      PROVE  w.checked = 1..Items[s]
  <2>1. Cardinality(w.pending) < Pending
    BY <1>2, <1>3, FS_EmptySet
  <2>2. w.next = Items[s]
    BY <1>2, <1>3, <2>1 DEF PoolInv
  <2>3. w.batch = {} /\ w.checked = 1..w.next
    BY <1>2, <1>3 DEF PoolInv
  <2> QED
    BY <2>2, <2>3
<1> HIDE DEF v
<1>4. PoolInv(s, v)
  BY <1>1, <1>2, <1>3 DEF PoolInv
<1>5. WorkerInv(s, v)
  BY <1>1, <1>2, <1>4 DEF WorkerInv, IsPool
<1> QED
  BY <1>5 DEF v

LEMMA ExplorerFills ==
    ASSUME ExplorerInv, Explorer!fill_pending
    PROVE  ExplorerInv'
<1>1. PICK s \in DOMAIN Items :
        /\ Explorer!Scanning(s, "fill")
        /\ Explorer!Becomes(s, IF task.scan[s].next < Items[s] /\ ~task.scan[s].stop
                                  /\ Explorer!Cardinality(task.scan[s].pending) < Pending
                               THEN [task.scan[s] EXCEPT !.next = @ + 1, !.pending = @ \cup {task.scan[s].next + 1}]
                               ELSE [task.scan[s] EXCEPT !.step = IF task.scan[s].pending = {} THEN "end" ELSE "wait"])
  BY Zenon DEF Explorer!fill_pending
<1>2. PICK w : w = task.scan[s]
  OBVIOUS
<1>3. WorkerInv(s, w) /\ w.step = "fill" /\ w.work \in Pools /\ DOMAIN w = WorkerFields
  BY <1>1, <1>2 DEF ExplorerInv, WorkerInv, Explorer!Scanning, Pools
<1>4. ~Reads(task.scan[s]) /\ Runs(task.scan[s])
  BY <1>2, <1>3 DEF Reads, Runs
<1>5. CASE w.next < Items[s] /\ ~w.stop /\ Cardinality(w.pending) < Pending
  <2>1. Explorer!Becomes(s, [w EXCEPT !.next = @ + 1, !.pending = @ \cup {w.next + 1}])
    BY <1>1, <1>2, <1>5, ExplorerLibrary
  <2>2. WorkerInv(s, [w EXCEPT !.next = @ + 1, !.pending = @ \cup {w.next + 1}])
    BY <1>3, <1>5, SubmitHolds
  <2>3. ~Reads([w EXCEPT !.next = @ + 1, !.pending = @ \cup {w.next + 1}])
    BY <1>3 DEF Reads, WorkerFields
  <2> QED
    BY <1>4, <2>1, <2>2, <2>3, BecomesHolds
<1>6. CASE ~(w.next < Items[s] /\ ~w.stop /\ Cardinality(w.pending) < Pending)
  <2>1. Explorer!Becomes(s, [w EXCEPT !.step = IF w.pending = {} THEN "end" ELSE "wait"])
    BY <1>1, <1>2, <1>6, ExplorerLibrary
  <2>2. WorkerInv(s, [w EXCEPT !.step = IF w.pending = {} THEN "end" ELSE "wait"])
    BY <1>3, <1>6, FilledHolds
  <2>3. ~Reads([w EXCEPT !.step = IF w.pending = {} THEN "end" ELSE "wait"])
    BY <1>3 DEF Reads, WorkerFields
  <2> QED
    BY <1>4, <2>1, <2>2, <2>3, BecomesHolds
<1> QED
  BY <1>5, <1>6

\* The name cannot be resolved: nothing was submitted.
LEMMA ExplorerFails ==
    ASSUME ExplorerInv, Explorer!gethostbyname
    PROVE  ExplorerInv'
<1> DEFINE w == task.scan["ports"]
           v == [w EXCEPT !.step = "end", !.failed = TRUE]
<1>1. "ports" \in DOMAIN Items
  BY ExplorerTypes DEF Pools
<1>2. w.step = "fill" /\ w.work \in Pools /\ w.next = 0 /\ Explorer!Becomes("ports", v)
  BY DEF Explorer!gethostbyname, Explorer!Scanning, Pools
<1>3. WorkerInv("ports", w)
  BY <1>1 DEF ExplorerInv
<1> HIDE DEF w
<1>4. /\ DOMAIN v = WorkerFields /\ v.step = "end" /\ v.failed = TRUE
      /\ v.next = w.next /\ v.pending = w.pending /\ v.ready = w.ready
      /\ v.work = w.work /\ v.batch = w.batch /\ v.checked = w.checked
      /\ v.found = w.found /\ v.target = w.target /\ v.stop = w.stop
  BY <1>3 DEF WorkerInv, WorkerFields
<1> HIDE DEF v
<1>5. IsPool(w) /\ PoolInv("ports", w)
  BY <1>2, <1>3 DEF WorkerInv, IsPool
<1>6. PoolInv("ports", v)
  BY <1>2, <1>4, <1>5 DEF PoolInv
<1>7. WorkerInv("ports", v)
  BY <1>2, <1>3, <1>4, <1>6 DEF WorkerInv, IsPool
<1>8. ~Reads(w) /\ ~Reads(v) /\ Runs(w)
  BY <1>2, <1>4 DEF Reads, Runs
<1> QED
  BY <1>1, <1>2, <1>7, <1>8, BecomesHolds DEF w

LEMMA ExplorerProbes ==
    ASSUME ExplorerInv, Explorer!Probe
    PROVE  ExplorerInv'
<1>0. PICK s \in DOMAIN Items : \E i \in task.scan[s].pending \ task.scan[s].ready :
         Explorer!Becomes(s, [task.scan[s] EXCEPT !.ready = @ \cup {i}])
  BY Zenon DEF Explorer!Probe
<1>1. PICK i \in task.scan[s].pending \ task.scan[s].ready :
         Explorer!Becomes(s, [task.scan[s] EXCEPT !.ready = @ \cup {i}])
  BY <1>0
<1> DEFINE w == task.scan[s]
           v == [w EXCEPT !.ready = @ \cup {i}]
<1>2. WorkerInv(s, w) /\ i \in w.pending
  BY DEF ExplorerInv
<1> HIDE DEF w
<1>3. /\ DOMAIN v = WorkerFields /\ v.step = w.step /\ v.failed = w.failed
      /\ v.next = w.next /\ v.pending = w.pending /\ v.ready = w.ready \cup {i}
      /\ v.work = w.work /\ v.batch = w.batch /\ v.checked = w.checked
      /\ v.found = w.found /\ v.target = w.target /\ v.stop = w.stop
  BY <1>2 DEF WorkerInv, WorkerFields
<1>4. Explorer!Becomes(s, v)
  BY <1>1 DEF w
<1> HIDE DEF v
<1>5. IsPool(w) /\ PoolInv(s, w)
  BY <1>2 DEF WorkerInv
<1>6. PoolInv(s, v) /\ IsPool(v)
  BY <1>3, <1>5 DEF PoolInv, IsPool
<1>7. WorkerInv(s, v)
  BY <1>2, <1>3, <1>6 DEF WorkerInv
<1>8. ~Reads(w) /\ ~Reads(v) /\ (Runs(v) => Runs(w))
  BY <1>3, <1>5 DEF Reads, Runs, IsPool
<1> QED
  BY <1>4, <1>7, <1>8, BecomesHolds DEF w

LEMMA ExplorerCollects ==
    ASSUME ExplorerInv, Explorer!_bounded_future_results
    PROVE  ExplorerInv'
<1>1. PICK s \in DOMAIN Items :
        /\ Explorer!Scanning(s, "wait") /\ task.scan[s].ready # {}
        /\ Explorer!Becomes(s, [task.scan[s] EXCEPT !.step = "take", !.batch = task.scan[s].ready, !.ready = {},
                                                    !.pending = @ \ task.scan[s].ready])
  BY Zenon DEF Explorer!_bounded_future_results
<1> DEFINE w == task.scan[s]
           v == [w EXCEPT !.step = "take", !.batch = w.ready, !.ready = {}, !.pending = @ \ w.ready]
<1>2. WorkerInv(s, w) /\ w.step = "wait" /\ w.work \in Pools
  BY <1>1 DEF ExplorerInv, Explorer!Scanning, Pools
<1>3. Explorer!Becomes(s, v)
  BY <1>1
<1> HIDE DEF w
<1>4. /\ DOMAIN v = WorkerFields /\ v.step = "take" /\ v.failed = w.failed
      /\ v.next = w.next /\ v.pending = w.pending \ w.ready /\ v.ready = {}
      /\ v.work = w.work /\ v.batch = w.ready /\ v.checked = w.checked
      /\ v.found = w.found /\ v.target = w.target /\ v.stop = w.stop
  BY <1>2 DEF WorkerInv, WorkerFields
<1> HIDE DEF v
<1>5. IsPool(w) /\ PoolInv(s, w) /\ IsFiniteSet(w.pending) /\ w.ready \subseteq w.pending
  BY <1>2 DEF WorkerInv, IsPool
<1>6. PoolInv(s, v) /\ IsPool(v)
  BY <1>2, <1>4, <1>5 DEF PoolInv, IsPool
<1>7. IsFiniteSet(v.pending) /\ Cardinality(v.pending) <= Pending
  <2>1. v.pending \in SUBSET w.pending
    BY <1>4
  <2>2. IsFiniteSet(v.pending) /\ Cardinality(v.pending) <= Cardinality(w.pending)
    BY <1>5, <2>1, FS_Subset
  <2>3. Cardinality(w.pending) \in Nat /\ Cardinality(v.pending) \in Nat /\ Pending \in Nat
        /\ Cardinality(w.pending) <= Pending
    BY <1>2, <1>5, <2>2, FS_CardinalityType, ExplorerTypes DEF WorkerInv
  <2> QED
    BY <2>2, <2>3
<1>8. WorkerInv(s, v)
  BY <1>2, <1>4, <1>6, <1>7 DEF WorkerInv
<1>9. ~Reads(w) /\ ~Reads(v) /\ Runs(w)
  BY <1>2, <1>4 DEF Reads, Runs
<1> QED
  BY <1>3, <1>8, <1>9, BecomesHolds DEF w

\* What a worker takes, or leaves when it was stopped.
LEMMA TakenHolds ==
    ASSUME NEW s \in DOMAIN Items, NEW w, WorkerInv(s, w), w.step = "take", w.work \in Pools, NEW i \in w.batch
    PROVE  WorkerInv(s, Explorer!Taken(w, i)) /\ ~Reads(Explorer!Taken(w, i))
<1> DEFINE v == [w EXCEPT !.batch = @ \ {i}, !.checked = @ \cup {i},
                          !.found = IF i \in Hits[w.target] THEN @ \cup {i} ELSE @]
<1>1. Explorer!Taken(w, i) = v
  BY DEF Explorer!Taken
<1>2. /\ DOMAIN v = WorkerFields /\ v.step = w.step /\ v.failed = w.failed
      /\ v.next = w.next /\ v.pending = w.pending /\ v.ready = w.ready
      /\ v.work = w.work /\ v.batch = w.batch \ {i} /\ v.checked = w.checked \cup {i}
      /\ v.found = (IF i \in Hits[w.target] THEN w.found \cup {i} ELSE w.found)
      /\ v.target = w.target /\ v.stop = w.stop
  BY DEF WorkerInv, WorkerFields
<1> HIDE DEF v
<1>3. IsPool(w) /\ PoolInv(s, w)
  BY DEF WorkerInv, IsPool
<1>4. v.found = v.checked \cap Hits[v.target]
  BY <1>2, <1>3 DEF PoolInv
<1>5. PoolInv(s, v)
  BY <1>2, <1>3, <1>4 DEF PoolInv
<1>6. WorkerInv(s, v) /\ ~Reads(v)
  BY <1>2, <1>5 DEF WorkerInv, IsPool, Reads
<1> QED
  BY <1>1, <1>6

LEMMA LeftHolds ==
    ASSUME NEW s \in DOMAIN Items, NEW w, WorkerInv(s, w), w.step = "take", w.work \in Pools, w.stop
    PROVE  LET v == [w EXCEPT !.step = "drain", !.batch = {}] IN WorkerInv(s, v) /\ ~Reads(v)
<1> DEFINE v == [w EXCEPT !.step = "drain", !.batch = {}]
<1>1. /\ DOMAIN v = WorkerFields /\ v.step = "drain" /\ v.failed = w.failed
      /\ v.next = w.next /\ v.pending = w.pending /\ v.ready = w.ready
      /\ v.work = w.work /\ v.batch = {} /\ v.checked = w.checked
      /\ v.found = w.found /\ v.target = w.target /\ v.stop = w.stop
  BY DEF WorkerInv, WorkerFields
<1> HIDE DEF v
<1>2. IsPool(w) /\ PoolInv(s, w)
  BY DEF WorkerInv, IsPool
<1>3. PoolInv(s, v)
  BY <1>1, <1>2 DEF PoolInv
<1>4. WorkerInv(s, v) /\ ~Reads(v)
  BY <1>1, <1>3 DEF WorkerInv, IsPool, Reads
<1> QED
  BY <1>4 DEF v

LEMMA EmptiedHolds ==
    ASSUME NEW s \in DOMAIN Items, NEW w, WorkerInv(s, w), w.step = "take", w.work \in Pools, w.batch = {}
    PROVE  LET v == [w EXCEPT !.step = IF w.stop THEN "drain" ELSE "fill"] IN WorkerInv(s, v) /\ ~Reads(v)
<1> DEFINE v == [w EXCEPT !.step = IF w.stop THEN "drain" ELSE "fill"]
<1>1. /\ DOMAIN v = WorkerFields /\ v.step = (IF w.stop THEN "drain" ELSE "fill") /\ v.failed = w.failed
      /\ v.next = w.next /\ v.pending = w.pending /\ v.ready = w.ready
      /\ v.work = w.work /\ v.batch = w.batch /\ v.checked = w.checked
      /\ v.found = w.found /\ v.target = w.target /\ v.stop = w.stop
  BY DEF WorkerInv, WorkerFields
<1> HIDE DEF v
<1>2. IsPool(w) /\ PoolInv(s, w)
  BY DEF WorkerInv, IsPool
<1>3. PoolInv(s, v)
  BY <1>1, <1>2 DEF PoolInv
<1>4. WorkerInv(s, v) /\ ~Reads(v)
  BY <1>1, <1>3 DEF WorkerInv, IsPool, Reads
<1> QED
  BY <1>4 DEF v

LEMMA ExplorerTakes ==
    ASSUME ExplorerInv, Explorer!scan_open_ports
    PROVE  ExplorerInv'
<1>1. PICK s \in DOMAIN Items :
        /\ Explorer!Scanning(s, "take")
        /\ IF task.scan[s].batch = {}
           THEN Explorer!Becomes(s, [task.scan[s] EXCEPT !.step = IF task.scan[s].stop THEN "drain" ELSE "fill"])
           ELSE IF task.scan[s].stop THEN Explorer!Becomes(s, [task.scan[s] EXCEPT !.step = "drain", !.batch = {}])
           ELSE \E i \in task.scan[s].batch : Explorer!Becomes(s, Explorer!Taken(task.scan[s], i))
  BY Zenon DEF Explorer!scan_open_ports
<1>2. PICK w : w = task.scan[s]
  OBVIOUS
<1>3. WorkerInv(s, w) /\ w.step = "take" /\ w.work \in Pools
  BY <1>1, <1>2 DEF ExplorerInv, Explorer!Scanning, Pools
<1>4. ~Reads(task.scan[s]) /\ Runs(task.scan[s])
  BY <1>2, <1>3 DEF Reads, Runs
<1>5. CASE w.batch = {}
  <2>1. Explorer!Becomes(s, [w EXCEPT !.step = IF w.stop THEN "drain" ELSE "fill"])
    BY <1>1, <1>2, <1>5
  <2>2. LET v == [w EXCEPT !.step = IF w.stop THEN "drain" ELSE "fill"] IN WorkerInv(s, v) /\ ~Reads(v)
    BY <1>3, <1>5, EmptiedHolds
  <2> QED
    BY <1>4, <2>1, <2>2, BecomesHolds
<1>6. CASE w.batch # {} /\ w.stop
  <2>1. Explorer!Becomes(s, [w EXCEPT !.step = "drain", !.batch = {}])
    BY <1>1, <1>2, <1>6
  <2>2. LET v == [w EXCEPT !.step = "drain", !.batch = {}] IN WorkerInv(s, v) /\ ~Reads(v)
    BY <1>3, <1>6, LeftHolds
  <2> QED
    BY <1>4, <2>1, <2>2, BecomesHolds
<1>7. CASE w.batch # {} /\ ~w.stop
  <2>1. PICK i \in w.batch : Explorer!Becomes(s, Explorer!Taken(w, i))
    BY <1>1, <1>2, <1>7
  <2>2. WorkerInv(s, Explorer!Taken(w, i)) /\ ~Reads(Explorer!Taken(w, i))
    BY <1>3, TakenHolds
  <2> QED
    BY <1>4, <2>1, <2>2, BecomesHolds
<1> QED
  BY <1>5, <1>6, <1>7

LEMMA ExplorerDrains ==
    ASSUME ExplorerInv, Explorer!Drain
    PROVE  ExplorerInv'
<1>1. PICK s \in DOMAIN Items :
        /\ Explorer!Scanning(s, "drain") /\ task.scan[s].pending = task.scan[s].ready
        /\ Explorer!Becomes(s, [task.scan[s] EXCEPT !.step = "end", !.pending = {}, !.ready = {}])
  BY Zenon DEF Explorer!Drain
<1> DEFINE w == task.scan[s]
           v == [w EXCEPT !.step = "end", !.pending = {}, !.ready = {}]
<1>2. WorkerInv(s, w) /\ w.step = "drain" /\ w.work \in Pools
  BY <1>1 DEF ExplorerInv, Explorer!Scanning, Pools
<1>3. Explorer!Becomes(s, v)
  BY <1>1
<1> HIDE DEF w
<1>4. /\ DOMAIN v = WorkerFields /\ v.step = "end" /\ v.failed = w.failed
      /\ v.next = w.next /\ v.pending = {} /\ v.ready = {}
      /\ v.work = w.work /\ v.batch = w.batch /\ v.checked = w.checked
      /\ v.found = w.found /\ v.target = w.target /\ v.stop = w.stop
  BY <1>2 DEF WorkerInv, WorkerFields
<1> HIDE DEF v
<1>5. IsPool(w) /\ PoolInv(s, w)
  BY <1>2 DEF WorkerInv, IsPool
<1>6. PoolInv(s, v) /\ IsPool(v)
  BY <1>2, <1>4, <1>5 DEF PoolInv, IsPool
<1>7. WorkerInv(s, v)
  BY <1>2, <1>4, <1>6, FS_EmptySet, ExplorerTypes DEF WorkerInv
<1>8. ~Reads(w) /\ ~Reads(v) /\ Runs(w)
  BY <1>2, <1>4 DEF Reads, Runs
<1> QED
  BY <1>3, <1>7, <1>8, BecomesHolds DEF w

LEMMA StartHolds ==
    ASSUME ExplorerInv, NEW s \in DOMAIN Items, NEW work, NEW target, work \in Pools => work = s,
           Explorer!Ready(s), DOMAIN task' = ExplorerFields, task'.window = task.window,
           task'.scan = [task.scan EXCEPT ![s] = Explorer!Worker(work, target)],
           UNCHANGED world
    PROVE  ExplorerInv'
<1>1. PICK w : w = Explorer!Worker(work, target)
  OBVIOUS
<1>2. WorkerInv(s, w) /\ w.step = "fill"
  BY <1>1, NewWorkerInv
<1>3. task.scan[s].step = "idle" /\ task.window # "closed"
  BY DEF Explorer!Ready
<1>4. world'.child <=> (IF s = "ports" THEN Reads(w) ELSE world.child)
  BY <1>2, <1>3 DEF Reads, ExplorerInv
<1>5. DOMAIN world' = NetworkFields /\ FileInv(world'.file)
  BY DEF ExplorerInv
<1>6. task'.scan = [task.scan EXCEPT ![s] = w]
  BY <1>1
<1>7. Runs(w) => Runs(task.scan[s]) \/ task.window # "closed"
  BY <1>3
<1> QED
  BY <1>2, <1>4, <1>5, <1>6, <1>7, WorkerChanges, Zenon

LEMMA ExplorerStarts ==
    ASSUME ExplorerInv,
           Explorer!scan_network \/ Explorer!scan_ports \/ Explorer!fingerprint_services \/ Explorer!_start_transport_worker
    PROVE  ExplorerInv'
<1>1. "ports" \in DOMAIN Items /\ "hosts" \in DOMAIN Items
  BY ExplorerTypes DEF Pools
<1>2. DOMAIN task = ExplorerFields
  BY DEF ExplorerInv
<1>3. CASE Explorer!scan_network
  <2>1. PICK target :
          /\ Explorer!Ready("hosts")
          /\ task' = [task EXCEPT !.scan["hosts"] = Explorer!Worker("hosts", target), !.cameras = {}, !.scans = @ + 1]
          /\ UNCHANGED world
    BY <1>3, Zenon DEF Explorer!scan_network
  <2>2. /\ DOMAIN task' = ExplorerFields /\ task'.window = task.window
        /\ task'.scan = [task.scan EXCEPT !["hosts"] = Explorer!Worker("hosts", target)]
    BY <1>2, <2>1 DEF ExplorerFields
  <2> QED
    BY <1>1, <2>1, <2>2, StartHolds
<1>4. CASE Explorer!scan_ports
  <2>1. /\ Explorer!Ready("ports")
        /\ task' = [task EXCEPT !.scan["ports"] = Explorer!Worker("ports", task.target),
                                !.open = {}, !.found = {}, !.scans = @ + 1]
        /\ UNCHANGED world
    BY <1>4 DEF Explorer!scan_ports
  <2>2. /\ DOMAIN task' = ExplorerFields /\ task'.window = task.window
        /\ task'.scan = [task.scan EXCEPT !["ports"] = Explorer!Worker("ports", task.target)]
    BY <1>2, <2>1 DEF ExplorerFields
  <2> QED
    BY <1>1, <2>1, <2>2, StartHolds
<1>5. CASE Explorer!fingerprint_services
  <2>1. /\ Explorer!Ready("ports")
        /\ task' = [task EXCEPT !.scan["ports"] = Explorer!Worker("services", task.target), !.found = {}, !.scans = @ + 1]
        /\ UNCHANGED world
    BY <1>5 DEF Explorer!fingerprint_services
  <2>2. /\ DOMAIN task' = ExplorerFields /\ task'.window = task.window
        /\ task'.scan = [task.scan EXCEPT !["ports"] = Explorer!Worker("services", task.target)]
    BY <1>2, <2>1 DEF ExplorerFields
  <2>3. "services" \in Pools => "services" = "ports"
    BY DEF Pools
  <2> QED
    BY <1>1, <2>1, <2>2, <2>3, StartHolds
<1>6. CASE Explorer!_start_transport_worker
  <2>1. PICK work \in {"udp", "misconfigs"} :
          /\ Explorer!Ready("ports")
          /\ task' = [task EXCEPT !.scan["ports"] = Explorer!Worker(work, task.target), !.scans = @ + 1]
          /\ UNCHANGED world
    BY <1>6 DEF Explorer!_start_transport_worker
  <2>2. /\ DOMAIN task' = ExplorerFields /\ task'.window = task.window
        /\ task'.scan = [task.scan EXCEPT !["ports"] = Explorer!Worker(work, task.target)]
    BY <1>2, <2>1 DEF ExplorerFields
  <2>3. work \in Pools => work = "ports"
    BY DEF Pools
  <2> QED
    BY <1>1, <2>1, <2>2, <2>3, StartHolds
<1> QED
  BY <1>3, <1>4, <1>5, <1>6

\* The worker that reads the child process starts it, or has its answer.
LEMMA ChildHolds ==
    ASSUME ExplorerInv, NEW step \in {"nerva", "end"}, NEW found, NEW failed,
           Explorer!Asking("fill") \/ Explorer!Asking("nerva"),
           DOMAIN task' = ExplorerFields, task'.window = task.window,
           \/ task'.scan = [task.scan EXCEPT !["ports"] = [@ EXCEPT !.step = step]]
           \/ task'.scan = [task.scan EXCEPT !["ports"] = [@ EXCEPT !.step = step, !.failed = failed, !.found = found]],
           DOMAIN world' = NetworkFields, world'.file = world.file, world'.child <=> step = "nerva"
    PROVE  ExplorerInv'
<1>1. "ports" \in DOMAIN Items
  BY ExplorerTypes DEF Pools
<1> DEFINE w == task.scan["ports"]
<1>2. WorkerInv("ports", w) /\ w.work \notin Pools /\ w.step \in {"fill", "nerva"}
  BY <1>1 DEF ExplorerInv, Explorer!Asking, Pools
<1>3. PICK v : /\ v = [w EXCEPT !.step = step] \/ v = [w EXCEPT !.step = step, !.failed = failed, !.found = found]
               /\ task'.scan = [task.scan EXCEPT !["ports"] = v]
  OBVIOUS
<1> HIDE DEF w
<1>4. /\ DOMAIN v = WorkerFields /\ v.step = step /\ v.work = w.work /\ v.next = w.next
      /\ v.pending = w.pending /\ v.ready = w.ready /\ v.batch = w.batch /\ v.checked = w.checked
  BY <1>2, <1>3 DEF WorkerInv, WorkerFields
<1>5. WorkerInv("ports", v)
  BY <1>2, <1>4 DEF WorkerInv, IsPool
<1>6. world'.child <=> Reads(v)
  BY <1>2, <1>4 DEF Reads
<1>7. Runs(task.scan["ports"])
  BY <1>2 DEF Runs, w
<1>8. FileInv(world'.file)
  BY DEF ExplorerInv
<1> QED
  BY <1>1, <1>3, <1>5, <1>6, <1>7, <1>8, WorkerChanges

Answers(found, failed) ==
    task'.scan = [task.scan EXCEPT !["ports"] = [@ EXCEPT !.step = "end", !.failed = failed, !.found = found]]

LEMMA AnsweredShape ==
    ASSUME ExplorerInv, NEW results, NEW failed, Explorer!Answered(results, failed)
    PROVE  /\ DOMAIN task' = ExplorerFields /\ task'.window = task.window
           /\ \E found : Answers(found, failed)
<1>1. PICK found : found = {[target |-> Explorer!Nerva.target, port |-> p, over |-> Explorer!Transport(Explorer!Nerva.work)] : p \in results}
  OBVIOUS
<1>2. task' = [task EXCEPT !.scan["ports"].step = "end", !.scan["ports"].failed = failed, !.scan["ports"].found = found]
  BY <1>1 DEF Explorer!Answered
<1>3. "ports" \in DOMAIN Items /\ DOMAIN task = ExplorerFields /\ DOMAIN task.scan = DOMAIN Items
      /\ DOMAIN task.scan["ports"] = WorkerFields
  BY ExplorerTypes DEF Pools, ExplorerInv, WorkerInv
<1>4. Answers(found, failed)
  BY <1>2, <1>3 DEF Answers, ExplorerFields, WorkerFields
<1>5. DOMAIN task' = ExplorerFields /\ task'.window = task.window
  BY <1>2, <1>3 DEF ExplorerFields
<1> QED
  BY <1>4, <1>5

LEMMA ExplorerAsks ==
    ASSUME ExplorerInv, Explorer!build_nerva_command \/ Explorer!fingerprint_open_ports
    PROVE  ExplorerInv'
<1>1. DOMAIN task = ExplorerFields /\ DOMAIN world = NetworkFields
  BY DEF ExplorerInv
<1>2. ASSUME Explorer!Asking("fill") \/ Explorer!Asking("nerva"), NEW results, NEW failed, Explorer!Answered(results, failed),
             DOMAIN world' = NetworkFields, world'.file = world.file, world'.child <=> FALSE
      PROVE  ExplorerInv'
  <2>1. PICK found : Answers(found, failed)
    BY <1>2, AnsweredShape, Zenon
  <2>2. DOMAIN task' = ExplorerFields /\ task'.window = task.window
    BY <1>2, AnsweredShape
  <2>3. world'.child <=> "end" = "nerva"
    BY <1>2
  <2> QED
    BY <1>2, <2>1, <2>2, <2>3, ChildHolds DEF Answers
<1>3. CASE Explorer!build_nerva_command
  <2>1. Explorer!Asking("fill")
    BY <1>3 DEF Explorer!build_nerva_command
  <2>2. CASE UNCHANGED world /\ \E failed : Explorer!Answered({}, failed)
    <3>1. world.child <=> FALSE
      BY <2>1 DEF ExplorerInv, Reads, Explorer!Asking
    <3> QED
      BY <1>1, <1>2, <2>1, <2>2, <3>1
  <2>3. CASE task' = [task EXCEPT !.scan["ports"].step = "nerva"] /\ world' = [world EXCEPT !.child = TRUE]
    <3>1. DOMAIN task' = ExplorerFields /\ task'.window = task.window
      BY <1>1, <2>3 DEF ExplorerFields
    <3>2. task'.scan = [task.scan EXCEPT !["ports"] = [@ EXCEPT !.step = "nerva"]]
      BY <1>1, <2>3 DEF ExplorerFields
    <3>3. DOMAIN world' = NetworkFields /\ world'.file = world.file /\ (world'.child <=> "nerva" = "nerva")
      BY <1>1, <2>3 DEF NetworkFields
    <3> QED
      BY <2>1, <3>1, <3>2, <3>3, ChildHolds
  <2> QED
    BY <1>3, <2>2, <2>3 DEF Explorer!build_nerva_command
<1>4. CASE Explorer!fingerprint_open_ports
  <2>1. Explorer!Asking("nerva")
    BY <1>4 DEF Explorer!fingerprint_open_ports
  <2>2. PICK results, failed : Explorer!Answered(results, failed) /\ world' = [world EXCEPT !.child = FALSE]
    BY <1>4, Zenon DEF Explorer!fingerprint_open_ports, Explorer!_stop_process
  <2>3. DOMAIN world' = NetworkFields /\ world'.file = world.file /\ (world'.child <=> FALSE)
    BY <1>1, <2>2 DEF NetworkFields
  <2> QED
    BY <1>2, <2>1, <2>2, <2>3
<1> QED
  BY <1>3, <1>4

\* Only what a window remembers changes.
LEMMA ExplorerRest ==
    ASSUME ExplorerInv, DOMAIN task' = ExplorerFields, UNCHANGED <<task.scan, task.window>>,
           DOMAIN world' = NetworkFields, UNCHANGED world.child, FileInv(world'.file)
    PROVE  ExplorerInv'
BY DEF ExplorerInv

LEMMA ExplorerEdits ==
    ASSUME ExplorerInv, Explorer!edit_target \/ Explorer!clear_history \/ Explorer!import_history
    PROVE  ExplorerInv'
<1>1. DOMAIN task = ExplorerFields /\ DOMAIN world = NetworkFields /\ FileInv(world.file)
  BY DEF ExplorerInv
<1>2. CASE Explorer!edit_target
  <2>1. DOMAIN task' = ExplorerFields /\ task'.scan = task.scan /\ task'.window = task.window /\ world' = world
    BY <1>1, <1>2 DEF Explorer!edit_target, ExplorerFields
  <2> QED
    BY <1>1, <2>1, ExplorerRest
<1>3. CASE Explorer!clear_history
  <2>1. /\ task' = task /\ DOMAIN world' = NetworkFields /\ world'.child = world.child /\ world'.file = <<>>
    BY <1>1, <1>3 DEF Explorer!clear_history, NetworkFields
  <2>2. FileInv(<<>>)
    <3>1. <<>> \in Seq({}) /\ DOMAIN <<>> = {}
      OBVIOUS
    <3> QED
      BY <3>1 DEF FileInv, IsSequence
  <2> QED
    BY <1>1, <2>1, <2>2, ExplorerRest
<1>4. CASE Explorer!import_history
  <2>1. /\ task' = task /\ DOMAIN world' = NetworkFields /\ world'.child = world.child
        /\ world'.file = <<world.file[Len(world.file)]>> /\ world.file # <<>>
    BY <1>1, <1>4 DEF Explorer!import_history, NetworkFields
  <2>2. PICK S : world.file \in Seq(S)
    BY <1>1 DEF FileInv, IsSequence
  <2> DEFINE x == world.file[Len(world.file)]
  <2>3. Len(world.file) \in DOMAIN world.file 
    BY <2>1, <2>2
  <2>4. world'.file = <<x>>
    BY <2>1
  <2>5. IsSequence(x) /\ \A j \in DOMAIN x : IsTrue(x[j])
    BY <1>1, <2>3 DEF FileInv
  <2> HIDE DEF x
  <2>6. FileInv(<<x>>)
    <3>1. <<x>> \in Seq({x}) /\ DOMAIN <<x>> = {1} /\ <<x>>[1] = x
      OBVIOUS
    <3> QED
      BY <2>5, <3>1 DEF FileInv, IsSequence
  <2> QED
    BY <1>1, <2>1, <2>4, <2>6, ExplorerRest
<1> QED
  BY <1>2, <1>3, <1>4

\* The stop of workers that run, or the retry they are given.
LEMMA FlagsHold ==
    ASSUME ExplorerInv, DOMAIN task' = ExplorerFields, DOMAIN task'.scan = DOMAIN Items, UNCHANGED world,
           task'.window = "closed" => \A s \in DOMAIN Items : ~Runs(task.scan[s]),
           \A s \in DOMAIN Items :
              \/ task'.scan[s] = task.scan[s]
              \/ Runs(task.scan[s]) /\ task'.scan[s] = [task.scan[s] EXCEPT !.stop = TRUE]
              \/ \E retry : task'.scan[s] = [task.scan[s] EXCEPT !.retry = retry]
    PROVE  ExplorerInv'
<1>1. ASSUME NEW s \in DOMAIN Items
      PROVE  /\ WorkerInv(s, task'.scan[s])
             /\ task'.scan[s].step = task.scan[s].step /\ task'.scan[s].work = task.scan[s].work
  <2> DEFINE w == task.scan[s]
             v == task'.scan[s]
  <2>1. WorkerInv(s, w)
    BY DEF ExplorerInv
  <2>2. v = w \/ (Runs(w) /\ v = [w EXCEPT !.stop = TRUE]) \/ \E retry : v = [w EXCEPT !.retry = retry]
    OBVIOUS
  <2> HIDE DEF w, v
  <2>3. CASE v = w \/ \E retry : v = [w EXCEPT !.retry = retry]
    <3>1. /\ DOMAIN v = WorkerFields /\ v.step = w.step /\ v.failed = w.failed
          /\ v.next = w.next /\ v.pending = w.pending /\ v.ready = w.ready
          /\ v.work = w.work /\ v.batch = w.batch /\ v.checked = w.checked
          /\ v.found = w.found /\ v.target = w.target /\ v.stop = w.stop
      BY <2>1, <2>3 DEF WorkerInv, WorkerFields
    <3>2. IsPool(w) => PoolInv(s, v)
      BY <2>1, <3>1 DEF WorkerInv, PoolInv
    <3> QED
      BY <2>1, <3>1, <3>2 DEF WorkerInv, IsPool, w, v
  <2>4. CASE Runs(w) /\ v = [w EXCEPT !.stop = TRUE]
    <3>1. /\ DOMAIN v = WorkerFields /\ v.step = w.step /\ v.failed = w.failed
          /\ v.next = w.next /\ v.pending = w.pending /\ v.ready = w.ready
          /\ v.work = w.work /\ v.batch = w.batch /\ v.checked = w.checked
          /\ v.found = w.found /\ v.target = w.target /\ v.stop = TRUE
      BY <2>1, <2>4 DEF WorkerInv, WorkerFields
    <3>2. IsPool(w) => PoolInv(s, v)
      BY <2>1, <3>1 DEF WorkerInv, PoolInv
    <3> QED
      BY <2>1, <3>1, <3>2 DEF WorkerInv, IsPool, w, v
  <2> QED
    BY <2>2, <2>3, <2>4
<1>2. "ports" \in DOMAIN Items
  BY ExplorerTypes DEF Pools
<1>3. \A s \in DOMAIN Items : Runs(task'.scan[s]) <=> Runs(task.scan[s])
  BY <1>1 DEF Runs
<1>4. Reads(task'.scan["ports"]) <=> Reads(task.scan["ports"])
  BY <1>1, <1>2 DEF Reads
<1> QED
  BY <1>1, <1>3, <1>4 DEF ExplorerInv

LEMMA ExplorerCloses ==
    ASSUME ExplorerInv,
           \/ Explorer!stop_scan
           \/ Explorer!closeEvent \/ Explorer!closeEvent_Waited \/ Explorer!closeEvent_Ignored
    PROVE  ExplorerInv'
<1>1. DOMAIN task = ExplorerFields /\ DOMAIN task.scan = DOMAIN Items
  BY DEF ExplorerInv
<1>2. /\ \A s \in DOMAIN Items : Explorer!running_worker(s) <=> Runs(task.scan[s])
      /\ Explorer!_running_workers = {} <=> \A s \in DOMAIN Items : ~Runs(task.scan[s])
      /\ \A s : s \in Explorer!_running_workers <=> s \in DOMAIN Items /\ Runs(task.scan[s])
  BY DEF Explorer!running_worker, Explorer!_running_workers, Runs
<1>3. CASE Explorer!stop_scan
  <2>1. PICK r \in Explorer!_running_workers :
          task.window = "open" /\ task' = [task EXCEPT !.scan[r].stop = TRUE] /\ UNCHANGED world
    BY <1>3, Zenon DEF Explorer!stop_scan
  <2>2. DOMAIN task' = ExplorerFields /\ task'.window = "open" /\ task'.scan = [task.scan EXCEPT ![r] = [@ EXCEPT !.stop = TRUE]]
    BY <1>1, <2>1 DEF ExplorerFields
  <2>3. /\ DOMAIN task'.scan = DOMAIN Items
        /\ \A s \in DOMAIN Items : \/ task'.scan[s] = task.scan[s]
                                   \/ Runs(task.scan[s]) /\ task'.scan[s] = [task.scan[s] EXCEPT !.stop = TRUE]
    BY <1>1, <1>2, <2>2
  <2> QED
    BY <2>1, <2>2, <2>3, FlagsHold
<1>4. CASE Explorer!closeEvent
  <2>1. CASE Explorer!_running_workers = {}
    <3>1. DOMAIN task' = ExplorerFields /\ task'.scan = task.scan /\ world' = world
      BY <1>1, <1>4, <2>1 DEF Explorer!closeEvent, ExplorerFields
    <3> QED
      BY <1>1, <1>2, <2>1, <3>1, FlagsHold
  <2>2. CASE Explorer!_running_workers # {}
    <3>1. task' = [task EXCEPT !.window = "closing",
                               !.scan = [s \in DOMAIN @ |-> IF Explorer!running_worker(s) THEN [@[s] EXCEPT !.stop = TRUE] ELSE @[s]]]
          /\ UNCHANGED world
      BY <1>4, <2>2 DEF Explorer!closeEvent
    <3>2. /\ DOMAIN task' = ExplorerFields /\ task'.window = "closing"
          /\ task'.scan = [s \in DOMAIN task.scan |-> IF Explorer!running_worker(s) THEN [task.scan[s] EXCEPT !.stop = TRUE] ELSE task.scan[s]]
      BY <1>1, <3>1 DEF ExplorerFields
    <3>3. /\ DOMAIN task'.scan = DOMAIN Items
          /\ \A s \in DOMAIN Items : \/ task'.scan[s] = task.scan[s]
                                     \/ Runs(task.scan[s]) /\ task'.scan[s] = [task.scan[s] EXCEPT !.stop = TRUE]
      BY <1>1, <1>2, <3>2
    <3> QED
      BY <3>1, <3>2, <3>3, FlagsHold
  <2> QED
    BY <2>1, <2>2
<1>5. CASE Explorer!closeEvent_Waited
  <2>1. /\ DOMAIN task' = ExplorerFields /\ task'.scan = task.scan /\ world' = world
        /\ task'.window = IF Explorer!_running_workers = {} THEN "closed" ELSE "ignoring"
    BY <1>1, <1>5 DEF Explorer!closeEvent_Waited, ExplorerFields
  <2> QED
    BY <1>1, <1>2, <2>1, FlagsHold
<1>6. CASE Explorer!closeEvent_Ignored
  <2>1. CASE task.later
    <3>1. DOMAIN task' = ExplorerFields /\ task'.scan = task.scan /\ world' = world /\ task'.window = "open"
      BY <1>1, <1>6, <2>1 DEF Explorer!closeEvent_Ignored, ExplorerFields
    <3> QED
      BY <1>1, <3>1, FlagsHold
  <2>2. CASE ~task.later
    <3>1. task' = [task EXCEPT !.window = "open", !.later = TRUE,
                               !.scan = [s \in DOMAIN @ |-> [@[s] EXCEPT !.retry = Explorer!running_worker(s)]]]
          /\ UNCHANGED world
      BY <1>6, <2>2 DEF Explorer!closeEvent_Ignored
    <3>2. /\ DOMAIN task' = ExplorerFields /\ task'.window = "open"
          /\ task'.scan = [s \in DOMAIN task.scan |-> [task.scan[s] EXCEPT !.retry = Explorer!running_worker(s)]]
      BY <1>1, <3>1 DEF ExplorerFields
    <3>3. /\ DOMAIN task'.scan = DOMAIN Items
          /\ \A s \in DOMAIN Items : task'.scan[s] = [task.scan[s] EXCEPT !.retry = Explorer!running_worker(s)]
      BY <1>1, <3>2
    <3>4. \A s \in DOMAIN Items : \E retry : task'.scan[s] = [task.scan[s] EXCEPT !.retry = retry]
      BY <3>3
    <3> QED
      BY <3>1, <3>2, <3>3, <3>4, FlagsHold
  <2> QED
    BY <2>1, <2>2
<1> QED
  BY <1>3, <1>4, <1>5, <1>6

\* A worker ends: it has looked at its stop for the last time.
LEMMA ExplorerRuns ==
    ASSUME ExplorerInv, Explorer!run
    PROVE  ExplorerInv'
<1>1. PICK s \in DOMAIN Items :
        task.scan[s].step = "end" /\ task' = [task EXCEPT !.scan[s].step = "over"] /\ UNCHANGED world
  BY Zenon DEF Explorer!run
<1>2. PICK w : w = task.scan[s]
  OBVIOUS
<1> DEFINE v == [w EXCEPT !.step = "over"]
<1>3. WorkerInv(s, w) /\ w.step = "end"
  BY <1>1, <1>2 DEF ExplorerInv
<1>4. /\ DOMAIN v = WorkerFields /\ v.step = "over" /\ v.failed = w.failed
      /\ v.next = w.next /\ v.pending = w.pending /\ v.ready = w.ready
      /\ v.work = w.work /\ v.batch = w.batch /\ v.checked = w.checked
      /\ v.found = w.found /\ v.target = w.target /\ v.stop = w.stop
  BY <1>3 DEF WorkerInv, WorkerFields
<1>5. DOMAIN task' = ExplorerFields /\ task'.window = task.window /\ task'.scan = [task.scan EXCEPT ![s] = v]
  BY <1>1, <1>2 DEF ExplorerInv, ExplorerFields
<1> HIDE DEF v
<1>6. IsPool(w) => PoolInv(s, v)
  BY <1>3, <1>4 DEF WorkerInv, PoolInv
<1>7. WorkerInv(s, v)
  BY <1>3, <1>4, <1>6 DEF WorkerInv, IsPool
<1>8. ~Runs(v) /\ ~Reads(v) /\ ~Reads(w)
  BY <1>3, <1>4 DEF Runs, Reads
<1>9. world'.child <=> (IF s = "ports" THEN Reads(v) ELSE world.child)
  BY <1>1, <1>2, <1>8 DEF ExplorerInv
<1>10. DOMAIN world' = NetworkFields /\ FileInv(world'.file)
  BY <1>1 DEF ExplorerInv
<1> QED
  BY <1>5, <1>7, <1>8, <1>9, <1>10, WorkerChanges

\* What the history is given of a worker that is over is true.
LEMMA SummaryIsTrue ==
    ASSUME NEW s \in DOMAIN Items, NEW w, WorkerInv(s, w), w.step = "over"
    PROVE  IsTrue(Explorer!Summary(w))
<1> DEFINE e == [work |-> w.work, target |-> w.target, cancelled |-> w.stop, failed |-> w.failed,
                 checked |-> w.checked, found |-> w.found]
<1>1. Explorer!Summary(w) = e
  BY DEF Explorer!Summary
<1>2. /\ e.work = w.work /\ e.target = w.target /\ e.cancelled = w.stop /\ e.failed = w.failed
      /\ e.checked = w.checked /\ e.found = w.found
  OBVIOUS
<1> HIDE DEF e
<1>3. e.work \in Pools => PoolInv(s, w)
  BY <1>2 DEF WorkerInv, IsPool
<1>4. IsTrue(e)
  BY <1>2, <1>3 DEF IsTrue, PoolInv
<1> QED
  BY <1>1, <1>4

LEMMA AppendedHolds ==
    ASSUME NEW file, FileInv(file), NEW entry, IsTrue(entry)
    PROVE  FileInv(Append(file, <<entry>>)) /\ FileInv([file EXCEPT ![Len(file)] = Append(@, entry)])
<1>1. PICK S : file \in Seq(S)
  BY DEF FileInv, IsSequence
<1> DEFINE n == Len(file)
<1>2. n \in Nat /\ DOMAIN file = 1..n
  BY <1>1
<1>3. FileInv(Append(file, <<entry>>))
  <2> DEFINE T == S \cup {<<entry>>}
             f == Append(file, <<entry>>)
  <2>1. file \in Seq(T) /\ <<entry>> \in T
    BY <1>1
  <2>2. f \in Seq(T) /\ DOMAIN f = 1..n + 1 /\ (\A i \in 1..n : f[i] = file[i]) /\ f[n + 1] = <<entry>>
    BY <1>2, <2>1
  <2>3. <<entry>> \in Seq({entry}) /\ DOMAIN <<entry>> = {1} /\ <<entry>>[1] = entry
    OBVIOUS
  <2>4. \A i \in 1..n + 1 : i \in 1..n \/ i = n + 1
    BY <1>2
  <2> QED
    BY <1>2, <2>2, <2>3, <2>4 DEF FileInv, IsSequence
<1>4. FileInv([file EXCEPT ![Len(file)] = Append(@, entry)])
  <2>1. CASE file = <<>>
    <3>1. Len(file) \notin DOMAIN file
      BY <1>2, <2>1
    <3>2. [file EXCEPT ![Len(file)] = Append(@, entry)] = file
      BY <1>1, <1>2, <3>1
    <3> QED
      BY <3>2
  <2>2. CASE file # <<>>
    <3>1. n \in DOMAIN file
      BY <1>1, <2>2
    <3> DEFINE line == Append(file[n], entry)
               f == [file EXCEPT ![n] = line]
    <3>2. PICK R : file[n] \in Seq(R)
      BY <3>1 DEF FileInv, IsSequence
    <3> DEFINE Q == R \cup {entry}
               m == Len(file[n])
    <3>3. file[n] \in Seq(Q) /\ entry \in Q
      BY <3>2
    <3>4. /\ line \in Seq(Q) /\ m \in Nat /\ DOMAIN file[n] = 1..m /\ DOMAIN line = 1..m + 1
          /\ (\A j \in 1..m : line[j] = file[n][j]) /\ line[m + 1] = entry
      BY <3>3
    <3>5. \A j \in 1..m + 1 : j \in 1..m \/ j = m + 1
      BY <3>4
    <3>6. \A j \in DOMAIN file[n] : IsTrue(file[n][j])
      BY <3>1 DEF FileInv
    <3> HIDE DEF line, m
    <3>7. IsSequence(line) /\ \A j \in DOMAIN line : IsTrue(line[j])
      BY <3>4, <3>5, <3>6 DEF IsSequence
    <3>8. LET t == [file EXCEPT ![n] = line]
          IN  /\ IsSequence(t) /\ Len(t) = Len(file) /\ DOMAIN t = DOMAIN file
              /\ t[n] = line /\ \A j \in DOMAIN file : j # n => t[j] = file[j]
      BY <3>1, ReplacedShape DEF FileInv
    <3>9. FileInv(f)
      BY <3>7, <3>8 DEF FileInv
    <3> QED
      BY <3>9 DEF line
  <2> QED
    BY <2>1, <2>2
<1> QED
  BY <1>3, <1>4

LEMMA ExplorerFinishes ==
    ASSUME ExplorerInv, Explorer!_worker_finished
    PROVE  ExplorerInv'
<1>1. PICK s \in DOMAIN Items :
        LET w == task.scan[s]
            t == [Explorer!Remembered(task, w) EXCEPT !.scan[s] = Explorer!NoWorker]
            closes == w.retry /\ task.later /\ Explorer!_running_workers = {}
        IN  /\ task.window \in {"open", "closed"} /\ w.step = "over"
            /\ task' = IF closes THEN [t EXCEPT !.later = FALSE, !.window = "closed"] ELSE t
            /\ Explorer!append_to_history(Explorer!Summary(w))
  BY Zenon DEF Explorer!_worker_finished
<1> DEFINE w == task.scan[s]
           r == Explorer!Remembered(task, w)
           t == [r EXCEPT !.scan[s] = Explorer!NoWorker]
<1>2. DOMAIN task = ExplorerFields /\ DOMAIN world = NetworkFields /\ WorkerInv(s, w) /\ w.step = "over"
  BY <1>1 DEF ExplorerInv
<1>3. DOMAIN r = ExplorerFields /\ r.scan = task.scan /\ r.window = task.window
  BY <1>2 DEF Explorer!Remembered, ExplorerFields
<1>4. task' = t \/ (task' = [t EXCEPT !.later = FALSE, !.window = "closed"] /\ Explorer!_running_workers = {})
  BY <1>1
<1>5. Explorer!append_to_history(Explorer!Summary(w))
  BY <1>1
<1> HIDE DEF w, r
<1>6. DOMAIN t = ExplorerFields /\ t.scan = [task.scan EXCEPT ![s] = Explorer!NoWorker] /\ t.window = task.window
  BY <1>3 DEF ExplorerFields
<1> HIDE DEF t
<1>7. Explorer!_running_workers = {} => \A q \in DOMAIN Items : ~Runs(task.scan[q])
  BY DEF Explorer!running_worker, Explorer!_running_workers, Runs
<1>8. WorkerInv(s, Explorer!NoWorker) /\ Explorer!NoWorker.step = "idle"
  BY NoWorkerInv
<1> HIDE DEF Explorer!NoWorker
<1>9. ~Runs(Explorer!NoWorker) /\ ~Reads(Explorer!NoWorker) /\ ~Reads(w)
  BY <1>2, <1>8 DEF Runs, Reads
<1>10. /\ DOMAIN task' = ExplorerFields /\ task'.scan = [task.scan EXCEPT ![s] = Explorer!NoWorker]
       /\ task'.window = task.window \/ (~Runs(Explorer!NoWorker) /\ \A q \in DOMAIN Items : ~Runs(task.scan[q]))
  BY <1>4, <1>6, <1>7, <1>9 DEF ExplorerFields
<1>11. FileInv(world.file) /\ IsTrue(Explorer!Summary(w))
  BY <1>2, SummaryIsTrue DEF ExplorerInv
<1>12. PICK entry : entry = Explorer!Summary(w)
  OBVIOUS
<1>13. FileInv(Append(world.file, <<entry>>)) /\ FileInv([world.file EXCEPT ![Len(world.file)] = Append(@, entry)])
  BY <1>11, <1>12, AppendedHolds
<1>14. DOMAIN world' = NetworkFields /\ world'.child = world.child /\ FileInv(world'.file)
  <2>1. CASE world' = world
    BY <1>2, <1>11, <2>1
  <2>2. CASE world' = [world EXCEPT !.ended = TRUE,
                                    !.file = IF world.ended THEN Append(@, <<entry>>)
                                             ELSE [world.file EXCEPT ![Len(world.file)] = Append(@, entry)]]
    <3>1. /\ DOMAIN world' = NetworkFields /\ world'.child = world.child
          /\ world'.file = IF world.ended THEN Append(world.file, <<entry>>)
                           ELSE [world.file EXCEPT ![Len(world.file)] = Append(@, entry)]
      BY <1>2, <2>2 DEF NetworkFields
    <3> QED
      BY <1>13, <3>1
  <2> QED
    BY <1>5, <1>12, <2>1, <2>2 DEF Explorer!append_to_history
<1>15. world'.child <=> (IF s = "ports" THEN Reads(Explorer!NoWorker) ELSE world.child)
  BY <1>9, <1>14 DEF ExplorerInv, w
<1> QED
  BY <1>8, <1>9, <1>10, <1>14, <1>15, WorkerChanges

LEMMA ExplorerStep ==
    ASSUME ExplorerInv, Explorer!Next
    PROVE  ExplorerInv'
BY ExplorerFills, ExplorerFails, ExplorerProbes, ExplorerCollects, ExplorerTakes, ExplorerDrains, ExplorerStarts,
   ExplorerAsks, ExplorerEdits, ExplorerCloses, ExplorerRuns, ExplorerFinishes, Zenon DEF Explorer!Next

-----------------------------------------------------------------------------
(* The analysis: what each function returns, for every host and inventory. *)

LEMMA AnalysisLibrary ==
    /\ \A S : Analysis!IsFiniteSet(S) <=> IsFiniteSet(S)
    /\ \A S : Analysis!Cardinality(S) = Cardinality(S)
BY DEF Analysis!IsFiniteSet, IsFiniteSet, Analysis!Cardinality, Cardinality

\* Bounds on a score.
LEMMA Bounds ==
    /\ \A x \in Int : Analysis!Max({0, x}) = IF x >= 0 THEN x ELSE 0
    /\ \A x \in Int : Analysis!Min({100, x}) = IF x <= 100 THEN x ELSE 100
    /\ \A x \in Int : Analysis!Min({20, x}) = IF x <= 20 THEN x ELSE 20
<1>1. ASSUME NEW x \in Int PROVE Analysis!Max({0, x}) = IF x >= 0 THEN x ELSE 0
  <2>1. \A y \in {0, x} : (\A z \in {0, x} : y >= z) <=> y = IF x >= 0 THEN x ELSE 0
    OBVIOUS
  <2>2. \E y \in {0, x} : \A z \in {0, x} : y >= z
    BY <2>1
  <2> QED
    BY <2>1, <2>2 DEF Analysis!Max
<1>2. ASSUME NEW n \in {20, 100}, NEW x \in Int PROVE Analysis!Min({n, x}) = IF x <= n THEN x ELSE n
  <2>1. \A y \in {n, x} : (\A z \in {n, x} : y =< z) <=> y = IF x <= n THEN x ELSE n
    OBVIOUS
  <2>2. \E y \in {n, x} : \A z \in {n, x} : y =< z
    BY <2>1
  <2> QED
    BY <2>1, <2>2 DEF Analysis!Min
<1> QED
  BY <1>1, <1>2

\* A role is given on evidence: its signals have weight, and a port less takes weight away.
LEMMA ClassifiedRight ==
    ASSUME Analysis!AnalysisConstants, NEW h \in Hosts, world = Analysis!classify_device(h),
           task = [kind |-> "classify", of |-> h]
    PROVE  Analysis!ClassificationIsSupported
<1> DEFINE Port(g, p, w) == IF p \in g.ports THEN w ELSE 0
           Same(g) == /\ g.name = h.name /\ g.onvif = h.onvif /\ g.owners = h.owners
                      /\ g.global = h.global /\ g.gatewayIp = h.gatewayIp /\ g.ports \subseteq h.ports
<1>1. h.onvif \in BOOLEAN /\ (h.probed # None => h.onvif \/ 554 \in h.ports)
  BY DEF Analysis!AnalysisConstants, Analysis!HostConstants
<1>2. ASSUME NEW g
      PROVE  \A k \in {"camera", "printer", "nas", "router", "pc", "unknown"} : Analysis!Signals(g)[k] \in Nat
  BY DEF Analysis!Signals
<1>3. ASSUME NEW g
      PROVE  /\ Analysis!Kind(g) \in {"camera", "printer", "nas", "router", "pc", "unknown"}
             /\ Analysis!Signals(g).unknown = 0
  BY DEF Analysis!Kind, Analysis!Signals
<1>4. Analysis!Kind(h) # "unknown" => Analysis!Signals(h)[Analysis!Kind(h)] > 0
  <2>1. CASE Analysis!Kind(h) = "camera"
    BY <1>1, <2>1 DEF Analysis!Kind, Analysis!Signals
  <2>2. CASE Analysis!Kind(h) = "printer"
    BY <2>2 DEF Analysis!Kind, Analysis!Signals
  <2>3. CASE Analysis!Kind(h) = "nas"
    BY <2>3 DEF Analysis!Kind, Analysis!Signals
  <2>4. CASE Analysis!Kind(h) = "router"
    BY <2>4 DEF Analysis!Kind, Analysis!Signals
  <2>5. CASE Analysis!Kind(h) = "pc"
    BY <2>5 DEF Analysis!Kind, Analysis!Signals
  <2> QED
    BY <1>3, <2>1, <2>2, <2>3, <2>4, <2>5
<1>5. ASSUME NEW g, Same(g)
      PROVE  \A k \in {"camera", "printer", "nas", "router", "pc", "unknown"} : Analysis!Signals(g)[k] <= Analysis!Signals(h)[k]
  BY <1>5 DEF Analysis!Signals, Analysis!Vendor, Analysis!lookup_mac_vendor, Analysis!gateway_signature
<1>6. ASSUME NEW g
      PROVE  /\ Analysis!classify_device(g).kind = Analysis!Kind(g)
             /\ Analysis!classify_device(g).confidence = IF Analysis!Signals(g)[Analysis!Kind(g)] <= 100 THEN Analysis!Signals(g)[Analysis!Kind(g)] ELSE 100
  <2>1. Analysis!Signals(g)[Analysis!Kind(g)] \in Int
    BY <1>2, <1>3
  <2> QED
    BY <2>1, Bounds DEF Analysis!classify_device, Analysis!score_device_classification
<1>7. ASSUME NEW p \in h.ports
      PROVE  LET g == [h EXCEPT !.ports = @ \ {p}]
             IN  Analysis!classify_device(g).kind = Analysis!classify_device(h).kind =>
                     Analysis!classify_device(g).confidence <= Analysis!classify_device(h).confidence
  <2> DEFINE g == [h EXCEPT !.ports = @ \ {p}]
  <2>1. Same(g)
    BY DEF Analysis!AnalysisConstants, Analysis!HostConstants
  <2> HIDE DEF g, Same
  <2> SUFFICES ASSUME Analysis!Kind(g) = Analysis!Kind(h)
               PROVE  Analysis!classify_device(g).confidence <= Analysis!classify_device(h).confidence
    BY <1>6 DEF g
  <2>2. Analysis!Signals(g)[Analysis!Kind(h)] <= Analysis!Signals(h)[Analysis!Kind(h)]
    BY <1>3, <1>5, <2>1
  <2>3. Analysis!Signals(g)[Analysis!Kind(h)] \in Nat /\ Analysis!Signals(h)[Analysis!Kind(h)] \in Nat
    BY <1>2, <1>3
  <2> QED
    BY <1>6, <2>2, <2>3
<1>8. Analysis!Signals(h)[Analysis!Kind(h)] \in Nat /\ (Analysis!Kind(h) = "unknown" => Analysis!Signals(h)[Analysis!Kind(h)] = 0)
  BY <1>2, <1>3
<1>9. /\ (world.kind = "unknown") <=> (world.confidence = 0)
      /\ world.confidence \in 0..100
  BY <1>4, <1>6, <1>8
<1> QED
  BY <1>7, <1>9 DEF Analysis!ClassificationIsSupported

\* An exposure that raised the risk is a finding of the auditor of that role.
LEMMA AuditedRight ==
    ASSUME NEW h, world = Analysis!build_device_audit(Analysis!Kind(h), h.ports), task = [kind |-> "audit", of |-> h]
    PROVE  Analysis!AuditFindsExposure
<1> DEFINE F == Analysis!_findings(Analysis!Kind(h), h.ports, 80 \in h.ports, 554 \in h.ports)
<1>1. Analysis!Kind(h) \in {"camera", "printer", "nas", "router", "pc", "unknown"}
  BY DEF Analysis!Kind
<1>2. F \subseteq {Analysis!Low, Analysis!Medium}
  BY <1>1 DEF Analysis!_findings, Analysis!When
<1>3. ASSUME h.probed = None, Analysis!Risk(h) = Analysis!Medium, ~(Analysis!Kind(h) = "nas" /\ {5000, 5001} \subseteq h.ports)
      PROVE  Analysis!Medium \in F
  <2>1. h.ports \cap Analysis!Cleartext[Analysis!Kind(h)] # {}
    BY <1>3 DEF Analysis!Risk, Analysis!Low, Analysis!Medium
  <2>2. CASE Analysis!Kind(h) = "camera"
    BY <2>1, <2>2 DEF Analysis!_findings, Analysis!When, Analysis!Cleartext
  <2>3. CASE Analysis!Kind(h) = "printer"
    BY <2>1, <2>3 DEF Analysis!_findings, Analysis!When, Analysis!Cleartext
  <2>4. CASE Analysis!Kind(h) = "nas"
    BY <1>3, <2>1, <2>4 DEF Analysis!_findings, Analysis!When, Analysis!Cleartext
  <2>5. CASE Analysis!Kind(h) = "router"
    BY <2>1, <2>5 DEF Analysis!_findings, Analysis!When, Analysis!Cleartext
  <2>6. CASE Analysis!Kind(h) \in {"pc", "unknown"}
    BY <2>1, <2>6 DEF Analysis!Cleartext
  <2> QED
    BY <1>1, <2>2, <2>3, <2>4, <2>5, <2>6
<1>4. ASSUME Analysis!Medium \in F PROVE world >= Analysis!Medium
  <2> DEFINE S == {Analysis!Low} \cup F
  <2>1. world = Analysis!Max(S)
    BY DEF Analysis!build_device_audit
  <2>2. Analysis!Medium \in S /\ \A z \in S : Analysis!Medium >= z
    BY <1>2, <1>4 DEF Analysis!Low, Analysis!Medium
  <2> HIDE DEF S
  <2>3. \A z \in S : world >= z
    BY <2>1, <2>2 DEF Analysis!Max
  <2> QED
    BY <2>2, <2>3
<1> HIDE DEF F
<1>5. h.probed = None /\ Analysis!Risk(h) = Analysis!Medium /\ ~(Analysis!Kind(h) = "nas" /\ {5000, 5001} \subseteq h.ports) => world >= Analysis!Medium
  BY <1>3, <1>4
<1> QED
  BY <1>5 DEF Analysis!AuditFindsExposure

\* A map has the nodes of its edges, and an asset without a stored relationship is joined to the network.
LEMMA DrawnRight ==
    ASSUME NEW i, world = Analysis!build_logical_topology(i.assets, i.links), task = [kind |-> "topology", of |-> i]
    PROVE  Analysis!TopologyIsSound
<1> DEFINE drawn == IF i.links # {} THEN i.links ELSE Analysis!_fallback_relationships(i.assets)
           nodes == {a.id : a \in i.assets} \cup {Analysis!Internet, Analysis!Lan}
           gateways == {l.dst : l \in {k \in drawn : k.kind = "gateway" /\ k.confidence \in {"CONFIRMED", "INFERRED"}}}
                       \cap {a.id : a \in i.assets}
<1>1. /\ world.nodes = nodes /\ world.edges = {l \in drawn : {l.src, l.dst} \subseteq nodes}
      /\ world.gateway = IF gateways = {} THEN Analysis!Lan ELSE CHOOSE g \in gateways : TRUE
  BY DEF Analysis!build_logical_topology
<1>2. world.gateway \in world.nodes
  <2>1. CASE gateways = {}
    BY <1>1, <2>1
  <2>2. CASE gateways # {}
    <3>1. (CHOOSE g \in gateways : TRUE) \in gateways
      BY <2>2
    <3> QED
      BY <1>1, <2>2, <3>1
  <2> QED
    BY <2>1, <2>2
<1>3. ASSUME i.links = {}
      PROVE  /\ \A l \in world.edges : l.confidence # "CONFIRMED"
             /\ \A a \in i.assets : \E l \in world.edges : a.id \in {l.src, l.dst}
  <2> DEFINE routers == {a \in Analysis!online(i.assets) : a.kind = "router"}
             primary == {a \in routers : \A b \in routers : a.id <= b.id}
             E1 == UNION {{Analysis!Edge(Analysis!Internet, a.id, "gateway", "INFERRED"), Analysis!Edge(a.id, Analysis!Lan, "lan", "INFERRED")} : a \in primary}
             E2 == IF i.assets # {} THEN {Analysis!Edge(Analysis!Internet, Analysis!Lan, "gateway", "UNKNOWN")} ELSE {}
             E3 == {Analysis!Edge(Analysis!Lan, a.id, "scope", IF a.online THEN "INFERRED" ELSE "UNKNOWN") : a \in i.assets \ primary}
  <2>1. drawn = (IF primary # {} THEN E1 ELSE E2) \cup E3
    BY <1>3 DEF Analysis!_fallback_relationships
  <2>2. \A l \in E1 \cup E2 \cup E3 : l.confidence # "CONFIRMED"
    BY DEF Analysis!Edge
  <2>3. ASSUME NEW a \in primary PROVE Analysis!Edge(Analysis!Internet, a.id, "gateway", "INFERRED") \in E1 /\ a \in i.assets
    BY DEF Analysis!online
  <2>4. ASSUME NEW a \in i.assets \ primary
        PROVE  \E c : Analysis!Edge(Analysis!Lan, a.id, "scope", c) \in E3
    OBVIOUS
  <2>5. \A x, y, k, c : Analysis!Edge(x, y, k, c).src = x /\ Analysis!Edge(x, y, k, c).dst = y
    BY DEF Analysis!Edge
  <2> HIDE DEF E1, E2, E3, primary, routers, drawn
  <2>6. \A l \in world.edges : l \in drawn
    BY <1>1
  <2>7. \A l \in world.edges : l.confidence # "CONFIRMED"
    BY <2>1, <2>2, <2>6
  <2>8. ASSUME NEW a \in i.assets PROVE \E l \in world.edges : a.id \in {l.src, l.dst}
    <3>1. CASE a \in primary
      <4> DEFINE l == Analysis!Edge(Analysis!Internet, a.id, "gateway", "INFERRED")
      <4>1. l \in drawn /\ l.src = Analysis!Internet /\ l.dst = a.id
        BY <2>1, <2>3, <2>5, <3>1
      <4> HIDE DEF l
      <4> QED
        BY <1>1, <4>1
    <3>2. CASE a \notin primary
      <4>1. PICK c : Analysis!Edge(Analysis!Lan, a.id, "scope", c) \in E3
        BY <2>4, <3>2
      <4> DEFINE l == Analysis!Edge(Analysis!Lan, a.id, "scope", c)
      <4>2. l \in drawn /\ l.src = Analysis!Lan /\ l.dst = a.id
        BY <2>1, <2>5, <4>1
      <4> HIDE DEF l
      <4> QED
        BY <1>1, <4>2
    <3> QED
      BY <3>1, <3>2
  <2> QED
    BY <2>7, <2>8
<1>4. \A l \in world.edges : {l.src, l.dst} \subseteq world.nodes
  BY <1>1
<1> HIDE DEF drawn, nodes, gateways
<1> QED
  BY <1>2, <1>3, <1>4 DEF Analysis!TopologyIsSound

\* A sum of weights is a number, and fewer or lighter weights weigh no more.
LEMMA SumIs ==
    ASSUME NEW w, IsFiniteSet(DOMAIN w), \A x \in DOMAIN w : w[x] \in Nat
    PROVE  /\ IsFiniteSet(UNION {{x} \X (1..w[x]) : x \in DOMAIN w})
           /\ Analysis!Sum(w) \in Nat
<1> DEFINE f == [x \in DOMAIN w |-> {x} \X (1..w[x])]
           R == {f[x] : x \in DOMAIN w}
           P == UNION {{x} \X (1..w[x]) : x \in DOMAIN w}
<1>1. f \in Surjection(DOMAIN w, R)
  BY DEF Surjection
<1>2. ASSUME NEW x \in DOMAIN w PROVE IsFiniteSet(f[x])
  <2>1. w[x] \in Int /\ 1 \in Int
    OBVIOUS
  <2>2. IsFiniteSet({x}) /\ IsFiniteSet(1..w[x])
    BY <2>1, FS_Singleton, FS_Interval
  <2>3. IsFiniteSet({x} \X (1..w[x]))
    BY <2>2, FS_Product
  <2> QED
    BY <2>3
<1>3. P = UNION R
  OBVIOUS
<1>4. \A T \in R : IsFiniteSet(T)
  BY <1>2
<1>5. Analysis!Sum(w) = Cardinality(P)
  BY AnalysisLibrary DEF Analysis!Sum
<1> HIDE DEF f, R, P
<1>6. IsFiniteSet(R)
  BY <1>1, FS_Surjection
<1>7. IsFiniteSet(P)
  BY <1>3, <1>4, <1>6, FS_UNION
<1>8. Analysis!Sum(w) \in Nat
  BY <1>5, <1>7, FS_CardinalityType
<1> QED
  BY <1>7, <1>8 DEF P

LEMMA SumGrows ==
    ASSUME NEW w, IsFiniteSet(DOMAIN w), \A x \in DOMAIN w : w[x] \in Nat,
           NEW v, DOMAIN v \subseteq DOMAIN w, \A x \in DOMAIN v : v[x] = w[x]
    PROVE  Analysis!Sum(v) \in Nat /\ Analysis!Sum(w) \in Nat /\ Analysis!Sum(v) <= Analysis!Sum(w)
<1> DEFINE P(f) == UNION {{x} \X (1..f[x]) : x \in DOMAIN f}
<1>1. IsFiniteSet(DOMAIN v) /\ \A x \in DOMAIN v : v[x] \in Nat
  BY FS_Subset
<1>2. Analysis!Sum(v) \in Nat /\ Analysis!Sum(w) \in Nat /\ IsFiniteSet(P(w))
  BY <1>1, SumIs
<1>3. P(v) \subseteq P(w)
  OBVIOUS
<1>4. Analysis!Sum(v) = Cardinality(P(v)) /\ Analysis!Sum(w) = Cardinality(P(w))
  BY AnalysisLibrary DEF Analysis!Sum
<1> HIDE DEF P
<1> QED
  BY <1>2, <1>3, <1>4, FS_Subset

\* The deductions of fewer assets are fewer.
LEMMA RisksGrow ==
    ASSUME NEW S, IsFiniteSet(S), NEW T \in SUBSET S, NEW high \in Nat, NEW medium \in Nat
    PROVE  Analysis!Risks(T, high, medium) \in Nat /\ Analysis!Risks(S, high, medium) \in Nat
           /\ Analysis!Risks(T, high, medium) <= Analysis!Risks(S, high, medium)
<1> DEFINE w == [a \in S |-> Analysis!Weighted(a.risk, high, medium)]
           v == [a \in T |-> Analysis!Weighted(a.risk, high, medium)]
<1>1. DOMAIN w = S /\ DOMAIN v = T /\ \A x \in S : w[x] = Analysis!Weighted(x.risk, high, medium)
  OBVIOUS
<1>2. \A x \in T : v[x] = Analysis!Weighted(x.risk, high, medium)
  OBVIOUS
<1>3. \A x \in S : w[x] \in Nat
  BY DEF Analysis!Weighted
<1>4. Analysis!Risks(T, high, medium) = Analysis!Sum(v) /\ Analysis!Risks(S, high, medium) = Analysis!Sum(w)
  BY DEF Analysis!Risks
<1> HIDE DEF w, v
<1> QED
  BY <1>1, <1>2, <1>3, <1>4, SumGrows

LEMMA CountGrows ==
    ASSUME NEW S, IsFiniteSet(S), NEW T \in SUBSET S
    PROVE  Cardinality(T) \in Nat /\ Cardinality(S) \in Nat /\ Cardinality(T) <= Cardinality(S)
  BY FS_Subset, FS_CardinalityType

\* The findings of an asset deduct a bounded number.
LEMMA FindingsGrow ==
    ASSUME NEW A, NEW B, IsFiniteSet(Analysis!online(A)), Analysis!online(B) \subseteq Analysis!online(A),
           \A a \in Analysis!online(A) : a.findings \in Seq({"critical", "high", "medium", "low", "info", "unknown"})
    PROVE  /\ Analysis!_service_security_deductions(A) \in Nat /\ Analysis!_service_security_deductions(B) \in Nat
           /\ Analysis!_service_security_deductions(B) <= Analysis!_service_security_deductions(A)
<1> DEFINE Deduction == [critical |-> 12, high |-> 8, medium |-> 4, low |-> 1, info |-> 0, unknown |-> 0]
           Points(a) == [i \in DOMAIN a.findings |-> Deduction[a.findings[i]]]
           Bounded(a) == Analysis!Min({20, Analysis!Sum(Points(a))})
           w == [a \in Analysis!online(A) |-> Bounded(a)]
           v == [a \in Analysis!online(B) |-> Bounded(a)]
<1>1. ASSUME NEW a \in Analysis!online(A) PROVE Analysis!Sum(Points(a)) \in Nat
  <2> DEFINE s == a.findings
             f == Points(a)
  <2>1. s \in Seq({"critical", "high", "medium", "low", "info", "unknown"})
    OBVIOUS
  <2>2. Len(s) \in Nat /\ DOMAIN s = 1..Len(s)
    BY <2>1
  <2>3. IsFiniteSet(DOMAIN s)
    <3> DEFINE n == Len(s)
    <3>1. 1 \in Int /\ n \in Int
      BY <2>2
    <3> HIDE DEF n
    <3>2. IsFiniteSet(1..n)
      BY <3>1, FS_Interval
    <3> QED
      BY <2>2, <3>2 DEF n
  <2>4. \A i \in DOMAIN s : s[i] \in {"critical", "high", "medium", "low", "info", "unknown"}
    BY <2>1
  <2>5. \A i \in DOMAIN s : Deduction[s[i]] \in Nat
    BY <2>4
  <2>6. DOMAIN f = DOMAIN s /\ \A i \in DOMAIN s : f[i] = Deduction[s[i]]
    OBVIOUS
  <2> HIDE DEF f, Deduction
  <2>7. Analysis!Sum(f) \in Nat
    BY <2>3, <2>5, <2>6, SumIs
  <2> QED
    BY <2>7 DEF f
<1>2. ASSUME NEW a \in Analysis!online(A) PROVE Bounded(a) \in Nat
  <2> DEFINE n == Analysis!Sum(Points(a))
  <2>1. n \in Nat
    BY <1>1
  <2> HIDE DEF n
  <2>2. Analysis!Min({20, n}) \in Nat
    BY <2>1, Bounds
  <2> QED
    BY <2>2 DEF n
<1>3. Analysis!_service_security_deductions(A) = Analysis!Sum(w) /\ Analysis!_service_security_deductions(B) = Analysis!Sum(v)
  BY DEF Analysis!_service_security_deductions
<1> HIDE DEF Bounded
<1>4. DOMAIN w = Analysis!online(A) /\ DOMAIN v = Analysis!online(B) /\ (\A a \in Analysis!online(A) : w[a] = Bounded(a))
      /\ \A a \in Analysis!online(B) : v[a] = Bounded(a)
  OBVIOUS
<1> HIDE DEF w, v
<1> QED
  BY <1>2, <1>3, <1>4, SumGrows

\* The assets with a confirmed link to a router or a gateway.
Exposed(A, L) ==
    {a \in Analysis!online(A) : \E l \in L, i \in ({b \in Analysis!online(A) : b.kind = "router"} \cup Analysis!confirmed_gateways(A, L)) \ {a} :
        l.kind = "physical" /\ l.confidence = "CONFIRMED" /\ {l.src, l.dst} = {i.id, a.id}}

LEMMA ContextGrows ==
    ASSUME NEW A, NEW B, IsFiniteSet(Analysis!online(A)), Analysis!online(B) \subseteq Analysis!online(A),
           NEW L, NEW M, Analysis!confirmed_gateways(B, M) \subseteq Analysis!confirmed_gateways(A, L), Exposed(B, M) \subseteq Exposed(A, L)
    PROVE  /\ Analysis!_contextual_deductions(A, L) \in Nat /\ Analysis!_contextual_deductions(B, M) \in Nat
           /\ Analysis!_contextual_deductions(B, M) <= Analysis!_contextual_deductions(A, L)
<1> DEFINE R(X) == {a \in Analysis!online(X) : a.kind = "router"}
           S(X) == {a \in Analysis!online(X) : a.kind = "nas"}
           C(X, K) == Analysis!Risks(R(X), 4, 2) + Analysis!Risks(S(X), 3, 1) + Analysis!Risks(Analysis!confirmed_gateways(X, K), 4, 2) + Analysis!Risks(Exposed(X, K), 2, 1)
<1>1. Analysis!_contextual_deductions(A, L) = C(A, L) /\ Analysis!_contextual_deductions(B, M) = C(B, M)
  BY DEF Analysis!_contextual_deductions, Exposed
<1>2. R(A) \subseteq Analysis!online(A) /\ S(A) \subseteq Analysis!online(A) /\ Analysis!confirmed_gateways(A, L) \subseteq Analysis!online(A)
      /\ Exposed(A, L) \subseteq Analysis!online(A)
  BY DEF Analysis!confirmed_gateways, Exposed
<1>3. IsFiniteSet(R(A)) /\ IsFiniteSet(S(A)) /\ IsFiniteSet(Analysis!confirmed_gateways(A, L)) /\ IsFiniteSet(Exposed(A, L))
  BY <1>2, FS_Subset
<1>4. R(B) \subseteq R(A) /\ S(B) \subseteq S(A)
  OBVIOUS
<1> HIDE DEF R, S
<1>5. Analysis!Risks(R(B), 4, 2) \in Nat /\ Analysis!Risks(R(A), 4, 2) \in Nat /\ Analysis!Risks(R(B), 4, 2) <= Analysis!Risks(R(A), 4, 2)
  BY <1>3, <1>4, RisksGrow
<1>6. Analysis!Risks(S(B), 3, 1) \in Nat /\ Analysis!Risks(S(A), 3, 1) \in Nat /\ Analysis!Risks(S(B), 3, 1) <= Analysis!Risks(S(A), 3, 1)
  BY <1>3, <1>4, RisksGrow
<1> DEFINE G1 == Analysis!confirmed_gateways(A, L)
           G2 == Analysis!confirmed_gateways(B, M)
           E1 == Exposed(A, L)
           E2 == Exposed(B, M)
<1>7. Analysis!Risks(G2, 4, 2) \in Nat /\ Analysis!Risks(G1, 4, 2) \in Nat /\ Analysis!Risks(G2, 4, 2) <= Analysis!Risks(G1, 4, 2)
  BY <1>3, RisksGrow
<1>8. Analysis!Risks(E2, 2, 1) \in Nat /\ Analysis!Risks(E1, 2, 1) \in Nat /\ Analysis!Risks(E2, 2, 1) <= Analysis!Risks(E1, 2, 1)
  BY <1>3, RisksGrow
<1> QED
  BY <1>1, <1>5, <1>6, <1>7, <1>8

\* The score is a percentage; fewer online assets and fewer confirmed links never lower it.
LEMMA ScoreGrows ==
    ASSUME NEW A, NEW B, IsFiniteSet(Analysis!online(A)), Analysis!online(B) \subseteq Analysis!online(A),
           \A a \in Analysis!online(A) : a.findings \in Seq({"critical", "high", "medium", "low", "info", "unknown"}),
           NEW L, NEW M, Analysis!confirmed_gateways(B, M) \subseteq Analysis!confirmed_gateways(A, L), Exposed(B, M) \subseteq Exposed(A, L)
    PROVE  /\ Analysis!calculate_security_score(A, L) \in 0..100
           /\ Analysis!calculate_security_score(B, M) >= Analysis!calculate_security_score(A, L)
<1> DEFINE U(X) == {a \in Analysis!online(X) : a.kind = "unknown"}
           V(X) == {a \in Analysis!online(X) : a.kind = "camera" /\ a.rtsp}
           H(X) == {a \in Analysis!online(X) : a.http}
           W(X) == {a \in U(X) : a.new}
           D(X, K) == Analysis!Risks(Analysis!online(X), 15, 6) + 4 * Cardinality(U(X)) + 4 * Cardinality(V(X)) + 2 * Cardinality(H(X))
                      + 3 * Cardinality(W(X)) + Analysis!_service_security_deductions(X) + Analysis!_contextual_deductions(X, K)
<1>1. Analysis!calculate_security_score(A, L) = Analysis!Max({0, 100 - D(A, L)}) /\ Analysis!calculate_security_score(B, M) = Analysis!Max({0, 100 - D(B, M)})
  BY AnalysisLibrary DEF Analysis!calculate_security_score
<1>2. U(A) \subseteq Analysis!online(A) /\ V(A) \subseteq Analysis!online(A) /\ H(A) \subseteq Analysis!online(A) /\ W(A) \subseteq Analysis!online(A)
  OBVIOUS
<1>3. IsFiniteSet(U(A)) /\ IsFiniteSet(V(A)) /\ IsFiniteSet(H(A)) /\ IsFiniteSet(W(A))
  BY <1>2, FS_Subset
<1>4. U(B) \subseteq U(A) /\ V(B) \subseteq V(A) /\ H(B) \subseteq H(A) /\ W(B) \subseteq W(A)
  OBVIOUS
<1> HIDE DEF U, V, H, W
<1>5. /\ Cardinality(U(B)) \in Nat /\ Cardinality(U(A)) \in Nat /\ Cardinality(U(B)) <= Cardinality(U(A))
      /\ Cardinality(V(B)) \in Nat /\ Cardinality(V(A)) \in Nat /\ Cardinality(V(B)) <= Cardinality(V(A))
      /\ Cardinality(H(B)) \in Nat /\ Cardinality(H(A)) \in Nat /\ Cardinality(H(B)) <= Cardinality(H(A))
      /\ Cardinality(W(B)) \in Nat /\ Cardinality(W(A)) \in Nat /\ Cardinality(W(B)) <= Cardinality(W(A))
  BY <1>3, <1>4, CountGrows
<1>6. Analysis!Risks(Analysis!online(B), 15, 6) \in Nat /\ Analysis!Risks(Analysis!online(A), 15, 6) \in Nat /\ Analysis!Risks(Analysis!online(B), 15, 6) <= Analysis!Risks(Analysis!online(A), 15, 6)
  BY RisksGrow
<1>7. /\ Analysis!_service_security_deductions(A) \in Nat /\ Analysis!_service_security_deductions(B) \in Nat
      /\ Analysis!_service_security_deductions(B) <= Analysis!_service_security_deductions(A)
  BY FindingsGrow
<1>8. /\ Analysis!_contextual_deductions(A, L) \in Nat /\ Analysis!_contextual_deductions(B, M) \in Nat
      /\ Analysis!_contextual_deductions(B, M) <= Analysis!_contextual_deductions(A, L)
  BY ContextGrows
<1>9. D(A, L) \in Nat /\ D(B, M) \in Nat /\ D(B, M) <= D(A, L)
  <2>1. ASSUME NEW a1 \in Nat, NEW b1 \in Nat, b1 <= a1, NEW a2 \in Nat, NEW b2 \in Nat, b2 <= a2,
               NEW a3 \in Nat, NEW b3 \in Nat, b3 <= a3, NEW a4 \in Nat, NEW b4 \in Nat, b4 <= a4,
               NEW a5 \in Nat, NEW b5 \in Nat, b5 <= a5, NEW a6 \in Nat, NEW b6 \in Nat, b6 <= a6,
               NEW a7 \in Nat, NEW b7 \in Nat, b7 <= a7
        PROVE  /\ a1 + 4 * a2 + 4 * a3 + 2 * a4 + 3 * a5 + a6 + a7 \in Nat
               /\ b1 + 4 * b2 + 4 * b3 + 2 * b4 + 3 * b5 + b6 + b7 \in Nat
               /\ b1 + 4 * b2 + 4 * b3 + 2 * b4 + 3 * b5 + b6 + b7 <= a1 + 4 * a2 + 4 * a3 + 2 * a4 + 3 * a5 + a6 + a7
    BY <2>1
  <2> DEFINE r == Analysis!Risks(Analysis!online(A), 15, 6)
             q == Analysis!Risks(Analysis!online(B), 15, 6)
             u == Cardinality(U(A))
             x == Cardinality(U(B))
             v == Cardinality(V(A))
             y == Cardinality(V(B))
             h == Cardinality(H(A))
             z == Cardinality(H(B))
             w == Cardinality(W(A))
             o == Cardinality(W(B))
             s == Analysis!_service_security_deductions(A)
             t == Analysis!_service_security_deductions(B)
             c == Analysis!_contextual_deductions(A, L)
             d == Analysis!_contextual_deductions(B, M)
  <2>2. D(A, L) = r + 4 * u + 4 * v + 2 * h + 3 * w + s + c /\ D(B, M) = q + 4 * x + 4 * y + 2 * z + 3 * o + t + d
    OBVIOUS
  <2>3. /\ r \in Nat /\ q \in Nat /\ q <= r /\ u \in Nat /\ x \in Nat /\ x <= u /\ v \in Nat /\ y \in Nat /\ y <= v
        /\ h \in Nat /\ z \in Nat /\ z <= h /\ w \in Nat /\ o \in Nat /\ o <= w
    BY <1>5, <1>6
  <2>4. s \in Nat /\ t \in Nat /\ t <= s /\ c \in Nat /\ d \in Nat /\ d <= c
    BY <1>7, <1>8
  <2> HIDE DEF D, r, q, u, x, v, y, h, z, w, o, s, t, c, d
  <2>5. /\ r + 4 * u + 4 * v + 2 * h + 3 * w + s + c \in Nat
        /\ q + 4 * x + 4 * y + 2 * z + 3 * o + t + d \in Nat
        /\ q + 4 * x + 4 * y + 2 * z + 3 * o + t + d <= r + 4 * u + 4 * v + 2 * h + 3 * w + s + c
    BY <2>1, <2>3, <2>4
  <2> QED
    BY <2>2, <2>5
<1> DEFINE p == 100 - D(A, L)
           q == 100 - D(B, M)
<1>10. Analysis!calculate_security_score(A, L) = Analysis!Max({0, p}) /\ Analysis!calculate_security_score(B, M) = Analysis!Max({0, q})
  BY <1>1
<1> HIDE DEF D
<1>11. p \in Int /\ q \in Int /\ p <= 100 /\ q <= 100 /\ p <= q
  BY <1>9
<1> HIDE DEF p, q
<1>12. /\ Analysis!calculate_security_score(A, L) = IF p >= 0 THEN p ELSE 0
       /\ Analysis!calculate_security_score(B, M) = IF q >= 0 THEN q ELSE 0
  BY <1>10, <1>11, Bounds
<1> QED
  BY <1>11, <1>12

\* The score of an inventory is that of its online assets and confirmed relationships; without
\* an asset, or without a relationship, it is no lower.
LEMMA ScoredRight ==
    ASSUME Analysis!AnalysisConstants, NEW i \in Inventories, world = Analysis!calculate_security_score(i.assets, i.links),
           task = [kind |-> "score", of |-> i]
    PROVE  Analysis!ScoreIsJustified
<1> DEFINE confirmed == {l \in i.links : l.confidence = "CONFIRMED"}
           without(a) == (i.assets \ {a}) \cup {[a EXCEPT !.online = FALSE]}
<1>1. /\ IsFiniteSet(i.assets)
      /\ \A a \in i.assets : a.findings \in Seq({"critical", "high", "medium", "low", "info", "unknown"})
  BY AnalysisLibrary DEF Analysis!AnalysisConstants, Analysis!InventoryConstants
<1>2. Analysis!online(i.assets) \subseteq i.assets /\ IsFiniteSet(Analysis!online(i.assets))
  BY <1>1, FS_Subset DEF Analysis!online
<1>3. world = Analysis!calculate_security_score(Analysis!online(i.assets), confirmed)
  <2> DEFINE A == i.assets
             B == Analysis!online(i.assets)
  <2>1. Analysis!online(B) = Analysis!online(A)
    BY DEF Analysis!online
  <2>2. Analysis!confirmed_gateways(B, confirmed) = Analysis!confirmed_gateways(A, i.links)
    BY <2>1 DEF Analysis!confirmed_gateways
  <2>3. Exposed(B, confirmed) = Exposed(A, i.links)
    BY <2>1, <2>2 DEF Exposed
  <2>4. Analysis!_service_security_deductions(B) = Analysis!_service_security_deductions(A)
    BY <2>1 DEF Analysis!_service_security_deductions
  <2>5. Analysis!_contextual_deductions(B, confirmed) = Analysis!_contextual_deductions(A, i.links)
    BY <2>1, <2>2, <2>3 DEF Analysis!_contextual_deductions, Exposed
  <2> DEFINE D(X, s, c) ==
                 LET up == Analysis!online(X)
                     unknown == {a \in up : a.kind = "unknown"}
                 IN  Analysis!Max({0, 100 - (Analysis!Risks(up, 15, 6) + 4 * Cardinality(unknown)
                                    + 4 * Cardinality({a \in up : a.kind = "camera" /\ a.rtsp})
                                    + 2 * Cardinality({a \in up : a.http})
                                    + 3 * Cardinality({a \in unknown : a.new}) + s + c)})
  <2>6. ASSUME NEW X, NEW K
        PROVE  Analysis!calculate_security_score(X, K) = D(X, Analysis!_service_security_deductions(X), Analysis!_contextual_deductions(X, K))
    BY AnalysisLibrary DEF Analysis!calculate_security_score
  <2>7. \A s, c : D(B, s, c) = D(A, s, c)
    BY <2>1
  <2> HIDE DEF B, D, confirmed
  <2>8. Analysis!calculate_security_score(B, confirmed) = D(B, Analysis!_service_security_deductions(A), Analysis!_contextual_deductions(A, i.links))
    BY <2>4, <2>5, <2>6
  <2>9. Analysis!calculate_security_score(A, i.links) = D(A, Analysis!_service_security_deductions(A), Analysis!_contextual_deductions(A, i.links))
    BY <2>6
  <2>10. Analysis!calculate_security_score(B, confirmed) = Analysis!calculate_security_score(A, i.links)
    BY <2>7, <2>8, <2>9
  <2> QED
    BY <2>10 DEF B
<1>4. ASSUME NEW a \in Analysis!online(i.assets)
      PROVE  Analysis!calculate_security_score(without(a), i.links) >= world
  <2> DEFINE A == i.assets
             B == without(a)
  <2>1. a \in i.assets /\ a = [id |-> a.id, kind |-> a.kind, risk |-> a.risk, online |-> a.online, http |-> a.http,
                               rtsp |-> a.rtsp, new |-> a.new, findings |-> a.findings]
    BY <1>2 DEF Analysis!AnalysisConstants, Analysis!InventoryConstants
  <2>2. ~[a EXCEPT !.online = FALSE].online
    BY <2>1
  <2>3. Analysis!online(B) \subseteq Analysis!online(A)
    BY <2>2 DEF Analysis!online
  <2>4. Analysis!confirmed_gateways(B, i.links) \subseteq Analysis!confirmed_gateways(A, i.links)
    BY <2>3 DEF Analysis!confirmed_gateways
  <2>5. Exposed(B, i.links) \subseteq Exposed(A, i.links)
    BY <2>3, <2>4 DEF Exposed
  <2> HIDE DEF B
  <2>6. Analysis!calculate_security_score(B, i.links) >= Analysis!calculate_security_score(A, i.links)
    BY <1>1, <1>2, <2>3, <2>4, <2>5, ScoreGrows
  <2> QED
    BY <2>6 DEF B
<1>5. ASSUME NEW l \in i.links
      PROVE  Analysis!calculate_security_score(i.assets, i.links \ {l}) >= world
  <2>1. Analysis!confirmed_gateways(i.assets, i.links \ {l}) \subseteq Analysis!confirmed_gateways(i.assets, i.links)
    BY DEF Analysis!confirmed_gateways
  <2>2. Exposed(i.assets, i.links \ {l}) \subseteq Exposed(i.assets, i.links)
    BY <2>1 DEF Exposed
  <2> QED
    BY <1>1, <1>2, <2>1, <2>2, ScoreGrows
<1> QED
  BY <1>3, <1>4, <1>5 DEF Analysis!ScoreIsJustified

\* Two reports are told apart the same way in both directions.
LEMMA DetailsMirror ==
    /\ \A x, y : Analysis!_asset_details(x, y) # {} <=> Analysis!_asset_details(y, x) # {}
    /\ \A x, y : Analysis!_relationship_details(x, y) # {} <=> Analysis!_relationship_details(y, x) # {}
    /\ \A x, y : Analysis!_asset_details(x, y) = {} => x.state = y.state /\ x.ports = y.ports /\ x.services = y.services
<1> DEFINE Same(x, y) == /\ x.state = y.state /\ x.services = y.services
                         /\ x.ports \ y.ports = {} /\ y.ports \ x.ports = {}
                         /\ ~(None \notin {x.confidence, y.confidence} /\ x.confidence # y.confidence)
<1>1. ASSUME NEW x, NEW y PROVE Analysis!_asset_details(x, y) = {} <=> Same(x, y)
  <2> DEFINE c == None \notin {x.confidence, y.confidence} /\ x.confidence # y.confidence
  <2>1. \A p, m : (p => Analysis!When(p, m) = {m}) /\ (~p => Analysis!When(p, m) = {})
    BY DEF Analysis!When
  <2>2. \A p, m : Analysis!When(p, m) = {} <=> ~p
    BY <2>1
  <2>3. Analysis!_asset_details(x, y) =
            Analysis!When(x.state # y.state, "state") \cup Analysis!When(c, "confidence")
            \cup Analysis!When(y.ports \ x.ports # {}, "opened") \cup Analysis!When(x.ports \ y.ports # {}, "closed")
            \cup Analysis!When(y.services # x.services, "services")
    BY DEF Analysis!_asset_details
  <2> HIDE DEF c
  <2> DEFINE P1 == Analysis!When(x.state # y.state, "state")
             P2 == Analysis!When(c, "confidence")
             P3 == Analysis!When(y.ports \ x.ports # {}, "opened")
             P4 == Analysis!When(x.ports \ y.ports # {}, "closed")
             P5 == Analysis!When(y.services # x.services, "services")
  <2>4. /\ (P1 = {} <=> x.state = y.state) /\ (P2 = {} <=> ~c) /\ (P3 = {} <=> y.ports \ x.ports = {})
        /\ (P4 = {} <=> x.ports \ y.ports = {}) /\ (P5 = {} <=> x.services = y.services)
    BY <2>2
  <2>5. Analysis!_asset_details(x, y) = P1 \cup P2 \cup P3 \cup P4 \cup P5
    BY <2>3
  <2> HIDE DEF P1, P2, P3, P4, P5
  <2>6. P1 \cup P2 \cup P3 \cup P4 \cup P5 = {} <=> P1 = {} /\ P2 = {} /\ P3 = {} /\ P4 = {} /\ P5 = {}
    OBVIOUS
  <2> QED
    BY <2>4, <2>5, <2>6 DEF c
<1>2. ASSUME NEW x, NEW y
      PROVE  Analysis!_relationship_details(x, y) = {} <=> x.confidence = y.confidence /\ x.evidence = y.evidence
  BY DEF Analysis!_relationship_details, Analysis!When
<1>3. \A x, y : Same(x, y) <=> Same(y, x)
  OBVIOUS
<1>4. \A x, y : Same(x, y) => x.state = y.state /\ x.ports = y.ports /\ x.services = y.services
  <2>1. \A P, Q : P \ Q = {} /\ Q \ P = {} => P = Q
    OBVIOUS
  <2> QED
    BY <2>1
<1> HIDE DEF Same
<1> QED
  BY <1>1, <1>2, <1>3, <1>4

\* A comparison is exact, and the opposite of the other way round.
LEMMA ComparedRight ==
    ASSUME NEW b, NEW c, task = [kind |-> "compare", of |-> <<b, c>>],
           world = Analysis!compare_network_reports(Analysis!load_network_report(b), Analysis!load_network_report(c)),
           world # Error
    PROVE  Analysis!ComparisonIsExact
<1> DEFINE ChangedAssets(x, y) == {k \in DOMAIN x \cap DOMAIN y : Analysis!_asset_details(x[k], y[k]) # {}}
           ChangedLinks(x, y) == {k \in DOMAIN x \cap DOMAIN y : Analysis!_relationship_details(x[k], y[k]) # {}}
           Told(x, y, changed) == [added |-> DOMAIN y \ DOMAIN x, removed |-> DOMAIN x \ DOMAIN y,
                                   changed |-> changed, unchanged |-> (DOMAIN x \cap DOMAIN y) \ changed]
           Compared(q, r) ==
               [assets |-> Told(Analysis!Assets(q), Analysis!Assets(r), ChangedAssets(Analysis!Assets(q), Analysis!Assets(r))),
                links |-> Told(Analysis!Links(q), Analysis!Links(r), ChangedLinks(Analysis!Links(q), Analysis!Links(r))),
                delta |-> r.score - q.score,
                new |-> r.findings \ q.findings, resolved |-> q.findings \ r.findings]
<1>1. ASSUME NEW q, NEW r
      PROVE  Analysis!compare_network_reports(q, r) =
                 IF Error \in {q, r} \/ q.scope # r.scope THEN Error ELSE Compared(q, r)
  BY DEF Analysis!compare_network_reports, Analysis!Delta
<1> DEFINE B == b.report
           C == c.report
<1> HIDE DEF Compared
<1>2. /\ Analysis!load_network_report(b) = B /\ Analysis!load_network_report(c) = C
      /\ Error \notin {B, C} /\ B.scope = C.scope /\ B.score \in 0..100 /\ C.score \in 0..100
  <2>1. Error \notin {Analysis!load_network_report(b), Analysis!load_network_report(c)}
    BY <1>1
  <2>2. ASSUME NEW f, Analysis!load_network_report(f) # Error
        PROVE  Analysis!load_network_report(f) = f.report /\ f.report # Error /\ f.report.score \in 0..100
    <3>1. Analysis!load_network_report(f) = f.report /\ Analysis!validate_network_report(f.report)
      BY <2>2 DEF Analysis!load_network_report
    <3>2. \A r : Analysis!validate_network_report(r) => r.score \in 0..100
      BY DEF Analysis!validate_network_report
    <3> QED
      BY <2>2, <3>1, <3>2
  <2>3. Analysis!load_network_report(b) = B /\ Analysis!load_network_report(c) = C
        /\ Error \notin {B, C} /\ B.score \in 0..100 /\ C.score \in 0..100
    BY <2>1, <2>2
  <2> QED
    BY <1>1, <2>3
<1>3. world = Compared(B, C) /\ Analysis!compare_network_reports(C, B) = Compared(C, B)
  BY <1>1, <1>2
<1> DEFINE mirror == Analysis!compare_network_reports(C, B)
           Exact(d, m, x, y) ==
               /\ (DOMAIN x \ d.removed) \cup d.added = DOMAIN y
               /\ d.changed \cap d.unchanged = {}
               /\ d.added = m.removed /\ d.removed = m.added /\ d.changed = m.changed
<1>4. ASSUME NEW x, NEW y, NEW s PROVE Exact(Told(x, y, s), Told(y, x, s), x, y)
  OBVIOUS
<1>5. \A x, y : ChangedAssets(x, y) = ChangedAssets(y, x) /\ ChangedLinks(x, y) = ChangedLinks(y, x)
  BY DetailsMirror
<1>6. /\ world.assets = Told(Analysis!Assets(B), Analysis!Assets(C), ChangedAssets(Analysis!Assets(B), Analysis!Assets(C)))
      /\ world.links = Told(Analysis!Links(B), Analysis!Links(C), ChangedLinks(Analysis!Links(B), Analysis!Links(C)))
      /\ world.delta = C.score - B.score /\ world.new = C.findings \ B.findings /\ world.resolved = B.findings \ C.findings
      /\ mirror.assets = Told(Analysis!Assets(C), Analysis!Assets(B), ChangedAssets(Analysis!Assets(C), Analysis!Assets(B)))
      /\ mirror.links = Told(Analysis!Links(C), Analysis!Links(B), ChangedLinks(Analysis!Links(C), Analysis!Links(B)))
      /\ mirror.delta = B.score - C.score
  <2> HIDE DEF Told, ChangedAssets, ChangedLinks
  <2> QED
    BY <1>3 DEF Compared
<1>7. \A k \in world.assets.unchanged :
          Analysis!Assets(B)[k].state = Analysis!Assets(C)[k].state /\ Analysis!Assets(B)[k].ports = Analysis!Assets(C)[k].ports
          /\ Analysis!Assets(B)[k].services = Analysis!Assets(C)[k].services
  BY <1>6, DetailsMirror
<1> DEFINE X == Analysis!Assets(B)
           Y == Analysis!Assets(C)
           P == Analysis!Links(B)
           Q == Analysis!Links(C)
<1> HIDE DEF Told, ChangedAssets, ChangedLinks, Exact, mirror, B, C, X, Y, P, Q
<1>8. Exact(world.assets, mirror.assets, X, Y)
  BY <1>4, <1>5, <1>6 DEF X, Y
<1>9. Exact(world.links, mirror.links, P, Q)
  BY <1>4, <1>5, <1>6 DEF P, Q
<1>10. \A k \in world.assets.unchanged : \A field \in {"state", "ports", "services"} : X[k][field] = Y[k][field]
  BY <1>7 DEF X, Y
<1>11. (B.findings \ world.resolved) \cup world.new = C.findings
  <2>1. \A S, T : (S \ (S \ T)) \cup (T \ S) = T
    OBVIOUS
  <2> QED
    BY <1>6, <2>1
<1>12. world.delta = 0 - mirror.delta
  <2>1. world.delta = C.score - B.score /\ mirror.delta = B.score - C.score
    BY <1>6
  <2>2. B.score \in Int /\ C.score \in Int
    BY <1>2
  <2>3. \A m, n \in Int : m - n = 0 - (n - m)
    OBVIOUS
  <2> QED
    BY <2>1, <2>2, <2>3
<1>13. b.report = B /\ c.report = C /\ task.of[1] = b /\ task.of[2] = c
  BY DEF B, C
<1> QED
  BY <1>8, <1>9, <1>10, <1>11, <1>12, <1>13 DEF Analysis!ComparisonIsExact, B, C, X, Y, P, Q, Exact, mirror

\* The lists that a set is written as.
LEMMA WrittenAs ==
    ASSUME NEW S, IsFiniteSet(S)
    PROVE  LET f == Analysis!SetToSeq(S)
           IN  /\ f \in Seq(S) /\ Len(f) = Cardinality(S) /\ DOMAIN f = 1..Cardinality(S)
               /\ \A i, j \in DOMAIN f : f[i] = f[j] => i = j
<1> DEFINE n == Cardinality(S)
           g == Analysis!SetToSeq(S)
<1>1. PICK h \in [1..n -> S] : \A i, j \in 1..n : h[i] = h[j] => i = j
  BY FS_CardinalityType DEF ExistsBijection, Bijection, Injection, IsInjective
<1>2. n \in Nat
  BY FS_CardinalityType
<1>3. Analysis!IsInjective(h)
  BY <1>1 DEF Analysis!IsInjective
<1>4. g = CHOOSE f \in [1..n -> S] : Analysis!IsInjective(f)
  BY AnalysisLibrary DEF Analysis!SetToSeq
<1> HIDE DEF g, n
<1>5. g \in [1..n -> S] /\ Analysis!IsInjective(g)
  BY <1>1, <1>3, <1>4
<1>6. DOMAIN g = 1..n /\ \A i, j \in DOMAIN g : g[i] = g[j] => i = j
  BY <1>5 DEF Analysis!IsInjective
<1>7. g \in Seq(S) /\ Len(g) = n
  BY <1>2, <1>5
<1> QED
  BY <1>6, <1>7 DEF g, n

\* A written report is valid: its keys are those of the database, its score is a percentage.
LEMMA ReportedRight ==
    ASSUME Analysis!AnalysisConstants, NEW i \in Inventories, task = [kind |-> "report", of |-> i],
           world = Analysis!load_network_report(
                       [readable |-> TRUE, report |-> Analysis!build_network_report(i.assets, i.links)])
    PROVE  Analysis!ReportIsReadable
<1> DEFINE Row(a) == [id |-> a.id, inScope |-> TRUE, state |-> <<a.kind, a.risk, a.online>>, ports |-> {},
                      services |-> {}, confidence |-> 0]
           Edge(l) == [kind |-> l.kind, src |-> l.src, dst |-> l.dst, by |-> l.by, confidence |-> l.confidence, evidence |-> {}]
           Rows == {Row(a) : a \in i.assets}
           Edges == {Edge(l) : l \in i.links}
           r == Analysis!build_network_report(i.assets, i.links)
<1>1. /\ IsFiniteSet(i.assets) /\ IsFiniteSet(i.links) /\ r # Error
      /\ \A a, b \in i.assets : a.id = b.id => a = b
      /\ \A l, m \in i.links : Analysis!_relationship_key(l) = Analysis!_relationship_key(m) => l = m
      /\ \A a \in i.assets : a.findings \in Seq({"critical", "high", "medium", "low", "info", "unknown"})
  BY AnalysisLibrary DEF Analysis!AnalysisConstants, Analysis!InventoryConstants
<1>2. /\ r.schema = 2 /\ r.at = 1 /\ r.score = Analysis!calculate_security_score(i.assets, i.links)
      /\ r.assets = Analysis!SetToSeq(Rows) /\ r.links = Analysis!SetToSeq(Edges)
  BY DEF Analysis!build_network_report
<1>3. IsFiniteSet(Rows) /\ Cardinality(Rows) = Cardinality(i.assets)
  <2> DEFINE f == [a \in i.assets |-> Row(a)]
  <2>1. f \in [i.assets -> Rows] /\ \A x \in Rows : \E a \in i.assets : f[a] = x
    OBVIOUS
  <2>2. \A a, b \in i.assets : f[a] = f[b] => a.id = b.id
    OBVIOUS
  <2> HIDE DEF f, Rows
  <2>3. f \in Surjection(i.assets, Rows)
    BY <2>1 DEF Surjection
  <2>4. f \in Injection(i.assets, Rows)
    BY <1>1, <2>1, <2>2 DEF Injection, IsInjective
  <2> QED
    BY <1>1, <2>3, <2>4, FS_Surjection
<1>4. IsFiniteSet(Edges)
  <2> DEFINE f == [l \in i.links |-> Edge(l)]
  <2>1. f \in Surjection(i.links, Edges)
    BY DEF Surjection
  <2> HIDE DEF f, Edges
  <2> QED
    BY <1>1, <2>1, FS_Surjection
<1>5. Analysis!IsInjective([k \in DOMAIN r.assets |-> r.assets[k].id])
      /\ \A k \in DOMAIN r.assets : r.assets[k].inScope /\ r.assets[k].ports \subseteq Analysis!Ports
  <2> DEFINE s == r.assets
  <2>1. s \in Seq(Rows) /\ \A k, l \in DOMAIN s : s[k] = s[l] => k = l
    <3> HIDE DEF Rows, s, r
    <3> QED
      BY <1>2, <1>3, WrittenAs DEF s
  <2> HIDE DEF s
  <2>2. \A k \in DOMAIN s : s[k] \in Rows
    <3> HIDE DEF Rows
    <3> QED
      BY <2>1
  <2>3. \A x, y \in Rows : x.id = y.id => x = y
    <3>1. \A a : Row(a).id = a.id
      OBVIOUS
    <3> HIDE DEF Row
    <3> QED
      BY <1>1, <3>1
  <2>4. \A x \in Rows : x.inScope /\ x.ports = {}
    OBVIOUS
  <2> HIDE DEF Rows
  <2>5. \A k, l \in DOMAIN s : s[k].id = s[l].id => k = l
    BY <2>1, <2>2, <2>3
  <2>6. \A k \in DOMAIN s : s[k].inScope /\ s[k].ports \subseteq Analysis!Ports
    BY <2>2, <2>4
  <2>7. Analysis!IsInjective([k \in DOMAIN s |-> s[k].id])
    BY <2>5 DEF Analysis!IsInjective
  <2> QED
    BY <2>6, <2>7 DEF s
<1>6. Analysis!IsInjective([k \in DOMAIN r.links |-> Analysis!_relationship_key(r.links[k])])
  <2> DEFINE s == r.links
  <2>1. s \in Seq(Edges) /\ \A k, l \in DOMAIN s : s[k] = s[l] => k = l
    <3> HIDE DEF Edges, s, r
    <3> QED
      BY <1>2, <1>4, WrittenAs DEF s
  <2> HIDE DEF s
  <2>2. \A k \in DOMAIN s : s[k] \in Edges
    <3> HIDE DEF Edges
    <3> QED
      BY <2>1
  <2>3. \A x, y \in Edges : Analysis!_relationship_key(x) = Analysis!_relationship_key(y) => x = y
    <3>1. \A l : Analysis!_relationship_key(Edge(l)) = Analysis!_relationship_key(l)
      BY DEF Analysis!_relationship_key
    <3> HIDE DEF Edge
    <3> QED
      BY <1>1, <3>1
  <2> HIDE DEF Edges
  <2>4. \A k, l \in DOMAIN s : Analysis!_relationship_key(s[k]) = Analysis!_relationship_key(s[l]) => k = l
    BY <2>1, <2>2, <2>3
  <2>5. Analysis!IsInjective([k \in DOMAIN s |-> Analysis!_relationship_key(s[k])])
    BY <2>4 DEF Analysis!IsInjective
  <2> QED
    BY <2>5 DEF s
<1>7. r.score \in 0..100
  <2>1. Analysis!online(i.assets) \subseteq i.assets /\ IsFiniteSet(Analysis!online(i.assets))
    BY <1>1, FS_Subset DEF Analysis!online
  <2> QED
    <3> DEFINE A == i.assets
               L == i.links
    <3>1. /\ Analysis!online(A) \subseteq Analysis!online(A)
          /\ Analysis!confirmed_gateways(A, L) \subseteq Analysis!confirmed_gateways(A, L)
          /\ Exposed(A, L) \subseteq Exposed(A, L)
      OBVIOUS
    <3>2. IsFiniteSet(Analysis!online(A))
          /\ \A a \in Analysis!online(A) : a.findings \in Seq({"critical", "high", "medium", "low", "info", "unknown"})
      BY <1>1, <2>1
    <3>3. r.score = Analysis!calculate_security_score(A, L)
      BY <1>2
    <3> HIDE DEF A, L, r
    <3>4. Analysis!calculate_security_score(A, L) \in 0..100
      BY <3>1, <3>2, ScoreGrows
    <3> QED
      BY <3>3, <3>4
<1>8. Len(r.assets) = Cardinality(i.assets)
  <2> HIDE DEF Rows, r
  <2> QED
    BY <1>2, <1>3, WrittenAs
<1>0. r.schema \in {1, 2} /\ r.at \in Int
  BY <1>2
<1> HIDE DEF r
<1>9. Analysis!validate_network_report(r)
  BY <1>0, <1>5, <1>6, <1>7 DEF Analysis!validate_network_report
<1>10. world = r
  BY <1>9 DEF Analysis!load_network_report, r
<1> QED
  BY <1>1, <1>8, <1>10, AnalysisLibrary DEF Analysis!ReportIsReadable

LEMMA AnalysisRanked ==
    ASSUME NEW S, NEW R
    PROVE  Analysis!Ranked(S, R) = Ranked(S, R)
  BY DEF Analysis!Ranked, Ranked, Analysis!Cardinality, Cardinality

\* The points of a history are in the order of time and lead from each report to the next.
LEMMA OrderedRight ==
    ASSUME Analysis!AnalysisConstants, NEW s \in Selections, task = [kind |-> "history", of |-> s],
           world = Analysis!load_score_history(s), world # Error
    PROVE  Analysis!HistoryIsExact
<1> DEFINE U == Analysis!ToSet(s)
           E == {p \in U \X U : p[1].report.at < p[2].report.at}
           f == Ranked(U, E)
           n == Cardinality(U)
           Before(i) == IF i = 1 THEN f[1].report ELSE f[i - 1].report
           Point(i) == [at |-> f[i].report.at, score |-> f[i].report.score,
                        delta |-> f[i].report.score - Before(i).score,
                        new |-> f[i].report.findings \ Before(i).findings,
                        resolved |-> Before(i).findings \ f[i].report.findings]
           reports == {g.report : g \in U}
           Of(p) == CHOOSE r \in reports : r.at = p.at
<1>1. IsFiniteSet(U) /\ Len(s) \in Nat /\ DOMAIN s = 1..Len(s)
  <2>1. s \in Seq(U)
    BY DEF Analysis!AnalysisConstants, Analysis!FileConstants
  <2>2. Len(s) \in Nat /\ DOMAIN s = 1..Len(s) /\ \A i \in DOMAIN s : s[i] \in U
    BY <2>1
  <2>3. \A x \in U : \E i \in DOMAIN s : s[i] = x
    BY DEF Analysis!ToSet
  <2> DEFINE m == Len(s)
             g == [i \in 1..m |-> s[i]]
  <2>4. g \in Surjection(1..m, U)
    BY <2>2, <2>3 DEF Surjection
  <2>5. m \in Int /\ 1 \in Int
    BY <2>2
  <2> HIDE DEF U, m, g
  <2>6. IsFiniteSet(1..m)
    BY <2>5, FS_Interval
  <2> QED
    BY <2>2, <2>4, <2>6, FS_Surjection DEF m
<1>2. /\ ~(n < 2)
      /\ \A g \in U : Analysis!load_network_report(g) # Error
      /\ world = Analysis!build_score_history(U)
  <2>1. Analysis!load_score_history(s) =
            IF n < 2 \/ \E g \in U : Analysis!load_network_report(g) = Error
            THEN Error ELSE Analysis!build_score_history(U)
    BY AnalysisLibrary DEF Analysis!load_score_history
  <2> HIDE DEF U, n
  <2> QED
    BY <2>1
<1>3. \A g \in U : g.report.at \in Int /\ g.report.score \in 0..100
  <2>1. ASSUME NEW g \in U PROVE Analysis!validate_network_report(g.report)
    BY <1>2, <2>1 DEF Analysis!load_network_report
  <2>2. \A r : Analysis!validate_network_report(r) => r.at \in Int /\ r.score \in 0..100
    BY DEF Analysis!validate_network_report
  <2> QED
    BY <2>1, <2>2
<1>4. /\ \A g, h \in U : g = h \/ g.report.at # h.report.at
      /\ world = [i \in 1..n |-> Point(i)]
  <2> DEFINE clash == \E g, h \in U : (g # h /\ g.report.at = h.report.at) \/ g.report.scope # h.report.scope
  <2>1. Analysis!build_score_history(U) = IF clash THEN Error ELSE [i \in 1..n |-> Point(i)]
    <3>1. Analysis!Ranked(U, E) = f /\ Analysis!Cardinality(U) = n
      BY AnalysisLibrary, AnalysisRanked
    <3> HIDE DEF U, f, n
    <3> QED
      BY <3>1 DEF Analysis!build_score_history
  <2>2. ~clash => \A g, h \in U : g = h \/ g.report.at # h.report.at
    OBVIOUS
  <2> HIDE DEF clash, Point, n, U
  <2> QED
    BY <1>2, <2>1, <2>2
<1>5. StrictOrder(E, U)
  <2>1. \A x, y \in U : <<x, y>> \in E <=> x.report.at < y.report.at
    OBVIOUS
  <2> HIDE DEF E, U
  <2>2. \A x \in U : <<x, x>> \notin E
    BY <1>3, <2>1
  <2>3. \A x, y, z \in U : <<x, y>> \in E /\ <<y, z>> \in E => <<x, z>> \in E
    BY <1>3, <2>1
  <2>4. ASSUME NEW x \in U, NEW y \in U, x # y PROVE <<x, y>> \in E \/ <<y, x>> \in E
    <3>1. x.report.at # y.report.at
      BY <1>4, <2>4
    <3>2. x.report.at \in Int /\ y.report.at \in Int
      BY <1>3
    <3>3. x.report.at < y.report.at \/ y.report.at < x.report.at
      BY <3>1, <3>2
    <3> QED
      BY <2>1, <3>3
  <2> QED
    BY <2>2, <2>3, <2>4 DEF StrictOrder
<1>6. /\ f \in Seq(U) /\ Len(f) = n /\ n \in Nat
      /\ \A x \in U : \E i \in 1..n : f[i] = x
      /\ \A i, j \in 1..n : i < j => <<f[i], f[j]>> \in E
  <2> HIDE DEF U, E
  <2> QED
    BY <1>1, <1>5, RankedOrders
<1>7. \A i \in 1..n : f[i] \in U
  <2> HIDE DEF f, U, n
  <2> QED
    BY <1>6
<1>8. \A i, j \in 1..n : i < j => f[i].report.at < f[j].report.at
  BY <1>6
<1> HIDE DEF f, E, U, n
<1>9. Len(world) = n /\ DOMAIN world = 1..n /\ \A i \in 1..n : world[i] = Point(i)
  BY <1>4, <1>6
<1>10. ASSUME NEW i \in 1..n
       PROVE  /\ world[i].at = f[i].report.at /\ world[i].score = f[i].report.score
              /\ Of(world[i]) = f[i].report
  <2>1. world[i].at = f[i].report.at /\ world[i].score = f[i].report.score
    BY <1>9
  <2>2. f[i].report \in reports
    BY <1>7
  <2>3. \A r \in reports : r.at = f[i].report.at => r = f[i].report
    BY <1>4, <1>7
  <2> HIDE DEF reports
  <2> QED
    BY <2>1, <2>2, <2>3
<1>11. {p.at : p \in Analysis!ToSet(world)} = {r.at : r \in reports}
  <2>1. Analysis!ToSet(world) = {world[i] : i \in 1..n}
    BY <1>9 DEF Analysis!ToSet
  <2>2. ASSUME NEW i \in 1..n PROVE \E g \in U : world[i].at = g.report.at
    BY <1>7, <1>10
  <2>3. ASSUME NEW g \in U PROVE \E i \in 1..n : world[i].at = g.report.at
    BY <1>6, <1>10
  <2> HIDE DEF Of
  <2> QED
    BY <2>1, <2>2, <2>3
<1>12. ASSUME NEW i \in 2..n
       PROVE  /\ world[i - 1].at < world[i].at
              /\ world[i - 1].score + world[i].delta = world[i].score
              /\ (Of(world[i - 1]).findings \ world[i].resolved) \cup world[i].new = Of(world[i]).findings
  <2>1. i \in 1..n /\ i - 1 \in 1..n /\ i - 1 < i /\ i # 1
    BY <1>6
  <2>2. Before(i) = f[i - 1].report
    BY <2>1
  <2>3. /\ world[i].delta = f[i].report.score - f[i - 1].report.score
        /\ world[i].new = f[i].report.findings \ f[i - 1].report.findings
        /\ world[i].resolved = f[i - 1].report.findings \ f[i].report.findings
    BY <1>9, <2>1, <2>2
  <2>4. /\ world[i].at = f[i].report.at /\ world[i].score = f[i].report.score /\ Of(world[i]) = f[i].report
        /\ world[i - 1].at = f[i - 1].report.at /\ world[i - 1].score = f[i - 1].report.score
        /\ Of(world[i - 1]) = f[i - 1].report
    BY <1>10, <2>1
  <2>5. f[i].report.score \in Int /\ f[i - 1].report.score \in Int
    BY <1>3, <1>7, <2>1
  <2> HIDE DEF Of
  <2>6. world[i - 1].at < world[i].at
    BY <1>8, <2>1, <2>4
  <2>7. world[i - 1].score + world[i].delta = world[i].score
    BY <2>3, <2>4, <2>5
  <2>8. \A S, T : (S \ (S \ T)) \cup (T \ S) = T
    OBVIOUS
  <2>9. (Of(world[i - 1]).findings \ world[i].resolved) \cup world[i].new = Of(world[i]).findings
    BY <2>3, <2>4, <2>8
  <2> QED
    BY <2>6, <2>7, <2>9
<1>13. Analysis!load_score_history(Analysis!Reverse(s)) = world
  <2> DEFINE v == Analysis!Reverse(s)
             G(S) == IF Analysis!Cardinality(S) < 2 \/ \E g \in S : Analysis!load_network_report(g) = Error
                     THEN Error ELSE Analysis!build_score_history(S)
  <2>1. v = [i \in 1..Len(s) |-> s[(Len(s) - i) + 1]]
    BY DEF Analysis!Reverse
  <2>2. \A i \in 1..Len(s) : (Len(s) - i) + 1 \in 1..Len(s) /\ (Len(s) - ((Len(s) - i) + 1)) + 1 = i
    BY <1>1
  <2>3. DOMAIN v = 1..Len(s) /\ \A i \in 1..Len(s) : v[i] = s[(Len(s) - i) + 1]
    BY <2>1
  <2> HIDE DEF v
  <2>4. \A i \in 1..Len(s) : \E j \in 1..Len(s) : v[j] = s[i]
    BY <2>2, <2>3
  <2>5. Analysis!ToSet(v) = Analysis!ToSet(s)
    <3>1. \A x : Analysis!ToSet(x) = {x[i] : i \in DOMAIN x}
      BY DEF Analysis!ToSet
    <3> DEFINE m == Len(s)
    <3>2. Analysis!ToSet(v) = {v[i] : i \in 1..m} /\ Analysis!ToSet(s) = {s[i] : i \in 1..m}
      BY <1>1, <2>3, <3>1
    <3>3. \A i \in 1..m : \E j \in 1..m : v[i] = s[j]
      BY <2>2, <2>3
    <3>4. \A i \in 1..m : \E j \in 1..m : s[i] = v[j]
      BY <2>4
    <3> DEFINE I == 1..m
    <3>5. (\A i \in I : \E j \in I : v[i] = s[j]) /\ (\A i \in I : \E j \in I : s[i] = v[j])
      BY <3>3, <3>4
    <3> HIDE DEF I, m
    <3>6. {v[i] : i \in I} = {s[i] : i \in I}
      BY <3>5
    <3> QED
      BY <3>2, <3>6 DEF I
  <2>6. \A x : Analysis!load_score_history(x) = G(Analysis!ToSet(x))
    BY DEF Analysis!load_score_history
  <2> HIDE DEF G
  <2>7. Analysis!load_score_history(v) = Analysis!load_score_history(s)
    BY <2>5, <2>6
  <2> QED
    BY <2>7 DEF v
<1>14. \A i \in 1..Len(world) : world[i].score = Of(world[i]).score
  BY <1>9, <1>10
<1>15. \A i \in 2..Len(world) :
          /\ world[i - 1].at < world[i].at
          /\ world[i - 1].score + world[i].delta = world[i].score
          /\ (Of(world[i - 1]).findings \ world[i].resolved) \cup world[i].new = Of(world[i]).findings
  BY <1>9, <1>12
<1> HIDE DEF Of, Point, Before
<1>16. task.of = s
  OBVIOUS
<1> DEFINE R == {g.report : g \in Analysis!ToSet(task.of)}
<1>17. R = reports
  BY <1>16 DEF U
<1>18. \A p : Of(p) = CHOOSE r \in R : r.at = p.at
  BY <1>17 DEF Of
<1>19. {p.at : p \in Analysis!ToSet(world)} = {r.at : r \in R}
  BY <1>11, <1>17
<1>20. Analysis!load_score_history(Analysis!Reverse(task.of)) = world
  BY <1>13, <1>16
<1> QED
  BY <1>14, <1>15, <1>18, <1>19, <1>20 DEF Analysis!HistoryIsExact

\* What is made of a report that is written and read back, and of two files.
Reread(i) == Analysis!load_network_report([readable |-> TRUE, report |-> Analysis!build_network_report(i.assets, i.links)])
Compared(b, c) == Analysis!compare_network_reports(Analysis!load_network_report(b), Analysis!load_network_report(c))

\* What the window was asked is an inventory, a host or files; what it answered is what the
\* function of the question returns.
AnalysisInv ==
    /\ task.kind = "classify" => \E h \in Hosts : /\ task = [kind |-> "classify", of |-> h]
                                                  /\ world \in {None, Analysis!classify_device(h)}
    /\ task.kind = "audit" => \E h \in Hosts : /\ task = [kind |-> "audit", of |-> h]
                                               /\ world \in {None, Analysis!build_device_audit(Analysis!Kind(h), h.ports)}
    /\ task.kind = "score" => \E i \in Inventories : /\ task = [kind |-> "score", of |-> i]
                                                     /\ world \in {None, Analysis!calculate_security_score(i.assets, i.links)}
    /\ task.kind = "topology" => \E i \in Inventories : /\ task = [kind |-> "topology", of |-> i]
                                                        /\ world \in {None, Analysis!build_logical_topology(i.assets, i.links)}
    /\ task.kind = "report" => \E i \in Inventories : /\ task = [kind |-> "report", of |-> i]
                                                      /\ world \in {None, Reread(i)}
    /\ task.kind = "compare" => \E b, c \in Reports : /\ task = [kind |-> "compare", of |-> <<b, c>>]
                                                      /\ world \in {None, Compared(b, c)}
    /\ task.kind = "history" => \E s \in Selections : /\ task = [kind |-> "history", of |-> s]
                                                      /\ world \in {None, Analysis!load_score_history(s)}

LEMMA AnalysisInit == Analysis!Init => AnalysisInv
  BY DEF Analysis!Init, Analysis!Ask, AnalysisInv

LEMMA AnalysisStep ==
    ASSUME AnalysisInv, Analysis!Next \/ UNCHANGED <<task, world>>
    PROVE  AnalysisInv'
<1>1. CASE UNCHANGED <<task, world>>
  BY <1>1 DEF AnalysisInv
<1>2. CASE Analysis!Next
  <2>1. task' = task
    BY <1>2 DEF Analysis!Next, Analysis!Answer
  <2>2. /\ task.kind = "classify" => world' = Analysis!classify_device(task.of)
        /\ task.kind = "audit" => world' = Analysis!build_device_audit(Analysis!Kind(task.of), task.of.ports)
        /\ task.kind = "score" => world' = Analysis!calculate_security_score(task.of.assets, task.of.links)
        /\ task.kind = "topology" => world' = Analysis!build_logical_topology(task.of.assets, task.of.links)
        /\ task.kind = "report" => world' = Reread(task.of)
        /\ task.kind = "compare" => world' = Compared(task.of[1], task.of[2])
        /\ task.kind = "history" => world' = Analysis!load_score_history(task.of)
    BY <1>2 DEF Analysis!Next, Analysis!Answer, Reread, Compared
  <2> QED
    BY <2>1, <2>2 DEF AnalysisInv
<1> QED
  BY <1>1, <1>2

LEMMA AnalysisIsRight == ASSUME Analysis!AnalysisConstants, AnalysisInv PROVE Analysis!AnalysisIsSound
<1>1. Analysis!ClassificationIsSupported
  BY ClassifiedRight DEF AnalysisInv, Analysis!ClassificationIsSupported, Analysis!Answered
<1>2. Analysis!AuditFindsExposure
  BY AuditedRight DEF AnalysisInv, Analysis!AuditFindsExposure, Analysis!Answered
<1>3. Analysis!ScoreIsJustified
  BY ScoredRight DEF AnalysisInv, Analysis!ScoreIsJustified, Analysis!Answered
<1>4. Analysis!TopologyIsSound
  BY DrawnRight DEF AnalysisInv, Analysis!TopologyIsSound, Analysis!Answered
<1> QED
  BY <1>1, <1>2, <1>3, <1>4 DEF Analysis!AnalysisIsSound

LEMMA ReportsAreRight == ASSUME Analysis!AnalysisConstants, AnalysisInv PROVE Analysis!ReportsAreExact
<1>1. Analysis!ReportIsReadable
  <2>1. ASSUME Analysis!Answered("report") PROVE Analysis!ReportIsReadable
    <3>1. PICK i \in Inventories : task = [kind |-> "report", of |-> i] /\ world = Reread(i)
      BY <2>1 DEF AnalysisInv, Analysis!Answered
    <3> QED
      BY <3>1, ReportedRight DEF Reread
  <2> QED
    BY <2>1 DEF Analysis!ReportIsReadable
<1>2. Analysis!ComparisonIsExact
  <2>1. ASSUME Analysis!Answered("compare"), world # Error PROVE Analysis!ComparisonIsExact
    <3>1. PICK b, c \in Reports : task = [kind |-> "compare", of |-> <<b, c>>] /\ world = Compared(b, c)
      BY <2>1 DEF AnalysisInv, Analysis!Answered
    <3> QED
      BY <2>1, <3>1, ComparedRight DEF Compared
  <2> QED
    BY <2>1 DEF Analysis!ComparisonIsExact
<1>3. Analysis!HistoryIsExact
  <2>1. ASSUME Analysis!Answered("history"), world # Error PROVE Analysis!HistoryIsExact
    BY <2>1, OrderedRight DEF AnalysisInv, Analysis!Answered
  <2> QED
    BY <2>1 DEF Analysis!HistoryIsExact
<1> QED
  BY <1>1, <1>2, <1>3 DEF Analysis!ReportsAreExact

-----------------------------------------------------------------------------
(* The open window. *)

\* What holds of the open window, whichever it is.  A rollback whose own calls fail leaves backups
\* of the outputs behind: of those nothing is said.
IInv ==
    /\ window = "startup" => StartupInv
    /\ window = "output" /\ ~RollbackFails => OutputInv
    /\ window = "duplicate" => DuplicateInv
    /\ window = "cleaner" => AtWork
    /\ window = "processes" => ProcessInv
    /\ window = "viewer" => ViewerInv
    /\ window = "monitor" => MonitorInv /\ CaptureInv
    /\ window = "explorer" => ExplorerInv
    /\ window = "archive" => ArchiveInv
    /\ window = "analysis" => AnalysisInv

LEMMA InitHolds == Init => IInv
<1> SUFFICES ASSUME Init PROVE IInv
  OBVIOUS
<1>1. window = "startup" => StartupInv
  BY StartupInit DEF Init
<1>2. window = "output" => OutputInv
  BY OutputInit DEF Init
<1>3. window = "duplicate" => DuplicateInv
  BY DuplicateInit DEF Init
<1>4. window = "cleaner" => AtWork
  BY CleanerInit, AloneInit DEF Init, AtWork
<1>5. window = "processes" => ProcessInv
  BY ProcessInit DEF Init
<1>6. window = "viewer" => ViewerInv
  BY ViewerInit DEF Init
<1>7. window = "monitor" => MonitorInv /\ CaptureInv
  BY MonitorInit DEF Init
<1>8. window = "explorer" => ExplorerInv
  BY ExplorerInit DEF Init
<1>9. window = "archive" => ArchiveInv
  BY ArchiveInit DEF Init
<1>10. window = "analysis" => AnalysisInv
  BY AnalysisInit DEF Init
<1> QED
  BY <1>1, <1>2, <1>3, <1>4, <1>5, <1>6, <1>7, <1>8, <1>9, <1>10 DEF IInv

\* A step of the program is one of its window, or leaves what the window has.
LEMMA WindowSteps ==
    ASSUME [Next]_vars
    PROVE  /\ window' = window
           /\ window = "startup" => [Startup!Next]_(Startup!vars)
           /\ window = "output" => [Output!Next]_(Output!vars)
           /\ window = "duplicate" => [Duplicate!Next]_(Duplicate!vars)
           /\ window = "cleaner" => [Cleaner!Next]_(Cleaner!vars)
           /\ window = "processes" => Processes!Next \/ UNCHANGED <<task, world>>
           /\ window = "viewer" => [Viewer!Next]_(Viewer!vars)
           /\ window = "monitor" => [Monitor!Next]_(Monitor!vars)
           /\ window = "explorer" => Explorer!Next \/ UNCHANGED <<task, world>>
           /\ window = "archive" => Archive!Next \/ UNCHANGED <<task, world>>
           /\ window = "analysis" => Analysis!Next \/ UNCHANGED <<task, world>>
<1>1. CASE UNCHANGED vars
  BY <1>1 DEF vars, startupVars, outputVars, duplicateVars, workerVars, systemVars,
     Startup!vars, Output!vars, Duplicate!vars, Cleaner!vars, Viewer!vars, Monitor!vars
<1>2. CASE Next
  <2>1. window' = window
    BY <1>2 DEF Next, Others
  <2>2. window = "startup" => Startup!Next
    BY <1>2 DEF Next
  <2>3. window = "output" => Output!Next
    BY <1>2 DEF Next
  <2>4. window = "duplicate" => Duplicate!Next
    BY <1>2 DEF Next
  <2>5. /\ window = "cleaner" => Cleaner!Next
        /\ window = "processes" => Processes!Next
        /\ window = "viewer" => Viewer!Next
        /\ window = "monitor" => Monitor!Next
        /\ window = "explorer" => Explorer!Next
        /\ window = "archive" => Archive!Next
        /\ window = "analysis" => Analysis!Next
    BY <1>2 DEF Next
  <2> QED
    BY <2>1, <2>2, <2>3, <2>4, <2>5
<1> QED
  BY <1>1, <1>2

LEMMA ProcessStays == ProcessInv /\ UNCHANGED <<task, world>> => ProcessInv'
  BY DEF ProcessInv, QueueInv, TableInv, Processes!TableIsOfTheLastList, Processes!EndsOnlyAgreed

LEMMA ExplorerStays == ExplorerInv /\ UNCHANGED <<task, world>> => ExplorerInv'
  BY DEF ExplorerInv

LEMMA ArchiveStays == ArchiveInv /\ UNCHANGED <<task, world>> => ArchiveInv'
  BY DEF ArchiveInv

LEMMA StepHolds ==
    ASSUME IInv, [Next]_vars
    PROVE  IInv'
<1>1. window = "startup" => StartupInv'
  BY WindowSteps, StartupStep DEF IInv
<1>2. window = "output" /\ ~RollbackFails => OutputInv'
  BY WindowSteps, OutputStep DEF IInv
<1>3. window = "duplicate" => DuplicateInv'
  BY WindowSteps, DuplicateStep DEF IInv
<1>4. window = "cleaner" => AtWork'
  BY WindowSteps, WorkStep DEF IInv
<1>5. window = "processes" => ProcessInv'
  BY WindowSteps, ProcessStep, ProcessStays DEF IInv
<1>6. window = "viewer" => ViewerInv'
  BY WindowSteps, ViewerStep, ToolWindowsAssumption DEF IInv
<1>7. window = "monitor" => MonitorInv' /\ CaptureInv'
  BY WindowSteps, MonitorStep DEF IInv
<1>8. window = "explorer" => ExplorerInv'
  BY WindowSteps, ExplorerStep, ExplorerStays DEF IInv
<1>9. window = "archive" => ArchiveInv'
  BY WindowSteps, ArchiveStep, ArchiveStays DEF IInv
<1>10. window = "analysis" => AnalysisInv'
  BY WindowSteps, AnalysisStep DEF IInv
<1>11. window' = window
  BY WindowSteps
<1> QED
  BY <1>1, <1>2, <1>3, <1>4, <1>5, <1>6, <1>7, <1>8, <1>9, <1>10, <1>11 DEF IInv

-----------------------------------------------------------------------------
(* The theorems. *)

\* What a program last registered to start is active or in a backup that can be enabled
\* (startup/service.py), unless it came between a look at the entry and the call that relied on it.
THEOREM EntriesAreRecoverable == Spec => []Recoverable
<1>1. IInv => Recoverable
  BY StartupIsRight DEF IInv, Recoverable
<1> QED
  BY <1>1, InitHolds, StepHolds, PTL DEF Spec

\* Disabling or enabling an entry happens as reported, or not at all (startup/service.py).
THEOREM OperationsAreReported == Spec => AllOrNothing
<1>1. IInv /\ [Next]_vars => (window = "startup" => Startup!AllOrNothingStep)
  BY WindowSteps, StartupKeeps DEF IInv
<1> QED
  BY <1>1, InitHolds, StepHolds, PTL DEF Spec, AllOrNothing

\* A batch of outputs is all or none, the old files survive until it is published, and a task
\* cancelled before its commit publishes nothing (converter and pdf service.py): for every number
\* of outputs, if the calls of a rollback succeed.
THEOREM BatchIsAllOrNone ==
    ASSUME ~RollbackFails
    PROVE  Spec => []AllOrNone
<1>1. IInv => AllOrNone
  BY OutputIsRight DEF IInv, AllOrNone
<1> QED
  BY <1>1, InitHolds, StepHolds, PTL DEF Spec

\* Every moved duplicate is named by a manifest on disk, and every manifest tells what was moved
\* (duplicate/service.py): for every set of files, however often they are moved or edited.
THEOREM MovesAreRestorable == Spec => []Restorable
<1>1. IInv => Restorable
  BY DuplicateIsRight DEF IInv, Restorable
<1> QED
  BY <1>1, InitHolds, StepHolds, PTL DEF Spec

\* A duplicate is moved only while an equal file stays where it is (duplicate/service.py).
THEOREM CopiesAreKept == Spec => KeepsACopy
<1>1. IInv /\ [Next]_vars => (window = "duplicate" => Duplicate!KeepsACopyStep)
  <2> SUFFICES ASSUME IInv, [Next]_vars, window = "duplicate" PROVE Duplicate!KeepsACopyStep
    OBVIOUS
  <2>1. DuplicateInv /\ [Duplicate!Next]_(Duplicate!vars)
    BY WindowSteps DEF IInv
  <2>2. CASE UNCHANGED Duplicate!vars
    BY <2>2 DEF Duplicate!vars, Duplicate!KeepsACopyStep
  <2>3. CASE Duplicate!Next
    BY <2>1, <2>3, DuplicateKeeps
  <2> QED
    BY <2>1, <2>2, <2>3
<1> QED
  BY <1>1, InitHolds, StepHolds, PTL DEF Spec, KeepsACopy

\* The cleaner empties only what it may and spares what arrives late, only the process that the
\* user agreed to end is ended, an older capture is left running and the limits of an extraction
\* hold (temp_cleaner, process_manager, network and archive).
THEOREM OnlyAgreedChanges == Spec => []ChangesAreAgreed
<1>1. IInv => ChangesAreAgreed
  BY WorkIsRight, ProcessIsRight, MonitorIsRight, ArchiveIsRight DEF IInv, ChangesAreAgreed
<1> QED
  BY <1>1, InitHolds, StepHolds, PTL DEF Spec

\* What the cleaner and the extraction were not given stays (temp_cleaner/service.py,
\* archive/service.py), unless a directory was replaced between the look at it and a removal, or
\* between that look and the one at an entry, which was a directory of others and was entered.
THEOREM WhatIsOthersStays == Spec => OthersAreKept
<1>1. IInv /\ [Next]_vars => (window = "cleaner" => Cleaner!ContainedStep)
  BY WindowSteps, WorkStep DEF IInv
<1>2. IInv /\ [Next]_vars => (window = "archive" => Archive!ReplacedStep)
  <2> SUFFICES ASSUME IInv, [Next]_vars, window = "archive" PROVE Archive!ReplacedStep
    OBVIOUS
  <2>1. ArchiveInv /\ (Archive!Next \/ UNCHANGED <<task, world>>)
    BY WindowSteps DEF IInv
  <2>2. CASE UNCHANGED <<task, world>>
    BY <2>2 DEF Archive!ReplacedStep
  <2>3. CASE Archive!Next
    BY <2>1, <2>3, ArchiveKeeps
  <2> QED
    BY <2>1, <2>2, <2>3
<1> QED
  BY <1>1, <1>2, InitHolds, StepHolds, PTL DEF Spec, OthersAreKept

\* No child process of the event viewer and no probe or worker of the network explorer outlives
\* what started it (event_viewer/service.py, network_scanner/window.py).
THEOREM AllIsReaped == Spec => []NothingLeftBehind
<1>1. IInv => NothingLeftBehind
  BY ExplorerIsRight DEF IInv, ViewerInv, NothingLeftBehind
<1> QED
  BY <1>1, InitHolds, StepHolds, PTL DEF Spec

\* What a window shows, writes or stores is what its worker found: the report of a cleaning, the
\* processes, the riskiest events, the alerts, the scans, the members of an archive.
THEOREM ShownIsFound == Spec => []ShownIsTrue
<1>1. IInv => ShownIsTrue
  BY WorkIsRight, ProcessIsRight, MonitorIsRight, ExplorerIsRight, ArchiveIsRight DEF IInv, ViewerInv, ShownIsTrue
<1> QED
  BY <1>1, InitHolds, StepHolds, PTL DEF Spec

\* What Network Intelligence derives follows from what was observed: a role from the evidence of a
\* host and an exposure from its ports, the score from the online assets and the confirmed
\* relationships, the map from its nodes (classification.py, auditors.py, score.py, topology.py):
\* for every host and every finite inventory.
THEOREM AnalysesAreSound == Spec => []AnalysisIsSound
<1>1. IInv => AnalysisIsSound
  BY AnalysisIsRight, ToolWindowsAssumption DEF IInv, AnalysisIsSound
<1> QED
  BY <1>1, InitHolds, StepHolds, PTL DEF Spec

\* A written report is accepted again, two reports are told apart exactly and the points of a
\* history lead from each snapshot to the next, in whatever order the files were chosen
\* (reporting.py, comparison.py, history.py): for all files.  A cleaning during which no other
\* program was at work removes or reports each item of the preview the user agreed to, for every
\* finite disk (temp_cleaner/service.py:401-456 against 317-475).
THEOREM ReportsAreKept == Spec => []ReportsAreExact
<1>1. IInv => ReportsAreExact
  <2>1. IInv /\ window = "analysis" => Analysis!ReportsAreExact
    BY ReportsAreRight, ToolWindowsAssumption DEF IInv
  <2>2. IInv /\ window = "cleaner" => Cleaner!ItemsAreAccounted
    BY WorkIsRight DEF IInv
  <2> QED
    BY <2>1, <2>2 DEF ReportsAreExact
<1> QED
  BY <1>1, InitHolds, StepHolds, PTL DEF Spec

=============================================================================
