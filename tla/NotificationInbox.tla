-------------------------- MODULE NotificationInbox --------------------------
(***************************************************************************)
(* The change-notification inbox, one JSON file with several writers: the    *)
(* monitor threads (temporal_notifications.publish_monitor_events), and the  *)
(* GUI thread, which merges the changes of a new automatic snapshot and       *)
(* marks as read what a dialog presented.  Each of them loads the file,        *)
(* computes and replaces it, under a process-local re-entrant lock.            *)
(*                                                                         *)
(* The GUI thread shows its warning about a failed snapshot evaluation inside *)
(* the lock, and a dialog runs a nested event loop: `frames' is the stack of  *)
(* open dialogs, and slots run while they are open.                           *)
(*                                                                         *)
(* A notification is a number, larger when detected later; the file is a       *)
(* function from the notifications it holds to their read flag.               *)
(***************************************************************************)
EXTENDS Naturals, Sequences, FiniteSets

CONSTANTS
    Monitors,       \* the monitor workers
    Gui,            \* the GUI thread
    MaxIds,         \* bound: notifications ever detected
    MaxItems,       \* MAX_NOTIFICATION_INBOX_ITEMS
    Large,          \* notifications with long details
    MaxLarge,       \* how many of those fit in MAX_NOTIFICATION_FILE_BYTES
    MaxDialogs      \* bound: dialogs open at once

Ids == 1..MaxIds
Actors == Monitors \cup {Gui}

ASSUME InboxAssumption ==
    /\ Gui \notin Monitors
    /\ MaxIds \in Nat
    /\ MaxItems \in Nat \ {0}
    /\ Large \subseteq Ids
    /\ MaxLarge \in Nat
    /\ MaxDialogs \in Nat

Inboxes == UNION {[S -> BOOLEAN] : S \in SUBSET Ids}
Empty == [i \in {} |-> FALSE]
Dialog == [kind : {"inbox", "warning", "error"}, shown : SUBSET Ids]

VARIABLES
    file,           \* network_intelligence_notifications.json
    memory,         \* self.notifications of the Network Intelligence window
    holders,        \* the thread holding _INBOX_LOCK, if any
    pc,             \* "idle" | "waiting" (for the lock) | "loaded"
    task,           \* "publish" | "mark"
    batch,          \* the notifications to merge, or to mark
    copy,           \* what the thread loaded
    frames,         \* open dialogs, innermost last
    issued,         \* the notifications detected so far
    stored,         \* history: notifications a save has put in the file
    fallback,       \* notifications in the monitor's events.jsonl
    presented,      \* history: notifications shown in a dialog
    everRead        \* history: notifications that were read at some time

threads == <<holders, pc, task, batch, copy>>
history == <<stored, presented, everRead>>
vars == <<file, memory, threads, frames, issued, fallback, history>>

Init ==
    /\ file = Empty
    /\ memory = Empty
    /\ holders = {}
    /\ pc = [a \in Actors |-> "idle"]
    /\ task = [a \in Actors |-> "publish"]
    /\ batch = [a \in Actors |-> {}]
    /\ copy = [a \in Actors |-> Empty]
    /\ frames = <<>>
    /\ issued = 0
    /\ stored = {}
    /\ fallback = {}
    /\ presented = {}
    /\ everRead = {}

-----------------------------------------------------------------------------
(* Pure functions of notifications.py. *)

\* Mutant: one too many is kept.
Newest_OffByOne(S) == {i \in S : Cardinality({j \in S : j > i}) <= MaxItems}

\* _ordered_notifications(...)[:max_items]
Newest(S) == {i \in S : Cardinality({j \in S : j > i}) < MaxItems}

\* Mutant: an incoming notification replaces the one already there.
merge_notifications_Replaces(existing, incoming) ==
    [i \in Newest(DOMAIN existing \cup incoming) |->
        i \in DOMAIN existing \ incoming /\ existing[i]]

merge_notifications(existing, incoming) ==
    [i \in Newest(DOMAIN existing \cup incoming) |-> i \in DOMAIN existing /\ existing[i]]

\* Mutant: everything in the file is marked.
mark_ids_read_All(current, ids) == [i \in DOMAIN current |-> TRUE]

mark_ids_read(current, ids) == [i \in DOMAIN current |-> current[i] \/ i \in ids]

\* load_notification_inbox refuses a file above its size limit; save does not.
Loads(inbox) == Cardinality(DOMAIN inbox \cap Large) <= MaxLarge

ReadIds(inbox) == {i \in DOMAIN inbox : inbox[i]}

-----------------------------------------------------------------------------
(* The critical section, the same for every writer. *)

\* Mutant: a writer does not look for the lock.
CanLock_Ignored(a) == TRUE

CanLock(a) == holders \subseteq {a}

\* Some dialog of the stack is a warning shown inside the lock.
Warns(stack) == \E k \in 1..Len(stack) : stack[k].kind = "warning"

\* Leaving the `with': the GUI thread still holds the lock for every warning it
\* shows from inside an outer one.
Release(a) ==
    holders' = IF a = Gui /\ Warns(frames) THEN {Gui} ELSE {}

Leave(a) ==
    /\ pc' = [pc EXCEPT ![a] = "idle"]
    /\ copy' = [copy EXCEPT ![a] = Empty]
    /\ task' = [task EXCEPT ![a] = "publish"]
    /\ batch' = [batch EXCEPT ![a] = {}]

\* Acquire and load.
Enter(a) ==
    /\ pc[a] = "waiting"
    /\ CanLock(a)
    /\ Loads(file)
    /\ holders' = {a}
    /\ pc' = [pc EXCEPT ![a] = "loaded"]
    /\ copy' = [copy EXCEPT ![a] = file]
    /\ UNCHANGED <<file, memory, task, batch, frames, issued, fallback, history>>

\* Loading or saving raises.  persist_monitor_events falls back to the events
\* file; the snapshot hook warns inside the lock; marking warns outside it.
Fail(a) ==
    /\ \/ pc[a] = "waiting" /\ CanLock(a)
       \/ pc[a] = "loaded"
    /\ Leave(a)
    /\ \/ /\ a \in Monitors
          /\ Release(a)
          /\ fallback' = fallback \cup batch[a]
          /\ UNCHANGED frames
       \/ /\ a = Gui
          /\ Len(frames) < MaxDialogs
          /\ task[a] = "publish"
          /\ holders' = {Gui}
          /\ frames' = Append(frames, [kind |-> "warning", shown |-> {}])
          /\ UNCHANGED fallback
       \/ /\ a = Gui
          /\ Len(frames) < MaxDialogs
          /\ task[a] = "mark"
          /\ Release(a)
          /\ frames' = Append(frames, [kind |-> "error", shown |-> {}])
          /\ UNCHANGED fallback
    /\ UNCHANGED <<file, memory, issued, history>>

\* Compute, replace the file when something changed, and leave the lock.
Store(a) ==
    /\ pc[a] = "loaded"
    /\ LET updated == IF task[a] = "publish"
                      THEN merge_notifications(copy[a], batch[a])
                      ELSE mark_ids_read(copy[a], batch[a])
           added == task[a] = "publish" /\ ~(batch[a] \subseteq DOMAIN copy[a])
           changed == task[a] = "mark" /\ updated # copy[a] IN
       /\ file' = IF added \/ changed THEN updated ELSE file
       /\ memory' = IF a = Gui THEN updated ELSE memory
       /\ stored' = IF task[a] = "publish" THEN stored \cup batch[a] ELSE stored
       /\ everRead' = everRead \cup ReadIds(file')
    /\ Release(a)
    /\ Leave(a)
    /\ UNCHANGED <<frames, issued, fallback, presented>>

-----------------------------------------------------------------------------
(* What the writers do outside it. *)

Begin(a, t, ids) ==
    /\ pc' = [pc EXCEPT ![a] = "waiting"]
    /\ task' = [task EXCEPT ![a] = t]
    /\ batch' = [batch EXCEPT ![a] = ids]
    /\ UNCHANGED <<holders, copy>>

\* A monitor sample yields events, new or seen before.
Observe(m) ==
    /\ pc[m] = "idle"
    /\ \E ids \in SUBSET {i \in Ids : i <= issued + 1} \ {{}} :
          /\ issued' = IF ids \subseteq 1..issued THEN issued ELSE issued + 1
          /\ Begin(m, "publish", ids)
    /\ UNCHANGED <<file, memory, frames, fallback, history>>

\* _automatic_snapshot_published, from the slot of a scheduled run.
SnapshotPublished ==
    /\ pc[Gui] = "idle"
    /\ issued < MaxIds
    /\ issued' = issued + 1
    /\ Begin(Gui, "publish", {issued + 1})
    /\ UNCHANGED <<file, memory, frames, fallback, history>>

\* Mutant: a dialog stops the refresh.
Refresh_Attentive ==
    /\ pc[Gui] = "idle"
    /\ frames = <<>>
    /\ Loads(file)
    /\ memory' = file
    /\ UNCHANGED <<file, threads, frames, issued, fallback, history>>

\* _refresh_temporal_notifications, every two seconds, without the lock.
Refresh ==
    /\ pc[Gui] = "idle"
    /\ Loads(file)
    /\ memory' = file
    /\ UNCHANGED <<file, threads, frames, issued, fallback, history>>

\* _open_notifications: refresh, if the file can be read, and present.
OpenDialog ==
    /\ pc[Gui] = "idle"
    /\ frames = <<>>
    /\ Len(frames) < MaxDialogs
    /\ memory' \in {memory} \cup {f \in {file} : Loads(f)}
    /\ DOMAIN memory' # {}
    /\ frames' = <<[kind |-> "inbox", shown |-> DOMAIN memory']>>
    /\ presented' = presented \cup DOMAIN memory'
    /\ UNCHANGED <<file, threads, issued, fallback, stored, everRead>>

\* Mutant: dismissing the warning does not leave the lock.
Dismiss_Holds ==
    /\ pc[Gui] = "idle"
    /\ frames # <<>>
    /\ frames' = SubSeq(frames, 1, Len(frames) - 1)
    /\ IF frames[Len(frames)].kind = "inbox"
       THEN Begin(Gui, "mark", frames[Len(frames)].shown)
       ELSE UNCHANGED threads
    /\ UNCHANGED <<file, memory, issued, fallback, history>>

\* The innermost dialog is dismissed: the inbox goes on to mark what it showed,
\* the warning leaves the lock.
Dismiss ==
    /\ pc[Gui] = "idle"
    /\ frames # <<>>
    /\ LET top == frames[Len(frames)]
           rest == SubSeq(frames, 1, Len(frames) - 1) IN
       /\ frames' = rest
       /\ IF top.kind = "inbox"
          THEN Begin(Gui, "mark", top.shown)
          ELSE /\ holders' = IF top.kind = "warning" /\ ~Warns(rest) THEN {} ELSE holders
               /\ UNCHANGED <<pc, task, batch, copy>>
    /\ UNCHANGED <<file, memory, issued, fallback, history>>

\* The process dies and starts again; a new window loads the file or ignores it.
Restart ==
    /\ holders' = {}
    /\ pc' = [a \in Actors |-> "idle"]
    /\ copy' = [a \in Actors |-> Empty]
    /\ task' = [a \in Actors |-> "publish"]
    /\ batch' = [a \in Actors |-> {}]
    /\ frames' = <<>>
    /\ memory' \in {Empty} \cup {f \in {file} : Loads(f)}
    /\ UNCHANGED <<file, issued, fallback, history>>

Critical(a) == Enter(a) \/ Fail(a) \/ Store(a)

Next ==
    \/ \E a \in Actors : Critical(a)
    \/ \E m \in Monitors : Observe(m)
    \/ SnapshotPublished
    \/ Refresh
    \/ OpenDialog
    \/ Dismiss
    \/ Restart

Spec == Init /\ [][Next]_vars

\* Threads are scheduled and the timer fires; nobody need dismiss a dialog.
FairSpec == Spec /\ SF_vars(Refresh) /\ \A a \in Actors : SF_vars(Critical(a))

-----------------------------------------------------------------------------
(* Properties. *)

\* Every variable keeps its type; a file holds at most
\* MAX_NOTIFICATION_INBOX_ITEMS notifications.
TypeOK ==
    /\ file \in Inboxes /\ memory \in Inboxes
    /\ Cardinality(DOMAIN file) <= MaxItems
    /\ holders \subseteq Actors
    /\ pc \in [Actors -> {"idle", "waiting", "loaded"}]
    /\ task \in [Actors -> {"publish", "mark"}]
    /\ batch \in [Actors -> SUBSET Ids]
    /\ copy \in [Actors -> Inboxes]
    /\ frames \in Seq(Dialog)
    /\ issued \in 0..MaxIds
    /\ stored \subseteq Ids /\ fallback \subseteq Ids
    /\ presented \subseteq Ids /\ everRead \subseteq Ids

\* What a thread loaded is still what the file holds when it stores: the lock
\* covers load and save of every writer.
NoStaleCopy == \A a \in Actors : pc[a] = "loaded" => copy[a] = file

\* A notification that was stored is in the file until MAX_NOTIFICATION_INBOX_ITEMS
\* newer ones are: no writer overwrites another's.
NothingLost ==
    \A i \in stored \ DOMAIN file :
        Cardinality({j \in DOMAIN file : j > i}) >= MaxItems

\* What was read once is never unread again, replays and stale writers included.
ReadIsForever == \A i \in everRead \cap DOMAIN file : file[i]

\* Only notifications a dialog presented are read ("Mark only notifications
\* actually presented to the user as read", temporal_notifications.py).
OnlyPresentedIsRead == ReadIds(file) \subseteq presented

\* A stored notification reaches the open window's counters, whether or not a
\* dialog is on the screen, unless the file has outgrown what load accepts.
StoredIsShown ==
    \A i \in Ids :
        (i \in DOMAIN file) ~> (i \in DOMAIN memory \/ i \notin DOMAIN file \/ ~Loads(file))

\* A monitor that has an event to publish goes on monitoring, provided no warning
\* shown inside the lock stays on the screen for ever.
MonitorProceeds ==
    []<>~Warns(frames) => \A m \in Monitors : (pc[m] # "idle") ~> (pc[m] = "idle")
=============================================================================
