# A verification project for PythonKni

PythonKni is a PyQt5 desktop toolbox: a menu window that opens some twenty tool
windows (`src/main.py`), each a presentation adapter over a Qt-free service
(`src/docs/architecture.md`).  What the user can lose, and what the program may report
wrongly, is decided in a few places: the thread and close protocol every window
shares, the sessions of external programs, the scheduled network scans, the asset
inventory and the other stores on disk, the services that move, delete or publish
files, and the analyses shown to the user.  This directory models those places
in TLA+, checks them with TLC on small instances, and proves the properties that
matter most for every instance with TLAPS.

`PROJECT.json` is the index: components, runs, the source lines of every
definition (`map`), a mutant for every property, the hazards and the theorems.

- Section 1: the system.  Section 2: the modules and how they read against the code.
- Section 3: the runs.  Section 4: fairness.  Section 5: the proofs.
- Section 6: where the code and its documents disagree.  Section 7: what is left.

To repeat everything, in this directory:

    tlc -workers 2 -config WorkerManaged.cfg MCWorkerLifecycle   # any run of section 3
    tlapm WorkerLifecycleProofs.tla                              # any module of section 5

## 1. Inventory

Two kinds of thread exist.  The GUI thread executes one slot, timer or user event at
a time; a modal dialog (`show_error`, `show_warning`, `exec_`) runs a nested event
loop inside the slot that opened it, so other slots and timers run in the middle of
it.  Worker threads run one task each; their signals are queued to the GUI thread.
Processes end at any moment.  There is no database server and no network peer that
shares state with the program except the files and processes named below.

### Components

| component | state | operations | with whom |
|---|---|---|---|
| **Worker and BaseTool** `tools/worker.py`, `tools/base_tool.py` | a cancel event per worker; `_managed_workers`, the window's worker attributes, `_close_when_workers_finish`, one poll timer | run, cancel, start/manage a worker, the slots of its signals, closeEvent with a bounded wait, deferred close | every tool window |
| **Scheduled monitoring** `network_intelligence/scheduler_window.py`, `scheduler.py`, `window.py` | the schedule, in memory and in a JSON file; `_scheduled_scan_active`, `_scheduled_postscan_pending`, `_scheduled_fingerprint_worker_active`, `_scheduler_closing` | poll timer, discovery and fingerprint workers with their slots, publication, editing the schedule, close | BaseTool, inventory, retention, inbox |
| **Notification inbox** `notifications.py`, `temporal_*.py`, `network_monitor/integration.py` | one JSON file behind a process-local re-entrant lock; the window's copy; the monitor's fallback file | merge (monitor threads, snapshot hook), mark as read, refresh every two seconds, present | network monitor, scheduled monitoring |
| **Snapshot history** `retention.py`, `automatic_snapshot.py`, `history_center_window.py` | the snapshot files, the policy in memory, in the dialog and in a file, `last_snapshot` of the schedule | publish and prune, catalog, save policy, clean by hand, compare with the baseline | scheduled monitoring |
| **Secure Transfer** `secure_transfer/*` | the Tailcat process, the token fields, the received text | six operations (send a path or a text, receive files or a text, serve or forward a port), stop | the Tailcat executable, BaseTool |
| **Startup manager** `startup/*` | Run keys, Startup folders, the disabled backups with their metadata, the list shown | list, disable, enable, with a rollback at every call | Windows and the programs that register themselves |
| **Output transactions** `converter/service.py`, `pdf/service.py` | staging directory, backups, destinations | stage, commit, rollback, abort, cancel | the converter and PDF windows |
| **Duplicate finder** `duplicate/*` | the groups found, the folder of duplicates, the restore manifest | scan, move with revalidation, record, cancel | the file system, the user |
| **Inventory and relationships** `inventory.py`, `identity.py`, `fingerprints.py`, `relationship_store.py`, `physical_*.py` | a SQLite database: assets, timeline, relationships; the running scan; the assets listed for fingerprinting | record an observation or a complete scan, reconcile identities, repair an old database, store fingerprints, replace the relationships of a scope, import physical evidence | every Network Intelligence window, the network explorer |
| **Network Intelligence analysis** `classification.py`, `score.py`, `topology.py`, `comparison.py`, `reporting.py`, `history.py` | none: functions of hosts, assets and reports | classify, audit, score, draw, report, compare, put in order | the windows that show them |
| **Network explorer** `network/*` | two scanners with a bounded pool each, the text of the target, the Nerva child, the history file, the flag of a deferred close | scan hosts and ports, stop, fingerprint, ask over UDP, append, import and clear the history, hand cameras over, close | inventory, camera auditor |
| **Network monitor and packet capture** `network_monitor/*` | what the session has seen, JSON-lines files, a system-wide `pktmon` session | sample until cancelled, announce and store, start and stop a capture, close | inbox, inventory, other programs that capture |
| **Archive tools** `archive/*`, `infrastructure/archives.py` | what is written next to the destination | create, validate, extract chunk by chunk, verify, publish, cancel | the file system |
| **Temporary-file cleaner** `temp_cleaner/*` | the targets, the preview, the walk | choose, preview, delete entry by entry | the file system, programs that use it |
| **Process manager** `process_manager/*` | the list shown, the question on the screen, the analysis | load, end a process, analyse, cancel | the system's processes |
| **Event viewer** `event_viewer/*` | the events read and those shown, the child process of a log | read, filter, export, cancel, hand over to the report | `wevtutil`, the technical report |
| Menu and discovery `main.py` | the list of tools, the last window opened | load, open a tool | every tool |
| Configuration `config/*` | one JSON file replaced atomically, theme and language | load, save | menu |
| Camera auditor, web reconnaissance, Wi-Fi, disk analyzer, system report | the list shown | collect, show, export | Windows, the network |
| Single-file tasks of the converter and the PDF tools | a temporary file next to the destination | write, replace | the file system |
| Helpers, scripts, installer | theme, language, log handlers | | |

The components in bold are modelled (of the converter and the PDF tools, the batches);
`PROJECT.json` lists all of them one by one, with what is left out of each.

### What is hard, and what makes each component correct

| component | hard behaviour | correct when |
|---|---|---|
| Worker and BaseTool | a worker ends, starts or ignores cancellation between the two looks `closeEvent` takes; a deferred close lives in a chain of single-shot timers | no running thread is out of the window's sight or outlives it; a close that was asked for is kept and ends; a cancelled worker never reports a result |
| Scheduled monitoring | three flags shared by every run are read in slots that dialogs suspend; a run is in two stages; saves fail; crashes and restarts | each snapshot belongs to a scheduled run, is enriched first, runs are an interval apart, a persisted run is never forgotten, two runs never overlap |
| Inbox | three writers of one file, dialogs inside and outside the lock, a size limit only the reader knows | nothing stored is lost but to newer ones, read stays read, only what was presented is read, the window shows what is stored, nobody waits for ever |
| Snapshot history | publication and retention run inside a dialog that edits the policy; half-finished deletions, damaged files | the newest readable pair of a scope and the baseline of the next comparison survive; the history is bounded; one policy is in force |
| Secure Transfer | Stop between any two polls of the worker; a process that exits at any time or never | completed means completed; a stopped session has no process; a token appears in its own tab; every stopped session ends |
| Startup manager | every call and every rollback can fail; the list is old; copies between volumes stop half-way | no entry is destroyed, every entry is active or can be enabled from the window, what is reported is what happened |
| Output transactions | failure of the n-th publication, of its rollback, cancellation in between | the old files survive until the batch is published; all or none |
| Duplicate finder | files change while they are compared, and share names; the manifest is written around every move | every moved file is named by a manifest with its origin; an equal file always stays |
| Inventory | the identity of a device changes when its MAC is learned, in the middle of a scan, of a fingerprinting run that listed it before, of imported links | the timeline explains the state of every asset, references exist, a complete scan leaves online what it found, nothing is forgotten but by a merge |
| Analysis | weights, thresholds and orders that meet at boundaries; reports from other scopes, versions and clocks | a score deducts only for what is there, a comparison names exactly what differs, what is written can be read |
| Network explorer | Stop between any two steps of the pool, an end between the wait and the connection of the close, failing writes of the history | every summary is of the target that was scanned, the pool is bounded, no worker or child outlives the window |
| Network monitor, capture | alerts stored by a worker that may be cancelled; a capture session that belongs to the whole system | every alert shown is stored somewhere, new is announced once, no older session of another program is stopped |
| Archive tools | archives that contain more than they declare, cancellation before every chunk, a destination that appears meanwhile | all or nothing, within the limits, nothing of others replaced |
| Cleaner | paths resolved again by every call while directories become links | nothing outside the target, no file that arrived late, an exact report |
| Process manager | numbers used again, lists that overtake each other | only the process the user agreed to ends; the table is of the last list |
| Event viewer | a child per log with deadline, failure and cancellation | no child is left; the riskiest of what was read are shown |

## 2. Modules

Definitions keep the names of the code where TLA+ allows it.  Time, names, paths and
contents are numbers or model values; formatting and wording are left out.

### WorkerLifecycle (and ToolWindow)

`pc[w]` follows `Worker.run`: *enter* (the first `check_cancelled`), *task*,
*recheck* (the check after the task), *exit* (one signal was emitted), *done*
(`isRunning()` is false).  `queue` holds the signals on their way to the GUI thread.
`attr` is the attribute of the window that holds a worker (`self.worker`,
`self._vt_worker`), `busy` the disabled buttons, `managed` is `_managed_workers`.
`start_managed_worker`, `stop_worker`, `closeEvent`, `closeEventAfterWait` (the wait
with a deadline makes `closeEvent` two steps) and `retry_deferred_close` are the
methods of `BaseTool`.  A slot in `Legacy` is a window that starts its own QThread
without `start_managed_worker`, whose `run` checks nothing (disk analyzer, system
report, event viewer): the slot of its result enables the button, so a second start may come
while the first thread is still at the end of its `run`, and takes its attribute.  The workers
in `Shadowing` name the signal of their result `finished`, as the disk analyzer's does
(`disk_analyzer/window.py:43`), so that what `BaseTool` connects to `QThread.finished` follows
the result.  `Lost` are the threads such a window no longer knows.  `Stoppable` are the slots
with a Stop button.  `Endless` tasks end only when cancelled, like a monitor;
`Deaf` ones never look.

`ToolWindow` says what any tool window promises about closing, in four actions; a start
may let go of a `Replaceable` worker, which only a legacy slot has.
`WorkerLifecycle!KeepsPromise` is the refinement: *running* is the set of running
threads that are not lost, *asked* the deferred-close flag.

### ScheduledMonitoring

`check_schedule`, `start_scan`, `scan_finished`, `fingerprint_*`, `worker_finished`,
`edit_schedule`, `closeEvent` are the slots of the same names.  A dialog suspends its
slot: `frames` is the stack of suspended slots, each with the continuation that runs
when it is dismissed (`Dismiss`) and the local variables it still uses
(`generated_at`, the saved candidate).  Signals and timers are handled while a dialog is
open, and the poll timer before or after signals already queued: Qt excludes neither.  `Turn`,
`SignalTurn` and `PollTurn` take them, and two history variables remember what happened: `left`,
that something was handled under an open dialog, and `overtaken`, that the poll timer was handled
before a queued signal.  `InTurn` is that neither was.  Every slot decides from the shared flags, as the
code does, never from the identity of the sender; the history variables know the
sender, and the properties compare the two.  The clock is the wall clock in units of
the smallest interval.  Discovery persists inventory and relationships in one step
that may fail; the contents of the inventory are not modelled.

### NotificationInbox

A notification is a number, larger when detected later.  `Enter`, `Store` and `Fail`
are the critical section that `persist_monitor_events`, the snapshot hook and
marking share; `merge_notifications` and `mark_ids_read` are the functions of
`notifications.py`.  The warning of the snapshot hook is shown inside the lock
(`temporal_history_window.py:170`), so the GUI thread can hold it for as long as a
dialog is open, and nested dialogs hold it several times.  `Loads` is the size limit
of the reader: some notifications are `Large`, and `MaxLarge` of them fit.

### SnapshotHistory

A snapshot file is a scope and a time.  `create_automatic_snapshot` writes one and
prunes its scope with the policy in memory; a pruning that raises half-way removes
the oldest of its candidates only (`Removals`), shows a warning and is recorded when
that is dismissed (`suspended`).  `Restart` loads the policy of the file, or, when that cannot be
loaded, takes the default one in memory and leaves the file as it is (`diverged`).  `load_snapshot_catalog`, `retention_candidates` are
the functions of `retention.py`.  The History Center holds its own policy and
catalog while scheduled runs go on.  Files are damaged by `Damage`.

### SecureTransfer

One session at a time.  `pc` is where the worker is between two looks at its stop
event: the loop that waits for the announcement (`_server_ready_token`), the check
before `on_ready`, the wait for the process (`_wait_interruptibly`), the reading of a
text, the wait after its stream, and the two looks of the service and of `Worker.run`
at the end.  The Tailcat process is outside the repository; it may announce a token,
something else or nothing, and exits at any time or never.  `abandoned` are processes
nobody supervises any more.  `_stop_process` terminates and then kills; the kill is
assumed to succeed.

### Inventory

`db` is the database; each operation of the store is one transaction, a function from a
database to a database, and the whole of it happens or nothing does.  `_upsert_device`,
`reconcile_observation_identity`, `_merge_identity`, `_repoint_relationships`,
`record_scan`, `repair_legacy_identity_duplicates`, `persist_asset_fingerprints`,
`build_relationships` and `import_physical_snapshot` are the functions of those names;
the actions are those of the window: a scan whose hosts are told one by one
(`start_scan`, `_handle_progress`), its end, its cancellation, an import, a
fingerprinting run with the rows it listed (`picked`), the fingerprints of the network
explorer, and a restart that opens the store and repairs it.  Fingerprints are the one
operation of two transactions: `Read` takes the row of the asset (`fingerprints.py:174`) and what
there is to write goes into `held`; `WritePrints` writes that row back (205-262), whatever other
windows did to the asset in between.  `timely` is history: no fingerprints were written with a
time that other entries had passed since it was taken.  `kind` stands for
classification and risk, `name` for host name and vendor.  `Colon` are the MACs the
identity rules accept: `_normalize_mac` knows colons only (section 6).  The two loops of the
store, over the hosts of a scan (`Upserted`) and over the fallbacks of an old database
(`repair_legacy_identity_duplicates`), are recursive functions of the number of rounds, in the
order the code goes (`ByAddress`, `BySighting`).  `LegacyAssumption` says what an older version
may have left: any database that is `Sound`, duplicates of one device included.

### StartupItems, OutputTransaction and DuplicateMove

Each action is one call that changes the disk or the registry, and has a disjunct for
its failure.

- `StartupItems`: `disable_registry_item` is CreateBackup, FillBackup, DeleteValue,
  DeleteBackup; `disable_folder_item` is WritePending, MoveAway, Publish and the
  rollback CheckMoveBack, MoveBack, Preserve, Cleanup; the two `enable_*` likewise.  `_move_path`
  is `CanMove`, its look at both paths, and then `Replace`, the `os.replace` or `shutil.move`,
  which writes over whatever lies there by then; between volumes it copies and then deletes and
  can leave a `Torn` directory.  The two are separate actions where they move to the entry, which
  others write (CheckMoveBack and MoveBack, CheckRestore and Restore), and one (`Move`) where
  they move to the backup, which nobody else does.  `Register` and `Unregister` are other
  programs, and `overwritten` is history: the entries whose latest version came after a look of
  the window and was written over or deleted by the call that relied on it.  `Crash` may come
  between any two calls.
- `OutputTransaction`: the class of both services, with the task that stages one
  output after another, the two calls of `commit()` for each output, the rollback
  from the last to the first, `abort()`, and the report: the converter turns an
  exception into a failed result, the PDF tools let it through (`tool`).
- `DuplicateMove`: a path is a number, and a physical file is named after its first
  path, so that a hard link is a second path with the same file.  `Scan` is one step
  (it only proposes), the move re-reads everything: GroupStep, SourceStep, Verify,
  Plan, MoveStep, Record are the loop of `service.py`, with a manifest write (`Save`)
  that can fail around each move.

### Tools that look at the machine and the network

In these modules `task` is what the window and its worker hold and `world` what lies
outside the program.

- `TempCleaner`: `_unique_safe_targets` and the rules before it over a set of
  environments, then `_delete_directory_contents` with an explicit stack.  Every
  look at the disk is an action: the look at the directory's identity (`List`), `scandir`, which
  follows the path anew (`Scan`), the second look after it (`Recheck`), the look before each entry
  (`Look`), its `lstat` (`Stat`) and removal (`Act`), and the looks at an
  emptied directory and above it with its removal (`Leave`, `Verify`, `Rmdir`).  Between any two of them `Arrive`, `Vanish` and `Swap`
  are other programs.  `raced` and `strayed` are history: a directory was replaced between two looks
  that follow each other, and the walk entered a directory, or took names, through such
  a replacement.
- `ProcessManager`: a process is a number and the time it was created; `Born` and `Dies`
  use numbers again.  Workers that load the list post their answers; the dialog of
  `kill_process` suspends the window.
- `EventViewer`: the query and the cuts of `service.py` over sets of events, a child
  process per log, `populate_table`, the exports and the hand-over.  CSV and HTML hold all
  events that were read, the PDF the first `Printed` of them, the report the `Reported` riskiest.
- `NetworkMonitor`: `MonitorState.observe`, bounded DNS, the storage of alerts with its
  fallback, the history point every so many samples, a sample or a history point that fails and
  ends the session; `start`, `stop` and the conversion of
  a capture, each of which may fail or time out, and the close.
- `NetworkExplorer`: `_bounded_future_results` with the pool's futures one by one, a stop
  between any two steps, fingerprinting through Nerva, the lines of the history file.
- `ArchiveTools`: validation of the members, one action per chunk, verification,
  publication.  An archive has what its header declares and what it really yields.
- `NetworkAnalysis` has no state of its own: `question` is an input, `answer` what the
  function of the code returns, so that every property is an invariant over all inputs of
  the instance.  A relationship is its kind, its ends, what it was seen by (protocol and ports,
  one value) and its confidence.

### ToolWindows

The menu opens one window, which then runs: `ToolWindows` instantiates the ten modules
of the two sections above and keeps the variables of the others at `None`.  It is a union
of systems that do not interact, not a product: the windows share no state in the code
either, and the files they leave to each other are modelled where both sides meet
(`Inventory`, `NotificationInbox`).  Its properties name the parts of the ten modules.

`Ranking` has what the windows and the inventory need of sorting and of lists: `Ranked` puts the elements of a
set in order by how many come before each, which is what a sort by a key does that no two
elements share, and which can be reasoned about without induction.

## 3. Runs

| run | states | instance, and why it is enough |
|---|---|---|
| `worker_managed` | 696 k | two workers in a managed slot and two in a legacy slot, so that one follows the other in each, and three of them in the life of the window; one task ends only when cancelled, one never looks, one legacy worker shadows `finished`. A third worker in a slot repeats the second. |
| `scheduled_monitoring` | @@SCHED@@ | two runs, three instants, interval 1, one dialog at a time, dismissed at once or left open while signals and timers are handled, the poll timer before or after queued signals, any save failing, crash and reopening at any moment. Two runs are enough to confuse their flags; a third meets the same flags. |
| `scheduled_unattended` | violation | the same instance, timers behind queued signals: section 6. |
| `scheduled_closed_window` | violation | one run: section 6. |
| `inbox` | 76 k | one monitor and the GUI thread, three notifications of which two fit, two of them too large to be together in a readable file, two nested dialogs. |
| `snapshot_history` | 664 k | two scopes, four times, four files, two policies (one with an age limit), pair of two, a catalog of three files, so that it is truncated, a policy file that may not load. |
| `secure_transfer` | 140 k | every operation, any number of sessions one after another; nothing is bounded, the state space is finite. |
| `transfer_stop` | violation | section 6. |
| `inventory` | 4.22 M | two scopes, three addresses of which one host is seen with and without its MAC and in both scopes, another host, one fingerprint, one imported link, five transactions, an empty database or one written by an older version. Five transactions are a first sight, the reading of the asset for its fingerprints, the learning of a MAC in between, the write of the stale row, and one more of any kind. |
| `tool_windows` | 3.84 M | one of ten windows, chosen at the start; the instances are described below. |
| `output_backup_lost` | violation | one output, rollback calls that may fail: section 6. |
| `startup_stale_backup` | violation | one registry value: section 6. |

The instances of `tool_windows`, in the sizes of `ToolWindows.cfg` and `MCToolWindows`:

- *startup*: a registry value, a file, a directory on another volume, two identifiers, two
  versions; another program changes the file.  *output*: three outputs, so that one is before,
  at and after the failure.  *duplicate*: three paths, two contents, three names in the folder
  of duplicates, two operations, one change by the user.
- *cleaner*: 90 environments, among them those that name a home, a link or a folder with
  documents; a tree of two levels with a link to the documents; two changes by others, at any
  moment, by which a directory becomes a link or a file arrives.
- *processes*: two numbers, one of them the tool's own and one of the system, four births,
  two lists on their way.  *viewer*: two logs, six events, a maximum of two or four so that they
  are cut and not cut.  *monitor*: three connections, two samples, two sessions of capture,
  one address resolved per sample.
- *explorer*: a pool of two with three ports, so that it refills; two targets, one changed while
  the other is scanned; two scans.  *archive*: ten archives, each with one thing wrong (more than
  declared, less, a name twice, a link, an unsafe name, a ratio without bound, a total too large)
  or nothing; three sources for creation.
- *analysis*: every question is an initial state and its answer the only step: all hosts
  over six ports and their names, owners and probes; 2048 inventories, with every set of four links;
  pairs of reports over lists of up to two entries, and selections of up to four snapshots.

What each shows:

- `worker_managed`: `NoLostWorker`, `ClosedIsQuiet` (the window is never gone while a
  worker runs), `DeferredCloseIsArmed` (exactly one timer), `DeferredCloseCancels`,
  `CancelledNeverPublishes`, `DeferredCloseResolves` (liveness), and the refinement
  `KeepsPromise`.
- `scheduled_monitoring`: `SnapshotsAreScheduled`, `SnapshotsAreEnriched`,
  `EveryRunAccounted`, `StartsAreSpaced`, `NoOverlap`, `PendingResolves` (liveness).
- `inbox`: `NothingLost`, `ReadIsForever`, `OnlyPresentedIsRead`, `StoredIsShown` and
  `MonitorProceeds` (liveness).
- `snapshot_history`: `BaselineAvailable`, `SparesThePair`, `RetentionBounds`,
  `PolicyAdopted`.
- `secure_transfer`: `ResultIsGenuine`, `AnnouncedIsStopped`, `TokenInItsField`,
  `SessionEnds` (liveness).
- `inventory`: `Consistent` (every reference names an asset, and the last event of an asset
  explains its state, unless fingerprints were written late, with a time others had passed), `ScanIsExact` (a complete scan leaves online exactly what it found in its
  scope, and tells no change of an asset that did not change), `NothingForgotten` (an asset
  leaves only by being merged into the asset of its MAC, which keeps the earlier sighting and
  the physical links; one enters only as a host of the running scan, or when fingerprints of
  it are written after it was merged).
- `tool_windows`: each property is a conjunction over the windows, one line of `ToolWindows` per
  window.  `Recoverable`, `AllOrNothing` (startup entries), `AllOrNone` (batches), `Restorable`,
  `KeepsACopy` (duplicates), `ChangesAreAgreed`, `OthersAreKept` (cleaner, process manager,
  capture, extraction), `NothingLeftBehind` (children, workers and pools), `ShownIsTrue` (what
  is shown, stored or published), `AnalysisIsSound`, `ReportsAreExact` (the functions).

Each property has a mutant in `PROJECT.json`: an operator beside the definition it replaces,
marked `Mutant:`, with a plausible slip in the code (a dropped check, an off-by-one, a
forgotten rollback).  Under the run's own configuration TLC finds the property violated by
it, so none of them holds by the shape of the model.  Properties with several parts have
further `Mutant:` operators in the modules, one for the parts the first does not reach.

The type invariants are checked in no run of their own: `TypeOK` is a conjunct of what is
proved, and its theorem `TypeCorrect` says it for every value of the constants.

Deadlock is checked in the runs of the scheduler, the inbox, the history and Secure
Transfer.  It is not in `worker_managed`, `inventory` and `tool_windows`: a window that has
closed, a clock at its bound and a task that has ended stop.

What the code loses in a race is not excluded from the instances: the state remembers it (`Lost`,
`left`, `overtaken`, `diverged`, `timely`, `overwritten`, `raced`, `strayed`), and each property
says what still holds then and what it excepts.  Section 6 has those exceptions one by one.

Restrictions of the instances, besides the sizes:

- `snapshot_history` has `LosesSaves`, `Unattended` and `ClockMovesBack` FALSE.  With
  the first, a crash between retention and the save of the schedule leaves a
  `last_snapshot` that a later retention may delete; with the last, "newest" is
  judged by a clock that was wrong.  No document promises anything there.
- `inventory` gives each address to one scope: overlapping scopes are in section 6.  The MAC is
  one that the identity rules accept (`Colon`).
- In `tool_windows`, `RollbackFails` is FALSE (section 6), other programs change the
  Startup *file* only: a registry value that changes after the list was loaded is the
  subject of `startup_stale_backup`.  Entries on another volume are in
  `NothingDestroyed` but not in the second part of `Recoverable` nor in
  `AllOrNothing`: a copy that stops half-way leaves something in both places.
  Entries whose loss of metadata was reported, or interrupted by a crash, are
  `excused` from the second part.

## 4. Fairness

- `WorkerLifecycle`: weak fairness of each worker's own steps (the operating system
  schedules it), of the event loop's deliveries, of the end of a bounded wait, and of
  an armed timer.  Nothing makes a task fail, and nothing makes an `Endless` task end
  without being cancelled.  `DeferredCloseResolves` allows one exception, the one the
  code has: work started after the close was asked for is never cancelled.
- `ScheduledMonitoring`: weak fairness of workers (discovery and fingerprinting have
  deadlines), deliveries, dismissal of dialogs, and the end of a bounded wait.  `PendingResolves`
  says nothing of a behaviour in which something was not handled in its turn.
- `NotificationInbox`: strong fairness of the two-second refresh and of each thread's
  critical section.  Both are disabled again and again, by a dialog or by a lock that
  another thread takes; a repeating timer and a lock whose waiters are woken do get
  their turn.  Nobody is assumed to dismiss a dialog: `MonitorProceeds` has that as its
  own hypothesis, because the warning is shown inside the lock.
- `SecureTransfer`: weak fairness of the worker (every loop polls) and of the event
  loop.  Tailcat owes nothing; `SessionEnds` is about stopped sessions and sessions
  whose process is over.
- `Inventory` and `ToolWindows` promise no liveness.  A transaction ends or is undone; the
  services are finite sequences of calls with deadlines, and the one eventuality their
  windows have, the deferred close, is that of `WorkerLifecycle` (the network explorer has
  its own, which can be lost: section 6).

## 5. Proofs

`tlapm` proves about 19 000 obligations in eight modules.  Nothing is assumed but the named
`ASSUME` of each module, which TLC evaluates on the instances, and the hypotheses
stated in a theorem.

| module | theorem | for every... | by |
|---|---|---|---|
| `WorkerLifecycleProofs` | `TypeCorrect` | set of workers and slots | `TypeOK` is inductive; `QueueAppend`, `QueueHead`, `QueueElement` type the queue |
| | `DeferredCloseArmed` | " | `ArmedInv` |
| | `CancelledStaysCancelled` | " | `DoomedInv`: every doomed worker is in `cancelEvent`, and no worker has an outcome before the last check of its `run()` |
| | `WorkersAreFound`, `CloseIsQuiet`, `CloseCancels` | ", legacy slots included | `KnownInv`: every running managed worker is in `managed` and its queued `finished` comes from a thread that has ended (`ManagedInv`), a legacy worker is in its attribute until its outcome was handled (`OutcomeInv`, `LegacyInv`); `CloseInv` for the close |
| | `BaseToolKeepsPromise` | " | `FoundInv`: what `closeEvent` finds is what runs and was not lost; each step is a step of `ToolWindow` or a stutter |
| `ScheduledMonitoringProofs` | `TypeCorrect` | number of runs, interval, times, depth of dialogs | `TypeOK` with `PendingIsKnown`: a pending run is a run |
| | `StartsSpaced` | ", any order of timers and signals; until something is handled under a dialog | `SpacedInv`: the schedule in memory, in the file and in every candidate that a suspended slot still holds lies an interval after the last start |
| | `NeverOverlaps` | ", dialogs open or not; until the poll timer overtakes a queued signal | `AloneInv`: the running worker is the one the window holds, with its buttons locked, until its own last signal |
| | `RunsArePublished`, `SnapshotsHaveEvidence`, `NoRunIsForgotten` | "; until the first event out of turn | `FlightInv` (which signals of the current worker can still be on their way) and `RunsInv` (what each shared flag says of that worker's run, also in a suspended slot) |
| `NotificationInboxProofs` | `TypeCorrect` | capacity, number of monitors, size limit | `NewestBounded`: at most `MaxItems` are kept |
| | `CopiesCurrent` | " | `LockInv`: the lock has at most one holder, whoever has loaded holds it, and so does the GUI thread while a warning is open |
| | `NothingIsLost`, `ReadStaysRead` | " | `StoredInv`, with the counting lemma `NewestKeeps` |
| | `OnlyPresented` | " | `PresentedInv` |
| `SnapshotHistoryProofs` | `TypeCorrect` | scopes, policies, catalog size | `TypeOK` is inductive |
| | `PairIsSpared` | ", clock not set back | `Dated`: no file is newer than the clock; lemma `Survivors`: the files that protect a candidate are not removed before it |
| | `BaselineKept` | ", clock not set back, saves that succeed, attended warnings, at least two kept | `BaselineInv`: the recorded baseline is the newest of its scope, except while its successor waits under a warning |
| | `PolicyKept` | scope, policy and catalog size, no hypothesis | `PolicyInv`: unless the last save or load failed, the window (or its open dialog) holds the policy of the file |
| | `RetentionIsBounded` | scope, policy and catalog size, saves that succeed | `SavedFinite`, `CatalogIsComplete` |
| `SecureTransferProofs` | `TypeCorrect`, `ResultsAreGenuine`, `TunnelsAreClosed` | sequence of sessions, whatever the process does | `PlaceInv`: where the worker is decides whether READY was said and whether the process may still be up |
| | `TokensInTheirFields` | ", any number of queued signals | `FieldInv`: the signals on their way are those of the session the window waits for, because its end is the last of them |
| `ToolWindowsProofs` | `StartupIsTyped` | set of entries, identifiers, versions | `Startup!TypeOK` is inductive |
| | `StartupIsRecoverable` | ", no hypothesis | `OpInv` (what the operation's own backup holds at each call), `ListInv`, `BackupInv`, `ShownInv` (a backup the window does not list is empty or belongs to the operation in progress) |
| | `StartupIsReported` | ", no hypothesis | `AgreeInv`: what is active at each call, while no other program writes the entry, is what was there at the start or nothing; `KeptInv` |
| | `EntriesAreRecoverable`, `OperationsAreReported` | ", in the program as a whole | `StartupInv`, which is these |
| | `BatchIsAllOrNone` | number of outputs, rollback calls that succeed | `Phase`: where the task is, and the output it is at, determine every destination and every backup; `Heard`: what was cancelled before the commit never begins it |
| | `MovesAreRestorable`, `CopiesAreKept` | finite set of paths, contents, number of moves, runs and edits | `RecordInv` (each manifest tells what was moved, with at most its last move open), `SlotInv` (what is in the folder is named by a manifest), `TodoInv`, `CopyInv` (between the comparison and the move the kept file is equal unless the user touched a file) |
| | `OnlyAgreedChanges`, `WhatIsOthersStays` | machine, file system and number of changes by others (cleaner), processes, connections, archives | the invariants of the windows below |
| | `AllIsReaped`, `ShownIsFound` | " , and set of events and limits, number of items and of pending probes | `ViewerReading` (what was read is what the finished logs gave), `WorkerInv` and `FileInv` (a worker's counts; each stored line is a scan that happened), `QueueInv` and `TableInv` (one answer per list, and the table is that of the last), `Validated` and `Holds` (what the staging directory has is the members written so far) |
| | `AnalysesAreSound` | host, and inventory of finitely many assets | the task is a question and the world nothing or its answer (`AnalysisInv`); of each function one lemma, `ClassifiedRight` to `DrawnRight` |
| | `ReportsAreKept` | inventory, snapshot files and selection of them; finite disk | `AnalysisInv` too; `ReportedRight`, `ComparedRight` and, with `RankedOrders` for the order of time, `OrderedRight`; for the preview of a cleaning `AloneInv`, proved in `FileWindowsProofs` |
| `InventoryProofs` | `InventoryInvariant` | set of scopes with no address in common, observations, fingerprints, snapshots, older databases, number of transactions | `IInv`: the database is `Sound`, and a running scan is one of hosts of its scope, one for each address |
| | `InventoryIsConsistent` | " | `Sound` of a merge (`MergeKeeps`) and of a written row (`RowWritten`), hence of every transaction; what is `held` is a row that was sound when it was read |
| | `NothingIsForgotten` | " | `Follows`: a function says which asset each one became; it composes over the rounds of a scan and of a repair |
| | `ScansAreExact` | " | `Recorded` and `Online`: what the hosts recorded so far have left of the database before the scan |

The invariants TLC checks are seldom inductive.  `NothingLost`, for example, says
that a stored notification leaves the file only when a full capacity of newer ones is
there; a step that merges a batch into a stale copy would break it, so the invariant
needs that every loaded copy is the file, which needs the lock, which needs to know that an
open warning holds it.  `LockInv` says exactly that.  Likewise `ClosedIsQuiet` rests on
`KnownInv`: between the two looks of `closeEvent` a worker may start, and only its
registration before `start()` keeps it in sight.  In a legacy slot only the disabled button does,
so a thread is out of sight once its result was handled and another start came, or, if it shadows
`finished`, at once: `Lost`, which the theorems say is all that is lost.  `BaselineAvailable` rests on the
baseline being the newest of its scope, because that is the one property retention preserves.

The proof about the scheduler shows what each promise needs.  `NoOverlap` needs no
dialog to be dismissed: the lock of the buttons is enough, until the poll timer
overtakes the signals of a worker that has just ended (`overtaken`).  Spacing bears any order of
timers and signals, and ends with the first event handled under a dialog (`left`), because a
suspended slot saves the schedule it computed before it was suspended.  Publication needs
both: its invariants hold in every behaviour up to the first event out of turn, and section 6 has
what the code does after it.

A step of the startup manager is a call of the running operation, of which there are some
twenty; each has one lemma that says what it leaves active and in the backup (`Effect`), and
the generic lemmas `ContinuingKeeps` and `EndingKeeps` draw the invariant from that.

`ToolWindowsProofs` proves eleven of the properties of `tool_windows`, for every constant.  One
window is open, so its `IInv` is the invariant of that window, and each window has three lemmas:
its initial states satisfy its invariant (`ViewerInit`, `CleanerInit`, ...), its steps
preserve it (`...Step`), and it implies what the properties say (`...IsRight`).  Those of the
converter and the PDF tools, the duplicate finder, the archive tools and the cleaner are in
`FileWindowsProofs`, which it extends: the two modules are one proof, in halves that are checked separately.  The longest
argument is the cleaner's.  A directory is on its stack once, and what it has listed lies in what it
listed before or in the target (`StackInv`); a directory whose name is still to be visited
was never listed (`FreshInv`), so each is listed once.  Hence a newcomer among the names
to be visited came before the listing, and one that came after it is never removed (`ComeInv`).
Unless a directory was replaced between two looks (`raced`, `strayed`), the path about to be acted
on leads to nothing that other programs keep (`EntryInv`, `GoesAstray`); and what was removed is nowhere any more and
is counted once (`LostInv`).

That a quiet cleaning accounts for its preview relates a set computed once, level by level, to a
walk that deletes as it goes.  `Alone` relates them at every step.  It compares the disk with a
disk `o`, that of the preview: they differ in what the walk has removed, and in nothing else
(`Alike`).  `S`, what was looked at so far, is a part of the preview; what is missing in a
directory that was listed is still to be visited (`Seen`, `ToVisit`); every path of the
stack leads to its directory (`Chain`); and what was removed or failed, with the directories
left open, is as many as `S` has elements (`Counts`).  Nothing has to be said of levels: the
preview contains what lies in a listable directory it contains, and is the least such set (`PreviewIs`:
each level adds an item or is the last, and there are no more levels than items), so a walk that
has nothing left to visit has looked at all of it.  A target that cannot be listed is
outside the property: its preview is empty, and the cleaning reports one failure.

The analysis is a set of functions, and its proof is about them.  That the score never falls when an
asset goes offline or a relationship is withdrawn is a comparison of two sums over sets of assets.
`Sum` counts a sum point by point, as the size of a set, so that a sum over fewer assets is the
size of a subset (`SumGrows`), and no induction over lists is needed.  The history of the score
is stated point by point for the same reason: each point leads from the report before it to its
own, and the times of the points are those of the files.

`InventoryProofs` proves the three properties of `inventory`.  What they need beyond themselves is
`Filed`: a row is stored under the identity its own columns give it and in a scope that has its
address, nothing carries a time to come, and whatever is told of, or linked to, an asset known by
its address is of that asset's scope.  The last is why a merge, which rewrites the entries and
relationships of one scope, leaves none behind; it holds because `Apart`, the hypothesis of the
theorems, gives an address to one scope, and without it the property is false (section 6).  A merge must also
leave the timeline explaining the row it made out of two: `RetoldIs`, `MergedRow` and `TakenBack`
say which entry is taken back and why another arrival remains.  A scan is a loop, and what a
loop computes is by induction over its rounds, which the library cannot be instantiated for.
The rounds are numbers, though, and a set of numbers has a least element (`Smallest`): the first
round that breaks the invariant of the loop does not exist, because the one before it kept it
and one round preserves it (`OneRecorded`, `OneMended`).  The order of the rounds matters for
the repair, which uses rows listed before the first of them: `Mended` says that the rows of the
fallbacks still to come are as they were listed.

`ToolWindowsAssumption` says what the constants stand for, and TLC evaluates it: the events and
the logs of a query are finitely many and no two have the same record number; paths, names and
pids are what the operating system gives; a file system is a tree in which a name occurs once
in a directory, it has finitely many items, the target's directory exists, and what arrives from others was not there
before and arrives once.  A host probed as a camera answered a discovery or has its
port (`service.py:270`); an inventory has finitely many assets, and the keys of its tables tell
its assets and its relationships apart.  Some models changed so that they could be proved about,
in a way that TLC confirms to be the same: sorting is `Ranked`, which orders a set by counting
(the history of the score does so too, and `Inventory`), `lstat` is a function over the
prefixes of its path, and the preview counts as many levels as there are items.  The proved windows write a last element or a prefix of a list out, because
`tlapm` carries along every definition of every library of all ten windows, and its time is that
of the definitions in sight.

Only model-checked:

- every liveness property, and the violations of section 6;
- the other side of a hypothesis: a rollback whose own calls fail (section 6).

## 6. Where the code and its documents disagree

Five runs exhibit a disagreement; `PROJECT.json` (`findings`) quotes the sentences.  Each of the
others in the first list below is an exception that a property of a passing run names, so that the
run shows it happens nowhere else; without the exception TLC finds it.

1. `scheduled_unattended`: the warning of a degraded fingerprinting suspends
   `_scheduled_fingerprint_finished`; while it is open the next run's discovery sets
   the shared pending flag, and dismissing the warning publishes that run before its
   fingerprinting (`scheduler_window.py:398`).
2. `scheduled_closed_window`: `_worker_finished` starts the second stage without asking
   `_scheduler_closing` (`scheduler_window.py:536`).
3. `transfer_stop`: a Stop between the announcement and `on_ready` ends the session and
   leaves its tunnel (`tailcat_backend.py:518`).
4. `output_backup_lost`: a rollback that fails is passed over and the staging directory
   with the only copy of the old file is removed (`converter/service.py:70`).
5. `startup_stale_backup`: the command listed is backed up, the value registered now is
   deleted (`startup/service.py:438`).

The exceptions:

- *Legacy windows* (`Lost`, in `NoLostWorker`, `ClosedIsQuiet`, `DeferredCloseCancels` and
  `KeepsPromise`).  The button is enabled by the result, before the thread has ended, and the next
  start overwrites the only reference to it (`disk_analyzer/window.py:133-140`).  If `closeEvent` has
  registered the worker of the disk analyzer, its result, whose signal is named `finished`
  (`window.py:43`), removes it from `_managed_workers` while its thread runs.  Either is against
  `docs/architecture.md:78` and the comments at `base_tool.py:82`, 133 and 142.
- *A timer before a queued signal* (`overtaken`).  `_check_schedule` may look at `isRunning()` between
  the end of a manual discovery and its result.  It starts a scheduled run, and the manual
  result is published as its snapshot (`scheduler_window.py:283`, against
  `docs/network-scheduled-monitoring.md:74`); the last signal of the manual run then starts the
  fingerprint worker while the scheduled discovery runs (against line 70, "never starts a second
  Network Intelligence worker while another worker is running").
- *A dialog that is left open* (`left`).  Besides what `scheduled_unattended` shows, a suspended slot saves
  the schedule that it computed before it was suspended (`scheduler_window.py:464`), so that
  `next_run_at` goes back and the next run starts early.
- *A policy that cannot be loaded* (`diverged`).  The window falls back to the default policy and
  goes on with it, whatever the file says (`history_center_window.py:564-574`).
- *Fingerprints in two transactions* (`held`, `timely`).  The docstring at `fingerprints.py:168` says
  that the asset is reloaded immediately before it is changed, "so Nerva output cannot synthesize an
  inventory asset".  A scan that merges the asset into that of its MAC between the two makes
  the write insert it again.  A time taken with the reading and written after others leaves a timeline whose
  last entry does not explain the state.
- *A move that overwrites* (`overwritten`).  `_move_path` says "Mueve sin sobrescribir"
  (`startup/service.py:532`), but looks at the destination (535) and replaces it (539) in two calls;
  what another program wrote in between is gone, against `docs/security.md:121`.  So is what
  it wrote between the listing and the deletion of a value.
- *A directory swapped between two looks* (`raced`, `strayed`).  The cleaner looks at the identity of a
  directory (`temp_cleaner/service.py:342`) and then asks for the entry by its path (348); likewise before
  `scandir` (325, 330) and before each removal.  Through a link that came in between it enters and empties a
  directory outside its target.
- *Files edited in a race* (`touched`).  A duplicate that is edited between the comparison
  and the move is moved, and reported as an equal copy (`duplicate/service.py`).
- *An inbox no reader accepts* (`Loads`).  The writer has no size limit, so that it may
  leave a file its own reader refuses; the counters of the window then stay as they were.

The models show more, which no run repeats.  First what contradicts a document, then what no
document promises but a reader may expect.

- *The policy of the dialog.*  A policy saved in the History Center is adopted by the
  window after `exec_()` returns; scheduled runs in between prune with the previous
  one (`history_center_window.py:603`, against `docs/network-history-center.md:69`).
- *The catalog.*  A catalog that is truncated keeps the last *names*, which start with the
  scope, not the newest files (`retention.py:205`, against
  `docs/network-history-center.md:24`).
- *MAC addresses with dashes.*  `_parse_arp_mac` (`network/service.py:171`) gives a MAC with
  dashes; `_normalize_mac` (`inventory.py:42`) accepts colons only.  Hosts found by the scanner
  therefore keep the identity of their address for ever, against
  `docs/network-intelligence.md:99` and `tests/test_network_validation.py:106-110`.  In the
  model this is `Colon = {}`; the instance takes a MAC that is accepted, so that identities are
  reconciled at all.
- *Overlapping scopes.*  The reconciliation of an identity repoints relationships in the scope
  of the row it replaces.  A host that two overlapping scopes know leaves, in the other scope,
  a relationship to an asset that is gone.  The theorems about the inventory have `Apart` as
  their hypothesis for that reason.
- *The instruction of the manifest.*  "Move each existing destination back to its source
  path" (`duplicate/service.py:309`): an entry left *planned* by a crash names a
  destination that a later operation may have given to another file.
- *The capture.*  `stop()` forgets the capture before it looks at the exit code
  (`capture.py:98`), and a start that times out may leave a session nobody owns.  `pktmon` has
  one session for the whole system, so that `docs/network-traffic-monitor.md:49` can only be
  kept for sessions that were seen.
- *Cancellation after the last look.*  A duplicate move cancelled after its last check
  has a manifest that says *complete*, while the window says it was marked as
  cancelled (`duplicate/window.py:232`).  An output batch and an archive are likewise
  published and reported as cancelled (`tools/worker.py:56`); the properties therefore promise
  nothing of that report.
- *A crash between the move and its metadata.*  The file of a Startup entry is then in the
  backup folder under a hidden `.json.tmp` that no reader looks at
  (`startup/service.py:595`, the glob at 373).
- *A deferred close that is lost.*  The close of the network explorer is retried by the end of
  a worker (`network/window.py:665-675`).  A worker that ends between the wait and the connection
  never retries it, and `_close_when_workers_finish` stays set.  Cancelling the pool waits for
  the probes that have begun.
- *What the network explorer shows.*  `import_history` writes no line end after its last line,
  so that the next append joins it.  The fingerprinting of services asks for the text that is
  in the field when it starts (`camera_handoff_window.py:217`,
  `service_intelligence_window.py:260`), not for the host that was scanned.  A cancelled UDP
  question reports its ports as open or filtered.
- *Two answers to one question.*  A NAS with ports 5000 and 5001 is of medium risk to
  `service.py:199`, and its auditor has no finding (`auditors.py:90`); `refresh_inventory` of the window scores
  without relationships, the report of the same assets with them; the topology keeps the note
  of an asset that moved.
- *A run that ends early.*  `run_scheduled_fingerprinting` does not catch the `ValueError` of an asset
  that went away between the list and its probe; the assets after it are not fingerprinted.
- *Caches of the monitor.*  The name of a process number is kept for the session though the
  number may be used again; an adapter that comes back looks like a spike; a DNS or ASN look-up
  that failed is not repeated.
- *The event viewer* shows what was read before a cancellation as if it were complete, and its
  filters bring back the events of the query before.  Its PDF lists the first 100
  of up to 1000 events (`event_viewer/service.py:568`), in which an error may give way to newer warnings of
  the same risk.
- *The process manager* asks about a process with its identity when it ends it, but its
  analysis takes the number of the row.
- *The cleaner* looks at an entry and removes it in two calls: between them a file may be
  replaced by another of that name.  A `TMP` two levels above the user's own folders is
  accepted.
- *Archives.*  For 7Z the code relies on the checksum of its library.  The look at the
  destination and the replacement are two calls; on POSIX the second replaces an empty
  directory.  That the staging directory can be removed is assumed.
- *The menu.*  A second tool replaces the only reference to the first window (`main.py:178`).
  Whether that window then lives is decided by its Qt wrapper, not by the source.

## 7. What is left

The plan of the first inventory is carried out but for the components below, and every
module of it is checked in a run.

Not modelled, and why:

- *Menu, configuration, Wi-Fi profiles, web reconnaissance, camera auditor, system report and
  disk analyzer*: one actor in a short sequence, or a bounded executor and a worker of the
  form that `NetworkExplorer` and `WorkerLifecycle` already have.  A model of them would
  repeat those.
- *Single-file tasks* of the converter and the PDF tools: a temporary file and one
  `os.replace`, the last two actions of `ArchiveTools`.
- *Windows that only show*, export of tables, dialogs, themes and languages: no state that two
  actors share.
- *Formats*: parsing of addresses, of `arp`, `netsh`, Nerva, EVTX and PDF, SQL migration and the
  text of reports.  Where a property depends on one (the MAC, the summary of a scan, the lines
  of the history) the conversion is modelled by what it does.
- *Maintenance scripts, installer, bundled programs*: not part of the running program.

`tool_windows` takes most of the time of all the runs; larger instances belong in a
configuration with fewer windows.  Every safety property that a run checks is also a theorem,
under the hypotheses section 5 gives.  Worth proving next are two lemmas that would widen
them: what a batch still promises when the calls of its rollback fail, and what the inventory
promises of scopes that overlap (which needs the code of the reconciliation to change first).

Out of reach: liveness and `ENABLED` stay with TLC, and so does what a fold or a recursive
definition over lists or sets computes for every input, unless its rounds can be numbered.
