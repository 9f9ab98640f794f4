---------------------------- MODULE ToolWindows ----------------------------
(***************************************************************************)
(* The menu opens one tool window, which then runs.                             *)
(*                                                                                *)
(* Three of them move and publish the user's files: the startup manager, the     *)
(* converter and the PDF tools, the duplicate finder.  pc, cancel and shown belong *)
(* to the worker of the open one.  The others look at the machine and the network, *)
(* and change them: the temporary-file cleaner, the process manager, the event      *)
(* viewer, the network monitor with its capture, the network explorer, the archive   *)
(* tools and the analysis of Network Intelligence.  Of these task is what the window  *)
(* and its worker hold, world what lies outside the program.                           *)
(*                                                                                      *)
(* The windows share no state, so one at a time shows all there is to show.             *)
(***************************************************************************)
EXTENDS Naturals

CONSTANTS
    Entries, Registry, OtherVolume, Updated, Versions, Ids, Absent, Torn,
    N, RollbackFails,
    Paths, Contents, MaxMoves, MaxRuns, MaxEdits, Gone, Copy,
    Machines, Disks, Newcomers, Swapped, MaxChanges,
    Pids, Own, System, MaxBirths, MaxLoads,
    Logs, Events, MaxEvents, Reported, Printed, MaxReads,
    Connections, Busy, Threshold, DnsPerSample, HistoryEvery, MaxSamples, MaxSessions,
    Items, Hits, Targets, Cameras, Pending, Asked, MaxScans,
    Archives, Sources, MaxFiles, MaxSingle, MaxTotal, MaxRatio, Other,
    Hosts, Inventories, Reports, Selections, Error,
    None

VARIABLES
    window,
    active, backups, listed, op, outcome, current, excused, overwritten,
    disk, stage, backup, next, committed, before, early, tool,
    at, slot, content, groups, todo, manifests, memory, origin, touched, edits,
    pc, cancel, shown,
    task, world

startupVars == <<active, backups, listed, op, outcome, current, excused, overwritten>>
outputVars == <<disk, stage, backup, next, committed, before, early, tool>>
duplicateVars == <<at, slot, content, groups, todo, manifests, memory, origin, touched, edits>>
workerVars == <<pc, cancel, shown>>
systemVars == <<task, world>>
vars == <<window, startupVars, outputVars, duplicateVars, workerVars, systemVars>>

Startup == INSTANCE StartupItems
Output == INSTANCE OutputTransaction
Duplicate == INSTANCE DuplicateMove
Cleaner == INSTANCE TempCleaner
Processes == INSTANCE ProcessManager
Viewer == INSTANCE EventViewer
Monitor == INSTANCE NetworkMonitor
Explorer == INSTANCE NetworkExplorer
Archive == INSTANCE ArchiveTools
Analysis == INSTANCE NetworkAnalysis WITH question <- task, answer <- world

ASSUME ToolWindowsAssumption ==
    /\ Startup!StartupConstants /\ Output!OutputConstants /\ Duplicate!DuplicateConstants
    /\ Cleaner!MachineConstants /\ Cleaner!DiskConstants
    /\ Viewer!ViewerConstants /\ Explorer!ExplorerConstants /\ Archive!ArchiveConstants
    /\ Analysis!AnalysisConstants

NoStartup ==
    /\ active = None /\ backups = None /\ listed = None /\ op = None
    /\ outcome = None /\ current = None /\ excused = None /\ overwritten = None
NoOutput ==
    /\ disk = None /\ stage = None /\ backup = None /\ next = None
    /\ committed = None /\ before = None /\ early = None /\ tool = None
NoDuplicate ==
    /\ at = None /\ slot = None /\ content = None /\ groups = None /\ todo = None
    /\ manifests = None /\ memory = None /\ origin = None /\ touched = None /\ edits = None
NoWorker == pc = None /\ cancel = None /\ shown = None
NoSystem == task = None /\ world = None
NoFiles == NoStartup /\ NoOutput /\ NoDuplicate /\ NoWorker

\* open_tool: a window is built and shown.
Init ==
    \/ window = "startup" /\ Startup!Init /\ NoOutput /\ NoDuplicate /\ NoWorker /\ NoSystem
    \/ window = "output" /\ Output!Init /\ NoStartup /\ NoDuplicate /\ NoSystem
    \/ window = "duplicate" /\ Duplicate!Init /\ NoStartup /\ NoOutput /\ NoSystem
    \/ window = "cleaner" /\ Cleaner!Init /\ NoFiles
    \/ window = "processes" /\ Processes!Init /\ NoFiles
    \/ window = "viewer" /\ Viewer!Init /\ NoFiles
    \/ window = "monitor" /\ Monitor!Init /\ NoFiles
    \/ window = "explorer" /\ Explorer!Init /\ NoFiles
    \/ window = "archive" /\ Archive!Init /\ NoFiles
    \/ window = "analysis" /\ Analysis!Init /\ NoFiles

Others == UNCHANGED <<window, startupVars, outputVars, duplicateVars, workerVars>>

Next ==
    \/ /\ window = "startup" /\ Startup!Next
       /\ UNCHANGED <<window, outputVars, duplicateVars, workerVars, systemVars>>
    \/ /\ window = "output" /\ Output!Next
       /\ UNCHANGED <<window, startupVars, duplicateVars, systemVars>>
    \/ /\ window = "duplicate" /\ Duplicate!Next
       /\ UNCHANGED <<window, startupVars, outputVars, systemVars>>
    \/ window = "cleaner" /\ Cleaner!Next /\ Others
    \/ window = "processes" /\ Processes!Next /\ Others
    \/ window = "viewer" /\ Viewer!Next /\ Others
    \/ window = "monitor" /\ Monitor!Next /\ Others
    \/ window = "explorer" /\ Explorer!Next /\ Others
    \/ window = "archive" /\ Archive!Next /\ Others
    \/ window = "analysis" /\ Analysis!Next /\ Others

Spec == Init /\ [][Next]_vars

-----------------------------------------------------------------------------
(* The properties of the open tool. *)

\* What a program last registered to start is active or in a backup, and that backup
\* can be enabled again from the window, unless it was registered between a look of the
\* window at the entry and the call that relied on it (startup/service.py).
Recoverable == window = "startup" => Startup!NothingDestroyed /\ Startup!Recoverable

\* Disabling or enabling an entry happens as reported, or not at all.
AllOrNothing == [][window = "startup" => Startup!AllOrNothingStep]_vars

\* A batch of outputs is published as a whole or not at all, and reported as it is: until then
\* the old destinations exist, and a batch cancelled before its commit publishes nothing
\* (converter and pdf service.py).
AllOrNone == window = "output" => Output!OldSurvives /\ Output!AllOrNone /\ Output!CancelHolds

\* Every moved duplicate is named by a manifest on disk, and the status and the count of
\* every manifest agree with its moves and with the window (duplicate/service.py).
Restorable == window = "duplicate" => Duplicate!Restorable /\ Duplicate!StatusIsTrue

\* A duplicate is moved only while an equal file stays where it is.
KeepsACopy == [][window = "duplicate" => Duplicate!KeepsACopyStep]_vars

\* The machine is changed as was agreed: the cleaner offers no directory that programs or the user
\* keep their data in and spares the files that arrive late, the process manager ends only the
\* process its dialog named, the monitor stops no capture older than its own, and what is extracted
\* keeps the limits.
ChangesAreAgreed ==
    /\ window = "cleaner" => Cleaner!TargetsAreSafe /\ Cleaner!NewcomersStay
    /\ window = "processes" => Processes!EndsOnlyAgreed
    /\ window = "monitor" => Monitor!StopsNoOlderSession
    /\ window = "archive" => Archive!StaysWithinLimits

\* What the cleaner and the extraction were not given stays, whatever other programs do meanwhile.
OthersAreKept ==
    [][/\ window = "cleaner" => Cleaner!ContainedStep
       /\ window = "archive" => Archive!ReplacedStep]_vars

\* No child process, no pending probe and no worker outlives what started it.
NothingLeftBehind ==
    /\ window = "viewer" => Viewer!EveryChildIsReaped
    /\ window = "explorer" => Explorer!PoolIsBounded /\ Explorer!NothingOutlivesTheWindow

\* What a tool shows, writes or stores is what it found: the report of a cleaning, the list of
\* processes, the riskiest events, the alerts of a session, the history of the scans, the files of
\* an archive.
ShownIsTrue ==
    /\ window = "cleaner" => Cleaner!DeletedIsExact
    /\ window = "processes" => Processes!TableIsOfTheLastList
    /\ window = "viewer" => Viewer!ShownAreTheRiskiest
    /\ window = "monitor" => Monitor!AlertsAreStored /\ Monitor!NewIsAnnouncedOnce
    /\ window = "explorer" => Explorer!SummariesAreTrue
    /\ window = "archive" => Archive!WholeOrNothing

\* Roles, risks, scores and maps follow from what was observed (classification.py, auditors.py,
\* score.py, topology.py).
AnalysisIsSound == window = "analysis" => Analysis!AnalysisIsSound

\* Reports are read as they were written, compared and put in order exactly (reporting.py,
\* comparison.py, history.py), and that of a cleaning accounts for every item of its preview
\* (temp_cleaner/service.py).
ReportsAreExact ==
    /\ window = "analysis" => Analysis!ReportsAreExact
    /\ window = "cleaner" => Cleaner!ItemsAreAccounted
=============================================================================
