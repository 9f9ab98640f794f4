------------------------ MODULE ScheduledMonitoringProofs ------------------------
(***************************************************************************)
(* Types of scheduled monitoring, the distance between two scheduled runs,   *)
(* the exclusion of two workers and what is published, for every number of   *)
(* runs, interval and depth of dialogs.                                      *)
(*                                                                         *)
(* What holds while everything is handled in its turn is an invariant of the  *)
(* steps that leave the history of turns clean: a dialog that is read before   *)
(* anything else is handled (~left) keeps the stack of slots empty whenever a   *)
(* slot runs, and a poll timer that overtakes no signal (~overtaken) starts a   *)
(* run only when nothing is in flight.  The history never turns clean again.    *)
(***************************************************************************)
EXTENDS ScheduledMonitoring, FiniteSetTheorems, TLAPS

-----------------------------------------------------------------------------
(* Types. *)

LEMMA ConfigParts ==
    \A c \in Configs : c.enabled \in BOOLEAN /\ c.automatic \in BOOLEAN /\ c.nextRun \in 0..Never
BY DEF Configs

LEMMA Limits ==
    /\ MaxTime \in Nat /\ Interval \in Nat /\ Interval >= 1 /\ Never = MaxTime + Interval + 1 /\ Never \in Nat
    /\ MaxRuns \in Nat /\ MaxDialogs \in Nat
BY MonitoringAssumption DEF Never

\* What scheduler.py makes of a schedule is a schedule.
LEMMA SchedulesAreTyped ==
    ASSUME now \in 0..MaxTime, NEW c \in Configs, NEW t \in 0..MaxTime, NEW a \in BOOLEAN
    PROVE  /\ disabled_schedule \in Configs
           /\ create_schedule(a) \in Configs
           /\ disable_schedule(c) \in Configs
           /\ change_schedule_interval(c) \in Configs
           /\ mark_schedule_started(c) \in Configs
           /\ mark_schedule_success(c, t) \in Configs
           /\ [c EXCEPT !.automatic = ~c.automatic] \in Configs
<1>1. now + Interval \in 0..Never /\ t + Interval \in 0..Never /\ Never \in 0..Never
  BY Limits
<1>2. ASSUME NEW n \in 0..Never PROVE [c EXCEPT !.nextRun = n] \in Configs
  BY DEF Configs
<1>3. disabled_schedule \in Configs /\ create_schedule(a) \in Configs
  BY <1>1 DEF disabled_schedule, create_schedule, Configs
<1>4. disable_schedule(c) \in Configs
  BY <1>1 DEF disable_schedule, Configs
<1>5. change_schedule_interval(c) \in Configs
  BY <1>1, <1>2 DEF change_schedule_interval
<1>6. mark_schedule_started(c) \in Configs
  BY <1>1, <1>2 DEF mark_schedule_started
<1>7. mark_schedule_success(c, t) \in Configs
  BY <1>1, <1>2 DEF mark_schedule_success
<1>8. [c EXCEPT !.automatic = ~c.automatic] \in Configs
  BY DEF Configs
<1> QED
  BY <1>3, <1>4, <1>5, <1>6, <1>7, <1>8

\* Stacks of dialogs.
LEMMA FramesPush ==
    ASSUME NEW s \in Seq(Frames), NEW f \in Frames
    PROVE  /\ Append(s, f) \in Seq(Frames)
           /\ Len(Append(s, f)) = Len(s) + 1
           /\ \A k \in 1..Len(Append(s, f)) :
                 (k \in 1..Len(s) /\ Append(s, f)[k] = s[k]) \/ Append(s, f)[k] = f
OBVIOUS

LEMMA FramesPop ==
    ASSUME NEW s \in Seq(Frames), s # <<>>
    PROVE  /\ SubSeq(s, 1, Len(s) - 1) \in Seq(Frames)
           /\ s[Len(s)] \in Frames
           /\ \A k \in 1..Len(SubSeq(s, 1, Len(s) - 1)) :
                 k \in 1..Len(s) /\ SubSeq(s, 1, Len(s) - 1)[k] = s[k]
OBVIOUS

\* A dialog suspends its slot with typed local variables.
LEMMA DialogIsTyped ==
    ASSUME NEW s \in Seq(Frames), NEW cont \in Continuations, NEW t \in 0..MaxTime, NEW c \in Configs,
           DialogWith(s, cont, t, c)
    PROVE  frames' \in Seq(Frames)
<1>1. [cont |-> cont, at |-> t, saved |-> c] \in Frames
  BY DEF Frames
<1> QED
  BY <1>1, FramesPush DEF DialogWith

LEMMA PlainDialogIsTyped ==
    ASSUME now \in 0..MaxTime, NEW s \in Seq(Frames), NEW cont \in Continuations, Dialog(s, cont)
    PROVE  frames' \in Seq(Frames)
<1>1. disabled_schedule \in Configs /\ 0 \in 0..MaxTime
  BY Limits DEF disabled_schedule, Configs
<1> QED
  BY <1>1, DialogIsTyped DEF Dialog

\* What a slot that saves or publishes may change.
ScheduleTyped == disk \in Configs /\ config \in Configs /\ frames \in Seq(Frames)

LEMMA SaveIsTyped ==
    ASSUME now \in 0..MaxTime, disk \in Configs, config \in Configs,
           NEW s \in Seq(Frames), NEW c \in Configs, SaveOn(s, c, "nothing")
    PROVE  ScheduleTyped'
<1>1. CASE config' = c /\ disk' = c /\ frames' = s
  BY <1>1 DEF ScheduleTyped
<1>2. CASE Dialog(s, "nothing") /\ UNCHANGED schedule
  BY <1>2, PlainDialogIsTyped DEF ScheduleTyped, schedule, Continuations
<1> QED
  BY <1>1, <1>2 DEF SaveOn

LEMMA RecordIsTyped ==
    ASSUME now \in 0..MaxTime, disk \in Configs, config \in Configs,
           NEW s \in Seq(Frames), NEW t \in 0..MaxTime, RecordSuccess(s, t)
    PROVE  ScheduleTyped'
<1> DEFINE c == mark_schedule_success(config, t)
<1>1. c \in Configs
  BY SchedulesAreTyped
<1>2. CASE config' = c /\ disk' = c /\ SnapshotPublished(s)
  <2>1. frames' \in Seq(Frames)
    BY <1>2, PlainDialogIsTyped DEF SnapshotPublished, Continuations
  <2> QED
    BY <1>1, <1>2, <2>1 DEF ScheduleTyped
<1>3. CASE DialogWith(s, "adopt", 0, c) /\ UNCHANGED schedule
  <2>1. 0 \in 0..MaxTime /\ "adopt" \in Continuations
    BY Limits DEF Continuations
  <2>2. frames' \in Seq(Frames)
    BY <1>1, <1>3, <2>1, DialogIsTyped
  <2> QED
    BY <1>3, <2>2 DEF ScheduleTyped, schedule
<1> QED
  BY <1>2, <1>3 DEF RecordSuccess

LEMMA PublishIsTyped ==
    ASSUME now \in 0..MaxTime, disk \in Configs, config \in Configs, settled \subseteq Runs,
           snapshots \in Seq(Snapshots),
           NEW s \in Seq(Frames), NEW isPending, NEW run, NEW answer,
           isPending => run \in Runs /\ answer \in Answers,
           publish_scheduled_snapshot(s, isPending, run, answer)
    PROVE  ScheduleTyped' /\ pending' = FALSE /\ settled' \subseteq Runs /\ snapshots' \in Seq(Snapshots)
<1>1. CASE ~isPending
  BY <1>1 DEF publish_scheduled_snapshot, ScheduleTyped, schedule
<1>2. CASE isPending
  <2>1. PublishOn(s, run, answer) /\ run \in Runs /\ answer \in Answers /\ pending' = FALSE
    BY <1>2 DEF publish_scheduled_snapshot
  <2>2. settled' \subseteq Runs
    BY <2>1 DEF PublishOn
  <2>3. CASE Dialog(s, "nothing") /\ UNCHANGED <<schedule, snapshots>>
    BY <2>1, <2>2, <2>3, PlainDialogIsTyped DEF ScheduleTyped, schedule, Continuations
  <2>4. CASE /\ snapshots' = Append(snapshots, [run |-> run, automatic |-> config.automatic, fingerprint |-> answer])
             /\ \/ RecordSuccess(s, now)
                \/ DialogWith(s, "record", now, disabled_schedule) /\ UNCHANGED schedule
    <3>1. snapshots' \in Seq(Snapshots)
      BY <2>1, <2>4, ConfigParts DEF Snapshots
    <3>2. CASE RecordSuccess(s, now)
      BY <2>1, <2>2, <3>1, <3>2, RecordIsTyped
    <3>3. CASE DialogWith(s, "record", now, disabled_schedule) /\ UNCHANGED schedule
      <4>1. disabled_schedule \in Configs /\ "record" \in Continuations
        BY Limits DEF disabled_schedule, Configs, Continuations
      <4>2. frames' \in Seq(Frames)
        BY <3>3, <4>1, DialogIsTyped
      <4> QED
        BY <2>1, <2>2, <3>1, <3>3, <4>2 DEF ScheduleTyped, schedule
    <3> QED
      BY <2>4, <3>2, <3>3
  <2> QED
    BY <2>1, <2>3, <2>4 DEF PublishOn
<1> QED
  BY <1>1, <1>2

-----------------------------------------------------------------------------
(* Each step keeps the types. *)

\* A run whose discovery left something pending is known.
PendingIsKnown == pending => pendingRun \in Runs

GuiTyped ==
    /\ worker \in Workers \cup {NoWorker}
    /\ window \in {"open", "waiting", "closed", "none"}
    /\ queue \in Seq(Signals)
    /\ thread \in [Workers -> {"unborn", "running", "exiting", "ended"}]
    /\ cancelled \subseteq Workers

FlagsTyped ==
    /\ scanActive \in BOOLEAN /\ pending \in BOOLEAN /\ fpActive \in BOOLEAN
    /\ locked \in BOOLEAN /\ closing \in BOOLEAN

HistoryTyped ==
    /\ runKind \in [Runs -> {"none", "manual", "scheduled"}]
    /\ fpOutcome \in [Runs -> Answers]
    /\ pendingRun \in 0..MaxRuns
    /\ persisted \subseteq Runs /\ settled \subseteq Runs
    /\ snapshots \in Seq(Snapshots)
    /\ starts \in Seq(0..MaxTime)

\* Every variable but the history of turns.
ProgramTyped == now \in 0..MaxTime /\ ScheduleTyped /\ GuiTyped /\ FlagsTyped /\ HistoryTyped

TurnsTyped == left \in BOOLEAN /\ overtaken \in BOOLEAN

LEMMA TypeParts ==
    /\ TypeOK => now \in 0..MaxTime /\ ScheduleTyped /\ GuiTyped /\ FlagsTyped /\ HistoryTyped
    /\ now' \in 0..MaxTime /\ ScheduleTyped' /\ GuiTyped' /\ FlagsTyped' /\ HistoryTyped' => ProgramTyped'
<1>1. TypeOK => now \in 0..MaxTime /\ ScheduleTyped /\ GuiTyped /\ FlagsTyped /\ HistoryTyped
  BY Zenon DEF TypeOK, ScheduleTyped, GuiTyped, FlagsTyped, HistoryTyped
<1>2. now' \in 0..MaxTime /\ ScheduleTyped' /\ GuiTyped' /\ FlagsTyped' /\ HistoryTyped' => ProgramTyped'
  BY Zenon DEF ProgramTyped
<1> QED
  BY <1>1, <1>2

LEMMA QueuePop ==
    ASSUME NEW q \in Seq(Signals), q # <<>>
    PROVE  Tail(q) \in Seq(Signals) /\ Head(q) \in Signals
OBVIOUS

LEMMA QueuePush ==
    ASSUME NEW q \in Seq(Signals), NEW x \in Signals
    PROVE  Append(q, x) \in Seq(Signals)
OBVIOUS

\* A run's number.
LEMMA WorkerParts ==
    \A w \in Workers : w.run \in Runs /\ w.stage \in {"scan", "fingerprint"}
BY DEF Workers

\* The slots of the scan and of the fingerprinting.
LEMMA DeliverTyped ==
    ASSUME TypeOK, PendingIsKnown, NEW kinds, NEW stage, Delivering(kinds, stage)
    PROVE  /\ worker' = worker => GuiTyped'
           /\ now' = now /\ Sender.run \in Runs
           /\ UNCHANGED <<window, thread, cancelled, closing, runKind, starts>>
           /\ queue' \in Seq(Signals)
<1>1. queue \in Seq(Signals) /\ queue # <<>> /\ queue' = Tail(queue)
  BY DEF TypeOK, Delivering, SignalTurn
<1>2. Tail(queue) \in Seq(Signals) /\ Head(queue) \in Signals
  BY <1>1, QueuePop
<1>3. Sender.run \in Runs
  BY <1>2, WorkerParts DEF Sender, Signals
<1> QED
  BY <1>1, <1>2, <1>3 DEF Delivering, SignalTurn, GuiTyped, TypeOK

LEMMA ScanFinishedTyped ==
    ASSUME TypeOK, PendingIsKnown, scan_finished
    PROVE  ProgramTyped' /\ PendingIsKnown'
<1>1. /\ GuiTyped' /\ now' = now /\ Sender.run \in Runs
      /\ UNCHANGED <<closing, runKind, starts, worker, scanActive, fpActive, locked, fpOutcome>>
  BY DeliverTyped DEF scan_finished
<1>2. now \in 0..MaxTime /\ ScheduleTyped /\ FlagsTyped /\ HistoryTyped
  BY TypeParts
<1>3. Runs = 1..MaxRuns /\ MaxRuns \in Nat
  BY Limits DEF Runs
<1>4. CASE /\ Dialog(frames, IF scanActive THEN "scanFailed" ELSE "nothing")
           /\ UNCHANGED <<schedule, pending, pendingRun, persisted, settled, snapshots>>
  <2>1. frames' \in Seq(Frames)
    <3>1. (IF scanActive THEN "scanFailed" ELSE "nothing") \in Continuations
      BY DEF Continuations
    <3> QED
      BY <1>2, <1>4, <3>1, PlainDialogIsTyped DEF ScheduleTyped
  <2>2. ScheduleTyped'
    BY <1>2, <1>4, <2>1 DEF ScheduleTyped, schedule
  <2>3. FlagsTyped' /\ HistoryTyped' /\ PendingIsKnown'
    BY <1>1, <1>2, <1>4, Zenon DEF FlagsTyped, HistoryTyped, PendingIsKnown
  <2> QED
    BY <1>1, <1>2, <2>2, <2>3, TypeParts
<1>5. CASE UNCHANGED <<schedule, pending, frames, pendingRun, persisted, settled, snapshots>>
  <2>1. ScheduleTyped'
    BY <1>2, <1>5 DEF ScheduleTyped, schedule
  <2>2. FlagsTyped' /\ HistoryTyped' /\ PendingIsKnown'
    BY <1>1, <1>2, <1>5, Zenon DEF FlagsTyped, HistoryTyped, PendingIsKnown
  <2> QED
    BY <1>1, <1>2, <2>1, <2>2, TypeParts
<1>6. CASE /\ persisted' = persisted \cup {Sender.run}
           /\ pendingRun' = Sender.run
           /\ \/ pending' = TRUE /\ UNCHANGED <<schedule, frames, settled, snapshots>>
              \/ publish_scheduled_snapshot(frames, TRUE, Sender.run, "none")
  <2>1. persisted' \subseteq Runs /\ pendingRun' \in Runs /\ pendingRun' \in 0..MaxRuns
    <3>1. persisted' \subseteq Runs
      BY <1>1, <1>2, <1>6 DEF HistoryTyped
    <3>2. Sender.run \in 0..MaxRuns
      BY <1>1, <1>3
    <3> QED
      BY <1>1, <1>6, <3>1, <3>2
  <2>2. /\ ScheduleTyped' /\ settled' \subseteq Runs /\ snapshots' \in Seq(Snapshots)
        /\ pending' = TRUE \/ pending' = FALSE
    <3>1. CASE pending' = TRUE /\ UNCHANGED <<schedule, frames, settled, snapshots>>
      BY <1>2, <3>1 DEF ScheduleTyped, HistoryTyped, schedule
    <3>2. CASE publish_scheduled_snapshot(frames, TRUE, Sender.run, "none")
      <4>1. "none" \in Answers
        BY DEF Answers
      <4> QED
        BY <1>1, <1>2, <3>2, <4>1, PublishIsTyped DEF ScheduleTyped, HistoryTyped
    <3> QED
      BY <1>6, <3>1, <3>2
  <2>3. FlagsTyped'
    <3>1. pending' \in BOOLEAN
      BY <2>2, Zenon
    <3> QED
      BY <1>1, <1>2, <3>1, Zenon DEF FlagsTyped
  <2>4. HistoryTyped'
    BY <1>1, <1>2, <2>1, <2>2 DEF HistoryTyped
  <2>5. PendingIsKnown'
    BY <2>1 DEF PendingIsKnown
  <2> QED
    BY <1>1, <1>2, <2>2, <2>3, <2>4, <2>5, TypeParts
<1> QED
  BY <1>4, <1>5, <1>6 DEF scan_finished

\* The other slots leave the inventory of runs alone.
LEMMA FingerprintTyped ==
    ASSUME TypeOK, PendingIsKnown,
           scan_failed \/ fingerprint_finished \/ fingerprint_degraded \/ fingerprint_cancelled
    PROVE  ProgramTyped' /\ PendingIsKnown'
<1>1. /\ GuiTyped' /\ now' = now /\ Sender.run \in Runs
      /\ UNCHANGED <<closing, runKind, starts, worker, scanActive, fpActive, locked, pendingRun, persisted>>
  BY DeliverTyped DEF scan_failed, fingerprint_finished, fingerprint_degraded, fingerprint_cancelled
<1>2. now \in 0..MaxTime /\ ScheduleTyped /\ FlagsTyped /\ HistoryTyped
  BY TypeParts
<1>3. fpOutcome' \in [Runs -> Answers]
  BY <1>1, <1>2 DEF HistoryTyped, Answers, scan_failed, fingerprint_finished, fingerprint_degraded, fingerprint_cancelled
<1>4. /\ ScheduleTyped' /\ settled' \subseteq Runs /\ snapshots' \in Seq(Snapshots)
      /\ pending' = FALSE \/ pending' = pending
  <2>1. CASE scan_failed
    <3>1. frames' \in Seq(Frames)
      BY <1>2, <2>1, PlainDialogIsTyped DEF scan_failed, ScheduleTyped, Continuations
    <3> QED
      BY <1>2, <2>1, <3>1 DEF scan_failed, ScheduleTyped, HistoryTyped, schedule
  <2>2. CASE fingerprint_finished
    <3>1. pending => pendingRun \in Runs /\ fpOutcome'[pendingRun] \in Answers
      BY <1>3 DEF PendingIsKnown
    <3>2. publish_scheduled_snapshot(frames, pending, pendingRun, fpOutcome'[pendingRun])
      BY <2>2 DEF fingerprint_finished
    <3> QED
      BY <1>2, <3>1, <3>2, PublishIsTyped DEF ScheduleTyped, HistoryTyped
  <2>3. CASE fingerprint_degraded
    <3>1. frames' \in Seq(Frames)
      BY <1>2, <2>3, PlainDialogIsTyped DEF fingerprint_degraded, ScheduleTyped, Continuations
    <3> QED
      BY <1>2, <2>3, <3>1 DEF fingerprint_degraded, ScheduleTyped, HistoryTyped, schedule
  <2>4. CASE fingerprint_cancelled
    BY <1>1, <1>2, <2>4 DEF fingerprint_cancelled, ScheduleTyped, HistoryTyped, schedule
  <2> QED
    BY <2>1, <2>2, <2>3, <2>4
<1>5. FlagsTyped'
  BY <1>1, <1>2, <1>4, Zenon DEF FlagsTyped
<1>6. HistoryTyped'
  BY <1>1, <1>2, <1>3, <1>4 DEF HistoryTyped
<1>7. PendingIsKnown'
  BY <1>1, <1>4 DEF PendingIsKnown
<1> QED
  BY <1>1, <1>2, <1>4, <1>5, <1>6, <1>7, TypeParts

LEMMA FinishedTyped ==
    ASSUME TypeOK, PendingIsKnown, worker_finished
    PROVE  ProgramTyped' /\ PendingIsKnown'
<1>1. now \in 0..MaxTime /\ ScheduleTyped /\ GuiTyped /\ FlagsTyped /\ HistoryTyped
  BY TypeParts
<1>2. /\ queue' \in Seq(Signals)
      /\ UNCHANGED <<now, window, cancelled, closing, runKind, fpOutcome, pendingRun, persisted, starts>>
  BY <1>1, QueuePop DEF worker_finished, Finishing, SignalTurn, GuiTyped
<1>3. CASE /\ Forget
           /\ fpActive' = FALSE \/ fpActive' = fpActive
           /\ scanActive' = FALSE
           /\ \/ UNCHANGED <<schedule, pending, frames, settled, snapshots>>
              \/ publish_scheduled_snapshot(frames, pending, pendingRun, "none")
  <2>1. worker' = NoWorker /\ thread' = thread /\ locked' = FALSE
    BY <1>3 DEF Forget
  <2>2. GuiTyped'
    BY <1>1, <1>2, <2>1 DEF GuiTyped
  <2>3. CASE UNCHANGED <<schedule, pending, frames, settled, snapshots>>
    <3>1. ScheduleTyped' /\ HistoryTyped' /\ PendingIsKnown' /\ pending' = pending
      BY <1>1, <1>2, <2>3 DEF ScheduleTyped, HistoryTyped, schedule, PendingIsKnown
    <3>2. FlagsTyped'
      BY <1>1, <1>2, <1>3, <2>1, <3>1, Zenon DEF FlagsTyped
    <3> QED
      BY <1>1, <1>2, <2>2, <3>1, <3>2, TypeParts
  <2>4. CASE publish_scheduled_snapshot(frames, pending, pendingRun, "none")
    <3>1. "none" \in Answers
      BY DEF Answers
    <3>2. ScheduleTyped' /\ pending' = FALSE /\ settled' \subseteq Runs /\ snapshots' \in Seq(Snapshots)
      BY <1>1, <2>4, <3>1, PublishIsTyped DEF ScheduleTyped, HistoryTyped, PendingIsKnown
    <3>3. HistoryTyped' /\ PendingIsKnown'
      BY <1>1, <1>2, <3>2 DEF HistoryTyped, PendingIsKnown
    <3>4. FlagsTyped'
      BY <1>1, <1>2, <1>3, <2>1, <3>2, Zenon DEF FlagsTyped
    <3> QED
      BY <1>1, <1>2, <2>2, <3>2, <3>3, <3>4, TypeParts
  <2> QED
    BY <1>3, <2>3, <2>4
<1>4. CASE ~fpActive /\ scanActive /\ pending /\ config.automatic
  <2>1. /\ StartWorker([run |-> pendingRun, stage |-> "fingerprint"])
        /\ fpActive' = TRUE
        /\ UNCHANGED <<schedule, scanActive, pending, frames, settled, snapshots>>
    BY <1>4 DEF worker_finished
  <2>2. [run |-> pendingRun, stage |-> "fingerprint"] \in Workers
    BY <1>4 DEF PendingIsKnown, Workers
  <2>3. GuiTyped'
    BY <1>1, <1>2, <2>1, <2>2 DEF GuiTyped, StartWorker
  <2>4. ScheduleTyped' /\ HistoryTyped' /\ PendingIsKnown'
    BY <1>1, <1>2, <2>1 DEF ScheduleTyped, HistoryTyped, schedule, PendingIsKnown
  <2>5. locked' = TRUE
    BY <2>1 DEF StartWorker
  <2>6. FlagsTyped'
    BY <1>1, <1>2, <2>1, <2>5, Zenon DEF FlagsTyped
  <2> QED
    BY <1>1, <1>2, <2>3, <2>4, <2>6, TypeParts
<1> QED
  BY <1>3, <1>4 DEF worker_finished

\* The next run's number and its worker.
LEMMA DiscoveryTyped ==
    ASSUME TypeOK, NEW kind \in {"manual", "scheduled"}, StartDiscovery(kind)
    PROVE  /\ worker' \in Workers /\ locked' = TRUE /\ worker' = [run |-> NextRun, stage |-> "scan"]
           /\ thread' \in [Workers -> {"unborn", "running", "exiting", "ended"}]
           /\ runKind' \in [Runs -> {"none", "manual", "scheduled"}]
<1>1. [run |-> NextRun, stage |-> "scan"] \in Workers
  BY DEF StartDiscovery, Workers
<1> QED
  BY <1>1 DEF StartDiscovery, StartWorker, TypeOK

LEMMA CheckTyped ==
    ASSUME TypeOK, PendingIsKnown, check_schedule
    PROVE  ProgramTyped' /\ PendingIsKnown'
<1>1. now \in 0..MaxTime /\ ScheduleTyped /\ GuiTyped /\ FlagsTyped /\ HistoryTyped
  BY TypeParts
<1>2. CASE StartScheduled /\ config' = mark_schedule_started(config) /\ disk' = config' /\ UNCHANGED frames
  <2>1. /\ worker' \in Workers /\ locked' = TRUE
        /\ thread' \in [Workers -> {"unborn", "running", "exiting", "ended"}]
        /\ runKind' \in [Runs -> {"none", "manual", "scheduled"}]
    BY <1>2, DiscoveryTyped DEF StartScheduled
  <2>2. GuiTyped'
    BY <1>1, <1>2, <2>1 DEF GuiTyped, StartScheduled
  <2>3. ScheduleTyped'
    <3>1. mark_schedule_started(config) \in Configs
      BY <1>1, SchedulesAreTyped DEF ScheduleTyped
    <3> QED
      BY <1>1, <1>2, <3>1 DEF ScheduleTyped
  <2>4. starts' \in Seq(0..MaxTime)
    BY <1>1, <1>2 DEF StartScheduled, HistoryTyped
  <2>5. HistoryTyped'
    BY <1>1, <1>2, <2>1, <2>4 DEF HistoryTyped, StartScheduled
  <2>6. FlagsTyped'
    BY <1>1, <1>2, <2>1, Zenon DEF FlagsTyped, StartScheduled
  <2>7. PendingIsKnown' /\ now' = now
    BY <1>2 DEF PendingIsKnown, StartScheduled
  <2> QED
    BY <1>1, <2>2, <2>3, <2>5, <2>6, <2>7, TypeParts
<1>3. CASE Dialog(frames, "disable") /\ UNCHANGED <<now, schedule, flags, window, system, history>>
  <2>1. frames' \in Seq(Frames)
    BY <1>1, <1>3, PlainDialogIsTyped DEF ScheduleTyped, Continuations
  <2>2. ScheduleTyped' /\ GuiTyped' /\ HistoryTyped' /\ PendingIsKnown' /\ now' = now
    BY <1>1, <1>3, <2>1 DEF ScheduleTyped, GuiTyped, HistoryTyped, PendingIsKnown, schedule, flags, system, history
  <2>3. FlagsTyped'
    BY <1>1, <1>3, Zenon DEF FlagsTyped, flags
  <2> QED
    BY <1>1, <2>2, <2>3, TypeParts
<1> QED
  BY <1>2, <1>3 DEF check_schedule

LEMMA UserTyped ==
    ASSUME TypeOK, PendingIsKnown, start_scan \/ stop_scan \/ edit_schedule
    PROVE  ProgramTyped' /\ PendingIsKnown'
<1>1. now \in 0..MaxTime /\ ScheduleTyped /\ GuiTyped /\ FlagsTyped /\ HistoryTyped
  BY TypeParts
<1>2. CASE start_scan
  <2>1. /\ worker' \in Workers /\ locked' = TRUE
        /\ thread' \in [Workers -> {"unborn", "running", "exiting", "ended"}]
        /\ runKind' \in [Runs -> {"none", "manual", "scheduled"}]
    BY <1>2, DiscoveryTyped DEF start_scan
  <2>2. GuiTyped' /\ HistoryTyped' /\ ScheduleTyped' /\ PendingIsKnown' /\ now' = now
    BY <1>1, <1>2, <2>1 DEF start_scan, GuiTyped, HistoryTyped, ScheduleTyped, PendingIsKnown, schedule, gui
  <2>3. FlagsTyped'
    BY <1>1, <1>2, <2>1, Zenon DEF FlagsTyped, start_scan
  <2> QED
    BY <1>1, <2>2, <2>3, TypeParts
<1>3. CASE stop_scan
  <2>1. worker \in Workers
    BY <1>1, <1>3 DEF stop_scan, isRunning, GuiTyped
  <2>2. GuiTyped' /\ HistoryTyped' /\ ScheduleTyped' /\ PendingIsKnown' /\ now' = now
    BY <1>1, <1>3, <2>1 DEF stop_scan, GuiTyped, HistoryTyped, ScheduleTyped, PendingIsKnown, schedule, gui, flags, history
  <2>3. FlagsTyped'
    BY <1>1, <1>3, Zenon DEF FlagsTyped, stop_scan, flags
  <2> QED
    BY <1>1, <2>2, <2>3, TypeParts
<1>4. CASE edit_schedule
  <2>1. PICK candidate \in Candidates : SaveOn(frames, candidate, "nothing")
    BY <1>4 DEF edit_schedule
  <2>2. Candidates \subseteq Configs
    <3>1. now \in 0..MaxTime /\ config \in Configs
      BY <1>1 DEF ScheduleTyped
    <3> QED
      BY <3>1, SchedulesAreTyped DEF Candidates
  <2>3. ScheduleTyped'
    BY <1>1, <2>1, <2>2, SaveIsTyped DEF ScheduleTyped
  <2>4. GuiTyped' /\ HistoryTyped' /\ PendingIsKnown' /\ now' = now
    BY <1>1, <1>4 DEF edit_schedule, GuiTyped, HistoryTyped, PendingIsKnown, flags, system, history
  <2>5. FlagsTyped'
    BY <1>1, <1>4, Zenon DEF FlagsTyped, edit_schedule, flags
  <2> QED
    BY <1>1, <2>3, <2>4, <2>5, TypeParts
<1> QED
  BY <1>2, <1>3, <1>4

\* The slot that the innermost dialog suspended, and what is left of the stack.
Slot == frames[Len(frames)]
Rest == SubSeq(frames, 1, Len(frames) - 1)

\* What a slot does when its dialog is dismissed.
Resumes ==
    \/ /\ Slot.cont = "publish"
       /\ publish_scheduled_snapshot(Rest, pending, pendingRun, fpOutcome[pendingRun])
    \/ /\ Slot.cont = "record" /\ RecordSuccess(Rest, Slot.at)
       /\ UNCHANGED <<pending, settled, snapshots>>
    \/ /\ Slot.cont = "adopt" /\ SnapshotPublished(Rest) /\ config' = Slot.saved
       /\ UNCHANGED <<disk, pending, settled, snapshots>>
    \/ /\ Slot.cont = "disable" /\ frames' = Rest /\ config' = disable_schedule(config)
       /\ UNCHANGED <<disk, pending, settled, snapshots>>
    \/ /\ Slot.cont = "scanFailed" /\ frames' = Rest /\ pending' = FALSE
       /\ UNCHANGED <<schedule, settled, snapshots>>
    \/ /\ Slot.cont = "nothing" /\ frames' = Rest
       /\ UNCHANGED <<schedule, pending, settled, snapshots>>

LEMMA DismissParts ==
    ASSUME TypeOK, Dismiss
    PROVE  /\ Rest \in Seq(Frames) /\ Slot.cont \in Continuations /\ Slot.at \in 0..MaxTime /\ Slot.saved \in Configs
           /\ Resumes /\ frames # <<>>
           /\ UNCHANGED <<now, worker, scanActive, fpActive, locked, closing, window, system,
                          runKind, fpOutcome, pendingRun, persisted, starts>>
<1>1. frames \in Seq(Frames) /\ frames # <<>>
  BY DEF TypeOK, Dismiss
<1>2. Rest \in Seq(Frames) /\ Slot \in Frames
  BY <1>1, FramesPop DEF Rest, Slot
<1>3. Slot.cont \in Continuations /\ Slot.at \in 0..MaxTime /\ Slot.saved \in Configs
  BY <1>2 DEF Frames
<1>4. Resumes
  <2>1. CASE Slot.cont = "publish"
    BY <2>1 DEF Dismiss, Resumes, Slot, Rest
  <2>2. CASE Slot.cont = "record"
    BY <2>2 DEF Dismiss, Resumes, Slot, Rest
  <2>3. CASE Slot.cont = "adopt"
    BY <2>3 DEF Dismiss, Resumes, Slot, Rest
  <2>4. CASE Slot.cont = "disable"
    BY <2>4 DEF Dismiss, Resumes, Slot, Rest
  <2>5. CASE Slot.cont = "scanFailed"
    BY <2>5 DEF Dismiss, Resumes, Slot, Rest
  <2>6. CASE Slot.cont = "nothing"
    BY <2>6 DEF Dismiss, Resumes, Slot, Rest
  <2> QED
    BY <1>3, <2>1, <2>2, <2>3, <2>4, <2>5, <2>6 DEF Continuations
<1> QED
  BY <1>1, <1>2, <1>3, <1>4 DEF Dismiss

LEMMA DismissTyped ==
    ASSUME TypeOK, PendingIsKnown, Dismiss
    PROVE  ProgramTyped' /\ PendingIsKnown'
<1>1. now \in 0..MaxTime /\ ScheduleTyped /\ GuiTyped /\ FlagsTyped /\ HistoryTyped
  BY TypeParts
<1>2. /\ Rest \in Seq(Frames) /\ Slot.cont \in Continuations /\ Slot.at \in 0..MaxTime /\ Slot.saved \in Configs
      /\ Resumes
      /\ UNCHANGED <<now, worker, scanActive, fpActive, locked, closing, window, system,
                     runKind, fpOutcome, pendingRun, persisted, starts>>
  BY DismissParts
<1>3. /\ ScheduleTyped' /\ settled' \subseteq Runs /\ snapshots' \in Seq(Snapshots)
      /\ pending' = FALSE \/ pending' = pending
  <2>1. CASE publish_scheduled_snapshot(Rest, pending, pendingRun, fpOutcome[pendingRun])
    <3>1. pending => pendingRun \in Runs /\ fpOutcome[pendingRun] \in Answers
      BY <1>1 DEF PendingIsKnown, HistoryTyped
    <3> QED
      BY <1>1, <1>2, <2>1, <3>1, PublishIsTyped DEF ScheduleTyped, HistoryTyped
  <2>2. CASE RecordSuccess(Rest, Slot.at) /\ UNCHANGED <<pending, settled, snapshots>>
    BY <1>1, <1>2, <2>2, RecordIsTyped DEF ScheduleTyped, HistoryTyped
  <2>3. CASE SnapshotPublished(Rest) /\ config' = Slot.saved /\ UNCHANGED <<disk, pending, settled, snapshots>>
    <3>1. frames' \in Seq(Frames)
      BY <1>1, <1>2, <2>3, PlainDialogIsTyped DEF SnapshotPublished, Continuations
    <3> QED
      BY <1>1, <1>2, <2>3, <3>1 DEF ScheduleTyped, HistoryTyped
  <2>4. CASE frames' = Rest /\ config' = disable_schedule(config) /\ UNCHANGED <<disk, pending, settled, snapshots>>
    <3>1. disable_schedule(config) \in Configs
      BY <1>1, SchedulesAreTyped DEF ScheduleTyped
    <3> QED
      BY <1>1, <1>2, <2>4, <3>1 DEF ScheduleTyped, HistoryTyped
  <2>5. CASE frames' = Rest /\ pending' = FALSE /\ UNCHANGED <<schedule, settled, snapshots>>
    BY <1>1, <1>2, <2>5 DEF ScheduleTyped, HistoryTyped, schedule
  <2>6. CASE frames' = Rest /\ UNCHANGED <<schedule, pending, settled, snapshots>>
    BY <1>1, <1>2, <2>6 DEF ScheduleTyped, HistoryTyped, schedule
  <2> QED
    BY <1>2, <2>1, <2>2, <2>3, <2>4, <2>5, <2>6 DEF Resumes
<1>4. GuiTyped' /\ HistoryTyped' /\ PendingIsKnown'
  BY <1>1, <1>2, <1>3 DEF GuiTyped, HistoryTyped, PendingIsKnown, system
<1>5. FlagsTyped'
  <2>1. pending' \in BOOLEAN
    BY <1>1, <1>3, Zenon DEF FlagsTyped
  <2> QED
    BY <1>1, <1>2, <2>1, Zenon DEF FlagsTyped
<1> QED
  BY <1>1, <1>2, <1>3, <1>4, <1>5, TypeParts

\* Threads, closing, crash, the next window and the clock.
LEMMA ThreadTyped ==
    ASSUME TypeOK, PendingIsKnown, WorkerStep
    PROVE  ProgramTyped' /\ PendingIsKnown'
<1>1. now \in 0..MaxTime /\ ScheduleTyped /\ GuiTyped /\ FlagsTyped /\ HistoryTyped
  BY TypeParts
<1>2. PICK w \in Workers, kind \in {"result", "error", "cancelled", "finished"} :
          /\ thread' \in {[thread EXCEPT ![w] = "exiting"], [thread EXCEPT ![w] = "ended"]}
          /\ queue' = Append(queue, Signal(kind, w))
          /\ UNCHANGED <<now, schedule, flags, gui, cancelled, history>>
  BY DEF WorkerStep, WorkerEmits, WorkerEnds
<1>3. queue' \in Seq(Signals)
  <2>1. Signal(kind, w) \in Signals
    BY DEF Signal, Signals
  <2> QED
    BY <1>1, <1>2, <2>1, QueuePush DEF GuiTyped
<1>4. thread' \in [Workers -> {"unborn", "running", "exiting", "ended"}]
  BY <1>1, <1>2 DEF GuiTyped
<1>5. GuiTyped' /\ ScheduleTyped' /\ HistoryTyped' /\ PendingIsKnown' /\ now' = now
  BY <1>1, <1>2, <1>3, <1>4 DEF GuiTyped, ScheduleTyped, HistoryTyped, PendingIsKnown, schedule, flags, gui, history
<1>6. FlagsTyped'
  BY <1>1, <1>2, Zenon DEF FlagsTyped, flags
<1> QED
  BY <1>1, <1>5, <1>6, TypeParts

LEMMA CloseTyped ==
    ASSUME TypeOK, PendingIsKnown, closeEvent \/ closeEventEnds \/ retry_deferred_close \/ Tick \/ UNCHANGED vars
    PROVE  ProgramTyped' /\ PendingIsKnown'
<1>1. now \in 0..MaxTime /\ ScheduleTyped /\ GuiTyped /\ FlagsTyped /\ HistoryTyped
  BY TypeParts
<1>2. UNCHANGED <<schedule, worker, scanActive, pending, fpActive, locked, frames, queue, thread, history>>
  BY DEF closeEvent, closeEventEnds, retry_deferred_close, Tick, vars, flags, gui, system
<1>3. now' \in 0..MaxTime
  BY <1>1, Limits DEF closeEvent, closeEventEnds, retry_deferred_close, Tick, vars
<1>4. window' \in {"open", "waiting", "closed", "none"} /\ cancelled' \subseteq Workers
  BY <1>1 DEF GuiTyped, closeEvent, closeEventEnds, Decide, retry_deferred_close, Tick, vars, gui, system, Running
<1>5. GuiTyped' /\ ScheduleTyped' /\ HistoryTyped' /\ PendingIsKnown'
  BY <1>1, <1>2, <1>4 DEF GuiTyped, ScheduleTyped, HistoryTyped, PendingIsKnown, schedule, history
<1>6. FlagsTyped'
  <2>1. closing' = TRUE \/ closing' = closing
    BY DEF closeEvent, closeEventEnds, retry_deferred_close, Tick, vars, flags
  <2> QED
    BY <1>1, <1>2, <2>1, Zenon DEF FlagsTyped
<1> QED
  BY <1>3, <1>5, <1>6, TypeParts

LEMMA RestartTyped ==
    ASSUME TypeOK, PendingIsKnown, Crash \/ Reopen
    PROVE  ProgramTyped' /\ PendingIsKnown'
<1>1. now \in 0..MaxTime /\ ScheduleTyped /\ GuiTyped /\ FlagsTyped /\ HistoryTyped
  BY TypeParts
<1>2. CASE Crash
  <2>1. thread' \in [Workers -> {"unborn", "running", "exiting", "ended"}]
    BY <1>1, <1>2 DEF Crash, GuiTyped
  <2>2. /\ frames' = <<>> /\ queue' = <<>> /\ window' = "none" /\ settled' = settled \cup persisted
        /\ UNCHANGED <<now, schedule, flags, cancelled, runKind, fpOutcome, pendingRun, persisted, snapshots, starts>>
    BY <1>2 DEF Crash
  <2>3. ScheduleTyped' /\ GuiTyped' /\ HistoryTyped' /\ PendingIsKnown'
    BY <1>1, <2>1, <2>2 DEF ScheduleTyped, GuiTyped, HistoryTyped, PendingIsKnown, schedule, flags
  <2>4. FlagsTyped'
    BY <1>1, <2>2, Zenon DEF FlagsTyped, flags
  <2> QED
    BY <1>1, <2>2, <2>3, <2>4, TypeParts
<1>3. CASE Reopen
  <2>1. disabled_schedule \in Configs
    BY Limits DEF disabled_schedule, Configs
  <2>2. ScheduleTyped' /\ GuiTyped' /\ HistoryTyped' /\ PendingIsKnown' /\ now' = now
    BY <1>1, <1>3, <2>1 DEF Reopen, ScheduleTyped, GuiTyped, HistoryTyped, PendingIsKnown, system, history
  <2>3. FlagsTyped'
    BY <1>3, Zenon DEF Reopen, FlagsTyped
  <2> QED
    BY <1>1, <2>2, <2>3, TypeParts
<1> QED
  BY <1>2, <1>3

\* Signals, the poll timer and the retry of a deferred close take turns; nothing else does.
LEMMA TurnsKept ==
    ASSUME TypeOK, [Next]_vars
    PROVE  /\ TurnsTyped' /\ (left => left') /\ (overtaken => overtaken')
<1>1. TurnsTyped
  BY Zenon DEF TypeOK, TurnsTyped
<1>2. CASE UNCHANGED turns
  BY <1>1, <1>2, Zenon DEF TurnsTyped, turns
<1>3. CASE Turn /\ overtaken' = overtaken
  BY <1>1, <1>3, Zenon DEF TurnsTyped, Turn
<1>4. CASE PollTurn
  BY <1>1, <1>4, Zenon DEF TurnsTyped, PollTurn, Turn
<1>5. Deliver => Turn /\ overtaken' = overtaken
  BY DEF Deliver, scan_finished, scan_failed, fingerprint_finished, fingerprint_degraded,
         fingerprint_cancelled, worker_finished, Delivering, Finishing, SignalTurn
<1>6. check_schedule => PollTurn
  BY DEF check_schedule, CheckDue
<1>7. retry_deferred_close => Turn /\ overtaken' = overtaken
  BY DEF retry_deferred_close
<1>8. WorkerStep \/ start_scan \/ stop_scan \/ edit_schedule \/ Dismiss \/ closeEvent \/ closeEventEnds
      \/ Crash \/ Reopen \/ Tick \/ UNCHANGED vars => UNCHANGED turns
  BY DEF WorkerStep, WorkerEmits, WorkerEnds, start_scan, stop_scan, edit_schedule, Dismiss, closeEvent,
         closeEventEnds, Crash, Reopen, Tick, vars
<1> QED
  BY <1>2, <1>3, <1>4, <1>5, <1>6, <1>7, <1>8 DEF Next

\* Every variable of scheduled monitoring keeps its type, a schedule is never further ahead than
\* one interval, and a pending run is a run: for every number of runs and interval.
THEOREM TypeCorrect == Spec => [](TypeOK /\ PendingIsKnown)
<1>1. Init => TypeOK /\ PendingIsKnown
  <2> SUFFICES ASSUME Init PROVE TypeOK /\ PendingIsKnown
    OBVIOUS
  <2>1. now = 0 /\ now \in 0..MaxTime
    BY Limits DEF Init
  <2>2. disk \in Configs /\ config \in Configs
    <3>1. disabled_schedule \in Configs
      BY Limits DEF disabled_schedule, Configs
    <3>2. \A a \in BOOLEAN : create_schedule(a) \in Configs
      BY <2>1, <3>1, SchedulesAreTyped
    <3> QED
      BY <3>1, <3>2 DEF Init
  <2>3. ScheduleTyped /\ GuiTyped /\ PendingIsKnown
    BY <2>2 DEF Init, ScheduleTyped, GuiTyped, PendingIsKnown
  <2>4. HistoryTyped
    <3>1. 0 \in 0..MaxRuns
      BY Limits
    <3>2. runKind \in [Runs -> {"none", "manual", "scheduled"}] /\ fpOutcome \in [Runs -> Answers]
      BY DEF Init, Answers
    <3>3. <<>> \in Seq(Snapshots) /\ <<>> \in Seq(0..MaxTime)
      OBVIOUS
    <3> QED
      BY <3>1, <3>2, <3>3, Zenon DEF Init, HistoryTyped
  <2>5. FlagsTyped
    BY Zenon DEF Init, FlagsTyped
  <2>6. left \in BOOLEAN /\ overtaken \in BOOLEAN
    BY Zenon DEF Init
  <2> QED
    BY <2>1, <2>3, <2>4, <2>5, <2>6, Zenon DEF TypeOK, ScheduleTyped, GuiTyped, FlagsTyped, HistoryTyped
<1>2. TypeOK /\ PendingIsKnown /\ [Next]_vars => TypeOK' /\ PendingIsKnown'
  <2> SUFFICES ASSUME TypeOK, PendingIsKnown, [Next]_vars PROVE TypeOK' /\ PendingIsKnown'
    OBVIOUS
  <2>1. ProgramTyped' /\ PendingIsKnown'
    BY ScanFinishedTyped, FingerprintTyped, FinishedTyped, CheckTyped, UserTyped, DismissTyped, ThreadTyped,
       CloseTyped, RestartTyped DEF Next, Deliver
  <2>2. TurnsTyped'
    BY TurnsKept
  <2> QED
    BY <2>1, <2>2, Zenon DEF TypeOK, ProgramTyped, TurnsTyped, ScheduleTyped, GuiTyped, FlagsTyped, HistoryTyped
<1> QED
  BY <1>1, <1>2, PTL DEF Spec

-----------------------------------------------------------------------------
(* Two scheduled runs start at least one interval apart, while dialogs are read *)
(* before anything else is handled.  h stands for the history of starts.          *)

Spacing == \A i \in 1..(Len(starts) - 1) : starts[i + 1] >= starts[i] + Interval

\* c would not be due before one interval after every start.
Spaced(c, h) == c.enabled => \A i \in 1..Len(h) : c.nextRun >= h[i] + Interval
Recent(t, h) == \A i \in 1..Len(h) : h[i] <= t

\* A suspended slot will write a schedule that is spaced too.
FrameSpaced(f, h) ==
    /\ f.cont = "record" => Recent(f.at, h)
    /\ f.cont = "adopt" => Spaced(f.saved, h)
StackSpaced(s, h) == \A k \in 1..Len(s) : FrameSpaced(s[k], h)

ScheduleSpaced == Spaced(disk, starts) /\ Spaced(config, starts) /\ StackSpaced(frames, starts)
SpacedInv == ScheduleSpaced /\ Recent(now, starts) /\ Spacing

\* What scheduler.py makes of a spaced schedule is spaced.
LEMMA ChangesAreSpaced ==
    ASSUME TypeOK, Recent(now, starts), NEW c \in Configs, Spaced(c, starts),
           NEW t \in 0..MaxTime, Recent(t, starts), NEW a \in BOOLEAN
    PROVE  /\ Spaced(disabled_schedule, starts) /\ Spaced(create_schedule(a), starts)
           /\ Spaced(disable_schedule(c), starts) /\ Spaced(change_schedule_interval(c), starts)
           /\ Spaced(mark_schedule_success(c, t), starts)
           /\ Spaced([c EXCEPT !.automatic = ~c.automatic], starts)
<1>1. now \in Nat /\ t \in Nat /\ Interval \in Nat /\ \A i \in 1..Len(starts) : starts[i] \in Nat
  BY Limits DEF TypeOK
<1>2. \A i \in 1..Len(starts) : now + Interval >= starts[i] + Interval /\ t + Interval >= starts[i] + Interval
  BY <1>1 DEF Recent
<1>3. Spaced(disabled_schedule, starts) /\ Spaced(create_schedule(a), starts)
  BY <1>2 DEF Spaced, disabled_schedule, create_schedule
<1>4. Spaced(disable_schedule(c), starts)
  BY DEF Spaced, disable_schedule, Configs
<1>5. Spaced(change_schedule_interval(c), starts) /\ Spaced(mark_schedule_success(c, t), starts)
  BY <1>2 DEF Spaced, change_schedule_interval, mark_schedule_success, Configs
<1>6. Spaced([c EXCEPT !.automatic = ~c.automatic], starts)
  BY DEF Spaced, Configs
<1> QED
  BY <1>3, <1>4, <1>5, <1>6

\* A dialog suspends its slot with spaced local variables.
LEMMA DialogIsSpaced ==
    ASSUME NEW h, NEW s \in Seq(Frames), StackSpaced(s, h), NEW cont \in Continuations,
           NEW t \in 0..MaxTime, NEW c \in Configs, DialogWith(s, cont, t, c),
           cont = "record" => Recent(t, h), cont = "adopt" => Spaced(c, h)
    PROVE  StackSpaced(frames', h)
<1> DEFINE f == [cont |-> cont, at |-> t, saved |-> c]
<1>1. f \in Frames /\ FrameSpaced(f, h)
  BY DEF Frames, FrameSpaced
<1>2. frames' = Append(s, f)
  BY DEF DialogWith
<1> HIDE DEF f
<1>3. \A k \in 1..Len(frames') : (k \in 1..Len(s) /\ frames'[k] = s[k]) \/ frames'[k] = f
  BY <1>1, <1>2, FramesPush
<1> QED
  BY <1>1, <1>3 DEF StackSpaced

LEMMA PlainDialogIsSpaced ==
    ASSUME now \in 0..MaxTime, NEW h, NEW s \in Seq(Frames), StackSpaced(s, h),
           NEW cont \in Continuations \ {"record", "adopt"}, Dialog(s, cont)
    PROVE  StackSpaced(frames', h)
<1>1. disabled_schedule \in Configs /\ 0 \in 0..MaxTime
  BY Limits DEF disabled_schedule, Configs
<1> QED
  BY <1>1, DialogIsSpaced DEF Dialog

LEMMA RecordIsSpaced ==
    ASSUME TypeOK, Recent(now, starts), Spaced(disk, starts), Spaced(config, starts),
           NEW s \in Seq(Frames), StackSpaced(s, starts), NEW t \in 0..MaxTime, Recent(t, starts),
           RecordSuccess(s, t), starts' = starts
    PROVE  ScheduleSpaced'
<1> DEFINE c == mark_schedule_success(config, t)
<1>1. now \in 0..MaxTime /\ config \in Configs
  BY DEF TypeOK
<1>2. c \in Configs /\ Spaced(c, starts)
  BY <1>1, SchedulesAreTyped, ChangesAreSpaced
<1>3. CASE config' = c /\ disk' = c /\ SnapshotPublished(s)
  <2>1. StackSpaced(frames', starts)
    BY <1>1, <1>3, PlainDialogIsSpaced DEF SnapshotPublished, Continuations
  <2> QED
    BY <1>2, <1>3, <2>1 DEF ScheduleSpaced
<1>4. CASE DialogWith(s, "adopt", 0, c) /\ UNCHANGED schedule
  <2>1. 0 \in 0..MaxTime /\ "adopt" \in Continuations
    BY Limits DEF Continuations
  <2> HIDE DEF c
  <2>2. StackSpaced(frames', starts)
    BY <1>2, <1>4, <2>1, DialogIsSpaced
  <2> QED
    BY <1>4, <2>2 DEF ScheduleSpaced, schedule
<1> QED
  BY <1>3, <1>4 DEF RecordSuccess

LEMMA PublishIsSpaced ==
    ASSUME TypeOK, Recent(now, starts), Spaced(disk, starts), Spaced(config, starts),
           NEW s \in Seq(Frames), StackSpaced(s, starts), NEW isPending, NEW run, NEW answer,
           publish_scheduled_snapshot(s, isPending, run, answer), starts' = starts
    PROVE  ScheduleSpaced'
<1>1. now \in 0..MaxTime
  BY DEF TypeOK
<1>2. CASE ~isPending
  BY <1>2 DEF publish_scheduled_snapshot, ScheduleSpaced, schedule
<1>3. CASE Dialog(s, "nothing") /\ UNCHANGED schedule
  <2>1. StackSpaced(frames', starts)
    BY <1>1, <1>3, PlainDialogIsSpaced DEF Continuations
  <2> QED
    BY <1>3, <2>1 DEF ScheduleSpaced, schedule
<1>4. CASE RecordSuccess(s, now)
  BY <1>1, <1>4, RecordIsSpaced
<1>5. CASE DialogWith(s, "record", now, disabled_schedule) /\ UNCHANGED schedule
  <2>1. disabled_schedule \in Configs /\ "record" \in Continuations
    BY Limits DEF disabled_schedule, Configs, Continuations
  <2>2. StackSpaced(frames', starts)
    BY <1>1, <1>5, <2>1, DialogIsSpaced
  <2> QED
    BY <1>5, <2>2 DEF ScheduleSpaced, schedule
<1> QED
  BY <1>2, <1>3, <1>4, <1>5 DEF publish_scheduled_snapshot, PublishOn

\* Slots that go on from a signal.
LEMMA DeliverKeepsSpacing ==
    ASSUME TypeOK, SpacedInv, Deliver
    PROVE  ScheduleSpaced' /\ UNCHANGED <<now, starts>>
<1>1. UNCHANGED <<now, starts>>
  BY DEF Deliver, scan_finished, scan_failed, fingerprint_finished, fingerprint_degraded,
         fingerprint_cancelled, worker_finished, Delivering, Finishing, SignalTurn
<1>2. now \in 0..MaxTime /\ frames \in Seq(Frames) /\ ScheduleSpaced /\ Recent(now, starts)
  BY DEF TypeOK, SpacedInv
<1>3. CASE UNCHANGED <<schedule, frames>>
  BY <1>1, <1>2, <1>3 DEF ScheduleSpaced, schedule
<1>4. ASSUME NEW cont \in {"nothing", "scanFailed", "publish"}, Dialog(frames, cont), UNCHANGED schedule
      PROVE  ScheduleSpaced'
  <2>1. StackSpaced(frames', starts)
    BY <1>2, <1>4, PlainDialogIsSpaced DEF ScheduleSpaced, Continuations
  <2> QED
    BY <1>1, <1>2, <1>4, <2>1 DEF ScheduleSpaced, schedule
<1>5. ASSUME NEW isPending, NEW run, NEW answer, publish_scheduled_snapshot(frames, isPending, run, answer)
      PROVE  ScheduleSpaced'
  BY <1>1, <1>2, <1>5, PublishIsSpaced DEF ScheduleSpaced
<1>6. CASE scan_finished
  BY <1>1, <1>3, <1>4, <1>5, <1>6 DEF scan_finished
<1>7. CASE scan_failed
  BY <1>1, <1>3, <1>4, <1>7 DEF scan_failed
<1>8. CASE fingerprint_finished
  BY <1>1, <1>5, <1>8 DEF fingerprint_finished
<1>9. CASE fingerprint_degraded
  BY <1>1, <1>4, <1>9 DEF fingerprint_degraded
<1>10. CASE fingerprint_cancelled
  BY <1>1, <1>3, <1>10 DEF fingerprint_cancelled
<1>11. CASE worker_finished
  BY <1>1, <1>3, <1>5, <1>11 DEF worker_finished
<1> QED
  BY <1>1, <1>1, <1>6, <1>7, <1>8, <1>9, <1>10, <1>11 DEF Deliver

LEMMA StartsGrow ==
    ASSUME NEW h \in Seq(0..MaxTime), NEW t \in 0..MaxTime
    PROVE  /\ Len(Append(h, t)) = Len(h) + 1 /\ Len(h) \in Nat
           /\ \A i \in 1..Len(Append(h, t)) : Append(h, t)[i] = IF i = Len(h) + 1 THEN t ELSE h[i]
OBVIOUS

\* A scheduled run starts with no dialog open, at least one interval after every other.
LEMMA CheckKeepsSpacing ==
    ASSUME TypeOK, SpacedInv, ~left', check_schedule
    PROVE  SpacedInv'
<1>1. /\ now \in Nat /\ Interval \in Nat /\ starts \in Seq(0..MaxTime) /\ config \in Configs
      /\ frames \in Seq(Frames) /\ now \in 0..MaxTime
      /\ \A i \in 1..Len(starts) : starts[i] \in Nat
  BY Limits DEF TypeOK
<1>2. frames = <<>> /\ config.enabled /\ config.nextRun <= now /\ now' = now
  BY DEF check_schedule, CheckDue, PollTurn, Turn, schedule_due, StartScheduled
<1>3. CASE Dialog(frames, "disable") /\ UNCHANGED <<now, schedule, flags, window, system, history>>
  <2>1. starts' = starts /\ disk' = disk /\ config' = config
    BY <1>3 DEF history, schedule
  <2>2. StackSpaced(frames', starts)
    BY <1>1, <1>3, PlainDialogIsSpaced DEF SpacedInv, ScheduleSpaced, Continuations
  <2> QED
    BY <1>2, <2>1, <2>2 DEF SpacedInv, ScheduleSpaced, Spacing
<1>4. CASE /\ config' = mark_schedule_started(config) /\ disk' = config' /\ frames' = frames
           /\ starts' = Append(starts, now)
  <2>1. \A i \in 1..Len(starts) : now >= starts[i] + Interval /\ starts[i] \in Nat
    <3>1. \A i \in 1..Len(starts) : config.nextRun >= starts[i] + Interval /\ starts[i] \in Nat
      BY <1>1, <1>2 DEF SpacedInv, ScheduleSpaced, Spaced
    <3>2. config.nextRun \in Nat
      BY <1>1, ConfigParts
    <3> QED
      BY <1>1, <1>2, <3>1, <3>2
  <2>2. /\ Len(starts') = Len(starts) + 1 /\ Len(starts) \in Nat
        /\ \A i \in 1..Len(starts') : starts'[i] = IF i = Len(starts) + 1 THEN now ELSE starts[i]
    <3>1. starts \in Seq(0..MaxTime) /\ now \in 0..MaxTime /\ starts' = Append(starts, now)
      BY <1>1, <1>4
    <3> QED
      BY <3>1, StartsGrow, Zenon
  <2>3. Recent(now, starts')
    <3>1. \A i \in 1..Len(starts') : starts'[i] = now \/ (i \in 1..Len(starts) /\ starts'[i] = starts[i])
      BY <2>2
    <3>2. \A i \in 1..Len(starts) : starts[i] <= now
      BY DEF SpacedInv, Recent
    <3>3. now <= now
      BY <1>1
    <3> QED
      BY <3>1, <3>2, <3>3 DEF Recent
  <2>4. Spacing'
    <3> SUFFICES ASSUME NEW i \in 1..(Len(starts') - 1) PROVE starts'[i + 1] >= starts'[i] + Interval
      BY DEF Spacing
    <3>1. i \in 1..Len(starts) /\ i \in 1..Len(starts') /\ i + 1 \in 1..Len(starts')
      BY <2>2
    <3>2. starts'[i] = starts[i]
      BY <2>2, <3>1
    <3>3. CASE i = Len(starts)
      BY <1>1, <2>1, <2>2, <3>1, <3>2, <3>3
    <3>4. CASE i \in 1..(Len(starts) - 1)
      <4>1. starts'[i + 1] = starts[i + 1]
        BY <2>2, <3>1, <3>4
      <4>2. starts[i + 1] >= starts[i] + Interval
        BY <3>4 DEF SpacedInv, Spacing
      <4> QED
        BY <3>2, <4>1, <4>2
    <3> QED
      BY <2>2, <3>1, <3>3, <3>4
  <2>5. Spaced(config', starts')
    <3>1. config'.nextRun = now + Interval
      BY <1>1, <1>4 DEF mark_schedule_started, Configs
    <3>2. \A i \in 1..Len(starts') : now >= starts'[i] /\ starts'[i] \in Nat
      BY <1>1, <2>1, <2>2, <2>3 DEF Recent
    <3> QED
      BY <1>1, <3>1, <3>2 DEF Spaced
  <2>6. StackSpaced(frames', starts')
    BY <1>2, <1>4 DEF StackSpaced
  <2> QED
    BY <1>2, <1>4, <2>3, <2>4, <2>5, <2>6 DEF SpacedInv, ScheduleSpaced
<1> QED
  BY <1>3, <1>4 DEF check_schedule, StartScheduled

LEMMA DismissKeepsSpacing ==
    ASSUME TypeOK, SpacedInv, Dismiss
    PROVE  SpacedInv'
<1>1. /\ Rest \in Seq(Frames) /\ Slot.cont \in Continuations /\ Slot.at \in 0..MaxTime /\ Slot.saved \in Configs
      /\ Resumes /\ frames # <<>> /\ now' = now /\ starts' = starts
  BY DismissParts
<1>2. /\ now \in 0..MaxTime /\ config \in Configs /\ frames \in Seq(Frames) /\ Recent(now, starts)
      /\ Spaced(disk, starts) /\ Spaced(config, starts) /\ StackSpaced(frames, starts)
  BY DEF TypeOK, SpacedInv, ScheduleSpaced
<1>3. StackSpaced(Rest, starts) /\ FrameSpaced(Slot, starts)
  <2>1. /\ \A k \in 1..Len(Rest) : k \in 1..Len(frames) /\ Rest[k] = frames[k]
        /\ Len(frames) \in 1..Len(frames)
    BY <1>1, <1>2, FramesPop DEF Rest
  <2> QED
    BY <1>2, <2>1 DEF StackSpaced, Slot
<1>4. ScheduleSpaced'
  <2>1. CASE publish_scheduled_snapshot(Rest, pending, pendingRun, fpOutcome[pendingRun])
    BY <1>1, <1>2, <1>3, <2>1, PublishIsSpaced
  <2>2. CASE Slot.cont = "record" /\ RecordSuccess(Rest, Slot.at)
    BY <1>1, <1>2, <1>3, <2>2, RecordIsSpaced DEF FrameSpaced
  <2>3. CASE Slot.cont = "adopt" /\ SnapshotPublished(Rest) /\ config' = Slot.saved /\ disk' = disk
    <3>1. StackSpaced(frames', starts)
      BY <1>1, <1>2, <1>3, <2>3, PlainDialogIsSpaced DEF SnapshotPublished, Continuations
    <3> QED
      BY <1>1, <1>2, <1>3, <2>3, <3>1 DEF ScheduleSpaced, FrameSpaced
  <2>4. CASE frames' = Rest /\ config' = disable_schedule(config) /\ disk' = disk
    <3>1. Spaced(disable_schedule(config), starts)
      BY <1>2 DEF Spaced, disable_schedule, Configs
    <3> QED
      BY <1>1, <1>2, <1>3, <2>4, <3>1 DEF ScheduleSpaced
  <2>5. CASE frames' = Rest /\ UNCHANGED schedule
    BY <1>1, <1>2, <1>3, <2>5 DEF ScheduleSpaced, schedule
  <2> QED
    BY <1>1, <2>1, <2>2, <2>3, <2>4, <2>5 DEF Resumes
<1> QED
  BY <1>1, <1>2, <1>4 DEF SpacedInv, Spacing

\* Steps that start no run and write no schedule from a dialog.
LEMMA OthersKeepSpacing ==
    ASSUME TypeOK, SpacedInv,
           \/ WorkerStep \/ start_scan \/ stop_scan \/ edit_schedule \/ closeEvent \/ closeEventEnds
           \/ retry_deferred_close \/ Crash \/ Reopen \/ Tick \/ UNCHANGED vars
    PROVE  SpacedInv'
<1>1. /\ now \in 0..MaxTime /\ config \in Configs /\ disk \in Configs /\ frames \in Seq(Frames)
      /\ Recent(now, starts) /\ Spaced(disk, starts) /\ Spaced(config, starts)
      /\ StackSpaced(frames, starts) /\ Spacing
  BY DEF TypeOK, SpacedInv, ScheduleSpaced
<1>2. CASE Tick
  <2>1. now' = now + 1 /\ disk' = disk /\ config' = config /\ frames' = frames /\ starts' = starts
    BY <1>2 DEF Tick, schedule, gui, history
  <2>2. now \in Nat /\ \A i \in 1..Len(starts) : starts[i] \in Nat
    BY Limits DEF TypeOK
  <2>3. Recent(now + 1, starts)
    BY <1>1, <2>2 DEF Recent
  <2> QED
    BY <1>1, <2>1, <2>3 DEF SpacedInv, ScheduleSpaced, Spacing
<1>3. CASE Crash
  <2>1. UNCHANGED <<now, disk, config, starts>> /\ frames' = <<>>
    BY <1>3 DEF Crash, schedule
  <2>2. StackSpaced(frames', starts)
    BY <2>1 DEF StackSpaced
  <2> QED
    BY <1>1, <2>1, <2>2 DEF SpacedInv, ScheduleSpaced, Spacing
<1>4. CASE Reopen
  <2>1. UNCHANGED <<now, disk, frames, starts>> /\ config' \in {disk, disabled_schedule}
    BY <1>4 DEF Reopen, history
  <2>2. Spaced(config', starts)
    BY <1>1, <2>1 DEF Spaced, disabled_schedule
  <2> QED
    BY <1>1, <2>1, <2>2 DEF SpacedInv, ScheduleSpaced, Spacing
<1>5. CASE edit_schedule
  <2>1. PICK c \in Candidates : SaveOn(frames, c, "nothing")
    BY <1>5 DEF edit_schedule
  <2>2. now' = now /\ starts' = starts
    BY <1>5 DEF edit_schedule, history
  <2>3. Spaced(c, starts)
    <3>1. \A a \in BOOLEAN : Spaced(create_schedule(a), starts)
      BY <1>1, ChangesAreSpaced
    <3>2. \A a \in BOOLEAN : /\ Spaced(disable_schedule(config), starts) /\ Spaced(change_schedule_interval(config), starts)
                              /\ Spaced([config EXCEPT !.automatic = ~config.automatic], starts)
      BY <1>1, ChangesAreSpaced
    <3> QED
      BY <2>1, <3>1, <3>2 DEF Candidates
  <2>4. ScheduleSpaced'
    <3>1. CASE config' = c /\ disk' = c /\ frames' = frames
      BY <1>1, <2>2, <2>3, <3>1 DEF ScheduleSpaced
    <3>2. CASE Dialog(frames, "nothing") /\ UNCHANGED schedule
      <4>1. StackSpaced(frames', starts)
        BY <1>1, <3>2, PlainDialogIsSpaced DEF Continuations
      <4> QED
        BY <1>1, <2>2, <3>2, <4>1 DEF ScheduleSpaced, schedule
    <3> QED
      BY <2>1, <3>1, <3>2 DEF SaveOn
  <2> QED
    BY <1>1, <2>2, <2>4 DEF SpacedInv, Spacing
<1>6. CASE WorkerStep \/ start_scan \/ stop_scan \/ closeEvent \/ closeEventEnds \/ retry_deferred_close \/ UNCHANGED vars
  <2>1. UNCHANGED <<now, disk, config, frames, starts>>
    BY <1>6 DEF WorkerStep, WorkerEmits, WorkerEnds, start_scan, stop_scan, closeEvent, closeEventEnds,
                retry_deferred_close, vars, schedule, gui, history
  <2> QED
    BY <1>1, <2>1 DEF SpacedInv, ScheduleSpaced, Spacing
<1> QED
  BY <1>2, <1>3, <1>4, <1>5, <1>6

\* While no dialog is left open, two scheduled runs start at least one interval apart, across failed
\* saves, crashes and reopened windows, and whichever signals the poll timer overtakes.
THEOREM StartsSpaced == Spec => []StartsAreSpaced
<1>1. Init => SpacedInv
  <2> SUFFICES ASSUME Init PROVE SpacedInv
    OBVIOUS
  <2>1. starts = <<>> /\ frames = <<>>
    BY DEF Init
  <2> QED
    BY <2>1 DEF SpacedInv, ScheduleSpaced, Spaced, Recent, StackSpaced, Spacing
<1>2. TypeOK /\ (~left => SpacedInv) /\ [Next]_vars => (~left => SpacedInv)'
  <2> SUFFICES ASSUME TypeOK, ~left => SpacedInv, [Next]_vars, ~left' PROVE SpacedInv'
    OBVIOUS
  <2>0. SpacedInv
    BY TurnsKept
  <2>1. CASE Deliver
    BY <2>1, <2>0, DeliverKeepsSpacing DEF SpacedInv, Spacing
  <2> QED
    BY <2>0, <2>1, CheckKeepsSpacing, DismissKeepsSpacing, OthersKeepSpacing DEF Next
<1>3. (~left => SpacedInv) => StartsAreSpaced
  BY DEF SpacedInv, Spacing, StartsAreSpaced
<1> QED
  BY <1>1, <1>2, <1>3, TypeCorrect, PTL DEF Spec

-----------------------------------------------------------------------------
(* Never two workers at once, while the poll timer overtakes no queued signal.       *)

\* What runs is self.worker, and the controls are locked.
HeldInv == \A w \in Workers : isRunning(w) => w = worker /\ locked = TRUE

\* While the end of a worker is on its way nothing runs, no other end is on its way and the
\* controls stay locked.
EndInv ==
    \A k \in 1..Len(queue) : queue[k].kind = "finished" =>
        /\ locked = TRUE
        /\ \A w \in Workers : ~isRunning(w)
        /\ \A j \in 1..Len(queue) : queue[j].kind = "finished" => j = k

AloneInv == HeldInv /\ EndInv

\* The queue after a signal, and after one more.
LEMMA TailOfQueue ==
    ASSUME NEW q \in Seq(Signals), q # <<>>
    PROVE  /\ Len(Tail(q)) = Len(q) - 1 /\ Len(q) \in Nat /\ Len(q) >= 1
           /\ \A k \in 1..Len(Tail(q)) : k + 1 \in 1..Len(q) /\ Tail(q)[k] = q[k + 1]
           /\ Head(q) = q[1] /\ 1 \in 1..Len(q)
OBVIOUS

LEMMA EndOfQueue ==
    ASSUME NEW q \in Seq(Signals), NEW x \in Signals
    PROVE  /\ Len(Append(q, x)) = Len(q) + 1 /\ Len(q) \in Nat
           /\ \A k \in 1..Len(Append(q, x)) :
                 \/ k \in 1..Len(q) /\ Append(q, x)[k] = q[k]
                 \/ k = Len(q) + 1 /\ Append(q, x)[k] = x
OBVIOUS

\* A signal that is not an end leaves the queue.
LEMMA DeliveringKeepsAlone ==
    ASSUME TypeOK, AloneInv, queue # <<>>, queue' = Tail(queue), UNCHANGED <<worker, locked, thread>>
    PROVE  AloneInv'
<1>1. queue \in Seq(Signals)
  BY DEF TypeOK
<1>2. HeldInv'
  BY DEF AloneInv, HeldInv, isRunning
<1>3. EndInv'
  <2> SUFFICES ASSUME NEW k \in 1..Len(queue'), queue'[k].kind = "finished"
               PROVE  /\ locked' = TRUE /\ \A w \in Workers : ~isRunning(w)'
                      /\ \A j \in 1..Len(queue') : queue'[j].kind = "finished" => j = k
    BY DEF EndInv
  <2>1. /\ \A j \in 1..Len(queue') : j + 1 \in 1..Len(queue) /\ queue'[j] = queue[j + 1]
        /\ k \in Nat /\ \A j \in 1..Len(queue') : j \in Nat
    BY <1>1, TailOfQueue
  <2>2. /\ locked = TRUE /\ \A w \in Workers : ~isRunning(w)
        /\ \A j \in 1..Len(queue) : queue[j].kind = "finished" => j = k + 1
    BY <2>1 DEF AloneInv, EndInv
  <2>3. \A j \in 1..Len(queue') : queue'[j].kind = "finished" => j + 1 = k + 1
    BY <2>1, <2>2
  <2> QED
    BY <2>1, <2>2, <2>3 DEF isRunning
<1> QED
  BY <1>2, <1>3 DEF AloneInv

\* An end leaves the queue with no other in it and nothing running.
LEMMA EndLeavesNone ==
    ASSUME TypeOK, AloneInv, Finishing
    PROVE  /\ \A w \in Workers : ~isRunning(w)
           /\ \A k \in 1..Len(queue') : queue'[k].kind # "finished"
<1>1. queue \in Seq(Signals) /\ queue # <<>> /\ queue' = Tail(queue) /\ Head(queue).kind = "finished"
  BY DEF TypeOK, Finishing, SignalTurn
<1>2. queue[1].kind = "finished" /\ 1 \in 1..Len(queue)
  BY <1>1, TailOfQueue
<1>3. /\ \A w \in Workers : ~isRunning(w)
      /\ \A j \in 1..Len(queue) : queue[j].kind = "finished" => j = 1
  BY <1>2 DEF AloneInv, EndInv
<1>4. \A k \in 1..Len(queue') : k \in Nat /\ k >= 1 /\ k + 1 \in 1..Len(queue) /\ queue'[k] = queue[k + 1]
  BY <1>1, TailOfQueue
<1> QED
  BY <1>3, <1>4

\* A worker starts when nothing runs and no end is on its way.
LEMMA StartKeepsAlone ==
    ASSUME TypeOK, NEW v \in Workers, StartWorker(v), \A w \in Workers : ~isRunning(w),
           \A k \in 1..Len(queue') : queue'[k].kind # "finished"
    PROVE  AloneInv'
<1>1. worker' = v /\ locked' = TRUE /\ thread' = [thread EXCEPT ![v] = "running"]
  BY DEF StartWorker
<1>2. \A w \in Workers : isRunning(w)' => w = v
  BY <1>1 DEF isRunning, TypeOK
<1> QED
  BY <1>1, <1>2 DEF AloneInv, HeldInv, EndInv

LEMMA FinishedKeepsAlone ==
    ASSUME TypeOK, PendingIsKnown, AloneInv, worker_finished
    PROVE  AloneInv'
<1>1. /\ \A w \in Workers : ~isRunning(w)
      /\ \A k \in 1..Len(queue') : queue'[k].kind # "finished"
  BY EndLeavesNone DEF worker_finished
<1>2. CASE Forget
  BY <1>1, <1>2 DEF Forget, AloneInv, HeldInv, EndInv, isRunning
<1>3. CASE pending /\ StartWorker([run |-> pendingRun, stage |-> "fingerprint"])
  <2>1. [run |-> pendingRun, stage |-> "fingerprint"] \in Workers
    BY <1>3 DEF PendingIsKnown, Workers
  <2> QED
    BY <1>1, <1>3, <2>1, StartKeepsAlone
<1> QED
  BY <1>2, <1>3 DEF worker_finished

\* An unlocked window, or one whose queue is empty and whose worker has ended, runs nothing.
LEMMA StartersKeepAlone ==
    ASSUME TypeOK, AloneInv, ~overtaken', check_schedule \/ start_scan
    PROVE  AloneInv'
<1>1. CASE Dialog(frames, "disable") /\ UNCHANGED <<now, schedule, flags, window, system, history>>
  BY <1>1 DEF flags, system, AloneInv, HeldInv, EndInv, isRunning
<1>2. ASSUME NEW kind, StartDiscovery(kind), queue' = queue, queue = <<>> \/ locked = FALSE
      PROVE  AloneInv'
  <2>1. ~isRunning(worker) /\ StartWorker([run |-> NextRun, stage |-> "scan"])
        /\ [run |-> NextRun, stage |-> "scan"] \in Workers
    BY <1>2 DEF StartDiscovery, Workers
  <2>2. \A w \in Workers : ~isRunning(w)
    BY <2>1 DEF AloneInv, HeldInv
  <2>3. \A k \in 1..Len(queue') : queue'[k].kind # "finished"
    BY <1>2 DEF AloneInv, EndInv
  <2> QED
    BY <2>1, <2>2, <2>3, StartKeepsAlone
<1>3. CASE check_schedule
  BY <1>1, <1>2, <1>3 DEF check_schedule, CheckDue, PollTurn, StartScheduled
<1>4. CASE start_scan
  <2>1. locked = FALSE
    BY <1>4, Zenon DEF start_scan, TypeOK
  <2> QED
    BY <1>2, <1>4, <2>1 DEF start_scan
<1> QED
  BY <1>3, <1>4

\* A thread's outcome, and its end.
LEMMA ThreadsKeepAlone ==
    ASSUME TypeOK, AloneInv, WorkerStep
    PROVE  AloneInv'
<1>1. PICK v \in Workers : (\E kind \in {"result", "error", "cancelled"} : WorkerEmits(v, kind)) \/ WorkerEnds(v)
  BY DEF WorkerStep
<1>2. isRunning(v) /\ worker' = worker /\ locked' = locked /\ queue \in Seq(Signals)
  BY <1>1, Limits DEF WorkerEmits, WorkerEnds, isRunning, flags, TypeOK, Workers, Runs, NoWorker
<1>3. v = worker /\ locked = TRUE /\ \A k \in 1..Len(queue) : queue[k].kind # "finished"
  BY <1>2 DEF AloneInv, HeldInv, EndInv
<1>4. \A w \in Workers : isRunning(w)' => isRunning(w)
  BY <1>1, <1>2 DEF WorkerEmits, WorkerEnds, isRunning, TypeOK
<1>5. HeldInv'
  BY <1>2, <1>4 DEF AloneInv, HeldInv
<1>6. CASE \E kind \in {"result", "error", "cancelled"} : WorkerEmits(v, kind)
  <2>1. PICK kind \in {"result", "error", "cancelled"} : WorkerEmits(v, kind)
    BY <1>6
  <2>2. queue' = Append(queue, Signal(kind, v)) /\ Signal(kind, v) \in Signals /\ Signal(kind, v).kind # "finished"
    BY <2>1 DEF WorkerEmits, Signal, Signals
  <2>3. \A k \in 1..Len(queue') : queue'[k].kind # "finished"
    BY <1>2, <1>3, <2>2, EndOfQueue
  <2> QED
    BY <1>5, <2>3 DEF AloneInv, EndInv
<1>7. CASE WorkerEnds(v)
  <2>1. /\ queue' = Append(queue, Signal("finished", v)) /\ Signal("finished", v) \in Signals
        /\ thread' = [thread EXCEPT ![v] = "ended"]
    BY <1>7 DEF WorkerEnds, Signal, Signals
  <2>2. \A k \in 1..Len(queue') : queue'[k].kind = "finished" => k = Len(queue) + 1
    BY <1>2, <1>3, <2>1, EndOfQueue
  <2>3. \A w \in Workers : ~isRunning(w)'
    <3>1. ~isRunning(v)'
      BY <2>1 DEF isRunning, TypeOK
    <3> QED
      BY <1>3, <1>4, <3>1 DEF AloneInv, HeldInv
  <2> QED
    BY <1>2, <1>3, <1>5, <2>2, <2>3 DEF AloneInv, EndInv
<1> QED
  BY <1>1, <1>6, <1>7

LEMMA OthersKeepAlone ==
    ASSUME TypeOK, AloneInv,
           \/ stop_scan \/ edit_schedule \/ Dismiss \/ closeEvent \/ closeEventEnds
           \/ retry_deferred_close \/ Crash \/ Reopen \/ Tick \/ UNCHANGED vars
    PROVE  AloneInv'
<1>1. CASE UNCHANGED <<worker, locked, queue, thread>>
  BY <1>1 DEF AloneInv, HeldInv, EndInv, isRunning
<1>2. CASE Crash
  <2>1. queue' = <<>> /\ \A w \in Workers : ~isRunning(w)'
    BY <1>2 DEF Crash, isRunning
  <2> QED
    BY <2>1 DEF AloneInv, HeldInv, EndInv
<1>3. CASE Reopen
  <2>1. queue' = <<>> /\ \A w \in Workers : ~isRunning(w)'
    BY <1>3 DEF Reopen, Running, isRunning, system
  <2> QED
    BY <2>1 DEF AloneInv, HeldInv, EndInv
<1> QED
  BY <1>1, <1>2, <1>3 DEF stop_scan, edit_schedule, Dismiss, closeEvent, closeEventEnds,
                          retry_deferred_close, Tick, vars, flags, system

LEMMA AloneStep ==
    ASSUME TypeOK, PendingIsKnown, AloneInv, ~overtaken', [Next]_vars
    PROVE  AloneInv'
<1>1. CASE scan_finished \/ scan_failed \/ fingerprint_finished \/ fingerprint_degraded \/ fingerprint_cancelled
  BY <1>1, DeliveringKeepsAlone DEF scan_finished, scan_failed, fingerprint_finished,
     fingerprint_degraded, fingerprint_cancelled, Delivering, SignalTurn
<1> QED
  BY <1>1, FinishedKeepsAlone, StartersKeepAlone, ThreadsKeepAlone, OthersKeepAlone DEF Next, Deliver

\* While the poll timer overtakes no queued signal, at most one Network Intelligence worker runs at a
\* time, whatever dialogs are left open, though nothing but self.worker, the lock and the flags keeps
\* them apart.
THEOREM NeverOverlaps == Spec => []NoOverlap
<1>1. Init => AloneInv
  BY DEF Init, AloneInv, HeldInv, EndInv, isRunning
<1>2. TypeOK /\ PendingIsKnown /\ (~overtaken => AloneInv) /\ [Next]_vars => (~overtaken => AloneInv)'
  BY AloneStep, TurnsKept
<1>3. (~overtaken => AloneInv) => NoOverlap
  <2> SUFFICES ASSUME AloneInv PROVE Cardinality(Running) <= 1
    BY DEF NoOverlap
  <2>1. Running \subseteq {worker}
    BY DEF AloneInv, HeldInv, Running
  <2>2. IsFiniteSet({worker}) /\ Cardinality({worker}) = 1
    BY FS_Singleton
  <2>3. Cardinality(Running) <= Cardinality({worker}) /\ IsFiniteSet(Running)
    BY <2>1, <2>2, FS_Subset
  <2>4. Cardinality(Running) \in Nat
    BY <2>3, FS_CardinalityType
  <2> QED
    BY <2>2, <2>3, <2>4
<1> QED
  BY <1>1, <1>2, <1>3, TypeCorrect, PTL DEF Spec

-----------------------------------------------------------------------------
(* What is published.  The queue never holds more than the outcome and the end   *)
(* of self.worker, in that order, and a run that waits for its fingerprinting has  *)
(* one of them still to come.                                                      *)

FlightInv ==
    /\ worker \in Workers => thread[worker] # "unborn"
    /\ queue # <<>> => worker \in Workers /\ thread[worker] # "running" /\ locked = TRUE
    /\ \A k \in 1..Len(queue) :
          /\ queue[k].worker = worker
          /\ queue[k].kind # "finished" => k = 1
          /\ queue[k].kind = "finished" => k = Len(queue) /\ thread[worker] = "ended"
    /\ queue # <<>> /\ thread[worker] = "ended" => queue[Len(queue)].kind = "finished"

LEMMA NoWorkerIsNone == NoWorker \notin Workers
BY Limits DEF NoWorker, Workers, Runs

\* An outcome is delivered: it is self.worker's, and its end is still to come.
LEMMA OutcomeDelivered ==
    ASSUME TypeOK, AloneInv, FlightInv, queue # <<>>, queue' = Tail(queue), Head(queue).kind # "finished"
    PROVE  /\ Sender = worker /\ worker \in Workers /\ thread[worker] # "running"
           /\ 1 \in 1..Len(queue) /\ queue[1] = Head(queue)
           /\ isRunning(worker) \/ queue' # <<>>
           /\ \A k \in 1..Len(queue') : /\ queue'[k].kind = "finished" /\ queue'[k].worker = worker
                                        /\ k = Len(queue') /\ thread[worker] = "ended"
<1>1. queue \in Seq(Signals) /\ thread \in [Workers -> {"unborn", "running", "exiting", "ended"}]
  BY DEF TypeOK
<1>2. /\ Len(queue') = Len(queue) - 1 /\ Len(queue) \in Nat /\ Len(queue) >= 1
      /\ \A k \in 1..Len(queue') : k \in Nat /\ k >= 1 /\ k + 1 \in 1..Len(queue) /\ queue'[k] = queue[k + 1]
      /\ Head(queue) = queue[1] /\ 1 \in 1..Len(queue)
  BY <1>1, TailOfQueue
<1>3. Sender = worker /\ worker \in Workers /\ thread[worker] # "running"
  BY <1>2 DEF Sender, FlightInv
<1>4. ASSUME NEW k \in 1..Len(queue')
      PROVE  /\ queue'[k].kind = "finished" /\ queue'[k].worker = worker
             /\ k = Len(queue') /\ thread[worker] = "ended"
  <2>1. k \in Nat /\ k >= 1 /\ k + 1 \in 1..Len(queue) /\ queue'[k] = queue[k + 1] /\ k + 1 # 1
    BY <1>2
  <2>2. queue[k + 1].kind = "finished" /\ queue[k + 1].worker = worker
    BY <2>1 DEF FlightInv
  <2>3. k + 1 = Len(queue) /\ thread[worker] = "ended"
    BY <2>1, <2>2 DEF FlightInv
  <2>4. Len(queue') = Len(queue) - 1 /\ k \in Nat /\ Len(queue) \in Nat
    BY <1>2
  <2>5. k = Len(queue')
    BY <2>3, <2>4
  <2> QED
    BY <2>1, <2>2, <2>3, <2>5
<1>5. isRunning(worker) \/ queue' # <<>>
  <2>1. CASE thread[worker] = "ended"
    <3>1. Len(queue) # 1
      BY <1>2, <2>1 DEF FlightInv
    <3> QED
      BY <1>2, <3>1
  <2>2. CASE thread[worker] = "exiting"
    BY <1>3, <2>2, NoWorkerIsNone DEF isRunning
  <2> QED
    BY <1>1, <1>3, <2>1, <2>2 DEF FlightInv
<1> QED
  BY <1>2, <1>3, <1>4, <1>5

\* The end of a worker is the last signal.
LEMMA EndDelivered ==
    ASSUME TypeOK, FlightInv, Finishing
    PROVE  /\ queue' = <<>> /\ worker \in Workers /\ thread[worker] = "ended"
           /\ Len(queue) = 1 /\ queue[1].kind = "finished"
<1>1. queue \in Seq(Signals) /\ queue # <<>> /\ queue' = Tail(queue) /\ Head(queue).kind = "finished"
  BY DEF TypeOK, Finishing, SignalTurn
<1>2. /\ Len(queue') = Len(queue) - 1 /\ Head(queue) = queue[1] /\ 1 \in 1..Len(queue)
      /\ queue' \in Seq(Signals)
  BY <1>1, TailOfQueue, QueuePop
<1>3. Len(queue) = 1 /\ worker \in Workers /\ thread[worker] = "ended"
  BY <1>1, <1>2 DEF FlightInv
<1> QED
  BY <1>1, <1>2, <1>3

LEMMA FlightStep ==
    ASSUME TypeOK, PendingIsKnown, AloneInv, FlightInv, ~overtaken', [Next]_vars
    PROVE  FlightInv'
<1>1. /\ queue \in Seq(Signals) /\ thread \in [Workers -> {"unborn", "running", "exiting", "ended"}]
      /\ worker \in Workers \cup {NoWorker}
  BY DEF TypeOK
<1>2. CASE UNCHANGED <<worker, queue, thread, locked>>
  BY <1>2 DEF FlightInv
<1>3. CASE scan_finished \/ scan_failed \/ fingerprint_finished \/ fingerprint_degraded \/ fingerprint_cancelled
  <2>1. /\ queue # <<>> /\ queue' = Tail(queue) /\ Head(queue).kind # "finished"
        /\ UNCHANGED <<worker, thread, locked>>
    BY <1>3 DEF scan_finished, scan_failed, fingerprint_finished, fingerprint_degraded,
                fingerprint_cancelled, Delivering, SignalTurn
  <2>2. queue' \in Seq(Signals)
    BY <1>1, <2>1, QueuePop
  <2>3. /\ worker \in Workers /\ thread[worker] # "running"
        /\ \A k \in 1..Len(queue') : /\ queue'[k].kind = "finished" /\ queue'[k].worker = worker
                                     /\ k = Len(queue') /\ thread[worker] = "ended"
    BY <2>1, OutcomeDelivered
  <2>4. queue' # <<>> => Len(queue') \in 1..Len(queue')
    BY <2>2
  <2> QED
    BY <2>1, <2>3, <2>4 DEF FlightInv
<1>4. CASE worker_finished
  <2>1. queue' = <<>>
    BY <1>4, EndDelivered DEF worker_finished
  <2>2. CASE Forget
    BY <2>1, <2>2, NoWorkerIsNone DEF Forget, FlightInv
  <2>3. CASE pending /\ StartWorker([run |-> pendingRun, stage |-> "fingerprint"])
    <3>1. [run |-> pendingRun, stage |-> "fingerprint"] \in Workers
      BY <2>3 DEF PendingIsKnown, Workers
    <3> QED
      BY <1>1, <2>1, <2>3, <3>1 DEF StartWorker, FlightInv
  <2> QED
    BY <1>4, <2>2, <2>3 DEF worker_finished
<1>5. ASSUME NEW kind, StartDiscovery(kind), queue' = queue, queue = <<>> \/ locked = FALSE
      PROVE  FlightInv'
  <2>1. [run |-> NextRun, stage |-> "scan"] \in Workers /\ queue' = <<>>
    BY <1>5 DEF StartDiscovery, Workers, FlightInv
  <2> QED
    BY <1>1, <1>5, <2>1 DEF StartDiscovery, StartWorker, FlightInv
<1>6. CASE check_schedule
  BY <1>2, <1>5, <1>6 DEF check_schedule, CheckDue, PollTurn, StartScheduled, flags, system
<1>7. CASE start_scan
  <2>1. locked = FALSE
    BY <1>7, Zenon DEF start_scan, TypeOK
  <2> QED
    BY <1>5, <1>7, <2>1 DEF start_scan
<1>8. CASE WorkerStep
  <2>1. PICK v \in Workers : (\E kind \in {"result", "error", "cancelled"} : WorkerEmits(v, kind)) \/ WorkerEnds(v)
    BY <1>8 DEF WorkerStep
  <2>2. isRunning(v) /\ worker' = worker /\ locked' = locked
    BY <2>1, NoWorkerIsNone DEF WorkerEmits, WorkerEnds, isRunning, flags
  <2>3. v = worker /\ locked = TRUE
    BY <2>2 DEF AloneInv, HeldInv
  <2>4. CASE \E kind \in {"result", "error", "cancelled"} : WorkerEmits(v, kind)
    <3>1. PICK kind \in {"result", "error", "cancelled"} : WorkerEmits(v, kind)
      BY <2>4
    <3>2. /\ queue' = Append(queue, Signal(kind, v)) /\ Signal(kind, v) \in Signals
          /\ Signal(kind, v).kind # "finished" /\ Signal(kind, v).worker = v
          /\ queue = <<>> /\ thread' = [thread EXCEPT ![v] = "exiting"]
      BY <2>3, <3>1 DEF WorkerEmits, Signal, Signals, FlightInv
    <3>3. Len(queue') = 1 /\ queue'[1] = Signal(kind, v)
      BY <1>1, <3>2
    <3> QED
      BY <1>1, <2>2, <2>3, <3>2, <3>3 DEF FlightInv
  <2>5. CASE WorkerEnds(v)
    <3>1. /\ queue' = Append(queue, Signal("finished", v)) /\ Signal("finished", v) \in Signals
          /\ Signal("finished", v).kind = "finished" /\ Signal("finished", v).worker = v
          /\ thread[v] = "exiting" /\ thread' = [thread EXCEPT ![v] = "ended"]
      BY <2>5 DEF WorkerEnds, Signal, Signals
    <3>2. /\ Len(queue') = Len(queue) + 1 /\ Len(queue) \in Nat
          /\ \A k \in 1..Len(queue') : \/ k \in 1..Len(queue) /\ queue'[k] = queue[k]
                                       \/ k = Len(queue) + 1 /\ queue'[k] = Signal("finished", v)
      BY <1>1, <3>1, EndOfQueue
    <3>3. \A k \in 1..Len(queue) : queue[k].kind # "finished" /\ k = 1 /\ queue[k].worker = worker
      BY <2>3, <3>1 DEF FlightInv
    <3>4. \A k \in 1..Len(queue') :
             /\ queue'[k].worker = worker
             /\ queue'[k].kind # "finished" => k = 1
             /\ queue'[k].kind = "finished" => k = Len(queue')
      BY <2>3, <3>1, <3>2, <3>3
    <3>5. Len(queue') \in 1..Len(queue') /\ queue'[Len(queue')].kind = "finished"
      BY <3>1, <3>2
    <3>6. thread'[worker] = "ended"
      BY <1>1, <2>3, <3>1
    <3> QED
      BY <2>2, <2>3, <3>4, <3>5, <3>6 DEF FlightInv
  <2> QED
    BY <2>1, <2>4, <2>5
<1>9. CASE Crash
  BY <1>1, <1>9 DEF Crash, flags, FlightInv, isRunning
<1>10. CASE Reopen
  <2>1. queue' = <<>> /\ worker' = NoWorker
    BY <1>10 DEF Reopen, system
  <2> QED
    BY <2>1, NoWorkerIsNone DEF FlightInv
<1> QED
  BY <1>2, <1>3, <1>4, <1>6, <1>7, <1>8, <1>9, <1>10 DEF Next, Deliver, stop_scan, edit_schedule, Dismiss,
     closeEvent, closeEventEnds, retry_deferred_close, Tick, vars, flags, system

Idle == queue = <<>> /\ ~isRunning(worker)

\* No outcome of self.worker is to come.
Answered == thread[worker] # "running" /\ \A k \in 1..Len(queue) : queue[k].kind = "finished"

OnlyScheduled == \A i \in 1..Len(snapshots) : runKind[snapshots[i].run] = "scheduled"
Accounted == persisted \subseteq settled \cup (IF pending THEN {pendingRun} ELSE {})

\* The flags tell the truth about self.worker.
ActiveInv == scanActive /\ worker \in Workers => runKind[worker.run] = "scheduled"
FpInv == fpActive => ~Idle /\ worker \in Workers /\ worker.stage = "fingerprint"
PendingInv == pending =>
    /\ scanActive /\ ~Idle /\ worker \in Workers /\ worker.run = pendingRun /\ runKind[pendingRun] = "scheduled"
    /\ worker.stage = "scan" => frames = <<>> /\ Answered
    /\ worker.stage = "fingerprint" /\ frames = <<>> => ~Answered
FrameInv == frames # <<>> =>
    /\ Len(frames) = 1
    /\ pending => frames[1].cont = "publish" /\ fpOutcome[pendingRun] = "degraded"

\* A process that is gone leaves no run behind, and a run's kind is never written twice.
LiveInv == window # "none" => ActiveInv /\ FpInv /\ PendingInv /\ FrameInv
DeadInv == window = "none" => persisted \subseteq settled
KindInv == \A r \in Runs : runKind[r] = "scheduled" => thread[[run |-> r, stage |-> "scan"]] # "unborn"

Published == OnlyScheduled /\ Enriched /\ Accounted
RunsInv == LiveInv /\ DeadInv /\ KindInv /\ Published

\* Publishing with no other dialog open leaves at most one dialog and settles what was pending.
LEMMA PublishSettles ==
    ASSUME TypeOK, OnlyScheduled, Enriched, runKind' = runKind,
           NEW isPending, NEW run, NEW answer,
           isPending => /\ run \in Runs /\ runKind[run] = "scheduled"
                        /\ config.automatic => answer \in {"result", "degraded"},
           publish_scheduled_snapshot(<<>>, isPending, run, answer)
    PROVE  /\ pending' = FALSE /\ settled \subseteq settled' /\ (isPending => run \in settled')
           /\ frames' # <<>> => Len(frames') = 1
           /\ OnlyScheduled' /\ Enriched'
<1>1. ASSUME NEW cont, NEW t, NEW c, DialogWith(<<>>, cont, t, c) PROVE Len(frames') = 1
  BY <1>1 DEF DialogWith
<1>2. ASSUME NEW t, RecordSuccess(<<>>, t) PROVE frames' # <<>> => Len(frames') = 1
  BY <1>1, <1>2 DEF RecordSuccess, SnapshotPublished, Dialog
<1>3. CASE ~isPending
  BY <1>3 DEF publish_scheduled_snapshot, OnlyScheduled, Enriched
<1>4. CASE isPending
  <2>1. PublishOn(<<>>, run, answer) /\ pending' = FALSE
    BY <1>4 DEF publish_scheduled_snapshot
  <2>2. settled' = settled \cup {run} /\ (frames' # <<>> => Len(frames') = 1)
    BY <1>1, <1>2, <2>1 DEF PublishOn, Dialog
  <2>3. OnlyScheduled' /\ Enriched'
    <3> DEFINE new == [run |-> run, automatic |-> config.automatic, fingerprint |-> answer]
    <3>1. CASE snapshots' = snapshots
      BY <3>1 DEF OnlyScheduled, Enriched
    <3>2. CASE snapshots' = Append(snapshots, new)
      <4>1. snapshots \in Seq(Snapshots) /\ new.run = run /\ new.automatic = config.automatic /\ new.fingerprint = answer
        BY DEF TypeOK
      <4> HIDE DEF new
      <4>2. \A i \in 1..Len(snapshots') :
               \/ i \in 1..Len(snapshots) /\ snapshots'[i] = snapshots[i]
               \/ snapshots'[i] = new
        BY <3>2, <4>1
      <4> QED
        BY <1>4, <4>1, <4>2 DEF OnlyScheduled, Enriched
    <3> QED
      BY <2>1, <3>1, <3>2 DEF PublishOn
  <2> QED
    BY <2>1, <2>2, <2>3
<1> QED
  BY <1>3, <1>4

\* A turn that leaves the history clean is taken with no dialog open.
LEMMA TurnIsAttentive ==
    ASSUME ~left', Turn
    PROVE  frames = <<>> /\ window # "none"
BY DEF Turn, Alive

\* A discovery's outcome finds nothing pending.
LEMMA ScanFinishedSettles ==
    ASSUME TypeOK, AloneInv, FlightInv, RunsInv, ~left', scan_finished \/ scan_failed
    PROVE  RunsInv'
<1>1. /\ queue # <<>> /\ queue' = Tail(queue) /\ Head(queue).kind # "finished" /\ Head(queue).worker.stage = "scan"
      /\ frames = <<>> /\ window # "none"
      /\ UNCHANGED <<window, thread, runKind, worker, scanActive, fpActive, fpOutcome>>
  BY TurnIsAttentive DEF scan_finished, scan_failed, Delivering, SignalTurn
<1>2. /\ Sender = worker /\ worker \in Workers /\ worker.stage = "scan" /\ thread[worker] # "running"
      /\ ~Idle' /\ Answered' /\ ~Answered /\ worker.run \in Runs
  BY <1>1, OutcomeDelivered, WorkerParts DEF Sender, Idle, Answered, isRunning
<1>3. ~pending /\ ~fpActive /\ (scanActive => runKind[worker.run] = "scheduled") /\ persisted \subseteq settled
  BY <1>1, <1>2 DEF RunsInv, LiveInv, PendingInv, FpInv, ActiveInv, Published, Accounted
<1>4. KindInv' /\ DeadInv' /\ ActiveInv' /\ FpInv'
  BY <1>1, <1>3 DEF RunsInv, KindInv, DeadInv, LiveInv, ActiveInv, FpInv
<1>5. ASSUME NEW cont, Dialog(frames, cont) PROVE Len(frames') = 1
  BY <1>1, <1>5 DEF Dialog, DialogWith
<1>6. CASE /\ ~pending' /\ UNCHANGED <<persisted, settled, snapshots>>
           /\ frames' = <<>> \/ Len(frames') = 1
  BY <1>1, <1>3, <1>4, <1>6 DEF RunsInv, LiveInv, PendingInv, FrameInv, Published, Accounted,
                                OnlyScheduled, Enriched
<1>7. CASE scan_failed
  BY <1>1, <1>5, <1>6, <1>7 DEF scan_failed
<1>8. CASE scan_finished
  <2>1. CASE /\ scanActive /\ persisted' = persisted \cup {Sender.run} /\ pendingRun' = Sender.run
             /\ pending' = TRUE /\ UNCHANGED <<frames, settled, snapshots>>
    <3>1. PendingInv' /\ FrameInv'
      BY <1>1, <1>2, <1>3, <2>1 DEF PendingInv, FrameInv
    <3>2. Published'
      BY <1>1, <1>2, <1>3, <2>1 DEF RunsInv, Published, Accounted, OnlyScheduled, Enriched
    <3> QED
      BY <1>4, <3>1, <3>2 DEF RunsInv, LiveInv
  <2>2. CASE /\ scanActive /\ persisted' = persisted \cup {Sender.run} /\ ~config.automatic
             /\ publish_scheduled_snapshot(frames, TRUE, Sender.run, "none")
    <3>1. /\ pending' = FALSE /\ settled \subseteq settled' /\ Sender.run \in settled'
          /\ frames' # <<>> => Len(frames') = 1
          /\ OnlyScheduled' /\ Enriched'
      <4>1. /\ publish_scheduled_snapshot(<<>>, TRUE, Sender.run, "none")
            /\ Sender.run \in Runs /\ runKind[Sender.run] = "scheduled" /\ ~config.automatic
        BY <1>1, <1>2, <1>3, <2>2
      <4>2. OnlyScheduled /\ Enriched /\ runKind' = runKind
        BY <1>1 DEF RunsInv, Published
      <4> QED
        BY <4>1, <4>2, PublishSettles
    <3>2. PendingInv' /\ FrameInv' /\ Published'
      BY <1>3, <2>2, <3>1 DEF PendingInv, FrameInv, Published, Accounted
    <3> QED
      BY <1>4, <3>2 DEF RunsInv, LiveInv
  <2>3. CASE /\ Dialog(frames, IF scanActive THEN "scanFailed" ELSE "nothing")
             /\ UNCHANGED <<schedule, pending, pendingRun, persisted, settled, snapshots>>
    <3>1. Len(frames') = 1 /\ UNCHANGED <<pending, persisted, settled, snapshots>>
      BY <1>5, <2>3
    <3> QED
      BY <1>3, <1>6, <3>1
  <2>4. CASE UNCHANGED <<schedule, pending, frames, pendingRun, persisted, settled, snapshots>>
    BY <1>1, <1>3, <1>6, <2>4
  <2>5. config.automatic \/ ~config.automatic
    OBVIOUS
  <2> QED
    BY <1>1, <1>8, <2>1, <2>2, <2>3, <2>4, <2>5 DEF scan_finished
<1> QED
  BY <1>7, <1>8

\* A fingerprinting's outcome is that of the run that waits for it.
LEMMA FingerprintSettles ==
    ASSUME TypeOK, AloneInv, FlightInv, RunsInv, ~left',
           fingerprint_finished \/ fingerprint_degraded \/ fingerprint_cancelled
    PROVE  RunsInv'
<1>1. /\ queue # <<>> /\ queue' = Tail(queue) /\ Head(queue).kind # "finished"
      /\ Head(queue).worker.stage = "fingerprint"
      /\ frames = <<>> /\ window # "none"
      /\ UNCHANGED <<window, thread, runKind, worker, scanActive, fpActive, pendingRun, persisted>>
  BY TurnIsAttentive DEF fingerprint_finished, fingerprint_degraded, fingerprint_cancelled, Delivering, SignalTurn
<1>2. /\ Sender = worker /\ worker \in Workers /\ worker.stage = "fingerprint" /\ ~Idle' /\ worker.run \in Runs
  BY <1>1, OutcomeDelivered, WorkerParts DEF Sender, Idle, isRunning
<1>3. pending => scanActive /\ pendingRun = Sender.run /\ pendingRun \in Runs /\ runKind[pendingRun] = "scheduled"
  BY <1>1, <1>2 DEF RunsInv, LiveInv, PendingInv
<1>4. KindInv' /\ DeadInv' /\ ActiveInv' /\ FpInv'
  <2>1. KindInv' /\ ActiveInv'
    BY <1>1 DEF RunsInv, KindInv, LiveInv, ActiveInv
  <2> QED
    BY <1>1, <1>2, <2>1 DEF DeadInv, FpInv
<1>5. fpOutcome \in [Runs -> Answers]
  BY DEF TypeOK
<1>6. CASE fingerprint_finished
  <2>1. fpOutcome'[Sender.run] = "result"
    BY <1>2, <1>5, <1>6 DEF fingerprint_finished
  <2>2. /\ pending' = FALSE /\ settled \subseteq settled' /\ (pending => pendingRun \in settled')
        /\ frames' # <<>> => Len(frames') = 1
        /\ OnlyScheduled' /\ Enriched'
    <3>1. publish_scheduled_snapshot(<<>>, pending, pendingRun, fpOutcome'[pendingRun])
      BY <1>1, <1>6 DEF fingerprint_finished
    <3> QED
      BY <1>1, <1>3, <2>1, <3>1, PublishSettles DEF RunsInv, Published
  <2>3. persisted' \subseteq settled'
    BY <1>1, <2>2 DEF RunsInv, Published, Accounted
  <2>4. PendingInv' /\ FrameInv' /\ Published'
    BY <2>2, <2>3 DEF PendingInv, FrameInv, Published, Accounted
  <2> QED
    BY <1>4, <2>4 DEF RunsInv, LiveInv
<1>7. CASE fingerprint_degraded
  <2>1. /\ fpOutcome'[Sender.run] = "degraded" /\ UNCHANGED <<pending, settled, snapshots>>
        /\ Len(frames') = 1 /\ frames' # <<>> /\ frames'[1].cont = "publish"
    BY <1>1, <1>2, <1>5, <1>7 DEF fingerprint_degraded, Dialog, DialogWith
  <2>2. PendingInv' /\ FrameInv'
    BY <1>1, <1>2, <1>3, <2>1 DEF PendingInv, FrameInv
  <2>3. Published'
    BY <1>1, <2>1 DEF RunsInv, Published, Accounted, OnlyScheduled, Enriched
  <2> QED
    BY <1>4, <2>2, <2>3 DEF RunsInv, LiveInv
<1>8. CASE fingerprint_cancelled
  <2>1. pending' = FALSE /\ settled' = settled \cup {Sender.run} /\ UNCHANGED <<frames, snapshots>>
    BY <1>8 DEF fingerprint_cancelled
  <2>2. PendingInv' /\ FrameInv' /\ Published'
    BY <1>1, <1>3, <2>1 DEF RunsInv, PendingInv, FrameInv, Published, Accounted,
                            OnlyScheduled, Enriched
  <2> QED
    BY <1>4, <2>2 DEF RunsInv, LiveInv
<1> QED
  BY <1>6, <1>7, <1>8

\* The end of a worker: the run is fingerprinted, or published, or nothing is pending any more.
LEMMA FinishedSettles ==
    ASSUME TypeOK, AloneInv, FlightInv, RunsInv, ~left', worker_finished
    PROVE  RunsInv'
<1>1. /\ Finishing /\ queue # <<>> /\ Head(queue).kind = "finished" /\ frames = <<>> /\ window # "none"
      /\ UNCHANGED <<window, runKind, fpOutcome, pendingRun, persisted>>
  BY TurnIsAttentive DEF worker_finished, Finishing, SignalTurn
<1>2. /\ queue' = <<>> /\ worker \in Workers /\ thread[worker] = "ended" /\ worker.run \in Runs
      /\ worker.stage \in {"scan", "fingerprint"}
  BY <1>1, EndDelivered, WorkerParts
<1>3. Answered
  <2>1. Len(queue) = 1 /\ queue[1].kind = "finished"
    BY <1>1, EndDelivered
  <2> QED
    BY <1>2, <2>1 DEF Answered
<1>4. /\ pending => scanActive /\ worker.stage = "scan" /\ ~fpActive /\ pendingRun \in Runs /\ runKind[pendingRun] = "scheduled"
      /\ persisted \subseteq settled \cup (IF pending THEN {pendingRun} ELSE {})
  BY <1>1, <1>2, <1>3 DEF RunsInv, LiveInv, PendingInv, FpInv, Published, Accounted
<1>5. thread \in [Workers -> {"unborn", "running", "exiting", "ended"}]
  BY DEF TypeOK
<1>6. CASE Forget /\ ~fpActive' /\ scanActive' = FALSE /\ ~pending /\ UNCHANGED <<pending, frames, settled, snapshots>>
  <2>1. KindInv' /\ DeadInv' /\ LiveInv'
    BY <1>1, <1>6 DEF Forget, RunsInv, KindInv, DeadInv, LiveInv, ActiveInv, FpInv, PendingInv, FrameInv
  <2>2. Published'
    BY <1>1, <1>6 DEF RunsInv, Published, OnlyScheduled, Enriched, Accounted
  <2> QED
    BY <2>1, <2>2 DEF RunsInv
<1>7. CASE /\ ~fpActive /\ scanActive /\ pending
           /\ StartWorker([run |-> pendingRun, stage |-> "fingerprint"]) /\ fpActive' = TRUE
           /\ UNCHANGED <<scanActive, pending, frames, settled, snapshots>>
  <2> DEFINE v == [run |-> pendingRun, stage |-> "fingerprint"]
  <2>1. v \in Workers /\ v.run = pendingRun /\ v.stage = "fingerprint"
    BY <1>4, <1>7 DEF Workers
  <2>2. worker' = v /\ thread' = [thread EXCEPT ![v] = "running"]
    BY <1>7 DEF StartWorker
  <2> HIDE DEF v
  <2>3. thread'[v] = "running" /\ v # NoWorker
    BY <1>5, <2>1, <2>2, NoWorkerIsNone
  <2>4. KindInv' /\ DeadInv'
    BY <1>1, <1>5, <2>1, <2>2 DEF RunsInv, KindInv, DeadInv
  <2>5. ~Idle' /\ ~Answered'
    BY <2>2, <2>3 DEF Idle, Answered, isRunning
  <2>6. ActiveInv' /\ FpInv'
    BY <1>1, <1>4, <1>7, <2>1, <2>2, <2>5 DEF ActiveInv, FpInv
  <2>7. PendingInv' /\ FrameInv'
    BY <1>1, <1>4, <1>7, <2>1, <2>2, <2>5 DEF PendingInv, FrameInv
  <2>8. Published'
    BY <1>1, <1>7 DEF RunsInv, Published, OnlyScheduled, Enriched, Accounted
  <2> QED
    BY <2>4, <2>6, <2>7, <2>8 DEF RunsInv, LiveInv
<1>8. CASE /\ Forget /\ ~fpActive /\ fpActive' = fpActive /\ scanActive' = FALSE
           /\ scanActive /\ ~(pending /\ config.automatic)
           /\ publish_scheduled_snapshot(frames, pending, pendingRun, "none")
  <2>1. /\ pending' = FALSE /\ settled \subseteq settled' /\ (pending => pendingRun \in settled')
        /\ frames' # <<>> => Len(frames') = 1
        /\ OnlyScheduled' /\ Enriched'
    <3>1. publish_scheduled_snapshot(<<>>, pending, pendingRun, "none")
      BY <1>1, <1>8
    <3> QED
      BY <1>1, <1>4, <1>8, <3>1, PublishSettles DEF RunsInv, Published
  <2>2. KindInv' /\ DeadInv' /\ ActiveInv' /\ FpInv'
    BY <1>1, <1>8 DEF Forget, RunsInv, KindInv, DeadInv, ActiveInv, FpInv
  <2>3. PendingInv' /\ FrameInv'
    BY <2>1 DEF PendingInv, FrameInv
  <2>4. Published'
    BY <1>1, <1>4, <2>1 DEF Published, Accounted
  <2> QED
    BY <2>2, <2>3, <2>4 DEF RunsInv, LiveInv
<1> QED
  <2>1. CASE fpActive
    BY <1>4, <1>6, <2>1 DEF worker_finished
  <2>2. CASE ~fpActive /\ scanActive /\ pending /\ config.automatic
    BY <1>7, <2>2 DEF worker_finished
  <2>3. CASE ~fpActive /\ scanActive /\ ~(pending /\ config.automatic)
    BY <1>8, <2>3 DEF worker_finished
  <2>4. CASE ~fpActive /\ ~scanActive
    BY <1>4, <1>6, <2>4 DEF worker_finished
  <2> QED
    BY <2>1, <2>2, <2>3, <2>4

\* Nothing is pending, and no fingerprinting runs, in a window with nothing in flight.
LEMMA IdleIsSettled ==
    ASSUME RunsInv, window # "none", Idle
    PROVE  ~pending /\ ~fpActive /\ persisted \subseteq settled
BY DEF RunsInv, LiveInv, PendingInv, FpInv, Published, Accounted

\* An unlocked window, and one whose timer fires, have nothing in flight.
LEMMA UnlockedIsIdle ==
    ASSUME TypeOK, AloneInv, FlightInv, ~locked
    PROVE  Idle
<1>1. locked # TRUE
  BY Zenon
<1>2. queue = <<>>
  BY <1>1 DEF FlightInv
<1>3. ~isRunning(worker)
  BY <1>1, NoWorkerIsNone DEF AloneInv, HeldInv, TypeOK, isRunning
<1> QED
  BY <1>2, <1>3 DEF Idle

LEMMA StartSettles ==
    ASSUME TypeOK, RunsInv, window # "none", Idle, frames = <<>>,
           NEW kind \in {"manual", "scheduled"}, StartDiscovery(kind),
           pending' = FALSE, scanActive' = (kind = "scheduled"),
           UNCHANGED <<window, queue, frames, fpActive, persisted, settled, snapshots>>
    PROVE  RunsInv'
<1> DEFINE v == [run |-> NextRun, stage |-> "scan"]
<1>1. ~pending /\ ~fpActive /\ persisted \subseteq settled
  BY IdleIsSettled
<1>2. /\ NextRun \in Runs /\ v \in Workers /\ v.run = NextRun /\ worker' = v
      /\ thread[v] = "unborn" /\ thread' = [thread EXCEPT ![v] = "running"]
      /\ runKind' = [runKind EXCEPT ![NextRun] = kind]
      /\ thread \in [Workers -> {"unborn", "running", "exiting", "ended"}]
      /\ runKind \in [Runs -> {"none", "manual", "scheduled"}]
  BY DEF StartDiscovery, StartWorker, Workers, TypeOK
<1>3. runKind[NextRun] # "scheduled"
  BY <1>2 DEF RunsInv, KindInv
<1>4. \A r \in Runs : /\ runKind[r] = "scheduled" => runKind'[r] = "scheduled"
                      /\ runKind'[r] = "scheduled" => runKind[r] = "scheduled" \/ r = NextRun
  BY <1>2, <1>3
<1>5. KindInv'
  <2> SUFFICES ASSUME NEW r \in Runs, runKind'[r] = "scheduled"
               PROVE  thread'[[run |-> r, stage |-> "scan"]] # "unborn"
    BY DEF KindInv
  <2>1. [run |-> r, stage |-> "scan"] \in Workers
    BY DEF Workers
  <2>2. CASE r = NextRun
    BY <1>2, <2>2
  <2>3. CASE runKind[r] = "scheduled"
    BY <1>2, <2>1, <2>3 DEF RunsInv, KindInv
  <2> QED
    BY <1>4, <2>2, <2>3
<1>6. ActiveInv'
  <2>1. scanActive' => kind = "scheduled"
    OBVIOUS
  <2> QED
    BY <1>2, <2>1 DEF ActiveInv
<1>7. LiveInv'
  BY <1>1, <1>6 DEF LiveInv, FpInv, PendingInv, FrameInv
<1>8. OnlyScheduled' /\ Enriched'
  <2>1. \A i \in 1..Len(snapshots) : snapshots[i].run \in Runs
    <3>1. snapshots \in Seq(Snapshots) /\ \A x \in Snapshots : x.run \in Runs
      BY DEF TypeOK, Snapshots
    <3>2. \A i \in 1..Len(snapshots) : snapshots[i] \in Snapshots
      BY <3>1
    <3> QED
      BY <3>1, <3>2
  <2> QED
    BY <1>4, <2>1 DEF RunsInv, Published, OnlyScheduled, Enriched
<1>9. DeadInv' /\ Accounted'
  BY <1>1 DEF DeadInv, Accounted
<1> QED
  BY <1>5, <1>7, <1>8, <1>9 DEF RunsInv, Published

\* A dialog opened, or a schedule edited, with nothing in flight.
LEMMA QuietStep ==
    ASSUME RunsInv, window # "none", Idle, frames' = frames \/ Len(frames') = 1,
           UNCHANGED <<window, flags, queue, thread, history>>
    PROVE  RunsInv'
<1>1. ~pending /\ ~fpActive /\ persisted \subseteq settled
  BY IdleIsSettled
<1>2. LiveInv' /\ DeadInv' /\ KindInv'
  BY <1>1 DEF flags, history, RunsInv, LiveInv, ActiveInv, FpInv, PendingInv, FrameInv, DeadInv, KindInv
<1>3. Published'
  BY DEF flags, history, RunsInv, Published, OnlyScheduled, Enriched, Accounted
<1> QED
  BY <1>2, <1>3 DEF RunsInv

LEMMA UserSettles ==
    ASSUME TypeOK, AloneInv, FlightInv, RunsInv, ~left', ~overtaken',
           check_schedule \/ start_scan \/ edit_schedule
    PROVE  RunsInv'
<1>1. CASE check_schedule
  <2>1. Idle /\ window # "none" /\ frames = <<>>
    BY <1>1, TurnIsAttentive DEF check_schedule, CheckDue, PollTurn, Idle
  <2>2. CASE StartScheduled /\ UNCHANGED frames
    <3>1. scanActive' = ("scheduled" = "scheduled")
      BY <2>2 DEF StartScheduled
    <3> QED
      BY <2>1, <2>2, <3>1, StartSettles DEF StartScheduled
  <2>3. CASE Dialog(frames, "disable") /\ UNCHANGED <<now, schedule, flags, window, system, history>>
    <3>1. Len(frames') = 1 /\ UNCHANGED <<window, flags, queue, thread, history>>
      BY <2>1, <2>3 DEF Dialog, DialogWith, system
    <3> QED
      BY <2>1, <3>1, QuietStep
  <2> QED
    BY <1>1, <2>2, <2>3 DEF check_schedule
<1>2. CASE start_scan
  <2>1. Idle /\ window # "none" /\ frames = <<>>
    BY <1>2, UnlockedIsIdle DEF start_scan, UserCan
  <2>2. scanActive' = ("manual" = "scheduled")
    BY <1>2 DEF start_scan
  <2> QED
    BY <1>2, <2>1, <2>2, StartSettles DEF start_scan, gui
<1>3. CASE edit_schedule
  <2>1. Idle /\ window # "none" /\ frames = <<>>
    BY <1>3, UnlockedIsIdle DEF edit_schedule, UserCan
  <2>2. /\ frames' = frames \/ Len(frames') = 1
        /\ UNCHANGED <<window, flags, queue, thread, history>>
    BY <1>3, <2>1 DEF edit_schedule, SaveOn, Dialog, DialogWith, system
  <2> QED
    BY <2>1, <2>2, QuietStep
<1> QED
  BY <1>1, <1>2, <1>3

LEMMA DismissSettles ==
    ASSUME TypeOK, RunsInv, Dismiss
    PROVE  RunsInv'
<1>1. /\ Resumes /\ frames # <<>> /\ window # "none" /\ frames \in Seq(Frames)
      /\ UNCHANGED <<worker, scanActive, fpActive, window, queue, thread, runKind, pendingRun, persisted>>
  BY DismissParts DEF Dismiss, Alive, system, TypeOK
<1>2. Len(frames) = 1 /\ (pending => Slot.cont = "publish" /\ fpOutcome[pendingRun] = "degraded")
  BY <1>1 DEF RunsInv, LiveInv, FrameInv, Slot
<1>3. Rest = <<>>
  BY <1>1, <1>2 DEF Rest
<1>4. /\ pending => pendingRun \in Runs /\ runKind[pendingRun] = "scheduled"
      /\ persisted \subseteq settled \cup (IF pending THEN {pendingRun} ELSE {})
  BY <1>1, WorkerParts DEF RunsInv, LiveInv, PendingInv, Published, Accounted
<1>5. KindInv' /\ DeadInv' /\ ActiveInv' /\ FpInv'
  BY <1>1 DEF RunsInv, KindInv, DeadInv, LiveInv, ActiveInv, FpInv, Idle, isRunning
<1>6. CASE publish_scheduled_snapshot(Rest, pending, pendingRun, fpOutcome[pendingRun])
  <2>1. /\ pending' = FALSE /\ settled \subseteq settled' /\ (pending => pendingRun \in settled')
        /\ frames' # <<>> => Len(frames') = 1
        /\ OnlyScheduled' /\ Enriched'
    <3>1. publish_scheduled_snapshot(<<>>, pending, pendingRun, fpOutcome[pendingRun])
      BY <1>3, <1>6
    <3> QED
      BY <1>1, <1>2, <1>4, <3>1, PublishSettles DEF RunsInv, Published
  <2>2. PendingInv' /\ FrameInv' /\ Published'
    BY <1>1, <1>4, <2>1 DEF PendingInv, FrameInv, Published, Accounted
  <2> QED
    BY <1>5, <2>2 DEF RunsInv, LiveInv
<1>7. CASE Slot.cont # "publish"
  <2>1. ~pending /\ ~pending' /\ UNCHANGED <<settled, snapshots>>
    BY <1>1, <1>2, <1>7 DEF Resumes
  <2>2. frames' # <<>> => Len(frames') = 1
    <3>1. ASSUME NEW cont, NEW t, NEW c, DialogWith(<<>>, cont, t, c) PROVE Len(frames') = 1
      BY <3>1 DEF DialogWith
    <3> QED
      BY <1>1, <1>3, <1>7, <3>1 DEF Resumes, RecordSuccess, SnapshotPublished, Dialog
  <2>3. PendingInv' /\ FrameInv' /\ Published'
    BY <1>1, <1>4, <2>1, <2>2 DEF RunsInv, PendingInv, FrameInv, Published, Accounted,
                            OnlyScheduled, Enriched
  <2> QED
    BY <1>5, <2>3 DEF RunsInv, LiveInv
<1> QED
  BY <1>1, <1>6, <1>7 DEF Resumes

\* Threads: an outcome or an end is sent, and nothing in flight is lost.
LEMMA ThreadsSettle ==
    ASSUME TypeOK, AloneInv, FlightInv, RunsInv, WorkerStep
    PROVE  RunsInv'
<1>1. PICK v \in Workers : (\E kind \in {"result", "error", "cancelled"} : WorkerEmits(v, kind)) \/ WorkerEnds(v)
  BY DEF WorkerStep
<1>2. /\ queue \in Seq(Signals) /\ thread \in [Workers -> {"unborn", "running", "exiting", "ended"}]
      /\ UNCHANGED <<worker, scanActive, pending, fpActive, window, frames, runKind, fpOutcome, pendingRun,
                     persisted, settled, snapshots>>
  BY <1>1 DEF TypeOK, WorkerEmits, WorkerEnds, flags, gui, history
<1>3. v = worker /\ v # NoWorker
  BY <1>1, NoWorkerIsNone DEF WorkerEmits, WorkerEnds, isRunning, AloneInv, HeldInv
<1>4. PICK x \in Signals : /\ queue' = Append(queue, x)
                           /\ \/ /\ thread[v] = "running" /\ thread' = [thread EXCEPT ![v] = "exiting"]
                                 /\ x.kind # "finished"
                              \/ /\ thread[v] = "exiting" /\ thread' = [thread EXCEPT ![v] = "ended"]
                                 /\ x.kind = "finished"
  BY <1>1 DEF WorkerEmits, WorkerEnds, Signal, Signals
<1>5. /\ Len(queue') = Len(queue) + 1 /\ Len(queue) \in Nat
      /\ \A k \in 1..Len(queue) : k \in 1..Len(queue') /\ queue'[k] = queue[k]
      /\ \A k \in 1..Len(queue') : (k \in 1..Len(queue) /\ queue'[k] = queue[k]) \/ queue'[k] = x
      /\ Len(queue') \in 1..Len(queue') /\ queue'[Len(queue')] = x
  BY <1>2, <1>4
<1>6. ~Idle'
  BY <1>5 DEF Idle
<1>7. Answered => Answered'
  BY <1>2, <1>3, <1>4, <1>5 DEF Answered
<1>8. ~Answered => ~Answered'
  BY <1>2, <1>3, <1>4, <1>5 DEF Answered
<1>9. KindInv' /\ DeadInv'
  <2>1. \A w \in Workers : thread[w] # "unborn" => thread'[w] # "unborn"
    BY <1>2, <1>4
  <2>2. \A r \in Runs : [run |-> r, stage |-> "scan"] \in Workers
    BY DEF Workers
  <2> QED
    BY <1>2, <2>1, <2>2 DEF RunsInv, KindInv, DeadInv
<1>10. LiveInv'
  BY <1>2, <1>6, <1>7, <1>8 DEF RunsInv, LiveInv, ActiveInv, FpInv, PendingInv, FrameInv
<1>11. Published'
  BY <1>2 DEF RunsInv, Published, OnlyScheduled, Enriched, Accounted
<1> QED
  BY <1>9, <1>10, <1>11 DEF RunsInv

LEMMA RestSettles ==
    ASSUME TypeOK, RunsInv,
           \/ stop_scan \/ closeEvent \/ closeEventEnds \/ retry_deferred_close
           \/ Crash \/ Reopen \/ Tick \/ UNCHANGED vars
    PROVE  RunsInv'
<1>1. UNCHANGED <<runKind, snapshots, persisted>>
  BY DEF stop_scan, closeEvent, closeEventEnds, retry_deferred_close, Crash, Reopen, Tick, vars, history
<1>2. OnlyScheduled' /\ Enriched'
  BY <1>1 DEF RunsInv, Published, OnlyScheduled, Enriched
<1>3. CASE Crash
  <2>1. \A w \in Workers : thread[w] # "unborn" => thread'[w] # "unborn"
    BY <1>3 DEF Crash, TypeOK
  <2>2. \A r \in Runs : [run |-> r, stage |-> "scan"] \in Workers
    BY DEF Workers
  <2>3. KindInv'
    BY <1>1, <2>1, <2>2 DEF RunsInv, KindInv
  <2>4. window' = "none" /\ settled' = settled \cup persisted
    BY <1>3 DEF Crash
  <2> QED
    BY <1>1, <1>2, <2>3, <2>4 DEF RunsInv, LiveInv, DeadInv, Published, Accounted
<1>4. CASE Reopen
  <2>1. /\ worker' = NoWorker /\ pending' = FALSE /\ fpActive' = FALSE /\ window' = "open" /\ frames' = <<>>
        /\ settled' = settled /\ thread' = thread
    BY <1>4 DEF Reopen, system, history
  <2>2. persisted \subseteq settled
    <3>1. CASE window = "none"
      BY <3>1 DEF RunsInv, DeadInv
    <3>2. CASE window = "closed"
      <4>1. Idle
        BY <1>4 DEF Reopen, Running, Idle, isRunning, TypeOK
      <4> QED
        BY <3>2, <4>1, IdleIsSettled
    <3> QED
      BY <1>4, <3>1, <3>2 DEF Reopen
  <2>3. LiveInv' /\ DeadInv' /\ KindInv'
    BY <1>1, <2>1, NoWorkerIsNone DEF RunsInv, LiveInv, ActiveInv, FpInv, PendingInv, FrameInv, DeadInv, KindInv
  <2> QED
    BY <1>1, <1>2, <2>1, <2>2, <2>3 DEF RunsInv, Published, Accounted
<1>5. CASE stop_scan \/ closeEvent \/ closeEventEnds \/ retry_deferred_close \/ Tick \/ UNCHANGED vars
  <2>1. /\ UNCHANGED <<worker, scanActive, pending, fpActive, frames, queue, thread, runKind, fpOutcome,
                       pendingRun, persisted, settled, snapshots>>
        /\ window # "none" <=> window' # "none"
    BY <1>5 DEF stop_scan, closeEvent, closeEventEnds, Decide, retry_deferred_close, UserCan, Tick, vars,
                flags, gui, system, history
  <2>2. LiveInv' /\ DeadInv' /\ KindInv'
    BY <2>1 DEF RunsInv, LiveInv, ActiveInv, FpInv, PendingInv, FrameInv, DeadInv, KindInv, Idle, Answered, isRunning
  <2> QED
    BY <1>2, <2>1, <2>2 DEF RunsInv, Published, Accounted
<1> QED
  BY <1>3, <1>4, <1>5

\* What the flags say of the run they stand for holds while everything is handled in its turn.
LEMMA RunsHold == Spec => [](InTurn => Published)
<1> DEFINE All == AloneInv /\ FlightInv /\ RunsInv
<1>1. Init => All
  <2> SUFFICES ASSUME Init PROVE All
    OBVIOUS
  <2>1. AloneInv
    BY DEF Init, AloneInv, HeldInv, EndInv, isRunning
  <2>2. FlightInv
    BY NoWorkerIsNone DEF Init, FlightInv
  <2>3. RunsInv
    BY DEF Init, RunsInv, LiveInv, ActiveInv, FpInv, PendingInv, FrameInv, DeadInv, KindInv, Published,
           OnlyScheduled, Enriched, Accounted
  <2> QED
    BY <2>1, <2>2, <2>3
<1>2. TypeOK /\ PendingIsKnown /\ (InTurn => All) /\ [Next]_vars => (InTurn => All)'
  <2> SUFFICES ASSUME TypeOK, PendingIsKnown, InTurn => All, [Next]_vars, ~left', ~overtaken' PROVE All'
    BY DEF InTurn
  <2>0. All
    BY TurnsKept DEF InTurn
  <2>1. AloneInv'
    BY <2>0, AloneStep
  <2>2. FlightInv'
    BY <2>0, FlightStep
  <2>3. RunsInv'
    BY <2>0, ScanFinishedSettles, FingerprintSettles, FinishedSettles, UserSettles, DismissSettles, ThreadsSettle,
       RestSettles DEF Next, Deliver
  <2> QED
    BY <2>1, <2>2, <2>3
<1>3. (InTurn => All) => (InTurn => Published)
  BY DEF RunsInv
<1> QED
  BY <1>1, <1>2, <1>3, TypeCorrect, PTL DEF Spec

\* While everything is handled in its turn, only scheduled runs are published as automatic snapshots
\* (scheduler_window.py).
THEOREM RunsArePublished == Spec => []SnapshotsAreScheduled
<1>1. (InTurn => Published) => SnapshotsAreScheduled
  BY DEF Published, OnlyScheduled, SnapshotsAreScheduled
<1> QED
  BY <1>1, RunsHold, PTL

\* Likewise, under an automatic policy a snapshot is published only after the fingerprinting of its
\* own run was answered, by a result or by a failure the user was told of.
THEOREM SnapshotsHaveEvidence == Spec => []SnapshotsAreEnriched
<1>1. (InTurn => Published) => SnapshotsAreEnriched
  BY DEF Published, SnapshotsAreEnriched
<1> QED
  BY <1>1, RunsHold, PTL

\* Likewise, a run whose inventory was stored is the pending one until its snapshot was tried, skipped
\* or lost with the process.
THEOREM NoRunIsForgotten == Spec => []EveryRunAccounted
<1>1. (InTurn => Published) => EveryRunAccounted
  BY DEF Published, Accounted, EveryRunAccounted
<1> QED
  BY <1>1, RunsHold, PTL

=============================================================================
