-------------------------- MODULE OutputTransaction --------------------------
(***************************************************************************)
(* OutputTransaction of the converter and _PdfOutputTransaction of the PDF      *)
(* tools, with the task that stages the outputs and the Worker that runs it.     *)
(*                                                                         *)
(* Output i goes to its own destination i (parse_page_list removes repeated      *)
(* pages, a batch has one output per source).  A destination that exists is      *)
(* moved into the staging directory, and back if the publication fails.  Cancel  *)
(* sets the worker's event at any moment; the process may die at any moment.     *)
(***************************************************************************)
EXTENDS Naturals

CONSTANTS
    N,              \* outputs of the task
    RollbackFails   \* the calls of a rollback may fail

OutputConstants == N \in Nat \ {0} /\ RollbackFails \in BOOLEAN

Outputs == 1..N
Files == {"absent", "old", "new"}

VARIABLES
    disk,       \* the destinations
    stage,      \* the staged outputs: "absent" | "new"
    backup,     \* the destinations moved aside: "absent" | "old" | "new"
    pc,         \* where the task is
    next,       \* the output it is at
    committed,  \* self._committed
    cancel,     \* the worker's cancel event
    shown,      \* what the window was told: "nothing" | "result" | "failed" | "cancelled"
    before,     \* history: the destinations when the task began
    early,      \* history: the event was set before commit() began
    tool        \* which window: its handling of errors differs

vars == <<disk, stage, backup, pc, next, committed, cancel, shown, before, early, tool>>
staging == <<stage, backup>>
given == <<before, early, tool>>

Pcs == {"run", "stage", "commit", "publish", "rollback", "raised", "cancelled", "returned",
        "ended", "dead"}

TypeOK ==
    /\ disk \in [Outputs -> Files] /\ before \in [Outputs -> Files]
    /\ stage \in [Outputs -> Files] /\ backup \in [Outputs -> Files]
    /\ pc \in Pcs /\ next \in 0..N + 1
    /\ committed \in BOOLEAN /\ cancel \in BOOLEAN /\ early \in BOOLEAN
    /\ shown \in {"nothing", "result", "failed", "cancelled"}
    /\ tool \in {"converter", "pdf"}

Init ==
    /\ before \in [Outputs -> {"absent", "old"}]
    /\ disk = before
    /\ stage = [i \in Outputs |-> "absent"] /\ backup = stage
    /\ pc = "run" /\ next = 1
    /\ committed = FALSE /\ cancel = FALSE /\ shown = "nothing" /\ early = FALSE
    /\ tool \in {"converter", "pdf"}

Alive == pc \notin {"ended", "dead"}

-----------------------------------------------------------------------------
(* Staging.  check_cancelled precedes every output, and the commit. *)

\* Worker.run begins; mkdtemp may fail.
Begin ==
    /\ pc = "run"
    /\ pc' \in IF cancel THEN {"cancelled"} ELSE {"stage", "raised"}
    /\ UNCHANGED <<disk, staging, next, committed, cancel, shown, given>>

\* stage_for and the writing of one output; a converter may return without
\* having written it.
Stage ==
    /\ pc = "stage" /\ next \in Outputs
    /\ IF cancel THEN pc' = "cancelled" /\ UNCHANGED <<stage, next>>
       ELSE \/ /\ \E written \in {"new", "absent"} : stage' = [stage EXCEPT ![next] = written]
               /\ next' = next + 1 /\ UNCHANGED pc
            \/ pc' = "raised" /\ UNCHANGED <<stage, next>>
    /\ UNCHANGED <<disk, backup, committed, cancel, shown, given>>

\* Mutant: the outputs are published although the task was cancelled.
Staged_IgnoresCancel ==
    /\ pc = "stage" /\ next = N + 1
    /\ pc' = "commit" /\ next' = 1
    /\ UNCHANGED <<disk, staging, committed, cancel, shown, given>>

Staged ==
    /\ pc = "stage" /\ next = N + 1
    /\ IF cancel THEN pc' = "cancelled" /\ UNCHANGED next ELSE pc' = "commit" /\ next' = 1
    /\ UNCHANGED <<disk, staging, committed, cancel, shown, given>>

-----------------------------------------------------------------------------
(* commit(): move the old destination aside, publish the staged one. *)

Fail(from) == pc' = "rollback" /\ next' = from

\* Mutant: the old destination is removed, not moved aside.
MoveAside_Unlinks ==
    /\ pc = "commit" /\ next \in Outputs
    /\ \/ /\ stage[next] # "absent"
          /\ disk' = [disk EXCEPT ![next] = "absent"]
          /\ pc' = "publish"
          /\ UNCHANGED <<backup, next>>
       \/ Fail(next - 1) /\ UNCHANGED <<disk, backup>>
    /\ UNCHANGED <<stage, committed, cancel, shown, given>>

MoveAside ==
    /\ pc = "commit" /\ next \in Outputs
    /\ \/ /\ stage[next] # "absent" /\ disk[next] = "absent"
          /\ pc' = "publish"
          /\ UNCHANGED <<disk, backup, next>>
       \/ /\ stage[next] # "absent" /\ disk[next] # "absent"
          /\ disk' = [disk EXCEPT ![next] = "absent"]
          /\ backup' = [backup EXCEPT ![next] = disk[next]]
          /\ pc' = "publish" /\ UNCHANGED next
       \/ Fail(next - 1) /\ UNCHANGED <<disk, backup>>
    /\ UNCHANGED <<stage, committed, cancel, shown, given>>

\* Mutant: the next output is passed over.
PublishOutput_Skips ==
    /\ pc = "publish"
    /\ \/ /\ disk' = [disk EXCEPT ![next] = stage[next]]
          /\ stage' = [stage EXCEPT ![next] = "absent"]
          /\ pc' = "commit" /\ next' = next + 2
       \/ Fail(next) /\ UNCHANGED <<disk, stage>>
    /\ UNCHANGED <<backup, committed, cancel, shown, given>>

\* Mutant: the output whose publication failed is not rolled back.
PublishOutput_ForgetsItself ==
    /\ pc = "publish"
    /\ \/ /\ disk' = [disk EXCEPT ![next] = stage[next]]
          /\ stage' = [stage EXCEPT ![next] = "absent"]
          /\ pc' = "commit" /\ next' = next + 1
       \/ Fail(next - 1) /\ UNCHANGED <<disk, stage>>
    /\ UNCHANGED <<backup, committed, cancel, shown, given>>

PublishOutput ==
    /\ pc = "publish"
    /\ \/ /\ disk' = [disk EXCEPT ![next] = stage[next]]
          /\ stage' = [stage EXCEPT ![next] = "absent"]
          /\ pc' = "commit" /\ next' = next + 1
       \/ Fail(next) /\ UNCHANGED <<disk, stage>>
    /\ UNCHANGED <<backup, committed, cancel, shown, given>>

\* shutil.rmtree(ignore_errors): all of it goes, or what is in use stays.
CleanStaging ==
    \/ UNCHANGED staging
    \/ stage' = [i \in Outputs |-> "absent"] /\ backup' = [i \in Outputs |-> "absent"]

Commit ==
    /\ pc = "commit" /\ next = N + 1
    /\ committed' = TRUE
    /\ CleanStaging
    /\ pc' = "returned"
    /\ UNCHANGED <<disk, next, cancel, shown, given>>

\* The destination and the backup of output i after its rollback: the new file
\* cannot be removed, or the backup cannot be put back.
RollbackResults(i) ==
    {<<backup[i], "absent">>}
    \cup IF RollbackFails THEN {<<disk[i], backup[i]>>, <<"absent", backup[i]>>} ELSE {}

\* One published output is removed and its backup put back, the last one first;
\* an OSError of either call is passed over.
Rollback ==
    /\ pc = "rollback" /\ next > 0
    /\ \E kept \in RollbackResults(next) :
        /\ disk' = [disk EXCEPT ![next] = kept[1]]
        /\ backup' = [backup EXCEPT ![next] = kept[2]]
    /\ next' = next - 1
    /\ UNCHANGED <<stage, pc, committed, cancel, shown, given>>

RolledBack ==
    /\ pc = "rollback" /\ next = 0
    /\ pc' = "raised"
    /\ UNCHANGED <<disk, staging, next, committed, cancel, shown, given>>

-----------------------------------------------------------------------------
(* The end of the task and of Worker.run. *)

End(outcome) == pc' = "ended" /\ shown' = outcome

\* __exit__ aborts a transaction that was not committed.  The converter turns an
\* exception into a failed ConversionResult, so that the worker looks at the event
\* once more; the PDF tools let it through to the error signal.
Raise ==
    /\ pc = "raised"
    /\ CleanStaging
    /\ IF tool = "converter" /\ cancel THEN End("cancelled") ELSE End("failed")
    /\ UNCHANGED <<disk, next, committed, cancel, given>>

Cancelled ==
    /\ pc = "cancelled"
    /\ CleanStaging
    /\ End("cancelled")
    /\ UNCHANGED <<disk, next, committed, cancel, given>>

Return ==
    /\ pc = "returned"
    /\ IF cancel THEN End("cancelled") ELSE End("result")
    /\ UNCHANGED <<disk, staging, next, committed, cancel, given>>

-----------------------------------------------------------------------------
(* The user, and the end of the process. *)

Cancel ==
    /\ Alive /\ ~cancel
    /\ cancel' = TRUE /\ early' = (pc \in {"run", "stage"})
    /\ UNCHANGED <<disk, staging, pc, next, committed, shown, before, tool>>

Die ==
    /\ Alive
    /\ pc' = "dead"
    /\ UNCHANGED <<disk, staging, next, committed, cancel, shown, given>>

Task ==
    \/ Begin \/ Stage \/ Staged \/ MoveAside \/ PublishOutput \/ Commit
    \/ Rollback \/ RolledBack \/ Raise \/ Cancelled \/ Return

Next == Task \/ Cancel \/ Die

Spec == Init /\ [][Next]_vars

-----------------------------------------------------------------------------
(* Correctness. *)

\* A file the user had at a destination exists until the whole batch is published:
\* at its place or in the staging directory, whatever call fails, and also when
\* the process dies (the backups of commit()).
OldSurvives ==
    \A i \in Outputs : before[i] = "old" /\ ~committed => "old" \in {disk[i], backup[i]}

\* The batch is published as a whole or not at all: whatever the window reports,
\* the destinations are all new or all as they were ("as a logical batch"); a result
\* is reported of a published batch only, and a failure of an unpublished one
\* ("cancelled" may follow a publication, tools/worker.py:56).
AllOrNone ==
    /\ pc = "ended" => disk = IF committed THEN [i \in Outputs |-> "new"] ELSE before
    /\ shown = "result" => committed
    /\ shown = "failed" => ~committed

\* A task cancelled before its commit publishes nothing, although the event is only
\* looked at between two outputs and once before commit().
CancelHolds == early => disk = before /\ ~committed
=============================================================================
