------------------------ MODULE SnapshotHistoryProofs ------------------------
(***************************************************************************)
(* Safety of the snapshot history for every set of scopes and policies, every   *)
(* catalog limit and every number of files.  The argument for what retention     *)
(* spares is Survivors: the newest file removed from a scope already had MIN_KEEP *)
(* newer readable ones, and none of those was removed.                           *)
(***************************************************************************)
EXTENDS SnapshotHistory, FiniteSetTheorems, WellFoundedInduction, TLAPS

-----------------------------------------------------------------------------
(* Bounds of sets of naturals. *)

\* A non-empty set of naturals has a least element.
LEMMA Least ==
    ASSUME NEW S \in SUBSET Nat, S # {}
    PROVE  \E x \in S : \A y \in S : x <= y
<1> DEFINE R == {p \in Nat \X Nat : p[1] < p[2]}
<1>1. IsWellFoundedOn(R, Nat)
  BY NatLessThanWellFounded DEF OpToRel
<1>2. \A x, y \in S : <<y, x>> \notin R => x <= y
  OBVIOUS
<1> HIDE DEF R
<1>3. \E x \in S : \A y \in S : <<y, x>> \notin R
  BY <1>1, WFMin
<1> QED
  BY <1>2, <1>3

\* A non-empty set of naturals below n has a greatest element.
LEMMA Greatest ==
    ASSUME NEW n \in Nat, NEW S \in SUBSET (0..n), S # {}
    PROVE  \E x \in S : \A y \in S : y <= x
<1> DEFINE R == {k \in 0..n : n - k \in S}
<1>1. \A s \in S : n - s \in R
  OBVIOUS
<1>2. R # {} /\ R \in SUBSET Nat
  <2>1. PICK s \in S : TRUE
    OBVIOUS
  <2>2. n - s \in R
    BY <1>1
  <2> QED
    BY <2>2
<1>3. PICK x \in R : \A y \in R : x <= y
  BY <1>2, Least
<1>4. n - x \in S
  OBVIOUS
<1>5. ASSUME NEW y \in S PROVE y <= n - x
  <2>1. x <= n - y
    BY <1>1, <1>3
  <2> QED
    BY <2>1
<1> QED
  BY <1>4, <1>5

-----------------------------------------------------------------------------
(* Files, catalogs, candidates. *)

LEMMA FileFields ==
    /\ \A f \in File : f.scope \in Scopes /\ f.scope \in Nat /\ f.stamp \in 1..MaxTime /\ f.stamp \in Nat
    /\ \A f, g \in File : f.scope = g.scope /\ f.stamp = g.stamp => f = g
    /\ \A s \in Scopes, t \in 1..MaxTime :
          /\ [scope |-> s, stamp |-> t] \in File
          /\ [scope |-> s, stamp |-> t].scope = s
          /\ [scope |-> s, stamp |-> t].stamp = t
    /\ NoFile \notin File
<1>1. \A f \in File : f.scope \in Scopes /\ f.scope \in Nat /\ f.stamp \in 1..MaxTime /\ f.stamp \in Nat
  <2>1. Scopes \subseteq Nat /\ MaxTime \in Nat
    BY HistoryAssumption
  <2>2. \A f \in File : f.scope \in Scopes /\ f.stamp \in 1..MaxTime
    BY DEF File
  <2> SUFFICES ASSUME NEW f \in File
               PROVE  f.scope \in Scopes /\ f.scope \in Nat /\ f.stamp \in 1..MaxTime /\ f.stamp \in Nat
    OBVIOUS
  <2>3. f.scope \in Scopes /\ f.stamp \in 1..MaxTime
    BY <2>2
  <2>4. f.scope \in Nat
    BY <2>1, <2>3
  <2>5. f.stamp \in Nat
    BY <2>1, <2>3
  <2> QED
    BY <2>3, <2>4, <2>5
<1>2. \A f, g \in File : f.scope = g.scope /\ f.stamp = g.stamp => f = g
  BY DEF File
<1>3. \A s \in Scopes, t \in 1..MaxTime :
          /\ [scope |-> s, stamp |-> t] \in File
          /\ [scope |-> s, stamp |-> t].scope = s
          /\ [scope |-> s, stamp |-> t].stamp = t
  BY DEF File
<1>4. NoFile \notin File
  BY HistoryAssumption DEF File
<1> QED
  BY <1>1, <1>2, <1>3, <1>4

\* The count of newer files of a finite set is a natural.
LEMMA NewerFinite ==
    ASSUME NEW S, IsFiniteSet(S), NEW f
    PROVE  /\ Newer(f, S) \subseteq S
           /\ IsFiniteSet(Newer(f, S))
           /\ Cardinality(Newer(f, S)) \in Nat
BY FS_Subset, FS_CardinalityType DEF Newer

\* The catalog holds files that exist and can be read.
LEMMA CatalogIsReadable ==
    ASSUME NEW d, NEW bad
    PROVE  load_snapshot_catalog(d, bad) \subseteq d \ bad
BY DEF load_snapshot_catalog

\* A candidate is an entry of its scopes with MIN_KEEP newer entries.
LEMMA CandidatesAreOld ==
    ASSUME NEW E, NEW p, NEW t, NEW scopes,
           NEW f \in retention_candidates(E, p, t, scopes)
    PROVE  f \in E /\ f.scope \in scopes /\ Cardinality(Newer(f, E)) >= MIN_KEEP
BY DEF retention_candidates

\* What is removed are candidates.
LEMMA RemovalsAreCandidates ==
    ASSUME NEW C, NEW complete, NEW R \in Removals(C, complete)
    PROVE  R \subseteq C
BY DEF Removals

\* A file with at most one newer file is no candidate: MIN_KEEP is two or more.
LEMMA PairIsProtected ==
    ASSUME MIN_KEEP >= 2,
           NEW E, NEW f, NEW h, Newer(f, E) \subseteq {h},
           NEW p, NEW t, NEW scopes
    PROVE  f \notin retention_candidates(E, p, t, scopes)
<1>1. Cardinality(Newer(f, E)) <= 1 /\ Cardinality(Newer(f, E)) \in Nat
  <2>1. IsFiniteSet({h}) /\ Cardinality({h}) = 1
    BY FS_Singleton
  <2> QED
    BY <2>1, FS_Subset, FS_CardinalityType
<1>2. MIN_KEEP \in Nat
  BY HistoryAssumption
<1> QED
  BY <1>1, <1>2, CandidatesAreOld

\* A file with no newer one is no candidate.
LEMMA NewestIsProtected ==
    ASSUME NEW E, NEW f, Newer(f, E) = {}, NEW p, NEW t, NEW scopes
    PROVE  f \notin retention_candidates(E, p, t, scopes)
<1>1. Cardinality(Newer(f, E)) = 0
  BY FS_EmptySet
<1>2. MIN_KEEP \in Nat \ {0}
  BY HistoryAssumption
<1> QED
  BY <1>1, <1>2, CandidatesAreOld

\* A non-empty set of files has a newest and an oldest one.
LEMMA ExtremeFiles ==
    ASSUME NEW S \in SUBSET File, S # {}
    PROVE  /\ \E x \in S : \A y \in S : y.stamp <= x.stamp
           /\ \E x \in S : \A y \in S : x.stamp <= y.stamp
<1> DEFINE T == {f.stamp : f \in S}
<1>0. MaxTime \in Nat
  BY HistoryAssumption
<1>1. T # {}
  OBVIOUS
<1>2. T \in SUBSET (0..MaxTime) /\ T \in SUBSET Nat
  BY FileFields
<1>3. PICK a \in T : \A b \in T : b <= a
  <2> HIDE DEF T
  <2> QED
    BY <1>0, <1>1, <1>2, Greatest
<1>4. PICK a2 \in T : \A b \in T : a2 <= b
  <2> HIDE DEF T
  <2> QED
    BY <1>1, <1>2, Least
<1> QED
  BY <1>3, <1>4

\* Whatever part of the candidates is removed, a removed file leaves MIN_KEEP newer
\* entries: those of the newest removed file of its scope.
LEMMA Survivors ==
    ASSUME NEW E \in SUBSET File, IsFiniteSet(E),
           NEW p, NEW t, NEW scopes,
           NEW R \in SUBSET retention_candidates(E, p, t, scopes),
           NEW f \in R
    PROVE  Cardinality(Newer(f, E \ R)) >= MIN_KEEP
<1> DEFINE same == {g \in R : g.scope = f.scope}
<1>0. R \subseteq E /\ R \subseteq File /\ f \in File
  BY CandidatesAreOld
<1>1. PICK g \in same : \A y \in same : y.stamp <= g.stamp
  <2>1. same \in SUBSET File /\ same # {}
    BY <1>0
  <2> HIDE DEF same
  <2> QED
    BY <2>1, ExtremeFiles
<1>2. Newer(g, E) \subseteq Newer(f, E \ R)
  <2> SUFFICES ASSUME NEW h \in Newer(g, E) PROVE h \in Newer(f, E \ R)
    OBVIOUS
  <2>1. h \in E /\ h \in File /\ h.scope = f.scope /\ h.stamp > g.stamp
    BY DEF Newer
  <2>2. f.stamp <= g.stamp /\ f.stamp \in Nat /\ g.stamp \in Nat /\ h.stamp \in Nat
    BY <1>0, <1>1, <2>1, FileFields
  <2>3. h \notin R
    <3> SUFFICES ASSUME h \in R PROVE FALSE
      OBVIOUS
    <3>1. h.stamp <= g.stamp
      BY <1>1, <2>1
    <3> QED
      BY <2>1, <2>2, <3>1
  <2>4. h.stamp > f.stamp
    BY <2>1, <2>2
  <2> QED
    BY <2>1, <2>3, <2>4 DEF Newer
<1>3. Cardinality(Newer(g, E)) >= MIN_KEEP
  BY CandidatesAreOld
<1>4. IsFiniteSet(E \ R)
  BY FS_Subset
<1>5. IsFiniteSet(Newer(f, E \ R))
  BY <1>4, NewerFinite
<1>6. Cardinality(Newer(g, E)) <= Cardinality(Newer(f, E \ R))
  BY <1>2, <1>5, FS_Subset
<1>7. MIN_KEEP \in Nat /\ Cardinality(Newer(g, E)) \in Nat /\ Cardinality(Newer(f, E \ R)) \in Nat
  BY <1>4, NewerFinite, HistoryAssumption
<1> QED
  BY <1>3, <1>6, <1>7

\* A set of entries of one scope without candidates, under a policy that applies to
\* the scope, has at most as many files as the policy keeps.
LEMMA PolicyBounds ==
    ASSUME NEW E \in SUBSET File, IsFiniteSet(E),
           NEW p \in Policies, NEW t, NEW s,
           NEW S \in SUBSET E, \A f \in S : f.scope = s,
           S \cap retention_candidates(E, p, t, {s}) = {}
    PROVE  Cardinality(S) <= p.keep
<1>0. p.keep \in Nat /\ p.keep >= MIN_KEEP /\ MIN_KEEP \in Nat \ {0}
  BY HistoryAssumption
<1>1. IsFiniteSet(S) /\ Cardinality(S) \in Nat
  BY FS_Subset, FS_CardinalityType
<1>2. CASE S = {}
  BY <1>0, <1>2, FS_EmptySet
<1>3. CASE S # {}
  <2>1. PICK g \in S : \A y \in S : g.stamp <= y.stamp
    BY <1>3, ExtremeFiles
  <2>2. S \ {g} \subseteq Newer(g, E)
    <3> SUFFICES ASSUME NEW y \in S, y # g PROVE y \in Newer(g, E)
      OBVIOUS
    <3>1. y.scope = g.scope /\ g.stamp <= y.stamp /\ y \in File /\ g \in File /\ y \in E
      BY <2>1
    <3>2. y.stamp # g.stamp /\ y.stamp \in Nat /\ g.stamp \in Nat
      BY <3>1, FileFields
    <3>3. y.stamp > g.stamp
      BY <3>1, <3>2
    <3> QED
      BY <3>1, <3>3 DEF Newer
  <2>3. Cardinality(Newer(g, E)) \in Nat /\ IsFiniteSet(Newer(g, E))
    BY NewerFinite
  <2>4. Cardinality(Newer(g, E)) < p.keep
    <3>1. g \in E /\ g.scope \in {s} /\ g \notin retention_candidates(E, p, t, {s})
      OBVIOUS
    <3>2. ~(Cardinality(Newer(g, E)) >= MIN_KEEP /\ Cardinality(Newer(g, E)) >= p.keep)
      BY <3>1 DEF retention_candidates
    <3> QED
      BY <1>0, <2>3, <3>2
  <2>5. Cardinality(S \ {g}) <= Cardinality(Newer(g, E))
    BY <2>2, <2>3, FS_Subset
  <2>6. Cardinality(S \ {g}) = Cardinality(S) - 1
    BY <1>1, FS_RemoveElement
  <2> QED
    BY <1>0, <1>1, <2>3, <2>4, <2>5, <2>6
<1> QED
  BY <1>2, <1>3

-----------------------------------------------------------------------------
(* The two actions that delete files. *)

Published == [scope |-> schedule.scope, stamp |-> now]
Written == disk \cup {Published}
Readable == corrupt \ {Published}
Entries == load_snapshot_catalog(Written, Readable)
Candidates == retention_candidates(Entries, policy, now, {Published.scope})
Publication == [snapshot : File, previous : File \cup {NoFile}]

\* A publication writes one file, deletes candidates only, and either records the
\* run or suspends it.
LEMMA PublishEffect ==
    ASSUME Publish
    PROVE  /\ Unattended \/ suspended = <<>>
           /\ disk' \subseteq Written
           /\ Written \ disk' \subseteq Candidates
           /\ corrupt' = Readable
           /\ UNCHANGED <<now, policies, center>>
           /\ \/ /\ disk' = Written \ Candidates
                 /\ RecordSuccess(Published)
                 /\ UNCHANGED suspended
              \/ /\ suspended' = Append(suspended, [snapshot |-> Published, previous |-> schedule.last])
                 /\ UNCHANGED <<schedule, scheduleFile>>
<1>1. PICK complete \in BOOLEAN : create_automatic_snapshot(complete)
  BY DEF Publish
<1>2. PICK removed \in Removals(Candidates, complete) : disk' = Written \ removed
  BY <1>1 DEF create_automatic_snapshot, Published, Written, Readable, Entries, Candidates
<1>3. removed \subseteq Candidates
  BY RemovalsAreCandidates
<1>4. complete => removed = Candidates
  BY DEF Removals
<1>5. corrupt' = Readable
  BY <1>1 DEF create_automatic_snapshot, Readable, Published
<1>6. IF complete
      THEN RecordSuccess(Published) /\ UNCHANGED suspended
      ELSE /\ suspended' = Append(suspended, [snapshot |-> Published, previous |-> schedule.last])
           /\ UNCHANGED <<schedule, scheduleFile>>
  BY <1>1 DEF create_automatic_snapshot, Published
<1>7. (Unattended \/ suspended = <<>>) /\ UNCHANGED <<now, policies, center>>
  BY DEF Publish
<1> QED
  BY <1>2, <1>3, <1>4, <1>5, <1>6, <1>7

\* A confirmed cleanup deletes candidates only.
LEMMA ConfirmEffect ==
    ASSUME NEW complete, Confirm(complete)
    PROVE  /\ disk' \subseteq disk
           /\ disk \ disk' \subseteq retention_candidates(load_snapshot_catalog(disk, corrupt),
                                        question.policy, question.now, question.scopes)
           /\ corrupt' = corrupt
<1>1. PICK removed \in Removals(retention_candidates(load_snapshot_catalog(disk, corrupt),
                                question.policy, question.now, question.scopes), complete) :
              disk' = disk \ removed
  BY DEF Confirm
<1>2. removed \subseteq retention_candidates(load_snapshot_catalog(disk, corrupt),
                                question.policy, question.now, question.scopes)
  BY RemovalsAreCandidates
<1> QED
  BY <1>1, <1>2 DEF Confirm

\* The published file, and what a catalog of known files holds.
LEMMA EntriesAreFiles ==
    ASSUME TypeOK
    PROVE  /\ Published \in File /\ Published.scope = schedule.scope /\ Published.stamp = now
           /\ Written \subseteq File
           /\ Entries \subseteq Written \ Readable
           /\ Entries \subseteq File
           /\ Candidates \subseteq Entries
           /\ load_snapshot_catalog(disk, corrupt) \subseteq disk \ corrupt
           /\ load_snapshot_catalog(disk, corrupt) \subseteq File
<1>1. schedule.scope \in Scopes /\ now \in 1..MaxTime /\ disk \subseteq File
  BY DEF TypeOK
<1>2. Published \in File /\ Published.scope = schedule.scope /\ Published.stamp = now
  BY <1>1, FileFields DEF Published
<1>3. Written \subseteq File
  BY <1>1, <1>2 DEF Written
<1>4. Entries \subseteq Written \ Readable
  BY CatalogIsReadable DEF Entries
<1>5. Candidates \subseteq Entries
  BY CandidatesAreOld DEF Candidates
<1>6. load_snapshot_catalog(disk, corrupt) \subseteq disk \ corrupt
  BY CatalogIsReadable
<1> QED
  BY <1>1, <1>2, <1>3, <1>4, <1>5, <1>6

-----------------------------------------------------------------------------
(* Types. *)

Plan == [scope : Scopes, last : File \cup {NoFile}]
Question == [policy : Policies, scopes : SUBSET Scopes, now : 1..MaxTime]

\* Schedules, policies, questions and publications.
LEMMA ValueTypes ==
    /\ Default \in Policies /\ NoQuestion \in Question
    /\ \A p \in Policies, s \in SUBSET Scopes, t \in 1..MaxTime :
          [policy |-> p, scopes |-> s, now |-> t] \in Question
    /\ \A q \in Question : q.policy \in Policies
    /\ \A f \in File, g \in File \cup {NoFile} : [snapshot |-> f, previous |-> g] \in Publication
    /\ \A x \in Publication : x.snapshot \in File /\ x.previous \in File \cup {NoFile}
    /\ \A x \in Plan : x.scope \in Scopes /\ x.last \in File \cup {NoFile}
    /\ \A x \in Plan, f \in File : /\ [x EXCEPT !.last = f] \in Plan
                                   /\ [x EXCEPT !.last = f].last = f
    /\ \A x \in [scope : Scopes, last : {NoFile}] : x \in Plan /\ x.last = NoFile
<1>1. Default \in Policies /\ MaxTime \in Nat \ {0}
  BY HistoryAssumption
<1>2. 1 \in 1..MaxTime
  BY <1>1
<1>3. NoQuestion \in Question
  BY <1>1, <1>2 DEF NoQuestion, Question
<1>4. \A x \in Plan, f \in File : /\ [x EXCEPT !.last = f] \in Plan
                                  /\ [x EXCEPT !.last = f].last = f
  BY DEF Plan
<1>5. \A x \in Plan : x.scope \in Scopes /\ x.last \in File \cup {NoFile}
  BY DEF Plan
<1>6. \A x \in [scope : Scopes, last : {NoFile}] : x \in Plan /\ x.last = NoFile
  BY DEF Plan
<1>7. \A p \in Policies, s \in SUBSET Scopes, t \in 1..MaxTime :
          [policy |-> p, scopes |-> s, now |-> t] \in Question
  BY DEF Question
<1>8. \A q \in Question : q.policy \in Policies
  BY DEF Question
<1>9. \A f \in File, g \in File \cup {NoFile} : [snapshot |-> f, previous |-> g] \in Publication
  BY DEF Publication
<1>10. \A x \in Publication : x.snapshot \in File /\ x.previous \in File \cup {NoFile}
  BY DEF Publication
<1> QED
  BY <1>1, <1>3, <1>4, <1>5, <1>6, <1>7, <1>8, <1>9, <1>10

\* The types by name.
LEMMA TypeParts ==
    TypeOK <=> /\ disk \subseteq File /\ corrupt \subseteq disk
               /\ now \in 1..MaxTime
               /\ schedule \in Plan /\ scheduleFile \in Plan
               /\ policy \in Policies /\ policyFile \in Policies /\ dialogPolicy \in Policies
               /\ diverged \in BOOLEAN
               /\ suspended \in Seq(Publication)
               /\ dialog \in {"closed", "open", "asking"}
               /\ catalog \subseteq File
               /\ question \in Question
BY DEF TypeOK, Plan, Question, Publication

\* The same after a step.
LEMMA TypePartsNext ==
    TypeOK' <=> /\ disk' \subseteq File /\ corrupt' \subseteq disk'
                /\ now' \in 1..MaxTime
                /\ schedule' \in Plan /\ scheduleFile' \in Plan
                /\ policy' \in Policies /\ policyFile' \in Policies /\ dialogPolicy' \in Policies
                /\ diverged' \in BOOLEAN
                /\ suspended' \in Seq(Publication)
                /\ dialog' \in {"closed", "open", "asking"}
                /\ catalog' \subseteq File
                /\ question' \in Question
BY DEF TypeOK, Plan, Question, Publication

\* Every action keeps the types; Publish and Confirm are the two that matter, for
\* no file they delete may be remembered as corrupt.
LEMMA TypeStep ==
    ASSUME TypeOK, [Next]_vars
    PROVE  TypeOK'
<1> USE TypeParts, TypePartsNext
<1> HIDE DEF Plan, Question, Publication
<1>1. CASE Publish
  <2>1. corrupt' \subseteq disk' /\ disk' \subseteq File
    <3>1. disk' \subseteq File
      BY <1>1, PublishEffect, EntriesAreFiles
    <3>2. Readable \subseteq Written
      BY DEF Readable, Written
    <3>3. Readable \cap Candidates = {}
      BY EntriesAreFiles
    <3>4. Written \ disk' \subseteq Candidates /\ corrupt' = Readable
      BY <1>1, PublishEffect
    <3> QED
      BY <3>1, <3>2, <3>3, <3>4
  <2>2. Published \in File /\ schedule.last \in File \cup {NoFile}
    BY EntriesAreFiles, ValueTypes
  <2>3. [snapshot |-> Published, previous |-> schedule.last] \in Publication
    BY <2>2, ValueTypes
  <2>4. schedule' \in Plan /\ scheduleFile' \in Plan /\ suspended' \in Seq(Publication)
    <3>1. CASE RecordSuccess(Published) /\ UNCHANGED suspended
      BY <2>2, <3>1, ValueTypes DEF RecordSuccess
    <3>2. CASE /\ suspended' = Append(suspended, [snapshot |-> Published, previous |-> schedule.last])
               /\ UNCHANGED <<schedule, scheduleFile>>
      BY <2>3, <3>2
    <3> QED
      BY <1>1, <3>1, <3>2, PublishEffect
  <2>5. UNCHANGED <<now, policies, center>>
    BY <1>1, PublishEffect
  <2> QED
    BY <2>1, <2>4, <2>5 DEF policies, center
<1>2. CASE Resume
  <2>1. suspended[Len(suspended)] \in Publication
        /\ SubSeq(suspended, 1, Len(suspended) - 1) \in Seq(Publication)
    BY <1>2 DEF Resume
  <2>2. suspended[Len(suspended)].snapshot \in File
    BY <2>1, ValueTypes
  <2>3. schedule' \in Plan /\ scheduleFile' \in Plan
    BY <1>2, <2>2, ValueTypes DEF Resume, RecordSuccess
  <2> QED
    BY <1>2, <2>1, <2>3 DEF Resume, files, policies, center
<1>3. CASE create_schedule
  BY <1>3, ValueTypes DEF create_schedule, files, policies, center
<1>4. CASE _open_history_center
  BY <1>4, EntriesAreFiles DEF _open_history_center, files, policies
<1>5. CASE Decline
  BY <1>5, ValueTypes DEF Decline, files, policies
<1>6. CASE CloseHistory
  BY <1>6, ValueTypes DEF CloseHistory, NoCenter, files
<1>7. ASSUME NEW p \in Policies, _save_policy(p) PROVE TypeOK'
  BY <1>7 DEF _save_policy, files
<1>8. ASSUME NEW p \in Policies, NEW scopes \in {Scopes} \cup {{s} : s \in Scopes},
             _clean_now(p, scopes)
      PROVE  TypeOK'
  <2>1. scopes \in SUBSET Scopes
    OBVIOUS
  <2>2. question' \in Question
    BY <1>8, <2>1, ValueTypes DEF _clean_now
  <2> QED
    BY <1>8, <2>2 DEF _clean_now, files, policies
<1>9. ASSUME NEW complete \in BOOLEAN, Confirm(complete) PROVE TypeOK'
  <2>1. disk' \subseteq File /\ corrupt' \subseteq disk'
    <3>1. corrupt \cap retention_candidates(load_snapshot_catalog(disk, corrupt),
                            question.policy, question.now, question.scopes) = {}
      BY EntriesAreFiles, CandidatesAreOld
    <3> QED
      BY <1>9, <3>1, ConfirmEffect
  <2>2. question.policy \in Policies
    BY ValueTypes
  <2>3. load_snapshot_catalog(disk', corrupt) \subseteq File
    BY <2>1, CatalogIsReadable
  <2>4. dialogPolicy' \in Policies /\ policyFile' \in Policies /\ diverged' \in BOOLEAN
        /\ catalog' \subseteq File
    BY <1>9, <2>2, <2>3 DEF Confirm
  <2> QED
    BY <1>9, <2>1, <2>4, ValueTypes DEF Confirm
<1>10. CASE Clock
  BY <1>10 DEF Clock, files, policies, center
<1>11. CASE Damage
  BY <1>11 DEF Damage, policies, center
<1>12. CASE Restart
  <2>1. suspended' \in Seq(Publication)
    BY <1>12 DEF Restart
  <2>2. disk' = disk /\ corrupt' = corrupt
    BY <1>12 DEF Restart, files
  <2> QED
    BY <1>12, <2>1, <2>2, ValueTypes DEF Restart, NoCenter
<1>13. CASE UNCHANGED vars
  BY <1>13 DEF vars, files, policies, center
<1> QED
  BY <1>1, <1>2, <1>3, <1>4, <1>5, <1>6, <1>7, <1>8, <1>9, <1>10, <1>11, <1>12, <1>13 DEF Next

\* The type invariant of the history, for every value of the constants.
THEOREM TypeCorrect == Spec => []TypeOK
<1>1. Init => TypeOK
  <2> SUFFICES ASSUME Init PROVE TypeOK
    OBVIOUS
  <2>1. now \in 1..MaxTime
    BY HistoryAssumption DEF Init
  <2>2. schedule \in Plan /\ scheduleFile \in Plan
    BY ValueTypes DEF Init
  <2>3. suspended \in Seq(Publication)
    BY DEF Init
  <2> QED
    BY <2>1, <2>2, <2>3, ValueTypes, TypeParts DEF Init
<1>2. TypeOK /\ [Next]_vars => TypeOK'
  BY TypeStep
<1> QED
  BY <1>1, <1>2, PTL DEF Spec

-----------------------------------------------------------------------------
(* What retention spares. *)

\* A finite directory, no file of which is from the future.
Dated == IsFiniteSet(disk) /\ \A f \in disk : f.stamp <= now

\* While the clock is not set back, no file is newer than the clock.
LEMMA DatedStep ==
    ASSUME ~ClockMovesBack, TypeOK, Dated, [Next]_vars
    PROVE  Dated'
<1> USE TypeParts
<1>0. now \in Nat
  BY HistoryAssumption
<1>1. CASE Publish
  <2>1. IsFiniteSet(Written)
    BY FS_AddElement DEF Dated, Written
  <2>2. disk' \subseteq Written /\ now' = now
    BY <1>1, PublishEffect
  <2>3. \A f \in Written : f.stamp <= now
    BY <1>0, EntriesAreFiles DEF Dated, Written
  <2> QED
    BY <2>1, <2>2, <2>3, FS_Subset DEF Dated
<1>2. ASSUME NEW complete \in BOOLEAN, Confirm(complete) PROVE Dated'
  <2>1. disk' \subseteq disk /\ now' = now
    BY <1>2, ConfirmEffect DEF Confirm
  <2> QED
    BY <2>1, FS_Subset DEF Dated
<1>3. CASE Clock
  <2>1. now' = now + 1 /\ disk' = disk
    BY <1>3 DEF Clock, files
  <2>2. \A f \in disk : f.stamp \in Nat
    BY FileFields
  <2> QED
    BY <1>0, <2>1, <2>2 DEF Dated
<1>4. UNCHANGED <<disk, now>> => Dated'
  BY DEF Dated
<1>5. CASE Resume \/ create_schedule \/ _open_history_center \/ Decline \/ CloseHistory
           \/ Damage \/ Restart \/ UNCHANGED vars
  BY <1>4, <1>5 DEF Resume, create_schedule, _open_history_center, Decline, CloseHistory,
                    Damage, Restart, vars, files
<1>6. ASSUME NEW p, _save_policy(p) PROVE Dated'
  BY <1>4, <1>6 DEF _save_policy, files
<1>7. ASSUME NEW p, NEW scopes, _clean_now(p, scopes) PROVE Dated'
  BY <1>4, <1>7 DEF _clean_now, files
<1> QED
  BY <1>1, <1>2, <1>3, <1>5, <1>6, <1>7 DEF Next

\* Initially there is no file.
LEMMA DatedInit == Init => Dated
BY FS_EmptySet DEF Init, Dated

\* The action property of SparesThePair.
Spares == \A f \in disk \ disk' :
             f \notin corrupt /\ Cardinality(Newer(f, disk' \ corrupt')) >= MIN_KEEP

\* What is removed from a catalog leaves MIN_KEEP newer files on the disk.
LEMMA RemovalSpares ==
    ASSUME NEW E \in SUBSET File, IsFiniteSet(E), NEW p, NEW t, NEW scopes,
           NEW R \in SUBSET retention_candidates(E, p, t, scopes),
           NEW D, IsFiniteSet(D), E \ R \subseteq D,
           NEW f \in R
    PROVE  Cardinality(Newer(f, D)) >= MIN_KEEP
<1>1. Cardinality(Newer(f, E \ R)) >= MIN_KEEP
  BY Survivors
<1>2. Newer(f, E \ R) \subseteq Newer(f, D)
  BY DEF Newer
<1>3. IsFiniteSet(Newer(f, D)) /\ Cardinality(Newer(f, D)) \in Nat
  BY NewerFinite
<1>4. Cardinality(Newer(f, E \ R)) <= Cardinality(Newer(f, D))
        /\ Cardinality(Newer(f, E \ R)) \in Nat
  BY <1>2, <1>3, FS_Subset, FS_CardinalityType
<1>5. MIN_KEEP \in Nat
  BY HistoryAssumption
<1> QED
  BY <1>1, <1>3, <1>4, <1>5

LEMMA SparesStep ==
    ASSUME ~ClockMovesBack, TypeOK, Dated, [Next]_vars
    PROVE  Spares
<1> USE TypeParts
<1>1. CASE Publish
  <2> SUFFICES ASSUME NEW f \in disk \ disk'
               PROVE  f \notin corrupt /\ Cardinality(Newer(f, disk' \ corrupt')) >= MIN_KEEP
    BY DEF Spares
  <2> DEFINE R == Written \ disk'
  <2>1. R \subseteq Candidates /\ corrupt' = Readable /\ disk' \subseteq Written
    BY <1>1, PublishEffect
  <2>2. f \in R /\ f \in Candidates /\ f \in Entries
    BY <2>1, EntriesAreFiles DEF Written
  <2>3. IsFiniteSet(Written) /\ IsFiniteSet(Entries) /\ IsFiniteSet(disk' \ corrupt')
    <3>1. IsFiniteSet(Written)
      BY FS_AddElement DEF Dated, Written
    <3> QED
      BY <2>1, <3>1, EntriesAreFiles, FS_Subset
  <2>4. f # Published
    <3> SUFFICES ASSUME f = Published PROVE FALSE
      OBVIOUS
    <3>1. Newer(Published, Entries) = {}
      <4> SUFFICES ASSUME NEW g \in Newer(Published, Entries) PROVE FALSE
        OBVIOUS
      <4>1. g \in Written /\ g.stamp > Published.stamp
        BY EntriesAreFiles DEF Newer
      <4>2. g.stamp > now /\ g.stamp \in Nat /\ now \in Nat
        BY <4>1, EntriesAreFiles, FileFields, HistoryAssumption
      <4>3. g.stamp <= now
        BY <4>1, <4>2, EntriesAreFiles DEF Written, Dated
      <4> QED
        BY <4>2, <4>3
    <3> QED
      BY <2>2, <3>1, NewestIsProtected DEF Candidates
  <2>5. f \notin corrupt
    BY <2>2, <2>4, EntriesAreFiles DEF Readable
  <2>6. Entries \ R \subseteq disk' \ corrupt'
    BY <2>1, EntriesAreFiles
  <2>7. Cardinality(Newer(f, disk' \ corrupt')) >= MIN_KEEP
    <3>1. R \in SUBSET retention_candidates(Entries, policy, now, {Published.scope})
      BY <2>1 DEF Candidates
    <3> HIDE DEF R
    <3> QED
      BY <2>2, <2>3, <2>6, <3>1, EntriesAreFiles, RemovalSpares
  <2> QED
    BY <2>5, <2>7
<1>2. ASSUME NEW complete \in BOOLEAN, Confirm(complete) PROVE Spares
  <2> SUFFICES ASSUME NEW f \in disk \ disk'
               PROVE  f \notin corrupt /\ Cardinality(Newer(f, disk' \ corrupt')) >= MIN_KEEP
    BY DEF Spares
  <2> DEFINE R == disk \ disk'
             E == load_snapshot_catalog(disk, corrupt)
  <2>1. /\ disk' \subseteq disk /\ corrupt' = corrupt
        /\ R \in SUBSET retention_candidates(E, question.policy, question.now, question.scopes)
    BY <1>2, ConfirmEffect
  <2>2. R \subseteq E
    BY <2>1, CandidatesAreOld
  <2>3. E \subseteq disk \ corrupt /\ E \in SUBSET File
    BY EntriesAreFiles
  <2>4. IsFiniteSet(E) /\ IsFiniteSet(disk' \ corrupt')
    BY <2>1, <2>3, FS_Subset DEF Dated
  <2>5. E \ R \subseteq disk' \ corrupt'
    BY <2>1, <2>3
  <2>6. f \in R /\ f \notin corrupt
    BY <2>2, <2>3
  <2> HIDE DEF R, E
  <2> QED
    BY <2>1, <2>3, <2>4, <2>5, <2>6, RemovalSpares
<1>3. disk' = disk => Spares
  BY DEF Spares
<1>4. CASE Resume \/ create_schedule \/ _open_history_center \/ Decline \/ CloseHistory
           \/ Clock \/ Damage \/ Restart \/ UNCHANGED vars
  BY <1>3, <1>4 DEF Resume, create_schedule, _open_history_center, Decline, CloseHistory,
                    Clock, Damage, Restart, vars, files
<1>5. ASSUME NEW p, _save_policy(p) PROVE Spares
  BY <1>3, <1>5 DEF _save_policy, files
<1>6. ASSUME NEW p, NEW scopes, _clean_now(p, scopes) PROVE Spares
  BY <1>3, <1>6 DEF _clean_now, files
<1> QED
  BY <1>1, <1>2, <1>4, <1>5, <1>6 DEF Next

\* Whatever fails half-way, whatever is damaged and however the dialog and the runs
\* interleave, a deleted snapshot could be read and leaves MIN_KEEP newer ones of its
\* scope that can be read (retention_candidates, apply_retention_policy).
THEOREM PairIsSpared == ASSUME ~ClockMovesBack PROVE Spec => SparesThePair
<1>1. TypeOK /\ Dated /\ [Next]_vars => Dated'
  BY DatedStep
<1>2. TypeOK /\ Dated /\ [Next]_vars => Spares
  BY SparesStep
<1>3. Spec => [][Spares]_vars
  BY <1>1, <1>2, DatedInit, TypeCorrect, PTL DEF Spec
<1> QED
  BY <1>3 DEF SparesThePair, Spares

-----------------------------------------------------------------------------
(* The baseline of the next comparison. *)

\* f exists and its scope has nothing newer.
Newest(f) == f \in disk /\ Newer(f, disk) = {}

\* The last recorded run is the newest file of its scope, except while its
\* successor waits under a warning, and then the successor is.
BaselineInv ==
    /\ scheduleFile = schedule
    /\ schedule.last \in disk \cup {NoFile}
    /\ suspended = <<>> /\ schedule.last # NoFile => Newest(schedule.last)
    /\ suspended # <<>> =>
          /\ Len(suspended) = 1
          /\ Newest(suspended[1].snapshot)
          /\ suspended[1].previous \in disk \cup {NoFile}

\* A step that deletes nothing and adds nothing, and leaves the runs alone.
LEMMA BaselineUnmoved ==
    ASSUME BaselineInv, disk' = disk, UNCHANGED <<schedule, scheduleFile, suspended>>
    PROVE  BaselineInv'
BY DEF BaselineInv, Newest, Newer

\* A publication: the new file is the newest of its scope, and the old baseline has at
\* most that one above it, so neither is a candidate.
LEMMA BaselinePublish ==
    ASSUME MIN_KEEP >= 2, ~LosesSaves, ~Unattended, TypeOK, Dated, BaselineInv, Publish
    PROVE  BaselineInv'
<1> USE TypeParts
<1>0. suspended = <<>>
  BY PublishEffect
<1>1. disk' \subseteq Written /\ Written \ disk' \subseteq Candidates
  BY PublishEffect
<1>2. /\ Published \in File /\ Written \subseteq File /\ Entries \subseteq Written
      /\ Published.stamp = now /\ now \in Nat
  BY EntriesAreFiles, HistoryAssumption
<1>3. Newer(Published, Written) = {}
  <2> SUFFICES ASSUME NEW g \in Newer(Published, Written) PROVE FALSE
    OBVIOUS
  <2>1. g \in Written /\ g.stamp > now
    BY <1>2 DEF Newer
  <2>2. g \in disk
    BY <1>2, <2>1 DEF Written
  <2>3. g.stamp \in Nat
    BY <1>2, <2>1, FileFields
  <2> QED
    BY <1>2, <2>1, <2>2, <2>3 DEF Dated
<1>4. Published \in disk' /\ Newer(Published, disk') = {}
  <2>1. Newer(Published, Entries) = {} /\ Newer(Published, disk') = {}
    BY <1>1, <1>2, <1>3 DEF Newer
  <2>2. Published \notin Candidates
    BY <2>1, NewestIsProtected DEF Candidates
  <2> QED
    BY <1>1, <2>1, <2>2 DEF Written
<1>5. schedule.last \in disk' \cup {NoFile}
  <2> SUFFICES ASSUME schedule.last # NoFile PROVE schedule.last \in disk'
    OBVIOUS
  <2> DEFINE f == schedule.last
  <2>1. f \in disk /\ Newer(f, disk) = {}
    BY <1>0 DEF BaselineInv, Newest
  <2>2. Newer(f, Entries) \subseteq {Published}
    BY <1>2, <2>1 DEF Newer, Written
  <2>3. f \notin Candidates
    BY <2>2, PairIsProtected DEF Candidates
  <2> QED
    BY <1>1, <2>1, <2>3 DEF Written
<1>6. CASE RecordSuccess(Published) /\ UNCHANGED suspended
  <2>1. schedule'.last = Published /\ scheduleFile' = schedule'
    BY <1>2, <1>6, ValueTypes DEF RecordSuccess
  <2> QED
    BY <1>0, <1>4, <1>6, <2>1 DEF BaselineInv, Newest
<1>7. CASE /\ suspended' = Append(suspended, [snapshot |-> Published, previous |-> schedule.last])
           /\ UNCHANGED <<schedule, scheduleFile>>
  <2>1. suspended' = <<[snapshot |-> Published, previous |-> schedule.last]>>
    BY <1>0, <1>7
  <2>2. /\ suspended' # <<>> /\ Len(suspended') = 1
        /\ suspended'[1].snapshot = Published
        /\ suspended'[1].previous = schedule.last
    BY <2>1
  <2> QED
    BY <1>4, <1>5, <1>7, <2>2 DEF BaselineInv, Newest
<1> QED
  BY <1>6, <1>7, PublishEffect

LEMMA BaselineStep ==
    ASSUME MIN_KEEP >= 2, ~LosesSaves, ~Unattended,
           TypeOK, Dated, BaselineInv, [Next]_vars
    PROVE  BaselineInv'
<1> USE TypeParts
<1>1. CASE Publish
  BY <1>1, BaselinePublish
<1>2. CASE Resume
  <2>1. /\ suspended # <<>> /\ Len(suspended) = 1 /\ disk' = disk
        /\ RecordSuccess(suspended[1].snapshot)
        /\ suspended' = SubSeq(suspended, 1, 0)
    BY <1>2 DEF Resume, BaselineInv, files
  <2>2. suspended' = <<>>
    BY <2>1
  <2>3. suspended[1] \in Publication
    BY <2>1
  <2>4. suspended[1].snapshot \in File
    BY <2>3, ValueTypes
  <2>5. schedule'.last = suspended[1].snapshot /\ scheduleFile' = schedule'
    BY <2>1, <2>4, ValueTypes DEF RecordSuccess
  <2> QED
    BY <2>1, <2>2, <2>5 DEF BaselineInv, Newest, Newer
<1>3. CASE create_schedule
  <2>1. schedule'.last = NoFile /\ scheduleFile' = schedule' /\ suspended' = <<>>
    BY <1>3, ValueTypes DEF create_schedule
  <2> QED
    BY <2>1 DEF BaselineInv
<1>4. ASSUME NEW complete \in BOOLEAN, Confirm(complete) PROVE BaselineInv'
  <2> DEFINE E == load_snapshot_catalog(disk, corrupt)
  <2>1. /\ suspended = <<>> /\ disk' \subseteq disk
        /\ disk \ disk' \subseteq retention_candidates(E, question.policy, question.now, question.scopes)
        /\ UNCHANGED <<schedule, scheduleFile, suspended>>
    BY <1>4, ConfirmEffect DEF Confirm
  <2>2. ASSUME schedule.last # NoFile
        PROVE  schedule.last \in disk' /\ Newer(schedule.last, disk') = {}
    <3>1. schedule.last \in disk /\ Newer(schedule.last, disk) = {}
      BY <2>1, <2>2 DEF BaselineInv, Newest
    <3>2. E \subseteq disk
      BY EntriesAreFiles
    <3> HIDE DEF E
    <3>3. Newer(schedule.last, E) = {} /\ Newer(schedule.last, disk') = {}
      BY <2>1, <3>1, <3>2 DEF Newer
    <3> QED
      BY <2>1, <3>1, <3>3, NewestIsProtected
  <2> QED
    BY <2>1, <2>2 DEF BaselineInv, Newest
<1>5. CASE Restart
  <2>1. suspended = <<>> /\ suspended' = <<>> /\ disk' = disk /\ UNCHANGED <<schedule, scheduleFile>>
    BY <1>5 DEF Restart, BaselineInv, files
  <2> QED
    BY <2>1, BaselineUnmoved
<1>6. CASE _open_history_center \/ Decline \/ CloseHistory \/ Clock \/ Damage \/ UNCHANGED vars
  BY <1>6, BaselineUnmoved DEF _open_history_center, Decline, CloseHistory, Clock, Damage, vars, files
<1>7. ASSUME NEW p, _save_policy(p) PROVE BaselineInv'
  BY <1>7, BaselineUnmoved DEF _save_policy, files
<1>8. ASSUME NEW p, NEW scopes, _clean_now(p, scopes) PROVE BaselineInv'
  BY <1>8, BaselineUnmoved DEF _clean_now, files
<1> QED
  BY <1>1, <1>2, <1>3, <1>4, <1>5, <1>6, <1>7, <1>8 DEF Next

\* With saves that succeed, warnings dismissed before the next run ends and a clock
\* that is not set back, the baseline of every comparison is on the disk
\* (_publish_scheduled_snapshot).  Each of the three hypotheses is needed.
THEOREM BaselineKept ==
    ASSUME MIN_KEEP >= 2, ~LosesSaves, ~Unattended, ~ClockMovesBack
    PROVE  Spec => []BaselineAvailable
<1>1. Init => BaselineInv
  <2> SUFFICES ASSUME Init PROVE BaselineInv
    OBVIOUS
  <2>1. schedule.last = NoFile
    BY ValueTypes DEF Init
  <2> QED
    BY <2>1 DEF Init, BaselineInv
<1>2. TypeOK /\ Dated /\ BaselineInv /\ [Next]_vars => BaselineInv'
  BY BaselineStep
<1>3. TypeOK /\ Dated /\ [Next]_vars => Dated'
  BY DatedStep
<1>4. TypeOK /\ BaselineInv => BaselineAvailable
  <2> SUFFICES ASSUME TypeOK, BaselineInv PROVE BaselineAvailable
    OBVIOUS
  <2>1. ASSUME NEW k \in 1..Len(suspended)
        PROVE  suspended[k].snapshot \in disk /\ suspended[k].previous \in disk \cup {NoFile}
    <3>1. suspended # <<>> /\ Len(suspended) = 1
      <4>1. suspended # <<>>
        BY TypeParts
      <4> QED
        BY <4>1 DEF BaselineInv
    <3>2. k = 1
      BY <3>1
    <3> QED
      BY <3>1, <3>2 DEF BaselineInv, Newest
  <2> QED
    BY <2>1 DEF BaselineInv, BaselineAvailable
<1> QED
  BY <1>1, <1>2, <1>3, <1>4, DatedInit, TypeCorrect, PTL DEF Spec

-----------------------------------------------------------------------------
(* The policy in use. *)

\* The dialog, while it is open, and the window, while it is not, hold the policy of
\* the file unless saving it failed.
PolicyInv ==
    ~diverged => IF dialog = "closed" THEN policy = policyFile ELSE dialogPolicy = policyFile

\* A failed save after a cleanup and a failed load are the only ways to a window that uses
\* another policy than the file's (_clean_now, _open_history_center, _load_retention_policy).
THEOREM PolicyKept == Spec => []PolicyAdopted
<1>1. Init => PolicyInv
  BY DEF Init, PolicyInv
<1>2. TypeOK /\ PolicyInv /\ [Next]_vars => PolicyInv'
  <2> SUFFICES ASSUME TypeOK, PolicyInv, [Next]_vars PROVE PolicyInv'
    OBVIOUS
  <2>1. UNCHANGED <<policies, dialog, dialogPolicy>> => PolicyInv'
    BY DEF PolicyInv, policies
  <2>2. CASE Publish
    BY <2>1, <2>2, PublishEffect DEF center
  <2>3. CASE Resume \/ create_schedule \/ Clock \/ Damage \/ UNCHANGED vars
    BY <2>1, <2>3 DEF Resume, create_schedule, Clock, Damage, vars, center
  <2>4. CASE _open_history_center
    BY <2>4 DEF _open_history_center, PolicyInv, policies
  <2>5. CASE Decline
    BY <2>5 DEF Decline, PolicyInv, policies
  <2>6. CASE CloseHistory
    BY <2>6 DEF CloseHistory, NoCenter, PolicyInv
  <2>7. ASSUME NEW p, _save_policy(p) PROVE PolicyInv'
    BY <2>7 DEF _save_policy, PolicyInv
  <2>8. ASSUME NEW p, NEW scopes, _clean_now(p, scopes) PROVE PolicyInv'
    BY <2>8 DEF _clean_now, PolicyInv, policies
  <2>9. ASSUME NEW complete \in BOOLEAN, Confirm(complete) PROVE PolicyInv'
    BY <2>9 DEF Confirm, PolicyInv
  <2>10. CASE Restart
    BY <2>10 DEF Restart, NoCenter, PolicyInv
  <2> QED
    BY <2>2, <2>3, <2>4, <2>5, <2>6, <2>7, <2>8, <2>9, <2>10 DEF Next
<1>3. PolicyInv => PolicyAdopted
  BY DEF PolicyInv, PolicyAdopted
<1> QED
  BY <1>1, <1>2, <1>3, TypeCorrect, PTL DEF Spec

-----------------------------------------------------------------------------
(* What the policy bounds. *)

\* A directory within the limit is in the catalog as a whole.
LEMMA CatalogIsComplete ==
    ASSUME NEW d, IsFiniteSet(d), NEW bad, Cardinality(d) <= MAX_CATALOG,
           d \subseteq File
    PROVE  d \ bad \subseteq load_snapshot_catalog(d, bad)
<1> SUFFICES ASSUME NEW f \in d \ bad PROVE f \in load_snapshot_catalog(d, bad)
  OBVIOUS
<1>1. f \notin NamedAfter(f, d) /\ NamedAfter(f, d) \subseteq d
  <2>1. f.stamp \in Nat /\ f.scope \in Nat
    BY FileFields
  <2> QED
    BY <2>1 DEF NamedAfter, Newer
<1>2. Cardinality(d \ {f}) = Cardinality(d) - 1 /\ Cardinality(d) \in Nat
  BY FS_RemoveElement, FS_CardinalityType
<1>3. IsFiniteSet(d \ {f})
  BY FS_Subset
<1>4. /\ Cardinality(NamedAfter(f, d)) <= Cardinality(d \ {f})
      /\ Cardinality(NamedAfter(f, d)) \in Nat
  BY <1>1, <1>3, FS_Subset, FS_CardinalityType
<1>5. Cardinality(NamedAfter(f, d)) < MAX_CATALOG
  BY <1>2, <1>4, HistoryAssumption
<1> QED
  BY <1>5 DEF load_snapshot_catalog

LEMMA WithinPolicyStep ==
    ASSUME ~LosesSaves, TypeOK, IsFiniteSet(disk), scheduleFile = schedule, [Next]_vars
    PROVE  WithinPolicy
<1> USE TypeParts
<1>1. CASE Publish /\ Recorded /\ Cardinality(disk) < MAX_CATALOG
  <2>1. disk' = Written \ Candidates /\ corrupt' = Readable
    BY <1>1, PublishEffect DEF Recorded
  <2>2. IsFiniteSet(Written) /\ Cardinality(Written) <= MAX_CATALOG
    <3>1. IsFiniteSet(Written) /\ Cardinality(Written) <= Cardinality(disk) + 1
      <4>1. Cardinality(disk) \in Nat
        BY FS_CardinalityType
      <4>2. /\ IsFiniteSet(Written)
            /\ \/ Cardinality(Written) = Cardinality(disk)
               \/ Cardinality(Written) = Cardinality(disk) + 1
        BY FS_AddElement DEF Written
      <4> QED
        BY <4>1, <4>2
    <3>2. Cardinality(disk) \in Nat /\ Cardinality(Written) \in Nat /\ MAX_CATALOG \in Nat
      BY <3>1, FS_CardinalityType, HistoryAssumption
    <3> QED
      BY <1>1, <3>1, <3>2
  <2> DEFINE S == {f \in disk' \ corrupt' : f.scope = schedule.scope}
  <2>3. Written \ Readable \subseteq Entries
    BY <2>2, CatalogIsComplete, EntriesAreFiles DEF Entries
  <2>4. S \in SUBSET Entries /\ S \cap Candidates = {}
    BY <2>1, <2>3
  <2>5. Entries \in SUBSET File /\ IsFiniteSet(Entries) /\ Published.scope = schedule.scope
    BY <2>2, EntriesAreFiles, FS_Subset
  <2>6. S \cap retention_candidates(Entries, policy, now, {schedule.scope}) = {}
    BY <2>4, <2>5 DEF Candidates
  <2>7. \A f \in S : f.scope = schedule.scope
    OBVIOUS
  <2>8. Cardinality(S) <= policy.keep
    <3> HIDE DEF S
    <3> QED
      BY <2>4, <2>5, <2>6, <2>7, PolicyBounds
  <2> QED
    BY <2>8 DEF WithinPolicy
<1>2. ~Recorded => WithinPolicy
  BY DEF WithinPolicy
<1>3. Cardinality(disk) >= MAX_CATALOG => WithinPolicy
  BY FS_CardinalityType, HistoryAssumption DEF WithinPolicy
<1>4. schedule' = schedule => WithinPolicy
  BY <1>2 DEF Recorded
<1>5. CASE Resume
  BY <1>2, <1>5 DEF Resume, Recorded
<1>6. CASE create_schedule
  BY <1>2, <1>6, ValueTypes DEF create_schedule, Recorded
<1>7. CASE Restart
  BY <1>4, <1>7 DEF Restart
<1>8. CASE _open_history_center \/ Decline \/ CloseHistory \/ Clock \/ Damage \/ UNCHANGED vars
  BY <1>4, <1>8 DEF _open_history_center, Decline, CloseHistory, Clock, Damage, vars
<1>9. ASSUME NEW p, _save_policy(p) PROVE WithinPolicy
  BY <1>4, <1>9 DEF _save_policy
<1>10. ASSUME NEW p, NEW scopes, _clean_now(p, scopes) PROVE WithinPolicy
  BY <1>4, <1>10 DEF _clean_now
<1>11. ASSUME NEW complete, Confirm(complete) PROVE WithinPolicy
  BY <1>4, <1>11 DEF Confirm
<1>12. CASE Publish
  BY <1>1, <1>2, <1>12 DEF WithinPolicy
<1> QED
  BY <1>5, <1>6, <1>7, <1>8, <1>9, <1>10, <1>11, <1>12 DEF Next

\* The directory is finite and the schedule in memory is the saved one.
SavedFinite == IsFiniteSet(disk) /\ scheduleFile = schedule

LEMMA SavedFiniteStep ==
    ASSUME ~LosesSaves, TypeOK, SavedFinite, [Next]_vars
    PROVE  SavedFinite'
<1>1. CASE Publish
  <2>1. IsFiniteSet(Written) /\ disk' \subseteq Written
    BY <1>1, PublishEffect, FS_AddElement DEF SavedFinite, Written
  <2>2. scheduleFile' = schedule'
    BY <1>1, PublishEffect DEF RecordSuccess, SavedFinite
  <2> QED
    BY <2>1, <2>2, FS_Subset DEF SavedFinite
<1>2. disk' = disk /\ scheduleFile' = schedule' => SavedFinite'
  BY DEF SavedFinite
<1>3. CASE Resume
  BY <1>2, <1>3 DEF Resume, RecordSuccess, files
<1>4. CASE create_schedule \/ Restart
  BY <1>2, <1>4 DEF create_schedule, Restart, files
<1>5. CASE _open_history_center \/ Decline \/ CloseHistory \/ Clock \/ Damage \/ UNCHANGED vars
  BY <1>2, <1>5 DEF _open_history_center, Decline, CloseHistory, Clock, Damage, vars, files, SavedFinite
<1>6. ASSUME NEW p, _save_policy(p) PROVE SavedFinite'
  BY <1>2, <1>6 DEF _save_policy, files, SavedFinite
<1>7. ASSUME NEW p, NEW scopes, _clean_now(p, scopes) PROVE SavedFinite'
  BY <1>2, <1>7 DEF _clean_now, files, SavedFinite
<1>8. ASSUME NEW complete \in BOOLEAN, Confirm(complete) PROVE SavedFinite'
  <2>1. disk' \subseteq disk /\ UNCHANGED <<schedule, scheduleFile>>
    BY <1>8, ConfirmEffect DEF Confirm
  <2> QED
    BY <2>1, FS_Subset DEF SavedFinite
<1> QED
  BY <1>1, <1>3, <1>4, <1>5, <1>6, <1>7, <1>8 DEF Next

\* A run recorded without a warning leaves its scope at most keep_per_scope readable
\* snapshots, unless the directory is larger than the catalog (retention_candidates).
THEOREM RetentionIsBounded == ASSUME ~LosesSaves PROVE Spec => RetentionBounds
<1>1. Init => SavedFinite
  BY FS_EmptySet DEF Init, SavedFinite
<1>2. TypeOK /\ SavedFinite /\ [Next]_vars => SavedFinite'
  BY SavedFiniteStep
<1>3. TypeOK /\ SavedFinite /\ [Next]_vars => WithinPolicy
  BY WithinPolicyStep DEF SavedFinite
<1>4. Spec => [][WithinPolicy]_vars
  BY <1>1, <1>2, <1>3, TypeCorrect, PTL DEF Spec
<1> QED
  BY <1>4 DEF RetentionBounds
=============================================================================
