---------------------- MODULE NotificationInboxProofs ----------------------
(***************************************************************************)
(* Safety of the notification inbox for every set of monitors, every inbox    *)
(* capacity and every number of notifications.  Two facts carry it: the lock   *)
(* covers load and save (LockInv), and of a set with MaxItems elements above i  *)
(* the newest MaxItems are all above i (NewestKeeps).                           *)
(***************************************************************************)
EXTENDS NotificationInbox, FiniteSetTheorems, WellFoundedInduction, TLAPS

-----------------------------------------------------------------------------
(* Bounds of sets of naturals. *)

\* A non-empty set of naturals has a least element.
LEMMA Least ==
    ASSUME NEW S \in SUBSET Nat, S # {}
    PROVE  \E x \in S : \A y \in S : x <= y
<1> DEFINE R == {p \in Nat \X Nat : p[1] < p[2]}
<1>1. IsWellFoundedOn(R, Nat)
  BY NatLessThanWellFounded DEF OpToRel
<1>2. \A x, y \in S : <<y, x>> \notin R => x <= y
  OBVIOUS
<1> HIDE DEF R
<1>3. \E x \in S : \A y \in S : <<y, x>> \notin R
  BY <1>1, WFMin
<1> QED
  BY <1>2, <1>3

\* A non-empty set of naturals below n has a greatest element.
LEMMA Greatest ==
    ASSUME NEW n \in Nat, NEW S \in SUBSET (0..n), S # {}
    PROVE  \E x \in S : \A y \in S : y <= x
<1> DEFINE R == {k \in 0..n : n - k \in S}
<1>1. \A s \in S : n - s \in R
  OBVIOUS
<1>2. R # {} /\ R \in SUBSET Nat
  <2>1. PICK s \in S : TRUE
    OBVIOUS
  <2>2. n - s \in R
    BY <1>1
  <2> QED
    BY <2>2
<1>3. PICK x \in R : \A y \in R : x <= y
  BY <1>2, Least
<1>4. n - x \in S
  OBVIOUS
<1>5. ASSUME NEW y \in S PROVE y <= n - x
  <2>1. x <= n - y
    BY <1>1, <1>3
  <2> QED
    BY <2>1
<1> QED
  BY <1>4, <1>5

-----------------------------------------------------------------------------
(* The newest MaxItems of a set of notifications. *)

\* A set of notifications is finite, and so is its part above i.
LEMMA IdsFinite ==
    ASSUME NEW S \in SUBSET Ids
    PROVE  /\ IsFiniteSet(S)
           /\ Cardinality(S) \in Nat
           /\ \A i \in Nat : /\ IsFiniteSet({j \in S : j > i})
                             /\ Cardinality({j \in S : j > i}) \in Nat
<1>1. IsFiniteSet(Ids)
  BY FS_Interval, InboxAssumption DEF Ids
<1>2. ASSUME NEW T \in SUBSET Ids PROVE IsFiniteSet(T) /\ Cardinality(T) \in Nat
  BY <1>1, FS_Subset, FS_CardinalityType
<1> QED
  BY <1>2

\* A non-empty set of notifications has an oldest one.
LEMMA Oldest ==
    ASSUME NEW S \in SUBSET Ids, S # {}
    PROVE  \E x \in S : \A y \in S : x <= y
<1>1. S \subseteq Nat
  BY InboxAssumption DEF Ids
<1> QED
  BY <1>1, Least

\* And a newest one.
LEMMA Latest ==
    ASSUME NEW S \in SUBSET Ids, S # {}
    PROVE  \E x \in S : \A y \in S : y <= x
<1>1. MaxIds \in Nat /\ S \in SUBSET (0..MaxIds)
  BY InboxAssumption DEF Ids
<1> QED
  BY <1>1, Greatest

\* The newest are at most MaxItems.
LEMMA NewestBounded ==
    ASSUME NEW S \in SUBSET Ids
    PROVE  Cardinality(Newest(S)) <= MaxItems
<1>0. MaxItems \in Nat \ {0} /\ Ids \subseteq Nat
  BY InboxAssumption DEF Ids
<1>1. Newest(S) \in SUBSET Ids /\ Newest(S) \subseteq S
  BY DEF Newest
<1>2. CASE Newest(S) = {}
  BY <1>0, <1>2, FS_EmptySet
<1>3. CASE Newest(S) # {}
  <2>1. PICK x \in Newest(S) : \A y \in Newest(S) : x <= y
    BY <1>1, <1>3, Oldest
  <2> DEFINE above == {j \in S : j > x}
  <2>2. Cardinality(above) < MaxItems
    BY DEF Newest
  <2>3. ASSUME NEW y \in Newest(S) \ {x} PROVE y \in above
    <3>1. x <= y /\ x # y /\ x \in Nat /\ y \in Nat /\ y \in S
      BY <1>0, <1>1, <2>1
    <3> QED
      BY <3>1
  <2>4. IsFiniteSet(above) /\ Cardinality(above) \in Nat /\ IsFiniteSet(Newest(S))
        /\ Cardinality(Newest(S)) \in Nat
    BY <1>0, <1>1, IdsFinite
  <2> HIDE DEF above
  <2>5. Cardinality(Newest(S) \ {x}) <= Cardinality(above)
    <3>1. Newest(S) \ {x} \in SUBSET above
      BY <2>3
    <3> QED
      BY <2>4, <3>1, FS_Subset
  <2>6. Cardinality(Newest(S) \ {x}) = Cardinality(Newest(S)) - 1
    BY <2>4, FS_RemoveElement
  <2> QED
    BY <1>0, <2>2, <2>4, <2>5, <2>6
<1> QED
  BY <1>2, <1>3

\* If MaxItems elements of a set are above i, so are MaxItems of its newest.
LEMMA NewestKeeps ==
    ASSUME NEW S \in SUBSET Ids, NEW i \in Ids,
           Cardinality({j \in S : j > i}) >= MaxItems
    PROVE  Cardinality({j \in Newest(S) : j > i}) >= MaxItems
<1>0. MaxItems \in Nat \ {0} /\ Ids \subseteq Nat
  BY InboxAssumption DEF Ids
<1> DEFINE kept == {j \in Newest(S) : j > i}
           lost == {j \in S \ Newest(S) : j > i}
<1>1. Newest(S) \in SUBSET Ids /\ Newest(S) \subseteq S
  BY DEF Newest
<1>2. IsFiniteSet(kept) /\ Cardinality(kept) \in Nat
  BY <1>0, <1>1, IdsFinite
<1>3. CASE lost = {}
  <2>1. kept = {j \in S : j > i}
    BY <1>1, <1>3
  <2> QED
    BY <2>1
<1>4. CASE lost # {}
  <2>0. lost \in SUBSET Ids
    OBVIOUS
  <2>1. PICK x \in lost : \A y \in lost : y <= x
    BY <1>4, <2>0, Latest
  <2> DEFINE above == {j \in S : j > x}
  <2>2. ASSUME NEW k \in above PROVE k \in kept
    <3>1. k \in S /\ k > x /\ x > i /\ k \in Nat /\ x \in Nat /\ i \in Nat
      BY <1>0, <2>1
    <3>2. k \notin lost
      BY <2>1, <3>1
    <3> QED
      BY <3>1, <3>2
  <2>3. ~(Cardinality(above) < MaxItems)
    BY <2>1 DEF Newest
  <2>4. IsFiniteSet(above) /\ Cardinality(above) \in Nat
    BY <1>0, IdsFinite
  <2> HIDE DEF above, kept
  <2>5. Cardinality(above) <= Cardinality(kept)
    <3>1. above \in SUBSET kept
      BY <2>2
    <3> QED
      BY <1>2, <3>1, FS_Subset
  <2> QED
    BY <1>0, <1>2, <2>3, <2>4, <2>5 DEF kept
<1> QED
  BY <1>3, <1>4

\* Counting above i is monotone.
LEMMA CountMonotone ==
    ASSUME NEW S \in SUBSET Ids, NEW T \in SUBSET Ids, S \subseteq T, NEW i \in Ids
    PROVE  Cardinality({j \in S : j > i}) <= Cardinality({j \in T : j > i})
<1>0. Ids \subseteq Nat
  BY InboxAssumption DEF Ids
<1>1. IsFiniteSet({j \in T : j > i})
  BY <1>0, IdsFinite
<1>2. {j \in S : j > i} \in SUBSET {j \in T : j > i}
  OBVIOUS
<1> QED
  BY <1>1, <1>2, FS_Subset

-----------------------------------------------------------------------------
(* Inboxes: functions from some notifications to their flag. *)

\* An inbox has its notifications as domain and Boolean flags.
LEMMA InboxShape ==
    ASSUME NEW f \in Inboxes
    PROVE  /\ DOMAIN f \in SUBSET Ids
           /\ \A i \in DOMAIN f : f[i] \in BOOLEAN
BY DEF Inboxes

\* A function from notifications to Booleans is an inbox.
LEMMA IsInbox ==
    ASSUME NEW S \in SUBSET Ids, NEW f \in [S -> BOOLEAN]
    PROVE  f \in Inboxes
BY DEF Inboxes

\* The inbox without notifications.
LEMMA EmptyInbox == Empty \in Inboxes /\ DOMAIN Empty = {} /\ Cardinality(DOMAIN Empty) = 0
<1>1. Empty \in [{} -> BOOLEAN] /\ DOMAIN Empty = {}
  BY DEF Empty
<1>2. Empty \in Inboxes
  BY <1>1, IsInbox
<1> QED
  BY <1>1, <1>2, FS_EmptySet

\* Merging gives an inbox of the newest of both.
LEMMA MergeShape ==
    ASSUME NEW f \in Inboxes, NEW ids \in SUBSET Ids
    PROVE  /\ merge_notifications(f, ids) \in Inboxes
           /\ DOMAIN merge_notifications(f, ids) = Newest(DOMAIN f \cup ids)
           /\ \A i \in Newest(DOMAIN f \cup ids) :
                 merge_notifications(f, ids)[i] = (i \in DOMAIN f /\ f[i])
           /\ Newest(DOMAIN f \cup ids) \in SUBSET (DOMAIN f \cup ids)
           /\ DOMAIN f \cup ids \in SUBSET Ids
           /\ Cardinality(DOMAIN merge_notifications(f, ids)) <= MaxItems
<1> DEFINE T == DOMAIN f \cup ids
<1>1. T \in SUBSET Ids
  BY InboxShape
<1>2. Newest(T) \in SUBSET T
  BY DEF Newest
<1> HIDE DEF T
<1>3. \A i \in Newest(T) : (i \in DOMAIN f /\ f[i]) \in BOOLEAN
  OBVIOUS
<1>4. merge_notifications(f, ids) = [i \in Newest(T) |-> i \in DOMAIN f /\ f[i]]
  BY DEF T, merge_notifications
<1>5. merge_notifications(f, ids) \in [Newest(T) -> BOOLEAN]
  BY <1>3, <1>4
<1>6. merge_notifications(f, ids) \in Inboxes
  BY <1>1, <1>2, <1>5, IsInbox
<1>7. Cardinality(Newest(T)) <= MaxItems
  BY <1>1, NewestBounded
<1> QED
  BY <1>1, <1>2, <1>4, <1>6, <1>7 DEF T

\* Marking keeps the notifications and raises flags.
LEMMA MarkShape ==
    ASSUME NEW f \in Inboxes, NEW ids \in SUBSET Ids
    PROVE  /\ mark_ids_read(f, ids) \in Inboxes
           /\ DOMAIN mark_ids_read(f, ids) = DOMAIN f
           /\ \A i \in DOMAIN f : mark_ids_read(f, ids)[i] = (f[i] \/ i \in ids)
<1>1. DOMAIN f \in SUBSET Ids
  BY InboxShape
<1>2. \A i \in DOMAIN f : (f[i] \/ i \in ids) \in BOOLEAN
  OBVIOUS
<1>3. mark_ids_read(f, ids) \in [DOMAIN f -> BOOLEAN]
  BY <1>2 DEF mark_ids_read
<1> QED
  BY <1>1, <1>3, IsInbox DEF mark_ids_read
-----------------------------------------------------------------------------
(* Dialogs. *)

\* A dialog has a kind and shows notifications.
LEMMA DialogShape ==
    /\ \A d \in Dialog : d.shown \in SUBSET Ids
    /\ \A k \in {"inbox", "warning", "error"}, s \in SUBSET Ids :
          [kind |-> k, shown |-> s] \in Dialog
BY DEF Dialog

\* Dismissing the innermost dialog leaves the others.
LEMMA Dismissed ==
    ASSUME NEW f \in Seq(Dialog), f # <<>>
    PROVE  /\ Len(f) \in Nat /\ Len(f) \in 1..Len(f)
           /\ f[Len(f)] \in Dialog
           /\ SubSeq(f, 1, Len(f) - 1) \in Seq(Dialog)
           /\ Len(SubSeq(f, 1, Len(f) - 1)) = Len(f) - 1
           /\ \A k \in 1..Len(f) - 1 : SubSeq(f, 1, Len(f) - 1)[k] = f[k]
<1>1. Len(f) \in Nat /\ Len(f) # 0
  OBVIOUS
<1>2. Len(f) \in 1..Len(f) /\ Len(f) - 1 \in 0..Len(f)
  BY <1>1
<1>3. f[Len(f)] \in Dialog
  BY <1>2
<1>4. SubSeq(f, 1, Len(f) - 1) \in Seq(Dialog)
  BY <1>1
<1> DEFINE g == SubSeq(f, 1, Len(f) - 1)
<1>5. g = [i \in 1..Len(f) - 1 |-> f[i]]
  BY <1>1
<1>6. Len(g) = Len(f) - 1
  <2>1. g \in Seq(Dialog) /\ DOMAIN g = 1..Len(f) - 1
    BY <1>4, <1>5
  <2>2. Len(g) \in Nat /\ DOMAIN g = 1..Len(g)
    BY <2>1
  <2> HIDE DEF g
  <2> QED
    BY <1>1, <2>1, <2>2
<1> QED
  BY <1>1, <1>2, <1>3, <1>4, <1>5, <1>6

\* Opening one keeps those that are open.
LEMMA Opened ==
    ASSUME NEW f \in Seq(Dialog), NEW d \in Dialog
    PROVE  /\ Append(f, d) \in Seq(Dialog)
           /\ Len(Append(f, d)) = Len(f) + 1 /\ Len(f) \in Nat
           /\ \A k \in 1..Len(f) : Append(f, d)[k] = f[k]
           /\ Append(f, d)[Len(f) + 1] = d
OBVIOUS

-----------------------------------------------------------------------------
(* What Store does to the file. *)

\* A writer whose copy is current merges into, or marks, the file itself.
LEMMA StoreEffect ==
    ASSUME TypeOK, NoStaleCopy, NEW a \in Actors, Store(a)
    PROVE  /\ task[a] = "publish" => /\ stored' = stored \cup batch[a]
                                     /\ \/ file' = merge_notifications(file, batch[a])
                                        \/ file' = file /\ batch[a] \subseteq DOMAIN file
           /\ task[a] = "mark" => /\ stored' = stored
                                  /\ file' = mark_ids_read(file, batch[a])
           /\ everRead' = everRead \cup ReadIds(file')
           /\ memory' = memory \/ memory' = merge_notifications(file, batch[a])
              \/ memory' = mark_ids_read(file, batch[a])
           /\ task[a] \in {"publish", "mark"}
<1>1. copy[a] = file
  BY DEF NoStaleCopy, Store
<1>2. task[a] \in {"publish", "mark"}
  BY DEF TypeOK
<1> QED
  BY <1>1, <1>2 DEF Store

\* Afterwards the file is an inbox within its capacity.
LEMMA StoreTyped ==
    ASSUME TypeOK, NoStaleCopy, NEW a \in Actors, Store(a)
    PROVE  /\ file' \in Inboxes /\ memory' \in Inboxes
           /\ Cardinality(DOMAIN file') <= MaxItems
           /\ stored' \subseteq Ids /\ everRead' \subseteq Ids
           /\ DOMAIN file' \subseteq DOMAIN file \cup (IF task[a] = "publish" THEN batch[a] ELSE {})
<1>1. file \in Inboxes /\ memory \in Inboxes /\ batch[a] \in SUBSET Ids
      /\ Cardinality(DOMAIN file) <= MaxItems /\ stored \subseteq Ids /\ everRead \subseteq Ids
  BY DEF TypeOK
<1> DEFINE merged == merge_notifications(file, batch[a])
           marked == mark_ids_read(file, batch[a])
<1>a. /\ merged \in Inboxes /\ Cardinality(DOMAIN merged) <= MaxItems
      /\ DOMAIN merged \subseteq DOMAIN file \cup batch[a]
  <2>1. /\ merged \in Inboxes /\ Cardinality(DOMAIN merged) <= MaxItems
        /\ DOMAIN merged = Newest(DOMAIN file \cup batch[a])
        /\ Newest(DOMAIN file \cup batch[a]) \in SUBSET (DOMAIN file \cup batch[a])
    BY <1>1, MergeShape
  <2> HIDE DEF merged
  <2> QED
    BY <2>1
<1>b. marked \in Inboxes /\ DOMAIN marked = DOMAIN file
  BY <1>1, MarkShape
<1>c. task[a] \in {"publish", "mark"}
  BY StoreEffect
<1>2. file' \in Inboxes /\ memory' \in Inboxes /\ Cardinality(DOMAIN file') <= MaxItems
  <2>1. file' \in {file, merged, marked} /\ memory' \in {memory, merged, marked}
    BY <1>c, StoreEffect
  <2> HIDE DEF merged, marked
  <2> QED
    BY <1>1, <1>a, <1>b, <2>1
<1>3. ReadIds(file') \subseteq Ids
  BY <1>2, InboxShape DEF ReadIds
<1>4. DOMAIN file' \subseteq DOMAIN file \cup (IF task[a] = "publish" THEN batch[a] ELSE {})
  <2>1. CASE task[a] = "publish"
    <3>1. file' \in {file, merged}
      BY <2>1, StoreEffect
    <3> HIDE DEF merged
    <3> QED
      BY <1>a, <2>1, <3>1
  <2>2. CASE task[a] = "mark"
    <3>1. file' = marked
      BY <2>2, StoreEffect
    <3> HIDE DEF marked
    <3> QED
      BY <1>b, <2>2, <3>1
  <2> QED
    BY <1>c, <2>1, <2>2
<1> QED
  BY <1>1, <1>2, <1>3, <1>4, StoreEffect

-----------------------------------------------------------------------------
(* Types. *)

\* The actors: the GUI thread and the monitors, which it is not one of.
LEMMA ActorFacts == Gui \in Actors /\ Monitors \subseteq Actors /\ Gui \notin Monitors
BY InboxAssumption DEF Actors

\* The variables of the writers keep their types, and the dialogs theirs.
LEMMA ThreadsTyped ==
    ASSUME TypeOK, Next
    PROVE  /\ holders' \subseteq Actors
           /\ pc' \in [Actors -> {"idle", "waiting", "loaded"}]
           /\ task' \in [Actors -> {"publish", "mark"}]
           /\ batch' \in [Actors -> SUBSET Ids]
           /\ copy' \in [Actors -> Inboxes]
           /\ frames' \in Seq(Dialog)
<1> DEFINE Goal == /\ holders' \subseteq Actors
                   /\ pc' \in [Actors -> {"idle", "waiting", "loaded"}]
                   /\ task' \in [Actors -> {"publish", "mark"}]
                   /\ batch' \in [Actors -> SUBSET Ids]
                   /\ copy' \in [Actors -> Inboxes]
                   /\ frames' \in Seq(Dialog)
<1> USE ActorFacts
<1>0. /\ holders \subseteq Actors
      /\ pc \in [Actors -> {"idle", "waiting", "loaded"}]
      /\ task \in [Actors -> {"publish", "mark"}]
      /\ batch \in [Actors -> SUBSET Ids]
      /\ copy \in [Actors -> Inboxes]
      /\ frames \in Seq(Dialog)
      /\ file \in Inboxes /\ memory \in Inboxes /\ Empty \in Inboxes
  BY EmptyInbox DEF TypeOK
<1>a. ASSUME NEW a \in Actors, NEW t \in {"publish", "mark"}, NEW ids \in SUBSET Ids,
             Begin(a, t, ids)
      PROVE  /\ holders' \subseteq Actors
             /\ pc' \in [Actors -> {"idle", "waiting", "loaded"}]
             /\ task' \in [Actors -> {"publish", "mark"}]
             /\ batch' \in [Actors -> SUBSET Ids]
             /\ copy' \in [Actors -> Inboxes]
  BY <1>0, <1>a DEF Begin
<1>b. ASSUME NEW a \in Actors, Leave(a)
      PROVE  /\ pc' \in [Actors -> {"idle", "waiting", "loaded"}]
             /\ task' \in [Actors -> {"publish", "mark"}]
             /\ batch' \in [Actors -> SUBSET Ids]
             /\ copy' \in [Actors -> Inboxes]
  BY <1>0, <1>b DEF Leave
<1>c. ASSUME NEW a \in Actors, Release(a) PROVE holders' \subseteq Actors
  BY <1>0, <1>c DEF Release
<1>1. ASSUME NEW a \in Actors, Enter(a) PROVE Goal
  BY <1>0, <1>1 DEF Enter
<1>2. ASSUME NEW a \in Actors, Fail(a) PROVE Goal
  <2>1. \A k \in {"warning", "error"} : Append(frames, [kind |-> k, shown |-> {}]) \in Seq(Dialog)
    BY <1>0, DialogShape, Opened
  <2>2. frames' \in Seq(Dialog) /\ holders' \subseteq Actors
    BY <1>0, <1>2, <1>c, <2>1 DEF Fail
  <2>3. Leave(a)
    BY <1>2 DEF Fail
  <2> QED
    BY <1>b, <2>2, <2>3
<1>3. ASSUME NEW a \in Actors, Store(a) PROVE Goal
  BY <1>0, <1>3, <1>b, <1>c DEF Store
<1>4. ASSUME NEW m \in Monitors, Observe(m) PROVE Goal
  <2>1. PICK ids \in SUBSET Ids : Begin(m, "publish", ids)
    BY <1>4 DEF Observe
  <2> QED
    BY <1>0, <1>4, <1>a, <2>1 DEF Observe
<1>5. CASE SnapshotPublished
  <2>1. {issued + 1} \in SUBSET Ids
    BY <1>5, InboxAssumption DEF SnapshotPublished, TypeOK, Ids
  <2>2. Begin(Gui, "publish", {issued + 1})
    BY <1>5 DEF SnapshotPublished
  <2> QED
    BY <1>0, <1>5, <1>a, <2>1, <2>2 DEF SnapshotPublished
<1>6. CASE Refresh
  BY <1>0, <1>6 DEF Refresh, threads
<1>7. CASE OpenDialog
  <2>1. memory' \in Inboxes
    BY <1>0, <1>7 DEF OpenDialog
  <2>2. [kind |-> "inbox", shown |-> DOMAIN memory'] \in Dialog
    BY <2>1, InboxShape, DialogShape
  <2>3. frames' \in Seq(Dialog)
    BY <1>7, <2>2 DEF OpenDialog
  <2> QED
    BY <1>0, <1>7, <2>3 DEF OpenDialog, threads
<1>8. CASE Dismiss
  <2> DEFINE top == frames[Len(frames)]
             rest == SubSeq(frames, 1, Len(frames) - 1)
  <2>1. top \in Dialog /\ rest \in Seq(Dialog)
    BY <1>0, <1>8, Dismissed DEF Dismiss
  <2>2. frames' = rest /\ (\/ Begin(Gui, "mark", top.shown)
                          \/ /\ holders' \in {{}, holders}
                             /\ UNCHANGED <<pc, task, batch, copy>>)
    BY <1>8 DEF Dismiss
  <2>3. top.shown \in SUBSET Ids
    BY <2>1, DialogShape
  <2> HIDE DEF top, rest
  <2> QED
    BY <1>0, <1>a, <2>1, <2>2, <2>3
<1>9. CASE Restart
  <2>1. <<>> \in Seq(Dialog)
    OBVIOUS
  <2> QED
    BY <1>0, <1>9, <2>1 DEF Restart
<1> QED
  BY <1>1, <1>2, <1>3, <1>4, <1>5, <1>6, <1>7, <1>8, <1>9 DEF Next, Critical

\* The file, the window's copy and the histories keep their types.
LEMMA DataTyped ==
    ASSUME TypeOK, NoStaleCopy, Next
    PROVE  /\ file' \in Inboxes /\ memory' \in Inboxes
           /\ Cardinality(DOMAIN file') <= MaxItems
           /\ issued' \in 0..MaxIds
           /\ stored' \subseteq Ids /\ fallback' \subseteq Ids
           /\ presented' \subseteq Ids /\ everRead' \subseteq Ids
<1> DEFINE Goal == /\ file' \in Inboxes /\ memory' \in Inboxes
                   /\ Cardinality(DOMAIN file') <= MaxItems
                   /\ issued' \in 0..MaxIds
                   /\ stored' \subseteq Ids /\ fallback' \subseteq Ids
                   /\ presented' \subseteq Ids /\ everRead' \subseteq Ids
<1>0. /\ file \in Inboxes /\ memory \in Inboxes /\ Cardinality(DOMAIN file) <= MaxItems
      /\ batch \in [Actors -> SUBSET Ids] /\ issued \in 0..MaxIds
      /\ stored \subseteq Ids /\ fallback \subseteq Ids
      /\ presented \subseteq Ids /\ everRead \subseteq Ids
      /\ Empty \in Inboxes
  BY EmptyInbox DEF TypeOK
<1>1. ASSUME NEW a \in Actors, Enter(a) PROVE Goal
  BY <1>0, <1>1 DEF Enter, history
<1>2. ASSUME NEW a \in Actors, Fail(a) PROVE Goal
  <2>1. fallback' \in {fallback, fallback \cup batch[a]} /\ batch[a] \subseteq Ids
    BY <1>0, <1>2 DEF Fail
  <2> QED
    BY <1>0, <1>2, <2>1 DEF Fail, history
<1>3. ASSUME NEW a \in Actors, Store(a) PROVE Goal
  BY <1>0, <1>3, StoreTyped DEF Store
<1>4. ASSUME NEW m \in Monitors, Observe(m) PROVE Goal
  <2>1. PICK ids \in SUBSET {i \in Ids : i <= issued + 1} \ {{}} :
           issued' = IF ids \subseteq 1..issued THEN issued ELSE issued + 1
    BY <1>4 DEF Observe
  <2>2. issued' \in 0..MaxIds
    <3>1. CASE ids \subseteq 1..issued
      BY <1>0, <2>1, <3>1
    <3>2. CASE ~(ids \subseteq 1..issued)
      <4>1. PICK i \in ids : i \notin 1..issued
        BY <3>2
      <4>2. i \in 1..MaxIds /\ i <= issued + 1 /\ issued \in Nat /\ MaxIds \in Nat
        BY <1>0, InboxAssumption DEF Ids
      <4> QED
        BY <2>1, <3>2, <4>1, <4>2
    <3> QED
      BY <3>1, <3>2
  <2> QED
    BY <1>0, <1>4, <2>2 DEF Observe, history
<1>5. CASE SnapshotPublished
  BY <1>0, <1>5, InboxAssumption DEF SnapshotPublished, history
<1>6. CASE Refresh
  BY <1>0, <1>6 DEF Refresh, history
<1>7. CASE OpenDialog
  <2>1. memory' \in Inboxes
    BY <1>0, <1>7 DEF OpenDialog
  <2> QED
    BY <1>0, <1>7, <2>1, InboxShape DEF OpenDialog
<1>8. CASE Dismiss
  BY <1>0, <1>8 DEF Dismiss, history
<1>9. CASE Restart
  BY <1>0, <1>9 DEF Restart, history
<1> QED
  BY <1>1, <1>2, <1>3, <1>4, <1>5, <1>6, <1>7, <1>8, <1>9 DEF Next, Critical

-----------------------------------------------------------------------------
(* The lock. *)

\* At most one thread holds the lock; who has loaded holds it, and so does the
\* GUI thread while a warning it showed inside the lock is open.
LockInv ==
    /\ \A a, b \in holders : a = b
    /\ \A a \in Actors : pc[a] = "loaded" => a \in holders
    /\ Warns(frames) => Gui \in holders

\* Who may take the lock, or has loaded, is alone with it.
LEMMA Alone ==
    ASSUME TypeOK, LockInv, NEW a \in Actors,
           (pc[a] = "waiting" /\ CanLock(a)) \/ pc[a] = "loaded"
    PROVE  /\ holders \subseteq {a}
           /\ \A b \in Actors : pc[b] = "loaded" => b = a
           /\ Warns(frames) => a = Gui
BY DEF LockInv, CanLock

\* After it leaves, nobody has loaded, and the GUI thread still has the lock if a
\* warning is open.
LEMMA LeaveReleases ==
    ASSUME TypeOK, LockInv, NEW a \in Actors, Leave(a),
           (pc[a] = "waiting" /\ CanLock(a)) \/ pc[a] = "loaded"
    PROVE  /\ \A b \in Actors : pc'[b] # "loaded"
           /\ Release(a) => /\ \A b, c \in holders' : b = c
                            /\ Warns(frames) => Gui \in holders'
<1>1. pc' = [pc EXCEPT ![a] = "idle"] /\ pc \in [Actors -> {"idle", "waiting", "loaded"}]
  BY DEF Leave, TypeOK
<1>2. \A b \in Actors : pc'[b] # "loaded"
  BY <1>1, Alone
<1>3. ASSUME Release(a) PROVE /\ \A b, c \in holders' : b = c
                              /\ Warns(frames) => Gui \in holders'
  <2>1. holders' \in {{}, {Gui}}
    BY <1>3 DEF Release
  <2>2. Warns(frames) => holders' = {Gui}
    BY <1>3, Alone DEF Release
  <2> QED
    BY <2>1, <2>2
<1> QED
  BY <1>2, <1>3

\* A dialog that is not a warning changes nothing about warnings.
LEMMA WarnsOpened ==
    ASSUME NEW f \in Seq(Dialog), NEW d \in Dialog, d.kind # "warning"
    PROVE  Warns(Append(f, d)) => Warns(f)
<1> SUFFICES ASSUME NEW k \in 1..Len(Append(f, d)), Append(f, d)[k].kind = "warning"
             PROVE  Warns(f)
  BY DEF Warns
<1>1. k \in 1..Len(f) \/ k = Len(f) + 1
  BY Opened
<1>2. k # Len(f) + 1
  BY Opened
<1> QED
  BY <1>1, <1>2, Opened DEF Warns

\* Closing the innermost dialog leaves fewer warnings.
LEMMA WarnsDismissed ==
    ASSUME NEW f \in Seq(Dialog), f # <<>>
    PROVE  /\ Warns(SubSeq(f, 1, Len(f) - 1)) => Warns(f)
           /\ f[Len(f)].kind = "warning" => Warns(f)
<1> DEFINE g == SubSeq(f, 1, Len(f) - 1)
<1>1. Len(f) \in Nat /\ Len(f) \in 1..Len(f) /\ Len(g) = Len(f) - 1
      /\ \A k \in 1..Len(f) - 1 : g[k] = f[k]
  BY Dismissed
<1> HIDE DEF g
<1>2. ASSUME NEW k \in 1..Len(g), g[k].kind = "warning"
      PROVE  k \in 1..Len(f) /\ f[k].kind = "warning"
  BY <1>1, <1>2
<1> QED
  BY <1>1, <1>2 DEF Warns, g

\* The lock is exclusive (temporal_notifications._INBOX_LOCK).
LEMMA LockStep ==
    ASSUME TypeOK, LockInv, [Next]_vars
    PROVE  LockInv'
<1> USE ActorFacts
<1>0. /\ holders \subseteq Actors /\ frames \in Seq(Dialog)
      /\ pc \in [Actors -> {"idle", "waiting", "loaded"}]
  BY DEF TypeOK
<1>1. ASSUME NEW a \in Actors, Enter(a) PROVE LockInv'
  <2>1. holders' = {a} /\ pc' = [pc EXCEPT ![a] = "loaded"] /\ frames' = frames
        /\ pc[a] = "waiting" /\ CanLock(a)
    BY <1>1 DEF Enter
  <2>2. \A b \in Actors : pc'[b] = "loaded" => b \in holders'
    BY <1>0, <2>1, Alone
  <2>3. Warns(frames) => Gui \in holders'
    BY <2>1, Alone
  <2> QED
    BY <2>1, <2>2, <2>3 DEF LockInv, Warns
<1>2. ASSUME NEW a \in Actors, Fail(a) PROVE LockInv'
  <2>1. Leave(a) /\ ((pc[a] = "waiting" /\ CanLock(a)) \/ pc[a] = "loaded")
    BY <1>2 DEF Fail
  <2>2. \A b \in Actors : pc'[b] # "loaded"
    BY <2>1, LeaveReleases
  <2>3. CASE a \in Monitors /\ Release(a) /\ UNCHANGED frames
    BY <2>1, <2>2, <2>3, LeaveReleases DEF LockInv, Warns
  <2>4. CASE holders' = {Gui}
    BY <2>2, <2>4 DEF LockInv
  <2>5. CASE Release(a) /\ frames' = Append(frames, [kind |-> "error", shown |-> {}])
    <3>1. [kind |-> "error", shown |-> {}] \in Dialog
          /\ [kind |-> "error", shown |-> {}].kind # "warning"
      BY DialogShape
    <3>2. Warns(frames)' => Warns(frames)
      BY <1>0, <2>5, <3>1, WarnsOpened DEF Warns
    <3> QED
      BY <2>1, <2>2, <2>5, <3>2, LeaveReleases DEF LockInv
  <2> QED
    BY <1>2, <2>3, <2>4, <2>5 DEF Fail
<1>3. ASSUME NEW a \in Actors, Store(a) PROVE LockInv'
  <2>1. Leave(a) /\ Release(a) /\ pc[a] = "loaded" /\ frames' = frames
    BY <1>3 DEF Store
  <2> QED
    BY <2>1, LeaveReleases DEF LockInv, Warns
<1>a. ASSUME NEW a \in Actors, NEW t, NEW ids, Begin(a, t, ids),
             Warns(frames)' => Warns(frames)
      PROVE  LockInv'
  BY <1>0, <1>a DEF Begin, LockInv
<1>4. ASSUME NEW m \in Monitors, Observe(m) PROVE LockInv'
  <2>1. PICK ids : Begin(m, "publish", ids)
    BY <1>4 DEF Observe
  <2> QED
    BY <1>4, <1>a, <2>1 DEF Observe, Warns
<1>5. CASE SnapshotPublished
  <2>1. Begin(Gui, "publish", {issued + 1}) /\ frames' = frames
    BY <1>5 DEF SnapshotPublished
  <2> QED
    BY <1>a, <2>1 DEF Warns
<1>6. CASE Refresh
  BY <1>6 DEF Refresh, threads, LockInv, Warns
<1>7. CASE OpenDialog
  <2>1. frames' = <<[kind |-> "inbox", shown |-> DOMAIN memory']>> /\ UNCHANGED <<holders, pc>>
    BY <1>7 DEF OpenDialog, threads
  <2>2. ~Warns(frames)'
    BY <2>1 DEF Warns
  <2> QED
    BY <2>1, <2>2 DEF LockInv
<1>8. CASE Dismiss
  <2> DEFINE top == frames[Len(frames)]
             rest == SubSeq(frames, 1, Len(frames) - 1)
  <2>1. /\ Warns(rest) => Warns(frames)
        /\ top.kind = "warning" => Warns(frames)
    BY <1>0, <1>8, WarnsDismissed DEF Dismiss
  <2>2. frames' = rest /\ pc[Gui] = "idle"
    BY <1>8 DEF Dismiss
  <2>3. \/ Begin(Gui, "mark", top.shown)
        \/ /\ holders' = IF top.kind = "warning" /\ ~Warns(rest) THEN {} ELSE holders
           /\ pc' = pc
    BY <1>8 DEF Dismiss
  <2> HIDE DEF top, rest
  <2>4. CASE Begin(Gui, "mark", top.shown)
    BY <1>a, <2>1, <2>2, <2>4 DEF Warns
  <2>5. CASE /\ holders' = IF top.kind = "warning" /\ ~Warns(rest) THEN {} ELSE holders
             /\ pc' = pc
    <3>1. CASE top.kind = "warning" /\ ~Warns(rest)
      <4>1. Gui \in holders /\ holders' = {}
        BY <2>1, <2>5, <3>1 DEF LockInv
      <4>2. \A b \in Actors : pc[b] # "loaded"
        BY <2>2, <4>1 DEF LockInv
      <4>3. ~Warns(frames)'
        BY <2>2, <3>1 DEF Warns
      <4> QED
        BY <2>5, <4>1, <4>2, <4>3 DEF LockInv
    <3>2. CASE ~(top.kind = "warning" /\ ~Warns(rest))
      <4>1. holders' = holders /\ pc' = pc
        BY <2>5, <3>2
      <4>2. Warns(frames)' => Warns(frames)
        BY <2>1, <2>2 DEF Warns
      <4> QED
        BY <4>1, <4>2 DEF LockInv
    <3> QED
      BY <3>1, <3>2
  <2> QED
    BY <2>3, <2>4, <2>5
<1>9. CASE Restart
  <2>1. ~Warns(frames)' /\ holders' = {} /\ pc' = [a \in Actors |-> "idle"]
    BY <1>9 DEF Restart, Warns
  <2> QED
    BY <2>1 DEF LockInv
<1>10. CASE UNCHANGED vars
  BY <1>10 DEF vars, threads, LockInv, Warns
<1> QED
  BY <1>1, <1>2, <1>3, <1>4, <1>5, <1>6, <1>7, <1>8, <1>9, <1>10 DEF Next, Critical

\* A step leaves every other writer's copy current.
LEMMA CopyStep ==
    ASSUME TypeOK, LockInv, NoStaleCopy, [Next]_vars
    PROVE  NoStaleCopy'
<1>0. pc \in [Actors -> {"idle", "waiting", "loaded"}] /\ copy \in [Actors -> Inboxes]
      /\ Gui \in Actors /\ Monitors \subseteq Actors
  BY ActorFacts DEF TypeOK
<1>1. ASSUME NEW a \in Actors, Enter(a) PROVE NoStaleCopy'
  BY <1>0, <1>1 DEF Enter, NoStaleCopy
<1>2. ASSUME NEW a \in Actors, Fail(a) \/ Store(a) PROVE NoStaleCopy'
  <2>1. Leave(a) /\ ((pc[a] = "waiting" /\ CanLock(a)) \/ pc[a] = "loaded")
    BY <1>2 DEF Fail, Store
  <2> QED
    BY <2>1, LeaveReleases DEF NoStaleCopy
<1>a. ASSUME NEW a \in Actors, NEW t, NEW ids, Begin(a, t, ids), file' = file
      PROVE  NoStaleCopy'
  BY <1>0, <1>a DEF Begin, NoStaleCopy
<1>3. ASSUME NEW m \in Monitors, Observe(m) PROVE NoStaleCopy'
  <2>1. (\E ids : Begin(m, "publish", ids)) /\ file' = file
    BY <1>3 DEF Observe
  <2> QED
    BY <1>0, <1>a, <2>1
<1>4. CASE SnapshotPublished
  BY <1>0, <1>4, <1>a DEF SnapshotPublished
<1>5. CASE Refresh \/ OpenDialog
  BY <1>5 DEF Refresh, OpenDialog, threads, NoStaleCopy
<1>6. CASE Dismiss
  <2>1. file' = file /\ ((\E ids : Begin(Gui, "mark", ids)) \/ UNCHANGED <<pc, copy>>)
    BY <1>6 DEF Dismiss
  <2> QED
    BY <1>0, <1>a, <2>1 DEF NoStaleCopy
<1>7. CASE Restart
  BY <1>7 DEF Restart, NoStaleCopy
<1>8. CASE UNCHANGED vars
  BY <1>8 DEF vars, threads, NoStaleCopy
<1> QED
  BY <1>1, <1>2, <1>3, <1>4, <1>5, <1>6, <1>7, <1>8 DEF Next, Critical

\* Types, lock and copies are inductive together.
LEMMA LockCorrect == Spec => [](TypeOK /\ LockInv /\ NoStaleCopy)
<1>1. Init => TypeOK /\ LockInv /\ NoStaleCopy
  <2> SUFFICES ASSUME Init PROVE TypeOK /\ LockInv /\ NoStaleCopy
    OBVIOUS
  <2>1. <<>> \in Seq(Dialog)
    OBVIOUS
  <2>2. TypeOK
    BY <2>1, EmptyInbox, InboxAssumption DEF Init, TypeOK
  <2>3. LockInv /\ NoStaleCopy
    BY DEF Init, LockInv, NoStaleCopy, Warns
  <2> QED
    BY <2>2, <2>3
<1>2. TypeOK /\ LockInv /\ NoStaleCopy /\ [Next]_vars => (TypeOK /\ LockInv /\ NoStaleCopy)'
  <2> SUFFICES ASSUME TypeOK, LockInv, NoStaleCopy, [Next]_vars
               PROVE  TypeOK' /\ LockInv' /\ NoStaleCopy'
    OBVIOUS
  <2>1. ASSUME Next PROVE TypeOK'
    BY <2>1, ThreadsTyped, DataTyped DEF TypeOK
  <2>2. ASSUME UNCHANGED vars PROVE TypeOK'
    BY <2>2 DEF vars, threads, history, TypeOK
  <2>3. TypeOK'
    BY <2>1, <2>2
  <2> QED
    BY <2>3, LockStep, CopyStep
<1> QED
  BY <1>1, <1>2, PTL DEF Spec

\* Every variable keeps its type, and the file never holds more than
\* MAX_NOTIFICATION_INBOX_ITEMS (notifications.merge_notifications).
THEOREM TypeCorrect == Spec => []TypeOK
BY LockCorrect, PTL

\* What a writer loaded is what the file holds when it saves: the lock covers
\* load and save of all three writers.
THEOREM CopiesCurrent == Spec => []NoStaleCopy
BY LockCorrect, PTL

-----------------------------------------------------------------------------
(* What the file keeps. *)

\* Everything in the file or ever read was stored, nothing stored was lost, and
\* what was read is read.
StoredInv ==
    /\ DOMAIN file \subseteq stored
    /\ everRead \subseteq stored
    /\ NothingLost
    /\ ReadIsForever

\* Merging new notifications keeps the invariant.
LEMMA MergeKeeps ==
    ASSUME TypeOK, StoredInv, NEW ids \in SUBSET Ids,
           file' = merge_notifications(file, ids),
           stored' = stored \cup ids,
           everRead' = everRead \cup ReadIds(file')
    PROVE  StoredInv'
<1> DEFINE T == DOMAIN file \cup ids
<1>0. file \in Inboxes /\ stored \in SUBSET Ids /\ everRead \in SUBSET Ids
      /\ DOMAIN file \in SUBSET Ids /\ Ids \subseteq Nat /\ MaxItems \in Nat
  BY InboxShape, InboxAssumption DEF TypeOK, Ids
<1>1. /\ DOMAIN file' = Newest(T)
      /\ \A i \in Newest(T) : file'[i] = (i \in DOMAIN file /\ file[i])
      /\ Newest(T) \in SUBSET T /\ T \in SUBSET Ids
  BY <1>0, MergeShape
<1>2. ASSUME NEW i \in Ids, Cardinality({j \in T : j > i}) >= MaxItems
      PROVE  Cardinality({j \in DOMAIN file' : j > i}) >= MaxItems
  <2>1. Cardinality({j \in Newest(T) : j > i}) >= MaxItems
    BY <1>1, <1>2, NewestKeeps
  <2> QED
    BY <1>1, <2>1
<1>3. ASSUME NEW i \in stored \ DOMAIN file
      PROVE  Cardinality({j \in T : j > i}) >= MaxItems
  <2>1. Cardinality({j \in DOMAIN file : j > i}) >= MaxItems
    BY DEF StoredInv, NothingLost
  <2>2. Cardinality({j \in DOMAIN file : j > i}) <= Cardinality({j \in T : j > i})
    BY <1>0, <1>1, CountMonotone
  <2>3. /\ Cardinality({j \in DOMAIN file : j > i}) \in Nat
        /\ Cardinality({j \in T : j > i}) \in Nat
    BY <1>0, <1>1, IdsFinite
  <2> QED
    BY <1>0, <2>1, <2>2, <2>3
<1>4. ASSUME NEW i \in T \ Newest(T)
      PROVE  Cardinality({j \in T : j > i}) >= MaxItems
  <2>1. Cardinality({j \in T : j > i}) \in Nat
    BY <1>0, <1>1, IdsFinite
  <2>2. ~(Cardinality({j \in T : j > i}) < MaxItems)
    BY DEF Newest
  <2> QED
    BY <1>0, <2>1, <2>2
<1>5. NothingLost'
  <2> SUFFICES ASSUME NEW i \in stored' \ DOMAIN file'
               PROVE  Cardinality({j \in DOMAIN file' : j > i}) >= MaxItems
    BY DEF NothingLost
  <2>1. i \in Ids /\ (i \in stored \ DOMAIN file \/ i \in T \ Newest(T))
    BY <1>0, <1>1
  <2> HIDE DEF T
  <2> QED
    BY <1>2, <1>3, <1>4, <2>1
<1>6. DOMAIN file' \subseteq stored'
  BY <1>1 DEF StoredInv
<1>7. everRead' \subseteq stored'
  BY <1>6 DEF ReadIds, StoredInv
<1>8. ASSUME NEW i \in everRead, i \in DOMAIN file' PROVE file'[i]
  <2>1. i \in DOMAIN file
    <3> SUFFICES ASSUME i \notin DOMAIN file PROVE FALSE
      OBVIOUS
    <3>1. Cardinality({j \in T : j > i}) >= MaxItems
      BY <1>3 DEF StoredInv
    <3>2. Cardinality({j \in T : j > i}) < MaxItems
      BY <1>1, <1>8 DEF Newest
    <3>3. Cardinality({j \in T : j > i}) \in Nat
      BY <1>0, <1>1, IdsFinite
    <3> QED
      BY <1>0, <3>1, <3>2, <3>3
  <2>2. file[i]
    BY <2>1 DEF StoredInv, ReadIsForever
  <2> QED
    BY <1>1, <1>8, <2>1, <2>2
<1>9. ReadIsForever'
  BY <1>8 DEF ReadIsForever, ReadIds
<1> QED
  BY <1>5, <1>6, <1>7, <1>9 DEF StoredInv

\* So does marking.
LEMMA MarkKeeps ==
    ASSUME TypeOK, StoredInv, NEW ids \in SUBSET Ids,
           file' = mark_ids_read(file, ids),
           stored' = stored,
           everRead' = everRead \cup ReadIds(file')
    PROVE  StoredInv'
<1>1. file \in Inboxes
  BY DEF TypeOK
<1>2. /\ DOMAIN file' = DOMAIN file
      /\ \A i \in DOMAIN file : file'[i] = (file[i] \/ i \in ids)
  BY <1>1, MarkShape
<1>3. NothingLost'
  BY <1>2 DEF StoredInv, NothingLost
<1>4. ReadIsForever'
  BY <1>2 DEF StoredInv, ReadIsForever, ReadIds
<1> QED
  BY <1>2, <1>3, <1>4 DEF StoredInv, ReadIds

\* And so does every step.
LEMMA StoredStep ==
    ASSUME TypeOK, NoStaleCopy, StoredInv, [Next]_vars
    PROVE  StoredInv'
<1>1. ASSUME NEW a \in Actors, Store(a) PROVE StoredInv'
  <2>0. batch[a] \in SUBSET Ids
    BY DEF TypeOK
  <2>1. CASE file' = merge_notifications(file, batch[a]) /\ stored' = stored \cup batch[a]
    BY <1>1, <2>0, <2>1, StoreEffect, MergeKeeps
  <2>2. CASE file' = mark_ids_read(file, batch[a]) /\ stored' = stored
    BY <1>1, <2>0, <2>2, StoreEffect, MarkKeeps
  <2>3. CASE file' = file /\ batch[a] \subseteq DOMAIN file /\ stored' = stored \cup batch[a]
    <3>1. stored' = stored
      BY <2>3 DEF StoredInv
    <3>2. everRead' = everRead \cup ReadIds(file)
      BY <1>1, <2>3, StoreEffect DEF ReadIds
    <3> QED
      BY <2>3, <3>1, <3>2 DEF StoredInv, NothingLost, ReadIsForever, ReadIds
  <2> QED
    BY <1>1, <2>1, <2>2, <2>3, StoreEffect
<1>2. ASSUME UNCHANGED <<file, stored, everRead>> PROVE StoredInv'
  BY <1>2 DEF StoredInv, NothingLost, ReadIsForever
<1>3. ASSUME NEW a \in Actors, Enter(a) \/ Fail(a) PROVE UNCHANGED <<file, stored, everRead>>
  BY <1>3 DEF Enter, Fail, history
<1>4. ASSUME \/ \E m \in Monitors : Observe(m)
             \/ SnapshotPublished \/ Refresh \/ OpenDialog \/ Dismiss \/ Restart
             \/ UNCHANGED vars
      PROVE  UNCHANGED <<file, stored, everRead>>
  BY <1>4 DEF Observe, SnapshotPublished, Refresh, OpenDialog, Dismiss, Restart, vars, history
<1> QED
  BY <1>1, <1>2, <1>3, <1>4 DEF Next, Critical

\* What was stored stays in the file, read or not, until MaxItems newer ones are.
LEMMA StoredCorrect == Spec => [](NothingLost /\ ReadIsForever)
<1>1. Init => StoredInv
  BY EmptyInbox DEF Init, StoredInv, NothingLost, ReadIsForever
<1>2. (TypeOK /\ LockInv /\ NoStaleCopy) /\ StoredInv /\ [Next]_vars => StoredInv'
  BY StoredStep
<1>3. StoredInv => NothingLost /\ ReadIsForever
  BY DEF StoredInv
<1> QED
  BY <1>1, <1>2, <1>3, LockCorrect, PTL DEF Spec

\* No writer overwrites what another stored: a stored notification leaves the file
\* only when MAX_NOTIFICATION_INBOX_ITEMS newer ones are in it.
THEOREM NothingIsLost == Spec => []NothingLost
BY StoredCorrect, PTL

\* A read notification is never unread again, replayed events and marks included.
THEOREM ReadStaysRead == Spec => []ReadIsForever
BY StoredCorrect, PTL

-----------------------------------------------------------------------------
(* What is marked as read was on a screen. *)

\* Marks in progress and open dialogs name only what was presented.
PresentedInv ==
    /\ OnlyPresentedIsRead
    /\ \A a \in Actors : task[a] = "mark" => batch[a] \subseteq presented
    /\ \A k \in 1..Len(frames) : frames[k].shown \subseteq presented

\* Every step keeps it so.
LEMMA PresentedStep ==
    ASSUME TypeOK, NoStaleCopy, PresentedInv, [Next]_vars
    PROVE  PresentedInv'
<1> USE ActorFacts
<1>0. /\ frames \in Seq(Dialog) /\ file \in Inboxes
      /\ task \in [Actors -> {"publish", "mark"}] /\ batch \in [Actors -> SUBSET Ids]
  BY DEF TypeOK
<1> DEFINE Tasks == \A a \in Actors : task[a] = "mark" => batch[a] \subseteq presented
           Shown == \A k \in 1..Len(frames) : frames[k].shown \subseteq presented
<1>a. ASSUME NEW a \in Actors, Leave(a), presented' = presented PROVE Tasks'
  BY <1>0, <1>a DEF Leave, PresentedInv
<1>b. ASSUME frames' = frames, presented' = presented PROVE Shown'
  BY <1>b DEF PresentedInv
<1>c. ASSUME file' = file, presented \subseteq presented' PROVE OnlyPresentedIsRead'
  BY <1>c DEF PresentedInv, OnlyPresentedIsRead, ReadIds
<1>1. ASSUME NEW a \in Actors, Enter(a) PROVE PresentedInv'
  BY <1>1, <1>b, <1>c DEF Enter, history, PresentedInv
<1>2. ASSUME NEW a \in Actors, Fail(a) PROVE PresentedInv'
  <2>1. Leave(a) /\ file' = file /\ presented' = presented
    BY <1>2 DEF Fail, history
  <2>2. Shown'
    <3>1. CASE frames' = frames
      BY <1>b, <2>1, <3>1
    <3>2. ASSUME NEW k \in {"warning", "error"},
                 frames' = Append(frames, [kind |-> k, shown |-> {}])
          PROVE  Shown'
      <4> DEFINE d == [kind |-> k, shown |-> {}]
      <4>1. d \in Dialog /\ d.shown = {}
        BY DialogShape
      <4> HIDE DEF d
      <4>2. \A n \in 1..Len(frames') : (n \in 1..Len(frames) /\ frames'[n] = frames[n])
                                       \/ frames'[n] = d
        BY <1>0, <3>2, <4>1, Opened DEF d
      <4> QED
        BY <2>1, <4>1, <4>2 DEF PresentedInv
    <3> QED
      BY <1>2, <3>1, <3>2 DEF Fail
  <2> QED
    BY <1>a, <1>c, <2>1, <2>2 DEF PresentedInv
<1>3. ASSUME NEW a \in Actors, Store(a) PROVE PresentedInv'
  <2>1. Leave(a) /\ frames' = frames /\ presented' = presented
    BY <1>3 DEF Store
  <2>2. batch[a] \in SUBSET Ids
    BY <1>0
  <2>3. ASSUME task[a] = "publish", file' = merge_notifications(file, batch[a])
        PROVE  OnlyPresentedIsRead'
    <3> DEFINE merged == merge_notifications(file, batch[a])
    <3>a. /\ DOMAIN merged = Newest(DOMAIN file \cup batch[a])
          /\ \A i \in Newest(DOMAIN file \cup batch[a]) :
                merged[i] = (i \in DOMAIN file /\ file[i])
      BY <1>0, <2>2, MergeShape
    <3> HIDE DEF merged
    <3>0. \A i \in DOMAIN merged : merged[i] = (i \in DOMAIN file /\ file[i])
      BY <3>a
    <3>1. \A i \in DOMAIN file' : file'[i] => i \in DOMAIN file /\ file[i]
      BY <2>3, <3>0 DEF merged
    <3> QED
      BY <2>1, <3>1 DEF PresentedInv, OnlyPresentedIsRead, ReadIds
  <2>4. ASSUME task[a] = "mark", file' = mark_ids_read(file, batch[a])
        PROVE  OnlyPresentedIsRead'
    <3> DEFINE marked == mark_ids_read(file, batch[a])
    <3>0. \A i \in DOMAIN marked : i \in DOMAIN file /\ marked[i] = (file[i] \/ i \in batch[a])
      BY <1>0, <2>2, MarkShape
    <3> HIDE DEF marked
    <3>1. \A i \in DOMAIN file' : file'[i] => (i \in DOMAIN file /\ file[i]) \/ i \in batch[a]
      BY <2>4, <3>0 DEF marked
    <3> QED
      BY <2>1, <2>4, <3>1 DEF PresentedInv, OnlyPresentedIsRead, ReadIds
  <2>5. OnlyPresentedIsRead'
    BY <1>3, <1>c, <2>1, <2>3, <2>4, StoreEffect
  <2> QED
    BY <1>a, <1>b, <2>1, <2>5 DEF PresentedInv
<1>d. ASSUME NEW a \in Actors, NEW ids, NEW t, Begin(a, t, ids),
             t = "mark" => ids \subseteq presented, presented' = presented
      PROVE  Tasks'
  BY <1>0, <1>d DEF Begin, PresentedInv
<1>4. ASSUME NEW m \in Monitors, Observe(m) PROVE PresentedInv'
  <2>1. (\E ids : Begin(m, "publish", ids)) /\ UNCHANGED <<file, frames, presented>>
    BY <1>4 DEF Observe, history
  <2>2. Tasks'
    BY <1>d, <2>1
  <2> QED
    BY <1>b, <1>c, <2>1, <2>2 DEF PresentedInv
<1>5. CASE SnapshotPublished
  <2>1. Begin(Gui, "publish", {issued + 1}) /\ UNCHANGED <<file, frames, presented>>
    BY <1>5 DEF SnapshotPublished, history
  <2>2. Tasks'
    BY <1>d, <2>1
  <2> QED
    BY <1>b, <1>c, <2>1, <2>2 DEF PresentedInv
<1>6. CASE Refresh \/ UNCHANGED vars
  BY <1>6, <1>b, <1>c DEF Refresh, vars, threads, history, PresentedInv
<1>7. CASE OpenDialog
  <2>1. /\ frames' = <<[kind |-> "inbox", shown |-> DOMAIN memory']>>
        /\ presented' = presented \cup DOMAIN memory'
        /\ UNCHANGED <<file, task, batch>>
    BY <1>7 DEF OpenDialog, threads
  <2>2. Len(frames') = 1 /\ frames'[1].shown = DOMAIN memory'
    BY <2>1
  <2>3. Shown'
    BY <2>1, <2>2
  <2>4. Tasks'
    BY <2>1 DEF PresentedInv
  <2> QED
    BY <1>c, <2>1, <2>3, <2>4 DEF PresentedInv
<1>8. CASE Dismiss
  <2> DEFINE top == frames[Len(frames)]
             rest == SubSeq(frames, 1, Len(frames) - 1)
  <2>1. frames' = rest /\ UNCHANGED <<file, presented>>
        /\ (Begin(Gui, "mark", top.shown) \/ UNCHANGED <<task, batch>>)
    BY <1>8 DEF Dismiss, history
  <2>2. /\ Len(frames) \in Nat /\ Len(frames) \in 1..Len(frames) /\ Len(rest) = Len(frames) - 1
        /\ \A k \in 1..Len(frames) - 1 : rest[k] = frames[k]
    BY <1>0, <1>8, Dismissed DEF Dismiss
  <2>3. top.shown \subseteq presented
    BY <2>2 DEF PresentedInv
  <2> HIDE DEF rest, top
  <2>4. Shown'
    <3>1. \A k \in 1..Len(rest) : k \in 1..Len(frames) /\ rest[k] = frames[k]
      BY <2>2
    <3> QED
      BY <2>1, <3>1 DEF PresentedInv
  <2>5. Tasks'
    BY <1>d, <2>1, <2>3 DEF PresentedInv
  <2> QED
    BY <1>c, <2>1, <2>4, <2>5 DEF PresentedInv
<1>9. CASE Restart
  <2>1. /\ frames' = <<>> /\ UNCHANGED <<file, presented>>
        /\ task' = [a \in Actors |-> "publish"]
    BY <1>9 DEF Restart, history
  <2>2. Shown' /\ Tasks'
    BY <2>1
  <2> QED
    BY <1>c, <2>1, <2>2 DEF PresentedInv
<1> QED
  BY <1>1, <1>2, <1>3, <1>4, <1>5, <1>6, <1>7, <1>8, <1>9 DEF Next, Critical

\* Only what a dialog presented is marked as read
\* (temporal_notifications.mark_notification_ids_read).
THEOREM OnlyPresented == Spec => []OnlyPresentedIsRead
<1>1. Init => PresentedInv
  BY EmptyInbox DEF Init, PresentedInv, OnlyPresentedIsRead, ReadIds
<1>2. (TypeOK /\ LockInv /\ NoStaleCopy) /\ PresentedInv /\ [Next]_vars => PresentedInv'
  BY PresentedStep
<1>3. PresentedInv => OnlyPresentedIsRead
  BY DEF PresentedInv
<1> QED
  BY <1>1, <1>2, <1>3, LockCorrect, PTL DEF Spec
=============================================================================
