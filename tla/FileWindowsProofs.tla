------------------------- MODULE FileWindowsProofs -------------------------
(***************************************************************************)
(* What the converter and the PDF tools, the duplicate finder, the archive tools *)
(* and the cleaner promise, for every set of outputs, files, archives and disks.  *)
(*                                                                         *)
(* Each window has an invariant of its own, OutputInv to CleanerInv, with lemmas  *)
(* Init and Step of its state machine and a lemma IsRight that says what the        *)
(* invariant means; the cleaner has a second one, AloneInv, for its preview.  The    *)
(* operators a window takes from another module are its own copies: a lemma Library   *)
(* of the window says that they are the same.                                          *)
(***************************************************************************)
EXTENDS ToolWindows, Sequences, FiniteSetTheorems, WellFoundedInduction, Ranking, TLAPS

-----------------------------------------------------------------------------
(* Bounds of sets of naturals. *)

\* A non-empty set of naturals has a least element.
LEMMA Least ==
    ASSUME NEW S \in SUBSET Nat, S # {}
    PROVE  \E x \in S : \A y \in S : x <= y
<1> DEFINE R == {p \in Nat \X Nat : p[1] < p[2]}
<1>1. IsWellFoundedOn(R, Nat)
  BY NatLessThanWellFounded DEF OpToRel
<1>2. \A x, y \in S : <<y, x>> \notin R => x <= y
  OBVIOUS
<1> HIDE DEF R
<1>3. \E x \in S : \A y \in S : <<y, x>> \notin R
  BY <1>1, WFMin
<1> QED
  BY <1>2, <1>3

-----------------------------------------------------------------------------
(* Sets and lists. *)

\* A finite set can be counted off without repetition.
LEMMA ListedLists ==
    ASSUME NEW S, IsFiniteSet(S)
    PROVE  /\ Listed(S) \in Seq(S)
           /\ Elements(Listed(S)) = S
<1> DEFINE n == Cardinality(S)
           g == Listed(S)
<1>1. n \in Nat /\ \E f \in [1..n -> S] : \A x \in S : \E i \in 1..n : f[i] = x
  BY FS_CardinalityType DEF ExistsBijection, Bijection, Surjection
<1>2. g \in [1..n -> S] /\ \A x \in S : \E i \in 1..n : g[i] = x
  BY <1>1, Zenon DEF Listed
<1>3. g \in Seq(S) /\ DOMAIN g = 1..n
  BY <1>1, <1>2
<1> HIDE DEF g, n
<1> QED
  BY <1>2, <1>3 DEF Elements, g

IsSequence(s) == \E S : s \in Seq(S)

LEMMA SequenceShape == \A s : IsSequence(s) => Len(s) \in Nat /\ DOMAIN s = 1..Len(s)
  BY DEF IsSequence

LEMMA TailShape ==
    ASSUME NEW s, IsSequence(s), s # <<>>
    PROVE  /\ IsSequence(Tail(s)) /\ 1 \in DOMAIN s /\ Head(s) = s[1]
           /\ \A k \in DOMAIN Tail(s) : k + 1 \in DOMAIN s /\ Tail(s)[k] = s[k + 1] /\ k \in Nat /\ k + 1 # 1
<1>1. PICK S : s \in Seq(S)
  BY DEF IsSequence
<1>2. Tail(s) \in Seq(S) /\ Len(s) \in Nat \ {0} /\ DOMAIN s = 1..Len(s) /\ Head(s) = s[1]
  BY <1>1
<1>3. DOMAIN Tail(s) = 1..Len(s) - 1 /\ \A k \in 1..Len(s) - 1 : Tail(s)[k] = s[k + 1]
  BY <1>1, <1>2
<1> QED
  BY <1>2, <1>3 DEF IsSequence

\* t is s with a and b put at its end.
Joins(s, t, a, b) ==
    /\ IsSequence(t) /\ Len(s) \in Nat /\ Len(t) = Len(s) + 2 /\ DOMAIN t = 1..Len(s) + 2
    /\ \A k \in 1..Len(s) : t[k] = s[k]
    /\ t[Len(s) + 1] = a /\ t[Len(s) + 2] = b

LEMMA JoinedShape ==
    ASSUME NEW s, IsSequence(s), NEW a, NEW b
    PROVE  Joins(s, s \o <<a, b>>, a, b)
<1>1. PICK S : s \in Seq(S)
  BY DEF IsSequence
<1> DEFINE T == S \cup {a, b}
           t == s \o <<a, b>>
<1>2. s \in Seq(T) /\ <<a, b>> \in Seq(T)
  BY <1>1
<1>3. Len(<<a, b>>) = 2 /\ <<a, b>>[1] = a /\ <<a, b>>[2] = b
  OBVIOUS
<1>4. t \in Seq(T) /\ Len(t) = Len(s) + 2 /\ Len(s) \in Nat /\ DOMAIN t = 1..Len(s) + 2
  BY <1>2, <1>3
<1>5. \A k \in 1..Len(s) : t[k] = s[k]
  BY <1>2, <1>4
<1>6. t[Len(s) + 1] = <<a, b>>[1]
  BY <1>2, <1>4
<1>7. t[Len(s) + 2] = <<a, b>>[2]
  BY <1>2, <1>4
<1> QED
  BY <1>3, <1>4, <1>5, <1>6, <1>7 DEF IsSequence, Joins

LEMMA ReplacedShape ==
    ASSUME NEW s, IsSequence(s), NEW i \in DOMAIN s, NEW x
    PROVE  LET t == [s EXCEPT ![i] = x]
           IN  /\ IsSequence(t) /\ Len(t) = Len(s) /\ DOMAIN t = DOMAIN s
               /\ t[i] = x /\ \A j \in DOMAIN s : j # i => t[j] = s[j]
<1>1. PICK S : s \in Seq(S)
  BY DEF IsSequence
<1>2. s \in Seq(S \cup {x})
  BY <1>1
<1> DEFINE T == S \cup {x}
<1> HIDE DEF T
<1>3. s \in Seq(T) /\ x \in T
  BY <1>2 DEF T
<1>4. [s EXCEPT ![i] = x] \in Seq(T) /\ Len([s EXCEPT ![i] = x]) = Len(s)
  BY <1>3
<1> QED
  BY <1>4 DEF IsSequence


-----------------------------------------------------------------------------
(* A finite set is put in order by how many of its elements come before each. *)

StrictOrder(R, S) ==
    /\ \A x, y \in S : x # y => <<x, y>> \in R \/ <<y, x>> \in R
    /\ \A x \in S : <<x, x>> \notin R
    /\ \A x, y, z \in S : <<x, y>> \in R /\ <<y, z>> \in R => <<x, z>> \in R

LEMMA RankedOrders ==
    ASSUME NEW S, IsFiniteSet(S), NEW R, StrictOrder(R, S)
    PROVE  LET f == Ranked(S, R)
           IN  /\ f \in Seq(S) /\ Len(f) = Cardinality(S) /\ Cardinality(S) \in Nat
               /\ \A x \in S : \E i \in 1..Len(f) : f[i] = x
               /\ \A i, j \in 1..Len(f) : i < j => <<f[i], f[j]>> \in R
<1> DEFINE f == Ranked(S, R)
           n == Cardinality(S)
           Ahead(x) == {y \in S : <<y, x>> \in R}
           c == [x \in S |-> Cardinality(Ahead(x))]
<1>1. n \in Nat
  BY FS_CardinalityType
<1>2. ASSUME NEW x \in S PROVE IsFiniteSet(Ahead(x)) /\ c[x] = Cardinality(Ahead(x)) /\ c[x] \in 0..n - 1
  <2>1. Ahead(x) \subseteq S /\ x \notin Ahead(x)
    BY DEF StrictOrder
  <2>2. IsFiniteSet(Ahead(x)) /\ Cardinality(Ahead(x)) <= n /\ Cardinality(Ahead(x)) # n
    BY <2>1, FS_Subset
  <2>3. Cardinality(Ahead(x)) \in Nat
    BY <2>2, FS_CardinalityType
  <2>4. c[x] = Cardinality(Ahead(x))
    OBVIOUS
  <2> HIDE DEF c, n, Ahead
  <2> QED
    BY <1>1, <2>2, <2>3, <2>4
<1>3. ASSUME NEW x \in S, NEW y \in S, <<x, y>> \in R
      PROVE  c[x] < c[y]
  <2>1. Ahead(x) \subseteq Ahead(y) /\ x \in Ahead(y) /\ x \notin Ahead(x)
    BY <1>3 DEF StrictOrder
  <2>2. IsFiniteSet(Ahead(y)) /\ c[x] = Cardinality(Ahead(x)) /\ c[y] = Cardinality(Ahead(y))
        /\ c[x] \in 0..n - 1 /\ c[y] \in 0..n - 1
    BY <1>2
  <2> HIDE DEF Ahead, c, n
  <2>3. Cardinality(Ahead(x)) <= Cardinality(Ahead(y)) /\ Cardinality(Ahead(x)) # Cardinality(Ahead(y))
    BY <2>1, <2>2, FS_Subset
  <2> QED
    BY <1>1, <2>2, <2>3
<1>4. c \in [S -> 0..n - 1]
  BY <1>2
<1>5. \A i \in 1..n : f[i] = CHOOSE x \in S : Cardinality(Ahead(x)) = i - 1
  BY <1>1, Zenon DEF Ranked
<1>6. DOMAIN f = 1..n
  BY DEF Ranked
<1>7. f = [i \in 1..n |-> f[i]]
  <2> DEFINE Place(i) == CHOOSE x \in S : Cardinality(Ahead(x)) = i - 1
  <2>1. f = [i \in 1..n |-> Place(i)]
    BY DEF Ranked
  <2> HIDE DEF Place, f
  <2> QED
    BY <2>1
<1>8. \A x \in S : c[x] = Cardinality(Ahead(x))
  BY <1>2
<1> HIDE DEF c, f, n, Ahead
<1>9. ASSUME NEW x \in S, NEW y \in S, c[x] <= c[y] PROVE x = y \/ <<x, y>> \in R
  <2>1. c[x] \in Int /\ c[y] \in Int
    BY <1>1, <1>4
  <2>2. ~(c[y] < c[x])
    BY <2>1, <1>9
  <2> QED
    BY <1>3, <2>2 DEF StrictOrder
<1>10. ASSUME NEW x \in S, NEW y \in S, c[x] = c[y] PROVE x = y
  <2>1. c[x] \in Int /\ c[x] <= c[y] /\ c[y] <= c[x]
    BY <1>1, <1>4, <1>10
  <2>2. ~(<<x, y>> \in R /\ <<y, x>> \in R)
    BY DEF StrictOrder
  <2> QED
    BY <1>9, <2>1, <2>2
<1>11. c \in Surjection(S, 0..n - 1)
  <2>1. c \in Injection(S, 0..n - 1)
    BY <1>4, <1>10 DEF Injection, IsInjective
  <2>2. IsFiniteSet(0..n - 1) /\ Cardinality(0..n - 1) = n
    BY <1>1, FS_Interval
  <2> QED
    BY <2>1, <2>2, FS_Injection DEF n
<1>12. ASSUME NEW i \in 1..n PROVE f[i] \in S /\ c[f[i]] = i - 1
  <2>1. PICK x \in S : c[x] = i - 1
    BY <1>1, <1>11 DEF Surjection
  <2>2. Cardinality(Ahead(x)) = i - 1
    BY <1>8, <2>1
  <2>3. f[i] \in S /\ Cardinality(Ahead(f[i])) = i - 1
    BY <1>5, <2>2, Zenon
  <2> QED
    BY <1>8, <2>3
<1>13. f \in Seq(S) /\ Len(f) = n
  <2>1. f \in [1..n -> S]
    BY <1>6, <1>7, <1>12
  <2> QED
    BY <1>1, <2>1
<1>14. ASSUME NEW x \in S PROVE \E i \in 1..n : f[i] = x
  <2>1. c[x] + 1 \in 1..n /\ (c[x] + 1) - 1 = c[x]
    BY <1>1, <1>4
  <2>2. f[c[x] + 1] = x
    BY <1>10, <1>12, <2>1
  <2> QED
    BY <2>1, <2>2
<1>15. ASSUME NEW i \in 1..n, NEW j \in 1..n, i < j PROVE <<f[i], f[j]>> \in R
  <2>1. f[i] \in S /\ f[j] \in S /\ c[f[i]] = i - 1 /\ c[f[j]] = j - 1
    BY <1>12
  <2>2. i - 1 # j - 1 /\ i - 1 <= j - 1
    BY <1>1, <1>15
  <2>3. c[f[i]] <= c[f[j]] /\ f[i] # f[j]
    BY <2>1, <2>2
  <2> QED
    BY <1>9, <2>1, <2>3
<1> QED
  BY <1>1, <1>13, <1>14, <1>15 DEF f, n

-----------------------------------------------------------------------------
(* The converter and the PDF tools: a batch of outputs.  Where the task is, and the output it   *)
(* is at, determine what every destination and every backup holds: publication and rollback    *)
(* move the border between the outputs already done and those as they were.                     *)

\* Output i is as it was before the task.
AsBefore(i) == disk[i] = before[i] /\ backup[i] = "absent"

\* Output i is published, and what it replaced is kept aside.
IsPublished(i) == disk[i] = "new" /\ backup[i] = before[i]

Unpublished == ~committed /\ \A i \in Output!Outputs : AsBefore(i)

Publishing(k) ==
    /\ \A i \in Output!Outputs : i < k => IsPublished(i)
    /\ \A i \in Output!Outputs : i > k => AsBefore(i)

Phase ==
    /\ pc \in {"run", "stage", "raised", "cancelled"} => Unpublished
    /\ pc = "run" => next = 1
    /\ pc = "stage" => next >= 1
    /\ pc = "commit" =>
          /\ ~committed /\ next >= 1
          /\ Publishing(next) /\ (next \in Output!Outputs => AsBefore(next))
    /\ pc = "publish" =>
          /\ ~committed /\ next \in Output!Outputs /\ stage[next] = "new"
          /\ Publishing(next) /\ disk[next] = "absent" /\ backup[next] = before[next]
    /\ pc = "rollback" =>
          /\ ~committed
          /\ Publishing(next) /\ (next \in Output!Outputs => backup[next] = before[next])
    /\ pc = "returned" => committed /\ \A i \in Output!Outputs : disk[i] = "new"

\* A cancelled task that had not begun its commit never begins it.
Heard == early => cancel /\ pc \in {"run", "stage", "raised", "cancelled", "ended", "dead"}

OutputInv ==
    /\ Output!TypeOK /\ Phase /\ Heard
    /\ \A i \in Output!Outputs : before[i] \in {"absent", "old"} /\ stage[i] \in {"absent", "new"}
    /\ pc \notin {"ended", "dead"} => shown = "nothing"
    /\ pc \in {"ended", "dead"} => Output!OldSurvives /\ Output!AllOrNone /\ Output!CancelHolds

LEMMA OutputTypes == Output!OutputConstants
BY ToolWindowsAssumption

LEMMA OutputInit == ASSUME Output!Init PROVE OutputInv
<1> USE OutputTypes DEF Output!OutputConstants, Output!Outputs
<1>1. Output!TypeOK
  <2>1. /\ disk \in [Output!Outputs -> Output!Files] /\ before \in [Output!Outputs -> Output!Files]
        /\ stage \in [Output!Outputs -> Output!Files] /\ backup \in [Output!Outputs -> Output!Files]
    BY DEF Output!Init, Output!Files
  <2>2. committed \in BOOLEAN /\ cancel \in BOOLEAN /\ early \in BOOLEAN
    BY Zenon DEF Output!Init
  <2>3. pc \in Output!Pcs /\ next \in 0..N + 1
    BY DEF Output!Init, Output!Pcs
  <2>4. shown \in {"nothing", "result", "failed", "cancelled"} /\ tool \in {"converter", "pdf"}
    BY DEF Output!Init
  <2> QED
    BY <2>1, <2>2, <2>3, <2>4, Zenon DEF Output!TypeOK
<1>2. Unpublished
  BY DEF Output!Init, Unpublished, AsBefore
<1>3. Phase /\ Heard
  BY <1>2 DEF Output!Init, Phase, Heard
<1> QED
  BY <1>1, <1>2, <1>3 DEF Output!Init, OutputInv

\* What the two history properties say follows from the phase while the task runs.
LEMMA OutputIsRight ==
    ASSUME OutputInv
    PROVE  Output!OldSurvives /\ Output!AllOrNone /\ Output!CancelHolds
<1> USE OutputTypes DEF Output!OutputConstants, Output!Outputs, OutputInv
<1>1. CASE pc \in {"run", "stage", "raised", "cancelled"}
  <2>1. ~committed /\ \A i \in Output!Outputs : disk[i] = before[i]
    BY <1>1 DEF Phase, Unpublished, AsBefore
  <2>2. disk = before
    BY <2>1 DEF Output!TypeOK
  <2> QED
    BY <1>1, <2>1, <2>2 DEF Output!OldSurvives, Output!AllOrNone, Output!CancelHolds
<1>2. CASE pc \in {"commit", "publish", "rollback"}
  <2>1. \A i \in Output!Outputs : i < next \/ i > next \/ i = next
    BY DEF Output!TypeOK
  <2> QED
    BY <1>2, <2>1 DEF Phase, Publishing, IsPublished, AsBefore, Output!OldSurvives, Output!AllOrNone, Output!CancelHolds, Heard
<1>3. CASE pc = "returned"
  BY <1>3 DEF Phase, Output!OldSurvives, Output!AllOrNone, Output!CancelHolds, Heard
<1>4. CASE pc \in {"ended", "dead"}
  BY <1>4
<1> QED
  BY <1>1, <1>2, <1>3, <1>4 DEF Output!TypeOK, Output!Pcs

LEMMA OutputTypeStep == ASSUME Output!TypeOK, Phase, [Output!Next]_(Output!vars) PROVE Output!TypeOK'
<1> USE OutputTypes DEF Output!staging, Output!given
<1> DEFINE Typed == /\ disk \in [Output!Outputs -> Output!Files] /\ before \in [Output!Outputs -> Output!Files]
                    /\ stage \in [Output!Outputs -> Output!Files] /\ backup \in [Output!Outputs -> Output!Files]
           Placed == pc \in Output!Pcs /\ next \in 0..N + 1
           Told == shown \in {"nothing", "result", "failed", "cancelled"}
           Flags == committed \in BOOLEAN /\ cancel \in BOOLEAN /\ early \in BOOLEAN
           Tools == tool \in {"converter", "pdf"}
<1>1. Typed'
  <2> USE DEF Output!Files, Output!OutputConstants, Output!Outputs, Output!TypeOK
  <2>1. CASE Output!Begin \/ Output!Staged \/ Output!RolledBack \/ Output!Return \/ Output!Cancel \/ Output!Die \/ UNCHANGED Output!vars
    BY <2>1 DEF Output!Begin, Output!Staged, Output!RolledBack, Output!Return, Output!Cancel, Output!Die, Output!vars
  <2>2. CASE Output!Stage \/ Output!PublishOutput \/ Output!MoveAside
    BY <2>2 DEF Output!Stage, Output!MoveAside, Output!PublishOutput
  <2>3. CASE Output!Rollback
    <3>1. PICK kept \in Output!RollbackResults(next) :
              /\ disk' = [disk EXCEPT ![next] = kept[1]]
              /\ backup' = [backup EXCEPT ![next] = kept[2]]
      BY <2>3 DEF Output!Rollback
    <3>2. next \in Output!Outputs => kept[1] \in Output!Files /\ kept[2] \in Output!Files
      BY DEF Output!RollbackResults
    <3>3. next \in Nat /\ UNCHANGED <<stage, before>>
      BY <2>3 DEF Output!Rollback
    <3> QED
      BY <3>1, <3>2, <3>3
  <2>4. CASE Output!Commit \/ Output!Raise \/ Output!Cancelled
    <3>1. UNCHANGED <<disk, before>>
      BY <2>4 DEF Output!Commit, Output!Raise, Output!Cancelled
    <3>2. Output!CleanStaging
      BY <2>4 DEF Output!Commit, Output!Raise, Output!Cancelled
    <3>3. stage' \in [Output!Outputs -> Output!Files] /\ backup' \in [Output!Outputs -> Output!Files]
      BY <3>2 DEF Output!CleanStaging
    <3> QED
      BY <3>1, <3>3
  <2> QED
    BY <2>1, <2>2, <2>3, <2>4 DEF Output!Next, Output!Task
<1>2. Placed'
  <2> USE DEF Output!Pcs, Output!OutputConstants, Output!Outputs, Output!TypeOK
  <2>1. CASE Output!Begin \/ Output!Stage \/ Output!Staged \/ Output!Commit \/ Output!Rollback \/ Output!RolledBack
    BY <2>1 DEF Output!Begin, Output!Stage, Output!Staged, Output!Commit, Output!Rollback, Output!RolledBack
  <2>2. CASE Output!MoveAside \/ Output!PublishOutput
    BY <2>2 DEF Output!MoveAside, Output!PublishOutput, Output!Fail, Phase
  <2>3. CASE Output!Raise \/ Output!Cancelled \/ Output!Return
    <3>1. pc' = "ended" /\ next' = next
      BY <2>3 DEF Output!Raise, Output!Cancelled, Output!Return, Output!End
    <3> QED
      BY <3>1
  <2>4. CASE Output!Cancel \/ Output!Die \/ UNCHANGED Output!vars
    BY <2>4 DEF Output!Cancel, Output!Die, Output!vars
  <2> QED
    BY <2>1, <2>2, <2>3, <2>4 DEF Output!Next, Output!Task
<1>3. Told' /\ Tools'
  <2> USE DEF Output!TypeOK
  <2>1. CASE Output!Raise \/ Output!Cancelled \/ Output!Return
    BY <2>1 DEF Output!Raise, Output!Cancelled, Output!Return, Output!End
  <2>2. CASE UNCHANGED <<shown, tool>>
    BY <2>2
  <2> QED
    BY <2>1, <2>2 DEF Output!Next, Output!Task, Output!Begin, Output!Stage, Output!Staged, Output!MoveAside, Output!PublishOutput, Output!Commit, Output!Rollback,
                      Output!RolledBack, Output!Cancel, Output!Die, Output!vars
<1>4. Flags'
  <2> USE DEF Output!TypeOK
  <2>1. CASE Output!Commit
    BY <2>1, Zenon DEF Output!Commit
  <2>2. CASE Output!Cancel
    <3>1. early' \in BOOLEAN
      BY <2>2, SMT DEF Output!Cancel
    <3> QED
      BY <2>2, <3>1, Zenon DEF Output!Cancel
  <2>3. CASE UNCHANGED <<committed, cancel, early>>
    BY <2>3, Zenon
  <2>4. Output!Next => Output!Commit \/ Output!Cancel \/ UNCHANGED <<committed, cancel, early>>
    BY DEF Output!Next, Output!Task, Output!Begin, Output!Stage, Output!Staged, Output!MoveAside, Output!PublishOutput, Output!Rollback, Output!RolledBack, Output!Raise, Output!Cancelled, Output!Return, Output!Die
  <2> QED
    BY <2>1, <2>2, <2>3, <2>4 DEF Output!vars
<1> QED
  BY <1>1, <1>2, <1>3, <1>4, Zenon DEF Output!TypeOK

LEMMA PhaseStep ==
    ASSUME ~RollbackFails, OutputInv, Output!Next
    PROVE  Phase'
<1> USE OutputTypes DEF Output!OutputConstants, Output!Outputs, OutputInv, Output!TypeOK, Output!staging, Output!given, Unpublished, AsBefore, IsPublished, Publishing
<1>1. CASE Output!Begin
  BY <1>1 DEF Output!Begin, Phase
<1>2. CASE Output!Stage
  BY <1>2 DEF Output!Stage, Phase
<1>3. CASE Output!Staged
  BY <1>3 DEF Output!Staged, Phase
<1>4. CASE Output!MoveAside
  BY <1>4 DEF Output!MoveAside, Output!Fail, Phase
<1>5. CASE Output!PublishOutput
  BY <1>5 DEF Output!PublishOutput, Output!Fail, Phase
<1>6. CASE Output!Commit
  BY <1>6 DEF Output!Commit, Output!CleanStaging, Phase
<1>7. CASE Output!Rollback
  BY <1>7 DEF Output!Rollback, Output!RollbackResults, Phase
<1>8. CASE Output!RolledBack
  BY <1>8 DEF Output!RolledBack, Phase
<1>9. CASE Output!Raise \/ Output!Cancelled \/ Output!Return
  BY <1>9 DEF Output!Raise, Output!Cancelled, Output!Return, Output!End, Phase
<1>10. CASE Output!Cancel \/ Output!Die
  BY <1>10 DEF Output!Cancel, Output!Die, Output!Alive, Phase
<1> QED
  BY <1>1, <1>2, <1>3, <1>4, <1>5, <1>6, <1>7, <1>8, <1>9, <1>10 DEF Output!Next, Output!Task

LEMMA HeardStep == ASSUME OutputInv, Output!Next PROVE Heard'
<1> USE DEF OutputInv, Heard, Output!given
<1>1. CASE Output!Begin \/ Output!Stage \/ Output!Staged
  BY <1>1 DEF Output!Begin, Output!Stage, Output!Staged
<1>2. CASE Output!MoveAside \/ Output!PublishOutput \/ Output!Commit \/ Output!Rollback \/ Output!RolledBack
  BY <1>2 DEF Output!MoveAside, Output!PublishOutput, Output!Fail, Output!Commit, Output!Rollback, Output!RolledBack
<1>3. CASE Output!Raise \/ Output!Cancelled \/ Output!Return
  BY <1>3 DEF Output!Raise, Output!Cancelled, Output!Return, Output!End
<1>4. CASE Output!Cancel \/ Output!Die
  BY <1>4 DEF Output!Cancel, Output!Die
<1> QED
  BY <1>1, <1>2, <1>3, <1>4 DEF Output!Next, Output!Task

\* The destinations at the end are those of the last phase.
LEMMA OutputEndIsSafe ==
    ASSUME OutputInv, Output!Next, pc' \in {"ended", "dead"}
    PROVE  (Output!OldSurvives /\ Output!AllOrNone /\ Output!CancelHolds)'
<1> USE OutputTypes DEF OutputInv, Output!given, Output!OutputConstants, Output!Outputs
<1>1. CASE Output!Raise \/ Output!Cancelled
  <2>1. disk' = disk /\ committed' = committed /\ early' = early /\ before' = before /\ pc' = "ended"
    BY <1>1 DEF Output!Raise, Output!Cancelled, Output!End
  <2>2. ~committed /\ \A i \in Output!Outputs : disk[i] = before[i]
    BY <1>1 DEF Output!Raise, Output!Cancelled, Phase, Unpublished, AsBefore
  <2>3. disk = before
    BY <2>2 DEF Output!TypeOK
  <2>4. shown' \in {"cancelled", "failed"}
    BY <1>1 DEF Output!Raise, Output!Cancelled, Output!End
  <2> QED
    BY <2>1, <2>2, <2>3, <2>4 DEF Output!OldSurvives, Output!AllOrNone, Output!CancelHolds
<1>2. CASE Output!Return
  <2>1. disk' = disk /\ committed' = committed /\ early' = early /\ before' = before /\ pc' = "ended"
    BY <1>2 DEF Output!Return, Output!End
  <2>2. committed /\ ~early /\ \A i \in Output!Outputs : disk[i] = "new"
    BY <1>2 DEF Output!Return, Phase, Heard
  <2>3. disk = [i \in Output!Outputs |-> "new"]
    BY <2>2 DEF Output!TypeOK
  <2>4. shown' \in {"cancelled", "result"}
    BY <1>2 DEF Output!Return, Output!End
  <2> QED
    BY <2>1, <2>2, <2>3, <2>4 DEF Output!OldSurvives, Output!AllOrNone, Output!CancelHolds
<1>3. CASE Output!Die
  <2>1. Output!OldSurvives /\ Output!AllOrNone /\ Output!CancelHolds
    BY OutputIsRight
  <2>2. UNCHANGED <<disk, backup, committed, shown, before, early>> /\ pc' = "dead"
    BY <1>3 DEF Output!Die, Output!staging
  <2>3. (Output!OldSurvives /\ Output!CancelHolds)'
    BY <2>1, <2>2, Zenon DEF Output!OldSurvives, Output!CancelHolds
  <2>4. Output!AllOrNone'
    BY <2>1, <2>2 DEF Output!AllOrNone
  <2> QED
    BY <2>3, <2>4
<1> QED
  BY <1>1, <1>2, <1>3 DEF Output!Next, Output!Task, Output!Begin, Output!Stage, Output!Staged, Output!MoveAside, Output!PublishOutput, Output!Fail, Output!Commit, Output!Rollback, Output!RolledBack,
                          Output!Cancel, Output!Alive

LEMMA OutputStep ==
    ASSUME ~RollbackFails, OutputInv, [Output!Next]_(Output!vars)
    PROVE  OutputInv'
<1>1. CASE UNCHANGED Output!vars
  <2>1. UNCHANGED <<disk, stage, backup, pc, next, committed, cancel, shown, before, early, tool>>
    BY <1>1 DEF Output!vars
  <2>2. Output!TypeOK' /\ (Phase <=> Phase')
    BY <2>1, Zenon DEF OutputInv, Output!TypeOK, Phase, Unpublished, Publishing, AsBefore, IsPublished
  <2>3. (Heard <=> Heard') /\ (Output!OldSurvives /\ Output!AllOrNone /\ Output!CancelHolds <=> (Output!OldSurvives /\ Output!AllOrNone /\ Output!CancelHolds)')
    BY <2>1, Zenon DEF Heard, Output!OldSurvives, Output!AllOrNone, Output!CancelHolds
  <2> QED
    BY <2>1, <2>2, <2>3 DEF OutputInv
<1>2. CASE Output!Next
  <2>1. Output!TypeOK' /\ Phase' /\ Heard'
    BY <1>2, OutputTypeStep, PhaseStep, HeardStep DEF OutputInv
  <2>2. \A i \in Output!Outputs : before'[i] \in {"absent", "old"} /\ stage'[i] \in {"absent", "new"}
    <3>1. before' = before
      BY <1>2 DEF Output!Next, Output!Task, Output!Begin, Output!Stage, Output!Staged, Output!MoveAside, Output!PublishOutput, Output!Commit, Output!Rollback, Output!RolledBack,
                  Output!Raise, Output!Cancelled, Output!Return, Output!Cancel, Output!Die, Output!given
    <3>2. CASE Output!Stage \/ Output!PublishOutput
      BY <3>1, <3>2 DEF Output!Stage, Output!PublishOutput, OutputInv, Output!TypeOK
    <3>3. CASE Output!Commit \/ Output!Raise \/ Output!Cancelled
      BY <3>1, <3>3 DEF Output!Commit, Output!Raise, Output!Cancelled, Output!CleanStaging, Output!staging, OutputInv
    <3>4. CASE UNCHANGED stage
      BY <3>1, <3>4 DEF OutputInv
    <3> QED
      BY <1>2, <3>2, <3>3, <3>4 DEF Output!Next, Output!Task, Output!Begin, Output!Staged, Output!MoveAside, Output!Rollback, Output!RolledBack, Output!Return,
                                    Output!Cancel, Output!Die, Output!staging
  <2>3. pc' \notin {"ended", "dead"} => shown' = "nothing"
    BY <1>2 DEF Output!Next, Output!Task, Output!Begin, Output!Stage, Output!Staged, Output!MoveAside, Output!PublishOutput, Output!Fail, Output!Commit, Output!Rollback, Output!RolledBack,
                Output!Raise, Output!Cancelled, Output!Return, Output!End, Output!Cancel, Output!Die, Output!Alive, OutputInv
  <2>4. pc' \in {"ended", "dead"} => (Output!OldSurvives /\ Output!AllOrNone /\ Output!CancelHolds)'
    BY <1>2, OutputEndIsSafe
  <2> QED
    BY <2>1, <2>2, <2>3, <2>4 DEF OutputInv
<1> QED
  BY <1>1, <1>2

-----------------------------------------------------------------------------
(* The duplicate finder. *)

DuplicateGroups == {g \in Seq(Paths) : Len(g) >= 1}
Records == [status : {"in_progress", "cancelled", "complete"}, moves : Seq(Duplicate!Move), count : Nat]

OpenMoves(moves) == {k \in DOMAIN moves : moves[k].status = "planned"}
DoneMoves(moves) == {k \in DOMAIN moves : moves[k].status = "moved"}
MovesOf(ms) == {e \in Duplicate!Move : \E i \in DOMAIN ms : \E k \in DOMAIN ms[i].moves : e = ms[i].moves[k]}

RecordIsTrue(m) ==
    /\ m.status = "complete" => OpenMoves(m.moves) = {}
    /\ m.status = "cancelled" => OpenMoves(m.moves) \subseteq {Len(m.moves)}
    /\ m.count = Cardinality(DoneMoves(m.moves))

Restored(ms, folder, from) ==
    /\ \A s \in Duplicate!Slots : folder[s] \in Paths =>
        \E e \in MovesOf(ms) : e.slot = s /\ e.source = from[s] /\ e.status # "failed"
    /\ \A e \in MovesOf(ms) : e.status = "moved" => folder[e.slot] \in Paths /\ from[e.slot] = e.source

DuplicateTypes ==
    /\ at \in [Paths -> Paths \cup {Gone}]
    /\ slot \in [Duplicate!Slots -> Paths \cup {Gone, Copy}]
    /\ content \in [Paths -> Contents] /\ origin \in [Duplicate!Slots -> Paths \cup {0}]
    /\ groups \in Seq(DuplicateGroups) /\ todo \in Seq(DuplicateGroups)
    /\ manifests \in Seq(Records) /\ memory \in Records /\ edits \in Nat

TodoInv ==
    /\ pc \in {"source", "verify", "plan", "move", "moved", "failed"} => todo # <<>>
    /\ pc \in {"verify", "plan", "move", "moved", "failed"} => Len(todo[1]) >= 2

LastMove == memory.moves[Len(memory.moves)]

\* The manifest in memory is the last one on disk, and only the last of its moves can be open.
RecordInv ==
    /\ pc \in {"idle", "begin"} => memory = Duplicate!NoManifest
    /\ pc \notin {"idle", "begin"} =>
          /\ manifests # <<>> /\ memory = manifests[Len(manifests)]
          /\ memory.status = IF pc = "returned" THEN "complete" ELSE "in_progress"
    /\ \A i \in DOMAIN manifests : RecordIsTrue(manifests[i])
    /\ pc \notin {"cancelling", "move", "moved", "failed"} => OpenMoves(memory.moves) = {}
    /\ pc = "cancelling" => OpenMoves(memory.moves) \subseteq {Len(memory.moves)}
    /\ pc \in {"move", "moved", "failed"} =>
          /\ memory.moves # <<>> /\ OpenMoves(memory.moves) = {Len(memory.moves)}
          /\ LastMove.source = Duplicate!Source
    /\ shown = "result" =>
          pc = "idle" /\ groups = <<>> /\ manifests # <<>> /\ manifests[Len(manifests)].status = "complete"

\* What has been moved is where a manifest says.
SlotInv ==
    /\ Restored(manifests, slot, origin)
    /\ pc = "move" => slot[LastMove.slot] = Gone
    /\ pc = "moved" => slot[LastMove.slot] \in Paths /\ origin[LastMove.slot] = LastMove.source
    /\ pc = "failed" => slot[LastMove.slot] \notin Paths

\* Until the user changes a file, the source and the original are two files of one content.
CopyInv ==
    /\ pc \in {"verify", "plan", "move"} /\ ~touched => at[Duplicate!Source] \notin {Gone, at[Duplicate!Original]}
    /\ pc \in {"plan", "move"} /\ ~touched =>
          at[Duplicate!Original] # Gone /\ content[at[Duplicate!Source]] = content[at[Duplicate!Original]]

DuplicateInv == DuplicateTypes /\ TodoInv /\ RecordInv /\ SlotInv /\ CopyInv

LEMMA DuplicateConstantTypes ==
    /\ Paths \subseteq Nat \ {0} /\ IsFiniteSet(Paths)
    /\ Gone \notin Paths /\ Copy \notin Paths /\ Gone # Copy /\ MaxMoves \in Nat
<1>1. \A S : Duplicate!IsFiniteSet(S) <=> IsFiniteSet(S)
  BY DEF Duplicate!IsFiniteSet, IsFiniteSet
<1> QED
  BY <1>1, ToolWindowsAssumption DEF Duplicate!DuplicateConstants

LEMMA DuplicateLibrary ==
    /\ \A S : Duplicate!Cardinality(S) = Cardinality(S)
    /\ \A S : Duplicate!Listed(S) = Listed(S)
    /\ \A S, R : Duplicate!Ranked(S, R) = Ranked(S, R)
<1>1. \A S : Duplicate!Cardinality(S) = Cardinality(S)
  BY DEF Duplicate!Cardinality, Cardinality
<1>3. \A S : Duplicate!Listed(S) = Listed(S)
  BY <1>1, Zenon DEF Duplicate!Listed, Listed
<1>4. \A S, R : Duplicate!Ranked(S, R) = Ranked(S, R)
  BY DEF Duplicate!Ranked, Ranked, Duplicate!Cardinality, Cardinality
<1> QED
  BY <1>1, <1>3, <1>4

LEMMA AllMovesAre ==
    ASSUME manifests \in Seq(Records)
    PROVE  Duplicate!AllMoves = MovesOf(manifests)
<1>0. \A i \in DOMAIN manifests : manifests[i] \in Records
  OBVIOUS
<1>1. \A i \in DOMAIN manifests : manifests[i].moves \in Seq(Duplicate!Move)
  BY <1>0 DEF Records
<1>2. \A i \in DOMAIN manifests : \A k \in DOMAIN manifests[i].moves : manifests[i].moves[k] \in Duplicate!Move
  BY <1>1
<1> QED
  BY <1>2, DuplicateLibrary DEF Duplicate!AllMoves, MovesOf

LEMMA DuplicateIsRight ==
    ASSUME DuplicateInv
    PROVE  Duplicate!Restorable /\ Duplicate!StatusIsTrue
<1>1. Duplicate!Restorable
  BY AllMovesAre DEF DuplicateInv, DuplicateTypes, SlotInv, Restored, Duplicate!Restorable, Duplicate!Files
<1>2. Duplicate!StatusIsTrue
  BY DuplicateLibrary DEF DuplicateInv, RecordInv, RecordIsTrue, OpenMoves, DoneMoves, Duplicate!StatusIsTrue
<1> QED
  BY <1>1, <1>2

LEMMA DuplicateKeeps ==
    ASSUME DuplicateInv, Duplicate!Next
    PROVE  Duplicate!KeepsACopyStep
<1> SUFFICES ASSUME NEW p \in Paths, pc = "move", at[p] # Gone, at'[p] = Gone, ~touched, edits' = edits
             PROVE  \E q \in Paths : at'[q] \notin {Gone, at[p]} /\ content[at'[q]] = content[at[p]]
  BY DEF Duplicate!KeepsACopyStep
<1> DEFINE r == Duplicate!Source
           q == Duplicate!Original
<1>1. r \in Paths /\ q \in Paths /\ at \in [Paths -> Paths \cup {Gone}]
  <2>1. todo \in Seq(DuplicateGroups) /\ todo # <<>> /\ Len(todo[1]) >= 2
    BY DEF DuplicateInv, DuplicateTypes, TodoInv
  <2>2. todo[1] \in Seq(Paths)
    BY <2>1 DEF DuplicateGroups
  <2>3. todo[1][1] \in Paths /\ todo[1][2] \in Paths
    BY <2>1, <2>2
  <2> QED
    BY <2>3 DEF Duplicate!Source, Duplicate!Original, DuplicateInv, DuplicateTypes
<1>2. at[r] \notin {Gone, at[q]} /\ at[q] # Gone /\ content[at[r]] = content[at[q]]
  BY DEF DuplicateInv, CopyInv
<1>3. CASE UNCHANGED at
  BY <1>3
<1>4. CASE at' = [at EXCEPT ![r] = Gone]
  <2>1. p = r /\ q # r /\ at'[q] = at[q]
    BY <1>1, <1>2, <1>4
  <2> QED
    BY <1>1, <1>2, <2>1
<1>5. CASE Duplicate!MoveStep
  BY <1>3, <1>4, <1>5 DEF Duplicate!MoveStep, Duplicate!files
<1>6. CASE Duplicate!Edit
  <2>1. edits \in Nat /\ edits' = edits + 1
    BY <1>6 DEF Duplicate!Edit, DuplicateInv, DuplicateTypes
  <2> QED
    BY <2>1
<1> QED
  BY <1>3, <1>5, <1>6 DEF Duplicate!Next, Duplicate!Scan, Duplicate!StartMove, Duplicate!Step, Duplicate!Cancel, Duplicate!Crash,
     Duplicate!Begin, Duplicate!GroupStep, Duplicate!SourceStep, Duplicate!Verify, Duplicate!Plan, Duplicate!Record,
     Duplicate!Cancelling, Duplicate!Complete, Duplicate!Return, Duplicate!Save, Duplicate!files, Duplicate!Unplanned

RangeOf(s) == {s[k] : k \in DOMAIN s}

\* What a planned move adds to a manifest, and what its outcome changes there.
LEMMA PlannedMove ==
    ASSUME NEW s \in Seq(Duplicate!Move), OpenMoves(s) = {}, NEW e \in Duplicate!Move, e.status = "planned"
    PROVE  LET t == Append(s, e)
           IN  /\ t \in Seq(Duplicate!Move) /\ t # <<>> /\ t[Len(t)] = e
               /\ OpenMoves(t) = {Len(t)} /\ DoneMoves(t) = DoneMoves(s) /\ RangeOf(t) = RangeOf(s) \cup {e}
<1> DEFINE t == Append(s, e)
           n == Len(s)
<1>1. /\ n \in Nat /\ DOMAIN s = 1..n /\ t \in Seq(Duplicate!Move) /\ Len(t) = n + 1 /\ DOMAIN t = 1..n + 1
      /\ t[n + 1] = e /\ \A k \in 1..n : t[k] = s[k]
  OBVIOUS
<1> HIDE DEF t, n
<1>2. \A k : k \in 1..n + 1 <=> k \in 1..n \/ k = n + 1
  BY <1>1
<1>3. n + 1 \notin 1..n
  BY <1>1
<1>4. OpenMoves(t) = {n + 1}
  BY <1>1, <1>2 DEF OpenMoves
<1>5. DoneMoves(t) = DoneMoves(s)
  BY <1>1, <1>2, <1>3 DEF DoneMoves
<1>6. RangeOf(t) = RangeOf(s) \cup {e}
  BY <1>1, <1>2 DEF RangeOf
<1>7. t # <<>>
  BY <1>1
<1> QED
  BY <1>1, <1>4, <1>5, <1>6, <1>7 DEF t

LEMMA SettledMove ==
    ASSUME NEW s \in Seq(Duplicate!Move), OpenMoves(s) = {Len(s)}, s # <<>>, NEW status \in {"moved", "failed"}
    PROVE  LET p == s[Len(s)]
               e == [p EXCEPT !.status = status]
               t == [s EXCEPT ![Len(s)] = e]
           IN  /\ p \in Duplicate!Move /\ p.status = "planned" /\ e \in Duplicate!Move /\ t \in Seq(Duplicate!Move)
               /\ e.slot = p.slot /\ e.source = p.source /\ e.status = status
               /\ OpenMoves(t) = {}
               /\ Cardinality(DoneMoves(s)) \in Nat
               /\ Cardinality(DoneMoves(t)) = IF status = "moved" THEN Cardinality(DoneMoves(s)) + 1
                                              ELSE Cardinality(DoneMoves(s))
               /\ RangeOf(t) \subseteq RangeOf(s) \cup {e} /\ RangeOf(s) \subseteq RangeOf(t) \cup {p} /\ e \in RangeOf(t)
<1> DEFINE n == Len(s)
           p == s[n]
           e == [p EXCEPT !.status = status]
           t == [s EXCEPT ![n] = e]
<1>1. n \in Nat \ {0} /\ DOMAIN s = 1..n /\ n \in 1..n /\ p \in Duplicate!Move
  OBVIOUS
<1>2. p.status = "planned"
  BY DEF OpenMoves
<1>3. e \in Duplicate!Move /\ e.slot = p.slot /\ e.source = p.source /\ e.status = status
  BY <1>1 DEF Duplicate!Move, Duplicate!Statuses
<1> HIDE DEF p, e
<1>4. t \in Seq(Duplicate!Move) /\ DOMAIN t = 1..n /\ t[n] = e /\ \A k \in 1..n : k # n => t[k] = s[k]
  BY <1>1, <1>3
<1> HIDE DEF t
<1>5. OpenMoves(t) = {}
  BY <1>1, <1>3, <1>4 DEF OpenMoves, n
<1>6. DoneMoves(s) \in SUBSET (1..n) /\ n \notin DoneMoves(s)
  BY <1>1, <1>2 DEF DoneMoves, p
<1>7. IsFiniteSet(DoneMoves(s)) /\ Cardinality(DoneMoves(s)) \in Nat
  <2>1. IsFiniteSet(1..n)
    BY <1>1, FS_Interval
  <2> QED
    BY <1>6, <2>1, FS_Subset, FS_CardinalityType
<1>8. DoneMoves(t) = IF status = "moved" THEN DoneMoves(s) \cup {n} ELSE DoneMoves(s)
  BY <1>1, <1>2, <1>3, <1>4 DEF DoneMoves, p
<1>9. Cardinality(DoneMoves(t)) = IF status = "moved" THEN Cardinality(DoneMoves(s)) + 1 ELSE Cardinality(DoneMoves(s))
  BY <1>6, <1>7, <1>8, FS_AddElement
<1>10. /\ RangeOf(t) \subseteq RangeOf(s) \cup {e} /\ RangeOf(s) \subseteq RangeOf(t) \cup {p} /\ e \in RangeOf(t)
  BY <1>1, <1>4 DEF RangeOf, p
<1> QED
  BY <1>1, <1>2, <1>3, <1>4, <1>5, <1>7, <1>9, <1>10 DEF n, p, e, t

\* The last of the manifests ms is replaced by m, which keeps the moves of the others.
Replaces(ms, new, m) ==
    /\ new \in Seq(Records) /\ new # <<>> /\ new[Len(new)] = m
    /\ \A i \in DOMAIN new : RecordIsTrue(new[i])
    /\ MovesOf(new) \subseteq MovesOf(ms) \cup RangeOf(m.moves)
    /\ \A e \in MovesOf(ms) : e \in MovesOf(new) \/ e \in RangeOf(ms[Len(ms)].moves)
    /\ RangeOf(m.moves) \subseteq MovesOf(new)
    /\ RangeOf(ms[Len(ms)].moves) \subseteq MovesOf(ms)

LEMMA ReplacedRecord ==
    ASSUME NEW ms \in Seq(Records), ms # <<>>, NEW m \in Records, RecordIsTrue(m),
           \A i \in DOMAIN ms : RecordIsTrue(ms[i])
    PROVE  Replaces(ms, [ms EXCEPT ![Len(ms)] = m], m)
<1> DEFINE n == Len(ms)
           new == [ms EXCEPT ![n] = m]
           others == {e \in Duplicate!Move : \E i \in DOMAIN ms \ {n} : \E k \in DOMAIN ms[i].moves : e = ms[i].moves[k]}
<1>1. n \in Nat \ {0} /\ DOMAIN ms = 1..n /\ n \in 1..n /\ ms[n] \in Records
  OBVIOUS
<1>2. new \in Seq(Records) /\ Len(new) = n /\ DOMAIN new = 1..n /\ new[n] = m /\ \A i \in 1..n : i # n => new[i] = ms[i]
  <2>1. DOMAIN new = 1..n /\ new[n] = m /\ \A i \in 1..n : i # n => new[i] = ms[i]
    BY <1>1
  <2>2. new \in Seq(Records)
    OBVIOUS
  <2> HIDE DEF new, n
  <2> QED
    BY <1>1, <2>1, <2>2
<1>3. \A r \in Records : RangeOf(r.moves) \subseteq Duplicate!Move
  <2> SUFFICES ASSUME NEW r \in Records PROVE RangeOf(r.moves) \subseteq Duplicate!Move
    OBVIOUS
  <2>1. r.moves \in Seq(Duplicate!Move)
    BY DEF Records
  <2> QED
    BY <2>1 DEF RangeOf
<1> HIDE DEF new, n
<1>4. MovesOf(ms) = others \cup RangeOf(ms[n].moves)
  BY <1>1, <1>3 DEF MovesOf, RangeOf
<1>5. MovesOf(new) = others \cup RangeOf(m.moves)
  BY <1>1, <1>2, <1>3 DEF MovesOf, RangeOf
<1>6. new # <<>> /\ \A i \in DOMAIN new : RecordIsTrue(new[i])
  BY <1>1, <1>2
<1> HIDE DEF others
<1>7. /\ new \in Seq(Records) /\ new # <<>> /\ new[Len(new)] = m
      /\ \A i \in DOMAIN new : RecordIsTrue(new[i])
  BY <1>2, <1>6
<1>8. PICK old : old = RangeOf(ms[n].moves)
  OBVIOUS
<1>9. PICK r : r = RangeOf(m.moves)
  OBVIOUS
<1>10. /\ MovesOf(new) \subseteq MovesOf(ms) \cup r /\ r \subseteq MovesOf(new) /\ old \subseteq MovesOf(ms)
       /\ \A e \in MovesOf(ms) : e \in MovesOf(new) \/ e \in old
  BY <1>4, <1>5, <1>8, <1>9
<1>11. Replaces(ms, new, m)
  BY <1>7, <1>8, <1>9, <1>10, Zenon DEF Replaces, n
<1> QED
  BY <1>11 DEF new, n

LEMMA NoManifestIs ==
    /\ Duplicate!NoManifest \in Records /\ OpenMoves(Duplicate!NoManifest.moves) = {}
    /\ RecordIsTrue(Duplicate!NoManifest) /\ Duplicate!NoManifest.status = "in_progress"
    /\ RangeOf(Duplicate!NoManifest.moves) = {}
<1> DEFINE m == [status |-> "in_progress", moves |-> <<>>, count |-> 0]
<1>1. m \in Records /\ m.status = "in_progress" /\ m.moves = <<>> /\ m.count = 0
  BY DEF Records
<1>2. DOMAIN m.moves = {}
  BY <1>1
<1> HIDE DEF m
<1>3. OpenMoves(m.moves) = {} /\ DoneMoves(m.moves) = {} /\ RangeOf(m.moves) = {}
  BY <1>2 DEF OpenMoves, DoneMoves, RangeOf
<1>4. RecordIsTrue(m)
  BY <1>1, <1>3, FS_EmptySet DEF RecordIsTrue
<1>5. Duplicate!NoManifest = m
  BY DEF Duplicate!NoManifest, m
<1> QED
  BY <1>1, <1>3, <1>4, <1>5

\* An operation ends, with the manifests as they are then.
LEMMA EndHolds ==
    ASSUME DuplicateInv, NEW how, Duplicate!End(how), UNCHANGED <<at, slot, content, origin, edits>>,
           manifests' \in Seq(Records), \A i \in DOMAIN manifests' : RecordIsTrue(manifests'[i]),
           Restored(manifests', slot, origin),
           how = "result" => manifests' # <<>> /\ manifests'[Len(manifests')].status = "complete"
    PROVE  DuplicateInv'
<1>1. /\ pc' = "idle" /\ shown' = how /\ groups' = <<>> /\ todo' = <<>> /\ memory' = Duplicate!NoManifest
  BY DEF Duplicate!End
<1>2. <<>> \in Seq(DuplicateGroups)
  OBVIOUS
<1>3. DuplicateTypes'
  BY <1>1, <1>2, NoManifestIs DEF DuplicateInv, DuplicateTypes
<1>4. TodoInv'
  BY <1>1 DEF TodoInv
<1>5. RecordInv'
  BY <1>1, NoManifestIs DEF RecordInv
<1>6. SlotInv'
  BY <1>1 DEF SlotInv
<1>7. CopyInv'
  BY <1>1 DEF CopyInv
<1> QED
  BY <1>3, <1>4, <1>5, <1>6, <1>7 DEF DuplicateInv

LEMMA EndKeeps ==
    ASSUME DuplicateInv, NEW how, Duplicate!End(how), UNCHANGED <<at, slot, content, origin, edits, manifests>>,
           how # "result" \/ pc = "returned"
    PROVE  DuplicateInv'
<1>1. manifests \in Seq(Records) /\ Restored(manifests, slot, origin) /\ \A i \in DOMAIN manifests : RecordIsTrue(manifests[i])
  BY DEF DuplicateInv, DuplicateTypes, RecordInv, SlotInv
<1>2. pc = "returned" => manifests # <<>> /\ manifests[Len(manifests)].status = "complete"
  BY DEF DuplicateInv, RecordInv
<1> QED
  BY <1>1, <1>2, EndHolds

\* The task goes on, and neither the files nor the manifests change.
LEMMA GoesOn ==
    ASSUME DuplicateInv, UNCHANGED <<at, slot, content, origin, edits, groups, manifests, memory>>,
           shown' = shown \/ shown' # "result", pc # "idle" \/ shown' # "result" \/ (pc' = "idle" /\ shown' = shown),
           todo' \in Seq(DuplicateGroups),
           TodoInv', CopyInv',
           \/ pc' = pc /\ todo' = todo
           \/ pc' \in {"group", "source", "verify", "plan", "completing"} /\ pc \in {"group", "source", "verify", "plan"}
           \/ pc' = "cancelling" /\ pc \in {"group", "source", "verify", "plan", "move"}
           \/ pc' = "begin" /\ pc = "idle"
    PROVE  DuplicateInv'
<1>1. DuplicateTypes'
  BY DEF DuplicateInv, DuplicateTypes
<1>2. RecordInv'
  <2>1. pc' = pc /\ todo' = todo => Duplicate!Source' = Duplicate!Source
    BY DEF Duplicate!Source
  <2>2. LastMove' = LastMove
    BY DEF LastMove
  <2> QED
    BY <2>1, <2>2 DEF DuplicateInv, RecordInv
<1>3. SlotInv'
  BY DEF DuplicateInv, SlotInv, LastMove
<1> QED
  BY <1>1, <1>2, <1>3 DEF DuplicateInv

\* What a scan finds is a list of groups, none of them empty.
LEMMA ScanFindsGroups ==
    ASSUME NEW seen, seen \subseteq Paths
    PROVE  Duplicate!Duplicates(seen) \in Seq(DuplicateGroups)
<1> DEFINE Class(p) == {q \in seen : content[at[q]] = content[at[p]]}
           S == {q \in seen : Class(q) # {q}}
           F == [p \in S |-> Ranked(Class(p), Duplicate!Smaller)]
           T == {F[p] : p \in S}
<1>1. IsFiniteSet(Paths) /\ Paths \subseteq Nat
  BY DuplicateConstantTypes
<1>2. IsFiniteSet(S)
  <2>1. S \in SUBSET Paths
    OBVIOUS
  <2> QED
    BY <1>1, <2>1, FS_Subset
<1>3. IsFiniteSet(T)
  <2>1. F \in Surjection(S, T)
    BY DEF Surjection
  <2> QED
    BY <1>2, <2>1, FS_Surjection
<1>4. ASSUME NEW p \in S PROVE F[p] \in DuplicateGroups
  <2>1. Class(p) \in SUBSET Paths /\ p \in Class(p)
    OBVIOUS
  <2> DEFINE C == Class(p)
  <2>2. F[p] = Ranked(C, Duplicate!Smaller)
    OBVIOUS
  <2> HIDE DEF C, F
  <2>3. IsFiniteSet(C)
    BY <1>1, <2>1, FS_Subset DEF C
  <2>4. StrictOrder(Duplicate!Smaller, C)
    BY <1>1, <2>1 DEF StrictOrder, Duplicate!Smaller, C
  <2>5. PICK f : f = Ranked(C, Duplicate!Smaller)
    OBVIOUS
  <2>6. f \in Seq(C) /\ \A x \in C : \E i \in 1..Len(f) : f[i] = x
    BY <2>3, <2>4, <2>5, RankedOrders
  <2>7. f \in Seq(Paths) /\ Len(f) >= 1
    BY <2>1, <2>6 DEF C
  <2> QED
    BY <2>2, <2>5, <2>7 DEF DuplicateGroups
<1>5. T \subseteq DuplicateGroups
  BY <1>4
<1>6. Duplicate!Duplicates(seen) = Listed(T)
  <2>1. T = {Ranked(Class(p), Duplicate!Smaller) : p \in S}
    OBVIOUS
  <2> HIDE DEF T
  <2> QED
    BY <2>1, DuplicateLibrary DEF Duplicate!Duplicates
<1> HIDE DEF T
<1>7. Listed(T) \in Seq(T)
  BY <1>3, ListedLists
<1> QED
  BY <1>5, <1>6, <1>7

\* The first group loses its source and keeps its original.
LEMMA RestIsGroups ==
    ASSUME NEW s \in Seq(DuplicateGroups), s # <<>>, Len(s[1]) >= 2
    PROVE  /\ <<<<s[1][1]>> \o SubSeq(s[1], 3, Len(s[1]))>> \o Tail(s) \in Seq(DuplicateGroups)
           /\ <<<<s[1][1]>> \o SubSeq(s[1], 3, Len(s[1]))>> \o Tail(s) # <<>>
<1>1. s[1] \in Seq(Paths)
  BY DEF DuplicateGroups
<1>2. PICK g : g = <<s[1][1]>> \o SubSeq(s[1], 3, Len(s[1]))
  OBVIOUS
<1>3. SubSeq(s[1], 3, Len(s[1])) \in Seq(Paths) /\ <<s[1][1]>> \in Seq(Paths) /\ Len(<<s[1][1]>>) = 1
  BY <1>1
<1>4. g \in Seq(Paths) /\ Len(g) >= 1
  BY <1>2, <1>3
<1>5. g \in DuplicateGroups /\ Tail(s) \in Seq(DuplicateGroups)
  BY <1>4 DEF DuplicateGroups
<1>6. <<g>> \o Tail(s) \in Seq(DuplicateGroups) /\ <<g>> \o Tail(s) # <<>>
  BY <1>5
<1> QED
  BY <1>2, <1>6

LEMMA DuplicateInit == Duplicate!Init => DuplicateInv
<1> SUFFICES ASSUME Duplicate!Init PROVE DuplicateInv
  OBVIOUS
<1> USE DuplicateConstantTypes DEF Duplicate!Init
<1>1. <<>> \in Seq(DuplicateGroups) /\ <<>> \in Seq(Records) /\ DOMAIN <<>> = {}
  OBVIOUS
<1>2. manifests \in Seq(Records) /\ DOMAIN manifests = {}
  BY <1>1
<1>3. DuplicateTypes
  BY <1>1, NoManifestIs DEF DuplicateTypes, Duplicate!Files
<1>4. TodoInv
  BY DEF TodoInv
<1>5. RecordInv
  BY <1>2, NoManifestIs DEF RecordInv
<1>6. SlotInv
  <2>1. MovesOf(manifests) = {}
    BY <1>2 DEF MovesOf
  <2> QED
    BY <2>1 DEF SlotInv, Restored
<1>7. CopyInv
  BY DEF CopyInv
<1> QED
  BY <1>3, <1>4, <1>5, <1>6, <1>7 DEF DuplicateInv

LEMMA ScanHolds ==
    ASSUME DuplicateInv, Duplicate!Scan
    PROVE  DuplicateInv'
<1> USE DEF DuplicateInv, Duplicate!Scan, Duplicate!files, Duplicate!record
<1>1. PICK seen \in SUBSET {p \in Paths : at[p] # Gone} : groups' = Duplicate!Duplicates(seen)
  OBVIOUS
<1>2. groups' \in Seq(DuplicateGroups)
  BY <1>1, ScanFindsGroups
<1>3. DuplicateTypes'
  BY <1>2 DEF DuplicateTypes
<1>4. TodoInv'
  BY DEF TodoInv
<1>5. RecordInv'
  BY DEF RecordInv
<1>6. SlotInv'
  BY DEF SlotInv
<1>7. CopyInv'
  BY DEF CopyInv
<1> QED
  BY <1>3, <1>4, <1>5, <1>6, <1>7

LEMMA StartMoveHolds ==
    ASSUME DuplicateInv, Duplicate!StartMove
    PROVE  DuplicateInv'
<1> USE DEF Duplicate!StartMove, Duplicate!files, Duplicate!record
<1>1. pc = "idle" /\ pc' = "begin" /\ todo' = groups /\ groups # <<>> /\ groups \in Seq(DuplicateGroups) /\ shown' = shown
  BY DEF DuplicateInv, DuplicateTypes
<1>2. shown # "result"
  BY <1>1 DEF DuplicateInv, RecordInv
<1>3. TodoInv'
  BY <1>1 DEF TodoInv
<1>4. CopyInv'
  BY <1>1 DEF CopyInv
<1> QED
  BY <1>1, <1>2, <1>3, <1>4, GoesOn

LEMMA BeginHolds ==
    ASSUME DuplicateInv, Duplicate!Begin
    PROVE  DuplicateInv'
<1> USE DEF Duplicate!Begin, Duplicate!files
<1>1. CASE UNCHANGED manifests /\ \E how \in {"cancelled", "failed"} : Duplicate!End(how)
  BY <1>1, EndKeeps
<1>2. CASE manifests' = Append(manifests, Duplicate!NoManifest) /\ UNCHANGED <<memory, todo>> /\ Duplicate!Continue("group")
  <2> USE <1>2 DEF Duplicate!Continue
  <2>0. pc = "begin" /\ pc' = "group" /\ shown' = shown /\ groups' = groups
    OBVIOUS
  <2>1. /\ manifests \in Seq(Records) /\ memory = Duplicate!NoManifest /\ shown # "result"
        /\ \A i \in DOMAIN manifests : RecordIsTrue(manifests[i])
    BY <2>0 DEF DuplicateInv, DuplicateTypes, RecordInv
  <2>2. PICK m : m = Duplicate!NoManifest
    OBVIOUS
  <2>3. m \in Records /\ RecordIsTrue(m) /\ RangeOf(m.moves) = {} /\ OpenMoves(m.moves) = {} /\ m.status = "in_progress"
    BY <2>2, NoManifestIs
  <2> DEFINE n == Len(manifests)
  <2>4. /\ n \in Nat /\ manifests' \in Seq(Records) /\ Len(manifests') = n + 1 /\ DOMAIN manifests' = 1..n + 1
        /\ DOMAIN manifests = 1..n /\ manifests'[n + 1] = m /\ \A i \in 1..n : manifests'[i] = manifests[i]
    BY <2>1, <2>2, <2>3
  <2> HIDE DEF n
  <2>5. \A i : i \in 1..n + 1 <=> i \in 1..n \/ i = n + 1
    BY <2>4
  <2>6. DuplicateTypes'
    BY <2>4 DEF DuplicateInv, DuplicateTypes
  <2>7. RecordInv'
    <3>1. manifests' # <<>> /\ manifests'[Len(manifests')] = memory' /\ memory' = m
      BY <2>1, <2>2, <2>4
    <3>2. \A i \in DOMAIN manifests' : RecordIsTrue(manifests'[i])
      BY <2>1, <2>3, <2>4, <2>5
    <3> QED
      BY <2>0, <2>1, <2>3, <3>1, <3>2 DEF RecordInv
  <2>8. MovesOf(manifests)' = MovesOf(manifests)
    <3>1. DOMAIN m.moves = {}
      BY <2>3 DEF RangeOf
    <3> QED
      BY <2>4, <2>5, <3>1 DEF MovesOf
  <2>9. SlotInv'
    BY <2>0, <2>8 DEF DuplicateInv, SlotInv, Restored
  <2> QED
    BY <2>0, <2>6, <2>7, <2>9 DEF DuplicateInv, TodoInv, CopyInv
<1> QED
  BY <1>1, <1>2

LEMMA GroupStepHolds ==
    ASSUME DuplicateInv, Duplicate!GroupStep
    PROVE  DuplicateInv'
<1> USE DEF Duplicate!GroupStep, Duplicate!files, Duplicate!record
<1>1. pc = "group" /\ shown' = shown /\ todo \in Seq(DuplicateGroups)
  BY DEF DuplicateInv, DuplicateTypes
<1>2. /\ pc' \in {"cancelling", "completing", "group", "source"} /\ pc' = "source" => todo # <<>> /\ todo' = todo
      /\ todo' \in Seq(DuplicateGroups)
  <2>1. todo' = todo \/ (todo # <<>> /\ todo' = Tail(todo))
    OBVIOUS
  <2>2. todo' \in Seq(DuplicateGroups)
    BY <1>1, <2>1
  <2> QED
    BY <1>1, <2>2
<1>3. TodoInv' /\ CopyInv'
  BY <1>2 DEF TodoInv, CopyInv
<1> QED
  BY <1>1, <1>2, <1>3, GoesOn

\* The next source comes up.
LEMMA SkipHolds ==
    ASSUME DuplicateInv, pc \in {"source", "verify", "plan"}, todo # <<>>, Len(todo[1]) >= 2, Duplicate!Skip,
           UNCHANGED <<at, slot, content, origin, edits, groups, manifests, memory, shown>>
    PROVE  DuplicateInv'
<1>1. todo \in Seq(DuplicateGroups)
  BY DEF DuplicateInv, DuplicateTypes
<1>2. pc' = "source" /\ todo' \in Seq(DuplicateGroups) /\ todo' # <<>>
  BY <1>1, RestIsGroups DEF Duplicate!Skip, Duplicate!Rest, Duplicate!Original
<1>3. TodoInv' /\ CopyInv'
  BY <1>2 DEF TodoInv, CopyInv
<1> QED
  BY <1>2, <1>3, GoesOn

LEMMA SourceStepHolds ==
    ASSUME DuplicateInv, Duplicate!SourceStep
    PROVE  DuplicateInv'
<1> USE DEF Duplicate!SourceStep, Duplicate!files, Duplicate!record
<1>1. pc = "source" /\ shown' = shown /\ todo \in Seq(DuplicateGroups) /\ todo # <<>> /\ touched' = FALSE
  BY DEF DuplicateInv, DuplicateTypes, TodoInv
<1>2. Len(todo[1]) \in Nat /\ Len(todo[1]) >= 1
  <2>1. todo[1] \in Seq(Paths) /\ Len(todo[1]) >= 1
    BY <1>1 DEF DuplicateGroups
  <2> QED
    BY <2>1
<1>3. CASE Len(todo[1]) = 1
  <2>1. pc' = "group" /\ todo' \in Seq(DuplicateGroups)
    BY <1>1, <1>3
  <2>2. TodoInv' /\ CopyInv'
    BY <2>1 DEF TodoInv, CopyInv
  <2> QED
    BY <1>1, <2>1, <2>2, GoesOn
<1>4. CASE Len(todo[1]) # 1
  <2>1. Len(todo[1]) >= 2
    <3>1. \A n \in Nat : n >= 1 /\ n # 1 => n >= 2
      OBVIOUS
    <3> QED
      BY <1>2, <1>4, <3>1, Zenon
  <2>2. CASE Duplicate!Skip
    BY <1>1, <2>1, <2>2, SkipHolds
  <2>3. CASE pc' = "cancelling" /\ UNCHANGED todo
    <3>1. TodoInv' /\ CopyInv'
      BY <2>3 DEF TodoInv, CopyInv
    <3> QED
      BY <1>1, <2>3, <3>1, GoesOn
  <2>4. CASE at[Duplicate!Source] \notin {Gone, at[Duplicate!Original]} /\ pc' = "verify" /\ UNCHANGED todo
    <3>1. TodoInv'
      BY <1>1, <2>1, <2>4 DEF TodoInv
    <3>2. CopyInv'
      BY <2>4 DEF CopyInv, Duplicate!Source, Duplicate!Original
    <3> QED
      BY <1>1, <2>4, <3>1, <3>2, GoesOn
  <2> QED
    BY <1>4, <2>2, <2>3, <2>4
<1> QED
  BY <1>3, <1>4

LEMMA VerifyHolds ==
    ASSUME DuplicateInv, Duplicate!Verify
    PROVE  DuplicateInv'
<1> USE DEF Duplicate!Verify, Duplicate!files, Duplicate!record
<1>1. pc = "verify" /\ shown' = shown /\ todo \in Seq(DuplicateGroups) /\ todo # <<>> /\ touched' = touched /\ Len(todo[1]) >= 2
  BY DEF DuplicateInv, DuplicateTypes, TodoInv
<1>2. CASE Duplicate!Skip
  BY <1>1, <1>2, SkipHolds
<1>3. CASE pc' = "cancelling" /\ UNCHANGED todo
  <2>1. TodoInv' /\ CopyInv'
    BY <1>3 DEF TodoInv, CopyInv
  <2> QED
    BY <1>1, <1>3, <2>1, GoesOn
<1>4. CASE Duplicate!Equal /\ pc' = "plan" /\ UNCHANGED todo
  <2>1. TodoInv'
    BY <1>1, <1>4 DEF TodoInv
  <2>2. CopyInv'
    BY <1>1, <1>4 DEF DuplicateInv, CopyInv, Duplicate!Equal, Duplicate!Source, Duplicate!Original
  <2> QED
    BY <1>1, <1>4, <2>1, <2>2, GoesOn
<1> QED
  BY <1>2, <1>3, <1>4

LEMMA DuplicateCancelHolds ==
    ASSUME DuplicateInv, Duplicate!Cancel
    PROVE  DuplicateInv'
<1> USE DEF Duplicate!Cancel, Duplicate!files, Duplicate!record
<1>1. pc' = pc /\ todo' = todo /\ shown' = shown /\ todo' \in Seq(DuplicateGroups) /\ pc # "idle"
  BY DEF DuplicateInv, DuplicateTypes
<1>2. TodoInv' /\ CopyInv'
  BY DEF DuplicateInv, TodoInv, CopyInv, Duplicate!Source, Duplicate!Original
<1> QED
  BY <1>1, <1>2, GoesOn

LEMMA EndingsHold ==
    ASSUME DuplicateInv, Duplicate!Return \/ Duplicate!Crash
    PROVE  DuplicateInv'
<1>1. CASE Duplicate!Crash
  BY <1>1, EndKeeps DEF Duplicate!Crash, Duplicate!files
<1>2. CASE Duplicate!Return
  <2>1. PICK how : Duplicate!End(how) /\ pc = "returned" /\ UNCHANGED <<at, slot, content, origin, edits, manifests>>
    BY <1>2 DEF Duplicate!Return, Duplicate!files
  <2> QED
    BY <2>1, EndKeeps
<1> QED
  BY <1>1, <1>2

LEMMA SaveRecordsMove ==
    ASSUME DuplicateInv, pc = "plan", NEW s \in Duplicate!Slots, slot[s] = Gone, UNCHANGED <<at, slot, content, origin, edits>>,
           UNCHANGED <<groups, shown, touched, todo>>, pc' = "move",
           memory' = [memory EXCEPT !.moves = Append(@, Duplicate!Entry(s))],
           manifests' = [manifests EXCEPT ![Len(manifests)] = memory']
    PROVE  DuplicateInv'
<1>1. /\ todo \in Seq(DuplicateGroups) /\ todo # <<>> /\ Len(todo[1]) >= 2 /\ manifests \in Seq(Records) /\ manifests # <<>>
      /\ memory \in Records /\ memory = manifests[Len(manifests)] /\ memory.status = "in_progress" /\ OpenMoves(memory.moves) = {}
      /\ shown # "result" /\ Restored(manifests, slot, origin) /\ \A i \in DOMAIN manifests : RecordIsTrue(manifests[i])
      /\ RecordIsTrue(memory)
  <2>1. /\ todo \in Seq(DuplicateGroups) /\ todo # <<>> /\ Len(todo[1]) >= 2 /\ manifests \in Seq(Records) /\ manifests # <<>>
        /\ memory \in Records /\ memory = manifests[Len(manifests)] /\ memory.status = "in_progress" /\ OpenMoves(memory.moves) = {}
        /\ shown # "result" /\ Restored(manifests, slot, origin) /\ \A i \in DOMAIN manifests : RecordIsTrue(manifests[i])
    BY DEF DuplicateInv, DuplicateTypes, TodoInv, RecordInv, SlotInv
  <2>2. Len(manifests) \in DOMAIN manifests
    BY <2>1
  <2> QED
    BY <2>1, <2>2
<1>2. todo[1][1] \in Paths /\ todo[1][2] \in Paths
  <2>1. todo[1] \in Seq(Paths)
    BY <1>1 DEF DuplicateGroups
  <2> QED
    BY <1>1, <2>1
<1>3. PICK e : e = Duplicate!Entry(s)
  OBVIOUS
<1>4. e \in Duplicate!Move /\ e.status = "planned" /\ e.slot = s /\ e.source = Duplicate!Source
  BY <1>2, <1>3 DEF Duplicate!Entry, Duplicate!Move, Duplicate!Statuses, Duplicate!Source, Duplicate!Original
<1>5. PICK t : t = Append(memory.moves, e)
  OBVIOUS
<1>6. memory.moves \in Seq(Duplicate!Move)
  BY <1>1 DEF Records
<1>7. /\ t \in Seq(Duplicate!Move) /\ t # <<>> /\ t[Len(t)] = e
      /\ OpenMoves(t) = {Len(t)} /\ DoneMoves(t) = DoneMoves(memory.moves) /\ RangeOf(t) = RangeOf(memory.moves) \cup {e}
  BY <1>1, <1>4, <1>5, <1>6, PlannedMove
<1>8. memory' \in Records /\ memory'.moves = t /\ memory'.status = "in_progress" /\ memory'.count = memory.count
  BY <1>1, <1>3, <1>5, <1>7 DEF Records
<1>9. RecordIsTrue(memory')
  BY <1>1, <1>7, <1>8 DEF RecordIsTrue
<1>10. /\ manifests' \in Seq(Records) /\ manifests' # <<>> /\ manifests'[Len(manifests')] = memory'
       /\ \A i \in DOMAIN manifests' : RecordIsTrue(manifests'[i])
       /\ MovesOf(manifests') \subseteq MovesOf(manifests) \cup RangeOf(memory'.moves)
       /\ \A x \in MovesOf(manifests) : x \in MovesOf(manifests') \/ x \in RangeOf(manifests[Len(manifests)].moves)
       /\ RangeOf(memory'.moves) \subseteq MovesOf(manifests')
       /\ RangeOf(manifests[Len(manifests)].moves) \subseteq MovesOf(manifests)
  <2>1. manifests' = [manifests EXCEPT ![Len(manifests)] = memory']
    OBVIOUS
  <2>2. Replaces(manifests, manifests', memory')
    <3>1. Replaces(manifests, [manifests EXCEPT ![Len(manifests)] = memory'], memory')
      BY <1>1, <1>8, <1>9, ReplacedRecord
    <3> QED
      BY <2>1, <3>1
  <2> QED
    BY <2>2 DEF Replaces
<1>11. DuplicateTypes'
  BY <1>8, <1>10 DEF DuplicateInv, DuplicateTypes
<1>12. TodoInv'
  BY <1>1 DEF TodoInv
<1>13. RecordInv'
  <2>1. LastMove' = e
    BY <1>7, <1>8 DEF LastMove
  <2>2. Duplicate!Source' = Duplicate!Source
    BY DEF Duplicate!Source
  <2> QED
    BY <1>1, <1>4, <1>7, <1>8, <1>10, <2>1, <2>2 DEF RecordInv
<1>14. SlotInv'
  <2>1. LastMove' = e
    BY <1>7, <1>8 DEF LastMove
  <2>2. \A x \in MovesOf(manifests') : x \in MovesOf(manifests) \/ x = e
    BY <1>1, <1>7, <1>8, <1>10
  <2>3. \A x \in MovesOf(manifests) : x \in MovesOf(manifests')
    BY <1>1, <1>7, <1>8, <1>10
  <2>4. Restored(manifests', slot', origin')
    BY <1>1, <1>4, <2>2, <2>3 DEF Restored
  <2> QED
    BY <1>4, <2>1, <2>4 DEF SlotInv
<1>15. CopyInv'
  BY DEF DuplicateInv, CopyInv, Duplicate!Source, Duplicate!Original
<1> QED
  BY <1>11, <1>12, <1>13, <1>14, <1>15 DEF DuplicateInv

LEMMA PlanHolds ==
    ASSUME DuplicateInv, Duplicate!Plan
    PROVE  DuplicateInv'
<1> USE DEF Duplicate!files, Duplicate!record
<1>1. pc = "plan" /\ todo \in Seq(DuplicateGroups) /\ todo # <<>> /\ Len(todo[1]) >= 2
  BY DEF DuplicateInv, DuplicateTypes, TodoInv, Duplicate!Plan
<1>2. CASE Duplicate!Unplanned
  <2>1. CASE Duplicate!Skip
    BY <1>1, <1>2, <2>1, SkipHolds DEF Duplicate!Unplanned
  <2>2. CASE pc' = "cancelling" /\ UNCHANGED todo
    <3>1. TodoInv' /\ CopyInv'
      BY <2>2 DEF TodoInv, CopyInv
    <3> QED
      BY <1>1, <1>2, <2>2, <3>1, GoesOn DEF Duplicate!Unplanned
  <2> QED
    BY <1>2, <2>1, <2>2 DEF Duplicate!Unplanned
<1>3. CASE \E s \in Duplicate!Free : Duplicate!Save([memory EXCEPT !.moves = Append(@, Duplicate!Entry(s))], "move", todo)
  <2>1. PICK s \in Duplicate!Free : Duplicate!Save([memory EXCEPT !.moves = Append(@, Duplicate!Entry(s))], "move", todo)
    BY <1>3
  <2>2. s \in Duplicate!Slots /\ slot[s] = Gone
    BY DEF Duplicate!Free
  <2>3. CASE UNCHANGED manifests /\ Duplicate!End("failed")
    BY <2>1, <2>3, EndKeeps DEF Duplicate!Save
  <2>4. CASE /\ manifests' = [manifests EXCEPT ![Len(manifests)] = [memory EXCEPT !.moves = Append(@, Duplicate!Entry(s))]]
             /\ memory' = [memory EXCEPT !.moves = Append(@, Duplicate!Entry(s))] /\ todo' = todo /\ Duplicate!Continue("move")
    BY <1>1, <2>1, <2>2, <2>4, SaveRecordsMove DEF Duplicate!Save, Duplicate!Continue
  <2> QED
    BY <2>1, <2>3, <2>4 DEF Duplicate!Save
<1> QED
  BY <1>2, <1>3 DEF Duplicate!Plan

\* What the manifest in memory has to do with those on disk while the task runs.
LEMMA RunningRecord ==
    ASSUME DuplicateInv, pc \notin {"idle", "begin"}
    PROVE  /\ manifests \in Seq(Records) /\ manifests # <<>> /\ memory \in Records /\ memory = manifests[Len(manifests)]
           /\ \A i \in DOMAIN manifests : RecordIsTrue(manifests[i])
           /\ RecordIsTrue(memory) /\ memory.moves \in Seq(Duplicate!Move)
           /\ RangeOf(memory.moves) \subseteq MovesOf(manifests)
           /\ Restored(manifests, slot, origin) /\ shown # "result"
<1>1. /\ manifests \in Seq(Records) /\ manifests # <<>> /\ memory \in Records /\ memory = manifests[Len(manifests)]
      /\ \A i \in DOMAIN manifests : RecordIsTrue(manifests[i])
      /\ Restored(manifests, slot, origin) /\ shown # "result"
  BY DEF DuplicateInv, DuplicateTypes, RecordInv, SlotInv
<1>2. Len(manifests) \in DOMAIN manifests
  BY <1>1
<1>3. RecordIsTrue(memory)
  BY <1>1, <1>2
<1>4. memory.moves \in Seq(Duplicate!Move)
  BY <1>1 DEF Records
<1>5. RangeOf(memory.moves) \subseteq MovesOf(manifests)
  BY <1>1, <1>2, <1>4 DEF RangeOf, MovesOf
<1> QED
  BY <1>1, <1>3, <1>4, <1>5

LEMMA SaveRecordsOutcome ==
    ASSUME DuplicateInv, pc \in {"moved", "failed"}, UNCHANGED <<at, slot, content, origin, edits>>,
           UNCHANGED <<groups, shown>>, pc' = "source", todo' = Duplicate!Rest,
           memory' = Duplicate!Settled(pc), manifests' = [manifests EXCEPT ![Len(manifests)] = memory']
    PROVE  DuplicateInv'
<1>1. /\ manifests \in Seq(Records) /\ manifests # <<>> /\ memory \in Records /\ memory = manifests[Len(manifests)]
      /\ \A i \in DOMAIN manifests : RecordIsTrue(manifests[i])
      /\ RecordIsTrue(memory) /\ memory.moves \in Seq(Duplicate!Move)
      /\ RangeOf(memory.moves) \subseteq MovesOf(manifests)
      /\ Restored(manifests, slot, origin) /\ shown # "result"
  BY RunningRecord
<1>2. /\ todo \in Seq(DuplicateGroups) /\ todo # <<>> /\ Len(todo[1]) >= 2 /\ memory.status = "in_progress"
      /\ memory.moves # <<>> /\ OpenMoves(memory.moves) = {Len(memory.moves)}
      /\ pc = "moved" => slot[LastMove.slot] \in Paths /\ origin[LastMove.slot] = LastMove.source
      /\ pc = "failed" => slot[LastMove.slot] \notin Paths
  BY DEF DuplicateInv, DuplicateTypes, TodoInv, RecordInv, SlotInv
<1>3. PICK s : s = memory.moves
  OBVIOUS
<1>4. PICK p : p = s[Len(s)]
  OBVIOUS
<1>5. PICK e : e = [p EXCEPT !.status = pc]
  OBVIOUS
<1>6. PICK t : t = [s EXCEPT ![Len(s)] = e]
  OBVIOUS
<1>7. /\ p \in Duplicate!Move /\ p.status = "planned" /\ e \in Duplicate!Move /\ t \in Seq(Duplicate!Move)
      /\ e.slot = p.slot /\ e.source = p.source /\ e.status = pc
      /\ OpenMoves(t) = {}
      /\ Cardinality(DoneMoves(s)) \in Nat
      /\ Cardinality(DoneMoves(t)) = IF pc = "moved" THEN Cardinality(DoneMoves(s)) + 1 ELSE Cardinality(DoneMoves(s))
      /\ RangeOf(t) \subseteq RangeOf(s) \cup {e} /\ RangeOf(s) \subseteq RangeOf(t) \cup {p} /\ e \in RangeOf(t)
  <2>1. /\ s \in Seq(Duplicate!Move) /\ OpenMoves(s) = {Len(s)} /\ s # <<>> /\ pc \in {"moved", "failed"}
    BY <1>1, <1>2, <1>3
  <2> QED
    <3>1. e = [s[Len(s)] EXCEPT !.status = pc] /\ t = [s EXCEPT ![Len(s)] = [s[Len(s)] EXCEPT !.status = pc]]
      BY <1>4, <1>5, <1>6, Zenon
    <3> QED
      BY <1>4, <2>1, <3>1, SettledMove
<1>8. memory' = [memory EXCEPT !.moves = t, !.count = IF pc = "moved" THEN memory.count + 1 ELSE memory.count]
  BY <1>1, <1>3, <1>4, <1>5, <1>6 DEF Duplicate!Settled
<1>9. /\ memory' \in Records /\ memory'.moves = t /\ memory'.status = "in_progress"
      /\ memory'.count = IF pc = "moved" THEN memory.count + 1 ELSE memory.count
  <2>1. memory.count \in Nat /\ memory.status = "in_progress" /\ DOMAIN memory = {"status", "moves", "count"}
    BY <1>1, <1>2 DEF Records
  <2>2. PICK c : c = IF pc = "moved" THEN memory.count + 1 ELSE memory.count
    OBVIOUS
  <2>3. c \in Nat
    BY <2>1, <2>2
  <2>4. memory' = [memory EXCEPT !.moves = t, !.count = c]
    BY <1>8, <2>2
  <2> QED
    BY <1>1, <1>7, <2>1, <2>2, <2>3, <2>4 DEF Records
<1>10. RecordIsTrue(memory')
  <2>1. memory.count = Cardinality(DoneMoves(s))
    BY <1>1, <1>3 DEF RecordIsTrue
  <2>2. memory'.count = Cardinality(DoneMoves(t))
    BY <1>7, <1>9, <2>1
  <2> QED
    BY <1>7, <1>9, <2>2 DEF RecordIsTrue
<1>11. /\ manifests' \in Seq(Records) /\ manifests' # <<>> /\ manifests'[Len(manifests')] = memory'
       /\ \A i \in DOMAIN manifests' : RecordIsTrue(manifests'[i])
       /\ MovesOf(manifests') \subseteq MovesOf(manifests) \cup RangeOf(memory'.moves)
       /\ \A x \in MovesOf(manifests) : x \in MovesOf(manifests') \/ x \in RangeOf(manifests[Len(manifests)].moves)
       /\ RangeOf(memory'.moves) \subseteq MovesOf(manifests')
  <2>1. Replaces(manifests, [manifests EXCEPT ![Len(manifests)] = memory'], memory')
    BY <1>1, <1>9, <1>10, ReplacedRecord
  <2>2. Replaces(manifests, manifests', memory')
    BY <2>1
  <2> QED
    BY <2>2 DEF Replaces
<1>12. todo' \in Seq(DuplicateGroups) /\ todo' # <<>>
  BY <1>2, RestIsGroups DEF Duplicate!Rest, Duplicate!Original
<1>13. LastMove = p
  BY <1>3, <1>4 DEF LastMove
<1>14. Restored(manifests', slot', origin')
  <2>1. \A x \in MovesOf(manifests') : x \in MovesOf(manifests) \/ x = e
    BY <1>1, <1>3, <1>7, <1>9, <1>11
  <2>2. \A x \in MovesOf(manifests) : x \in MovesOf(manifests') \/ x = p
    BY <1>1, <1>3, <1>7, <1>9, <1>11
  <2>3. e \in MovesOf(manifests')
    BY <1>7, <1>9, <1>11
  <2>4. ASSUME NEW k \in Duplicate!Slots, slot[k] \in Paths
        PROVE  \E x \in MovesOf(manifests') : x.slot = k /\ x.source = origin[k] /\ x.status # "failed"
    <3>1. PICK x \in MovesOf(manifests) : x.slot = k /\ x.source = origin[k] /\ x.status # "failed"
      BY <1>1, <2>4 DEF Restored
    <3>2. CASE x = p
      <4>1. pc = "moved"
        BY <1>2, <1>13, <2>4, <3>1, <3>2
      <4> QED
        BY <1>7, <2>3, <3>1, <3>2, <4>1
    <3> QED
      BY <2>2, <3>1, <3>2
  <2>5. ASSUME NEW x \in MovesOf(manifests'), x.status = "moved"
        PROVE  slot[x.slot] \in Paths /\ origin[x.slot] = x.source
    <3>1. CASE x = e
      BY <1>2, <1>7, <1>13, <2>5, <3>1
    <3>2. CASE x \in MovesOf(manifests)
      BY <1>1, <2>5, <3>2 DEF Restored
    <3> QED
      BY <2>1, <3>1, <3>2
  <2>6. slot' = slot /\ origin' = origin
    BY <1>1
  <2>7. PICK ms : ms = manifests'
    OBVIOUS
  <2>8. Restored(ms, slot, origin)
    BY <2>4, <2>5, <2>7 DEF Restored
  <2> QED
    BY <2>6, <2>7, <2>8, Zenon
<1>15. DuplicateTypes'
  BY <1>9, <1>11, <1>12 DEF DuplicateInv, DuplicateTypes
<1>16. TodoInv'
  BY <1>12 DEF TodoInv
<1>17. RecordInv'
  BY <1>1, <1>7, <1>9, <1>11 DEF RecordInv
<1>18. SlotInv'
  BY <1>14 DEF SlotInv
<1>19. CopyInv'
  BY DEF CopyInv
<1> QED
  BY <1>15, <1>16, <1>17, <1>18, <1>19 DEF DuplicateInv

LEMMA RecordHolds ==
    ASSUME DuplicateInv, Duplicate!Record
    PROVE  DuplicateInv'
<1>1. CASE UNCHANGED manifests /\ Duplicate!End("failed")
  BY <1>1, EndKeeps DEF Duplicate!Record, Duplicate!Save, Duplicate!files
<1>2. CASE /\ manifests' = [manifests EXCEPT ![Len(manifests)] = Duplicate!Settled(pc)]
           /\ memory' = Duplicate!Settled(pc) /\ todo' = Duplicate!Rest /\ Duplicate!Continue("source")
  <2>1. pc \in {"moved", "failed"} /\ UNCHANGED <<at, slot, content, origin, edits, groups, shown>> /\ pc' = "source"
    BY <1>2 DEF Duplicate!Record, Duplicate!Save, Duplicate!files, Duplicate!Continue
  <2>2. manifests' = [manifests EXCEPT ![Len(manifests)] = memory']
    BY <1>2
  <2> QED
    BY <1>2, <2>1, <2>2, SaveRecordsOutcome
<1> QED
  BY <1>1, <1>2 DEF Duplicate!Record, Duplicate!Save

LEMMA MoveStepHolds ==
    ASSUME DuplicateInv, Duplicate!MoveStep
    PROVE  DuplicateInv'
<1> USE DEF Duplicate!files, Duplicate!record
<1>1. /\ pc = "move" /\ shown' = shown /\ edits' = edits /\ todo' = todo /\ groups' = groups /\ manifests' = manifests
      /\ memory' = memory /\ touched' = touched
  BY DEF Duplicate!MoveStep
<1>2. /\ manifests \in Seq(Records) /\ manifests # <<>> /\ memory \in Records /\ memory = manifests[Len(manifests)]
      /\ memory.moves \in Seq(Duplicate!Move)
      /\ RangeOf(memory.moves) \subseteq MovesOf(manifests)
      /\ Restored(manifests, slot, origin) /\ shown # "result"
  BY <1>1, RunningRecord
<1>3. /\ todo \in Seq(DuplicateGroups) /\ todo # <<>> /\ Len(todo[1]) >= 2
      /\ memory.moves # <<>> /\ OpenMoves(memory.moves) = {Len(memory.moves)}
      /\ LastMove.source = Duplicate!Source /\ slot[LastMove.slot] = Gone
  BY <1>1 DEF DuplicateInv, DuplicateTypes, TodoInv, RecordInv, SlotInv
<1>4. PICK p : p = LastMove
  OBVIOUS
<1>5. p \in Duplicate!Move /\ p.status = "planned" /\ p \in MovesOf(manifests)
  <2>1. Len(memory.moves) \in DOMAIN memory.moves /\ p = memory.moves[Len(memory.moves)]
    BY <1>2, <1>3, <1>4 DEF LastMove
  <2>2. p \in Duplicate!Move /\ p \in RangeOf(memory.moves)
    BY <1>2, <2>1 DEF RangeOf
  <2>3. p.status = "planned"
    BY <1>3, <2>1 DEF OpenMoves
  <2> QED
    BY <1>2, <2>2, <2>3
<1>6. p.slot \in Duplicate!Slots /\ p.source \in Paths
  BY <1>5 DEF Duplicate!Move
<1>7. Duplicate!Planned = p
  BY <1>4, DuplicateLibrary DEF Duplicate!Planned, LastMove
<1>8. /\ at \in [Paths -> Paths \cup {Gone}] /\ slot \in [Duplicate!Slots -> Paths \cup {Gone, Copy}]
      /\ origin \in [Duplicate!Slots -> Paths \cup {0}] /\ Duplicate!Source = p.source
  BY <1>3, <1>4 DEF DuplicateInv, DuplicateTypes
<1>9. LastMove' = p /\ Duplicate!Source' = Duplicate!Source
  BY <1>1, <1>4 DEF LastMove, Duplicate!Source
<1>10. CASE pc' = "cancelling" /\ UNCHANGED Duplicate!files
  <2>1. TodoInv' /\ CopyInv'
    BY <1>10 DEF TodoInv, CopyInv
  <2> QED
    BY <1>1, <1>3, <1>10, <2>1, GoesOn
<1>11. ASSUME pc' \in {"moved", "failed"}, at' \in [Paths -> Paths \cup {Gone}], slot' \in [Duplicate!Slots -> Paths \cup {Gone, Copy}],
              origin' \in [Duplicate!Slots -> Paths \cup {0}], content' = content,
              \A k \in Duplicate!Slots : k # p.slot => slot'[k] = slot[k] /\ origin'[k] = origin[k],
              pc' = "moved" => slot'[p.slot] \in Paths /\ origin'[p.slot] = p.source,
              pc' = "failed" => slot'[p.slot] \notin Paths
       PROVE  DuplicateInv'
  <2>1. DuplicateTypes'
    BY <1>1, <1>11 DEF DuplicateInv, DuplicateTypes
  <2>2. TodoInv'
    BY <1>1, <1>3 DEF TodoInv
  <2>3. RecordInv'
    BY <1>1, <1>3, <1>4, <1>9, <1>11 DEF DuplicateInv, RecordInv
  <2>4. Restored(manifests', slot', origin')
    <3>1. ASSUME NEW k \in Duplicate!Slots, slot'[k] \in Paths
          PROVE  \E x \in MovesOf(manifests) : x.slot = k /\ x.source = origin'[k] /\ x.status # "failed"
      <4>1. CASE k = p.slot
        BY <1>5, <1>11, <3>1, <4>1
      <4>2. CASE k # p.slot
        BY <1>2, <1>11, <3>1, <4>2 DEF Restored
      <4> QED
        BY <4>1, <4>2
    <3>2. ASSUME NEW x \in MovesOf(manifests), x.status = "moved"
          PROVE  slot'[x.slot] \in Paths /\ origin'[x.slot] = x.source
      <4>1. slot[x.slot] \in Paths /\ origin[x.slot] = x.source
        BY <1>2, <3>2 DEF Restored
      <4>2. x.slot # p.slot
        BY <1>3, <1>4, <4>1, DuplicateConstantTypes
      <4>3. x.slot \in Duplicate!Slots
        BY DEF MovesOf, Duplicate!Move
      <4> QED
        BY <1>11, <4>1, <4>2, <4>3
    <3> QED
      BY <1>1, <3>1, <3>2 DEF Restored
  <2>5. SlotInv'
    BY <1>9, <1>11, <2>4 DEF SlotInv
  <2>6. CopyInv'
    BY <1>11 DEF CopyInv
  <2> QED
    BY <2>1, <2>2, <2>3, <2>5, <2>6 DEF DuplicateInv
<1>12. CASE /\ at[Duplicate!Source] # Gone
            /\ at' = [at EXCEPT ![Duplicate!Source] = Gone]
            /\ slot' = [slot EXCEPT ![Duplicate!Planned.slot] = at[Duplicate!Source]]
            /\ origin' = [origin EXCEPT ![Duplicate!Planned.slot] = Duplicate!Source]
            /\ pc' = "moved" /\ UNCHANGED content
  <2>1. at[p.source] \in Paths
    BY <1>6, <1>8, <1>12
  <2>2. /\ at' = [at EXCEPT ![p.source] = Gone] /\ slot' = [slot EXCEPT ![p.slot] = at[p.source]]
        /\ origin' = [origin EXCEPT ![p.slot] = p.source]
    BY <1>7, <1>8, <1>12
  <2>3. at' \in [Paths -> Paths \cup {Gone}]
    BY <1>6, <1>8, <2>2
  <2>4. slot' \in [Duplicate!Slots -> Paths \cup {Gone, Copy}] /\ slot'[p.slot] \in Paths
        /\ \A k \in Duplicate!Slots : k # p.slot => slot'[k] = slot[k]
    BY <1>6, <1>8, <2>1, <2>2
  <2>5. origin' \in [Duplicate!Slots -> Paths \cup {0}] /\ origin'[p.slot] = p.source
        /\ \A k \in Duplicate!Slots : k # p.slot => origin'[k] = origin[k]
    BY <1>6, <1>8, <2>2
  <2> QED
    BY <1>11, <1>12, <2>3, <2>4, <2>5
<1>13. CASE \E left \in {Gone, Copy} : /\ slot' = [slot EXCEPT ![Duplicate!Planned.slot] = left]
                                       /\ pc' = "failed" /\ UNCHANGED <<at, content, origin>>
  <2>1. PICK left \in {Gone, Copy} : slot' = [slot EXCEPT ![p.slot] = left]
    BY <1>7, <1>13
  <2>2. slot' \in [Duplicate!Slots -> Paths \cup {Gone, Copy}] /\ slot'[p.slot] \notin Paths
        /\ \A k \in Duplicate!Slots : k # p.slot => slot'[k] = slot[k]
    BY <1>6, <1>8, <2>1, DuplicateConstantTypes
  <2> QED
    BY <1>8, <1>11, <1>13, <2>2
<1> QED
  BY <1>10, <1>12, <1>13, Zenon DEF Duplicate!MoveStep

\* A manifest whose moves stay as they are changes nothing of what can be restored.
LEMMA SameMoves ==
    ASSUME DuplicateInv, pc \notin {"idle", "begin"}, NEW m \in Records, RecordIsTrue(m), m.moves = memory.moves,
           manifests' = [manifests EXCEPT ![Len(manifests)] = m], UNCHANGED <<slot, origin>>
    PROVE  /\ manifests' \in Seq(Records) /\ manifests' # <<>> /\ manifests'[Len(manifests')] = m
           /\ \A i \in DOMAIN manifests' : RecordIsTrue(manifests'[i])
           /\ Restored(manifests', slot, origin)
<1>1. /\ manifests \in Seq(Records) /\ manifests # <<>> /\ memory \in Records /\ memory = manifests[Len(manifests)]
      /\ \A i \in DOMAIN manifests : RecordIsTrue(manifests[i])
      /\ RangeOf(memory.moves) \subseteq MovesOf(manifests)
      /\ Restored(manifests, slot, origin)
  BY RunningRecord
<1>2. Replaces(manifests, [manifests EXCEPT ![Len(manifests)] = m], m)
  BY <1>1, ReplacedRecord
<1>3. Replaces(manifests, manifests', m)
  BY <1>2
<1>4. MovesOf(manifests') = MovesOf(manifests)
  BY <1>1, <1>3 DEF Replaces
<1> QED
  BY <1>1, <1>3, <1>4 DEF Replaces, Restored

LEMMA CancellingHolds ==
    ASSUME DuplicateInv, Duplicate!Cancelling
    PROVE  DuplicateInv'
<1> USE DEF Duplicate!Cancelling, Duplicate!files
<1>1. CASE UNCHANGED manifests /\ Duplicate!End("failed")
  BY <1>1, EndKeeps
<1>2. CASE manifests' = [manifests EXCEPT ![Len(manifests)] = [memory EXCEPT !.status = "cancelled"]] /\ Duplicate!End("cancelled")
  <2>1. PICK m : m = [memory EXCEPT !.status = "cancelled"]
    OBVIOUS
  <2>2. memory \in Records /\ RecordIsTrue(memory) /\ OpenMoves(memory.moves) \subseteq {Len(memory.moves)} /\ pc = "cancelling"
    BY RunningRecord DEF DuplicateInv, RecordInv
  <2>3. m \in Records /\ m.moves = memory.moves /\ m.count = memory.count /\ m.status = "cancelled"
    BY <2>1, <2>2 DEF Records
  <2>4. RecordIsTrue(m)
    BY <2>2, <2>3 DEF RecordIsTrue
  <2>5. manifests' = [manifests EXCEPT ![Len(manifests)] = m]
    BY <1>2, <2>1
  <2>6. /\ manifests' \in Seq(Records) /\ \A i \in DOMAIN manifests' : RecordIsTrue(manifests'[i])
        /\ Restored(manifests', slot, origin)
    BY <2>2, <2>3, <2>4, <2>5, SameMoves
  <2> QED
    BY <1>2, <2>6, EndHolds
<1> QED
  BY <1>1, <1>2

LEMMA CompleteHolds ==
    ASSUME DuplicateInv, Duplicate!Complete
    PROVE  DuplicateInv'
<1> USE DEF Duplicate!Complete, Duplicate!files, Duplicate!Save
<1>1. CASE UNCHANGED manifests /\ Duplicate!End("failed")
  BY <1>1, EndKeeps
<1>2. CASE /\ manifests' = [manifests EXCEPT ![Len(manifests)] = [memory EXCEPT !.status = "complete"]]
           /\ memory' = [memory EXCEPT !.status = "complete"] /\ todo' = todo /\ Duplicate!Continue("returned")
  <2> USE <1>2 DEF Duplicate!Continue
  <2>1. memory \in Records /\ RecordIsTrue(memory) /\ OpenMoves(memory.moves) = {} /\ pc = "completing" /\ shown # "result"
    BY RunningRecord DEF DuplicateInv, RecordInv
  <2>2. PICK m : m = memory'
    OBVIOUS
  <2>3. m \in Records /\ m.moves = memory.moves /\ m.count = memory.count /\ m.status = "complete"
    BY <2>1, <2>2 DEF Records
  <2>4. RecordIsTrue(m)
    BY <2>1, <2>3 DEF RecordIsTrue
  <2>5. manifests' = [manifests EXCEPT ![Len(manifests)] = m]
    BY <2>2
  <2>6. /\ manifests' \in Seq(Records) /\ manifests' # <<>> /\ manifests'[Len(manifests')] = m
        /\ \A i \in DOMAIN manifests' : RecordIsTrue(manifests'[i])
        /\ Restored(manifests', slot, origin)
    BY <2>1, <2>3, <2>4, <2>5, SameMoves
  <2>7. DuplicateTypes'
    BY <2>2, <2>3, <2>6 DEF DuplicateInv, DuplicateTypes
  <2>8. RecordInv'
    BY <2>1, <2>2, <2>3, <2>6 DEF RecordInv
  <2>9. SlotInv'
    BY <2>6 DEF SlotInv
  <2> QED
    BY <2>7, <2>8, <2>9 DEF DuplicateInv, TodoInv, CopyInv
<1> QED
  BY <1>1, <1>2

LEMMA EditHolds ==
    ASSUME DuplicateInv, Duplicate!Edit
    PROVE  DuplicateInv'
<1> USE DEF Duplicate!Edit, Duplicate!files, Duplicate!record
<1>1. DuplicateTypes'
  <2> USE DEF DuplicateInv, DuplicateTypes
  <2>1. at' \in [Paths -> Paths \cup {Gone}]
    OBVIOUS
  <2>2. content' \in [Paths -> Contents]
    OBVIOUS
  <2>3. edits' \in Nat
    OBVIOUS
  <2> QED
    BY <2>1, <2>2, <2>3
<1>2. TodoInv'
  BY DEF DuplicateInv, TodoInv
<1>3. RecordInv'
  BY DEF DuplicateInv, RecordInv, LastMove, Duplicate!Source
<1>4. SlotInv'
  BY DEF DuplicateInv, SlotInv, LastMove
<1>5. CopyInv'
  BY DEF CopyInv
<1> QED
  BY <1>1, <1>2, <1>3, <1>4, <1>5 DEF DuplicateInv

LEMMA DuplicateStep ==
    ASSUME DuplicateInv, [Duplicate!Next]_Duplicate!vars
    PROVE  DuplicateInv'
<1>1. CASE UNCHANGED Duplicate!vars
  <2>1. /\ UNCHANGED <<at, slot, content, groups, todo, pc, manifests, memory, cancel, shown, origin, touched, edits>>
    BY <1>1 DEF Duplicate!vars
  <2>2. DuplicateTypes'
    BY <2>1 DEF DuplicateInv, DuplicateTypes
  <2>3. TodoInv' /\ CopyInv'
    BY <2>1 DEF DuplicateInv, TodoInv, CopyInv, Duplicate!Source, Duplicate!Original
  <2>4. RecordInv' /\ SlotInv'
    BY <2>1 DEF DuplicateInv, RecordInv, SlotInv, LastMove, Duplicate!Source
  <2> QED
    BY <2>2, <2>3, <2>4 DEF DuplicateInv
<1> QED
  BY <1>1, ScanHolds, StartMoveHolds, BeginHolds, GroupStepHolds, SourceStepHolds, VerifyHolds, PlanHolds, MoveStepHolds,
     RecordHolds, CancellingHolds, CompleteHolds, EndingsHold, EditHolds, DuplicateCancelHolds
     DEF Duplicate!Next, Duplicate!Step

-----------------------------------------------------------------------------
(* The archive tools. *)

ArchiveFields == {"step", "op", "given", "left", "written", "total", "cancelled", "button", "answer"}
Working == {"member", "chunk", "verify", "publish"}

\* What the worker was given, in order: the key and the chunks of each, and whether it is a file.
Extracts(t) == t.op \in {"zip", "7z"}
Given(t) == IF Extracts(t) THEN t.given.members ELSE Sources
KeyAt(t, i) == IF Extracts(t) THEN Given(t)[i].key ELSE Len(Given(t)) - i + 1
SizeAt(t, i) == IF Extracts(t) THEN Given(t)[i].declared ELSE Given(t)[i]
IsFileAt(t, i) == Extracts(t) => Given(t)[i].kind = "file"
Done(t) == Len(Given(t)) - Len(t.left)

\* tree holds exactly the first n of them, each with all its chunks, and what else may be there.
Holds(t, tree, n, also) ==
    /\ tree = [key \in DOMAIN tree |-> tree[key]]
    /\ \A i \in 1..n : IsFileAt(t, i) => KeyAt(t, i) \in DOMAIN tree /\ tree[KeyAt(t, i)] = SizeAt(t, i)
    /\ \A key \in DOMAIN tree : key \in also \/ \E i \in 1..n : IsFileAt(t, i) /\ key = KeyAt(t, i)

\* left is what is left of what was given.
LeftInv(t) ==
    /\ IsSequence(Given(t)) /\ IsSequence(t.left)
    /\ Len(t.left) <= Len(Given(t))
    /\ \A i \in 1..Len(t.left) : t.left[i] = Given(t)[Done(t) + i]

Validated(t) ==
    Extracts(t) =>
        /\ \A i, j \in DOMAIN Given(t) : i # j => Given(t)[i].key # Given(t)[j].key
        /\ \A i \in DOMAIN Given(t) : Given(t)[i].safe /\ Given(t)[i].kind \in {"file", "dir"}

Published(t, tree) ==
    /\ Validated(t) /\ Holds(t, tree, Len(Given(t)), {})
    /\ Extracts(t) => Archive!_verify_extracted_tree(tree)

ArchiveInv ==
    /\ DOMAIN task = ArchiveFields /\ DOMAIN world = {"dest", "staging"}
    /\ task.step # "idle" => IsSequence(Given(task))
    /\ task.step \notin Working => world.staging = None
    /\ task.step \notin {"return", "over"} => world.dest \in {None, Other}
    /\ task.step \in Working \cup {"open"} => LeftInv(task)
    /\ task.step \in Working => Validated(task)
    /\ task.step = "open" => Len(task.left) = Len(Given(task))
    /\ task.step \in {"member", "verify", "publish"} => Holds(task, world.staging, Done(task), {})
    /\ task.step = "chunk" => /\ task.left # <<>> /\ IsFileAt(task, Done(task) + 1)
                              /\ Holds(task, world.staging, Done(task), {KeyAt(task, Done(task) + 1)})
    /\ task.step \in {"verify", "publish"} => task.left = <<>>
    /\ task.step = "publish" => (Extracts(task) => Archive!_verify_extracted_tree(world.staging))
    /\ task.step = "return" => Published(task, world.dest)
    /\ task.step = "over" =>
          /\ world.dest \in {None, Other} \/ Published(task, world.dest)
          /\ task.answer = "error" => world.dest \in {None, Other}
          /\ task.answer = "done" => Published(task, world.dest)

LEMMA ArchiveLibrary == \A s : Archive!Elements(s) = Elements(s)
BY DEF Archive!Elements, Elements

LEMMA ArchiveTypes ==
    /\ Other # None /\ Sources \in Seq(Nat)
    /\ \A archive \in Archives : archive.members \in Seq({archive.members[i] : i \in DOMAIN archive.members})
BY ToolWindowsAssumption DEF Archive!ArchiveConstants

LEMMA ArchiveIsRight ==
    ASSUME ArchiveInv
    PROVE  Archive!WholeOrNothing /\ Archive!StaysWithinLimits
<1>1. ASSUME task.step = "over", Published(task, world.dest)
      PROVE  IF Archive!Extracting
             THEN /\ DOMAIN world.dest = {m.key : m \in Archive!Files(task.given.members)}
                  /\ \A m \in Archive!Files(task.given.members) : world.dest[m.key] = m.declared
             ELSE world.dest = [n \in 1..Len(Sources) |-> Sources[Len(Sources) - n + 1]]
  <2>0. Archive!Extracting <=> Extracts(task)
    BY DEF Archive!Extracting, Extracts
  <2>1. PICK S : Given(task) \in Seq(S)
    BY <1>1 DEF ArchiveInv, IsSequence
  <2> DEFINE n == Len(Given(task))
             tree == world.dest
  <2>2. n \in Nat /\ DOMAIN Given(task) = 1..n
    BY <2>1
  <2>3. /\ tree = [key \in DOMAIN tree |-> tree[key]]
        /\ \A i \in 1..n : IsFileAt(task, i) => KeyAt(task, i) \in DOMAIN tree /\ tree[KeyAt(task, i)] = SizeAt(task, i)
        /\ \A key \in DOMAIN tree : \E i \in 1..n : IsFileAt(task, i) /\ key = KeyAt(task, i)
    BY <1>1 DEF Published, Holds
  <2> HIDE DEF tree
  <2>4. CASE Extracts(task)
    <3>1. Given(task) = task.given.members
      BY <2>4 DEF Given
    <3> DEFINE files == Archive!Files(task.given.members)
    <3>2. files = {m \in {Given(task)[i] : i \in 1..n} : m.kind = "file"}
      BY <2>2, <3>1, ArchiveLibrary DEF Archive!Files, Elements
    <3> HIDE DEF files, n
    <3>3. \A i \in 1..n : IsFileAt(task, i) <=> Given(task)[i].kind = "file"
      BY <2>4 DEF IsFileAt
    <3>4. \A i \in 1..n : KeyAt(task, i) = Given(task)[i].key /\ SizeAt(task, i) = Given(task)[i].declared
      BY <2>4 DEF KeyAt, SizeAt
    <3>5. \A m \in files : m.key \in DOMAIN tree /\ tree[m.key] = m.declared
      BY <2>3, <3>2, <3>3, <3>4
    <3>6. \A key \in DOMAIN tree : \E m \in files : key = m.key
      BY <2>3, <3>2, <3>3, <3>4
    <3> QED
      BY <2>0, <2>4, <3>5, <3>6 DEF files, tree
  <2>5. CASE ~Extracts(task)
    <3>1. Given(task) = Sources
      BY <2>5 DEF Given
    <3>2. \A i \in 1..n : IsFileAt(task, i) /\ KeyAt(task, i) = n - i + 1 /\ SizeAt(task, i) = Sources[i]
      BY <2>5, <3>1 DEF IsFileAt, KeyAt, SizeAt
    <3>3. \A key \in DOMAIN tree : key \in 1..n
      BY <2>2, <2>3, <3>2
    <3>4. ASSUME NEW k \in 1..n
          PROVE  k \in DOMAIN tree /\ tree[k] = Sources[n - k + 1]
      <4>1. n - k + 1 \in 1..n /\ n - (n - k + 1) + 1 = k
        BY <2>2
      <4> QED
        BY <2>3, <3>2, <4>1
    <3>5. DOMAIN tree = 1..n
      BY <3>3, <3>4
    <3>6. tree = [k \in 1..n |-> Sources[n - k + 1]]
      BY <2>3, <3>4, <3>5
    <3> QED
      BY <2>0, <2>5, <3>1, <3>6 DEF tree
  <2> QED
    BY <2>4, <2>5
<1>2. Archive!WholeOrNothing
  BY <1>1 DEF ArchiveInv, Archive!WholeOrNothing, Working
<1>3. Archive!StaysWithinLimits
  <2> SUFFICES ASSUME task.step = "over", Archive!Extracting, world.dest \notin {None, Other}
               PROVE  /\ Archive!_verify_extracted_tree(world.dest)
                      /\ \A m \in Elements(task.given.members) : m.safe /\ m.kind \in {"file", "dir"}
    BY ArchiveLibrary DEF Archive!StaysWithinLimits
  <2>1. Published(task, world.dest) /\ Given(task) = task.given.members /\ Extracts(task)
    BY DEF ArchiveInv, Given, Extracts, Archive!Extracting
  <2> QED
    BY <2>1 DEF Published, Validated, Elements
<1> QED
  BY <1>2, <1>3

\* Nothing that another program put at the destination is replaced.
LEMMA ArchiveKeeps ==
    ASSUME ArchiveInv, Archive!Next
    PROVE  Archive!ReplacedStep
<1> SUFFICES ASSUME Archive!Extracting, task.step # "over", world.dest = Other
             PROVE  world'.dest = Other
  BY DEF Archive!ReplacedStep
<1>1. DOMAIN world = {"dest", "staging"} /\ Other # None
  BY ArchiveTypes DEF ArchiveInv
<1>2. ASSUME NEW answer, Archive!Failed(answer)
      PROVE  world'.dest = Other
  BY <1>1, <1>2 DEF Archive!Failed
<1>3. CASE UNCHANGED world
  BY <1>3
<1>4. CASE Archive!Open
  BY <1>1, <1>2, <1>4 DEF Archive!Open, Archive!check_cancelled
<1>5. CASE Archive!NextMember
  BY <1>1, <1>2, <1>5 DEF Archive!NextMember, Archive!check_cancelled
<1>6. CASE Archive!WriteChunk
  BY <1>1, <1>2, <1>6 DEF Archive!WriteChunk, Archive!check_cancelled
<1>7. CASE Archive!Verify
  BY <1>1, <1>2, <1>7 DEF Archive!Verify, Archive!check_cancelled
<1>8. CASE Archive!Publish
  BY <1>1, <1>2, <1>8 DEF Archive!Publish, Archive!_publish_staging
<1> QED
  BY <1>1, <1>3, <1>4, <1>5, <1>6, <1>7, <1>8, Zenon
     DEF Archive!Next, Archive!_start_task, Archive!cancel_operation, Archive!Return, Archive!_on_finished, Archive!Appear

LEMMA SameGiven ==
    ASSUME NEW t, NEW u, u.op = t.op, u.given = t.given
    PROVE  /\ Given(u) = Given(t) /\ (Extracts(u) <=> Extracts(t))
           /\ \A i : KeyAt(u, i) = KeyAt(t, i) /\ SizeAt(u, i) = SizeAt(t, i) /\ (IsFileAt(u, i) <=> IsFileAt(t, i))
           /\ \A tree, n, also : Holds(u, tree, n, also) <=> Holds(t, tree, n, also)
           /\ Validated(u) <=> Validated(t)
           /\ \A tree : Published(u, tree) <=> Published(t, tree)
           /\ u.left = t.left => Done(u) = Done(t) /\ (LeftInv(u) <=> LeftInv(t))
<1>1. (Extracts(u) <=> Extracts(t)) /\ Given(u) = Given(t)
  BY DEF Extracts, Given
<1>2. \A i : KeyAt(u, i) = KeyAt(t, i) /\ SizeAt(u, i) = SizeAt(t, i)
  BY <1>1 DEF KeyAt, SizeAt
<1>3. \A i : IsFileAt(u, i) <=> IsFileAt(t, i)
  BY <1>1 DEF IsFileAt
<1>4. \A tree, n, also : Holds(u, tree, n, also) <=> Holds(t, tree, n, also)
  BY <1>2, <1>3 DEF Holds
<1>5. Validated(u) <=> Validated(t)
  BY <1>1 DEF Validated
<1>6. \A tree : Published(u, tree) <=> Published(t, tree)
  BY <1>1, <1>4, <1>5 DEF Published
<1>7. u.left = t.left => Done(u) = Done(t) /\ (LeftInv(u) <=> LeftInv(t))
  BY <1>1 DEF Done, LeftInv
<1> QED
  BY <1>1, <1>2, <1>3, <1>4, <1>5, <1>6, <1>7

LEMMA LeftShape ==
    ASSUME NEW t, LeftInv(t)
    PROVE  /\ Len(t.left) \in Nat /\ Len(Given(t)) \in Nat /\ DOMAIN Given(t) = 1..Len(Given(t))
           /\ Done(t) \in Nat /\ Len(Given(t)) = Done(t) + Len(t.left)
           /\ t.left = <<>> => Done(t) = Len(Given(t))
           /\ t.left # <<>> => Done(t) + 1 \in 1..Len(Given(t)) /\ Head(t.left) = Given(t)[Done(t) + 1]
<1>1. Len(t.left) \in Nat /\ Len(Given(t)) \in Nat /\ DOMAIN Given(t) = 1..Len(Given(t))
  BY SequenceShape DEF LeftInv
<1>2. Done(t) \in Nat /\ Len(Given(t)) = Done(t) + Len(t.left)
  BY <1>1 DEF LeftInv, Done
<1>3. PICK S : t.left \in Seq(S)
  BY DEF LeftInv, IsSequence
<1>4. t.left = <<>> => Len(t.left) = 0
  OBVIOUS
<1>5. ASSUME t.left # <<>>
      PROVE  Done(t) + 1 \in 1..Len(Given(t)) /\ Head(t.left) = Given(t)[Done(t) + 1]
  <2>1. Len(t.left) >= 1 /\ Head(t.left) = t.left[1]
    BY <1>3, <1>5
  <2>2. 1 \in 1..Len(t.left) /\ Done(t) + 1 \in 1..Len(Given(t))
    BY <1>1, <1>2, <2>1
  <2> QED
    BY <2>1, <2>2 DEF LeftInv
<1> QED
  BY <1>1, <1>2, <1>4, <1>5

LEMMA TakenShape ==
    ASSUME NEW t, LeftInv(t), t.left # <<>>, NEW u, u.op = t.op, u.given = t.given, u.left = Tail(t.left)
    PROVE  LeftInv(u) /\ Done(u) = Done(t) + 1
<1>1. Given(u) = Given(t)
  BY SameGiven
<1>2. PICK S : t.left \in Seq(S)
  BY DEF LeftInv, IsSequence
<1> DEFINE n == Len(Given(t))
           k == Len(t.left)
<1>3. /\ n \in Nat /\ k \in Nat /\ k >= 1 /\ k <= n /\ Done(t) = n - k
      /\ u.left \in Seq(S) /\ Len(u.left) = k - 1 /\ \A i \in 1..k - 1 : u.left[i] = t.left[i + 1]
  BY <1>2, LeftShape DEF LeftInv, Done
<1>4. Done(u) = n - (k - 1)
  BY <1>1, <1>3 DEF Done
<1> HIDE DEF n, k
<1>5. Done(u) = Done(t) + 1
  BY <1>3, <1>4
<1>6. ASSUME NEW i \in 1..k - 1
      PROVE  u.left[i] = Given(u)[Done(u) + i]
  <2>1. i + 1 \in 1..k /\ Done(t) + (i + 1) = Done(u) + i
    BY <1>3, <1>4
  <2>2. t.left[i + 1] = Given(t)[Done(t) + (i + 1)]
    BY <2>1 DEF LeftInv, k
  <2> QED
    BY <1>1, <1>3, <2>1, <2>2
<1>7. k - 1 <= n
  BY <1>3
<1>8. IsSequence(Given(u)) /\ IsSequence(u.left)
  BY <1>1, <1>3 DEF LeftInv, IsSequence
<1> QED
  BY <1>1, <1>3, <1>5, <1>6, <1>7, <1>8 DEF LeftInv, n

\* Every member has a key of its own.
LEMMA KeysDiffer ==
    ASSUME NEW t, LeftInv(t), Validated(t), NEW i \in 1..Len(Given(t)), NEW j \in 1..Len(Given(t)), i # j
    PROVE  KeyAt(t, i) # KeyAt(t, j)
<1>1. Len(Given(t)) \in Nat /\ DOMAIN Given(t) = 1..Len(Given(t))
  BY LeftShape
<1>2. CASE Extracts(t)
  BY <1>1, <1>2 DEF KeyAt, Validated
<1>3. CASE ~Extracts(t)
  <2>1. Len(Given(t)) - i + 1 # Len(Given(t)) - j + 1
    BY <1>1
  <2> QED
    BY <1>3, <2>1 DEF KeyAt
<1> QED
  BY <1>2, <1>3

\* Writing the member that comes next disturbs none that is done.
LEMMA WriteHolds ==
    ASSUME NEW t, LeftInv(t), Validated(t), t.left # <<>>, NEW tree, NEW also,
           IsFileAt(t, Done(t) + 1), Holds(t, tree, Done(t), also), also \subseteq {KeyAt(t, Done(t) + 1)}, NEW count
    PROVE  LET k == KeyAt(t, Done(t) + 1)
               new == [key \in DOMAIN tree \cup {k} |-> IF key = k THEN count ELSE tree[key]]
           IN  /\ Holds(t, new, Done(t), {k})
               /\ count = SizeAt(t, Done(t) + 1) => Holds(t, new, Done(t) + 1, {})
<1> DEFINE n == Done(t)
           k == KeyAt(t, n + 1)
           new == [key \in DOMAIN tree \cup {k} |-> IF key = k THEN count ELSE tree[key]]
<1>1. n \in Nat /\ n + 1 \in 1..Len(Given(t)) /\ Len(Given(t)) \in Nat
  BY LeftShape
<1> HIDE DEF n
<1>2. \A i \in 1..n : i \in 1..Len(Given(t)) /\ i # n + 1
  BY <1>1
<1>3. \A i \in 1..n : KeyAt(t, i) # k
  BY <1>1, <1>2, KeysDiffer DEF k
<1>4. /\ \A i \in 1..n : IsFileAt(t, i) => KeyAt(t, i) \in DOMAIN tree /\ tree[KeyAt(t, i)] = SizeAt(t, i)
      /\ \A key \in DOMAIN tree : key \in also \/ \E i \in 1..n : IsFileAt(t, i) /\ key = KeyAt(t, i)
      /\ also \subseteq {k} /\ IsFileAt(t, n + 1)
  BY DEF Holds, n
<1> HIDE DEF k
<1>5. /\ DOMAIN new = DOMAIN tree \cup {k} /\ new[k] = count
      /\ \A key \in DOMAIN tree : key # k => new[key] = tree[key]
      /\ new = [key \in DOMAIN new |-> new[key]]
  OBVIOUS
<1> HIDE DEF new
<1>6. Holds(t, new, n, {k})
  BY <1>3, <1>4, <1>5 DEF Holds
<1>7. ASSUME count = SizeAt(t, n + 1)
      PROVE  Holds(t, new, n + 1, {})
  <2>1. \A i \in 1..n + 1 : i \in 1..n \/ i = n + 1
    BY <1>1
  <2>2. \A i \in 1..n : i \in 1..n + 1
    BY <1>1
  <2>3. n + 1 \in 1..n + 1
    BY <1>1
  <2>4. \A i \in 1..n + 1 : IsFileAt(t, i) => KeyAt(t, i) \in DOMAIN new /\ new[KeyAt(t, i)] = SizeAt(t, i)
    BY <1>3, <1>4, <1>5, <1>7, <2>1 DEF k
  <2>5. \A key \in DOMAIN new : \E i \in 1..n + 1 : IsFileAt(t, i) /\ key = KeyAt(t, i)
    BY <1>4, <1>5, <2>2, <2>3 DEF k
  <2> QED
    BY <1>5, <2>4, <2>5 DEF Holds
<1> QED
  BY <1>6, <1>7 DEF new, k, n

LEMMA ArchiveInit == Archive!Init => ArchiveInv
<1> SUFFICES ASSUME Archive!Init PROVE ArchiveInv
  OBVIOUS
<1> DEFINE idle == [step |-> "idle", op |-> None, given |-> <<>>, left |-> <<>>, written |-> 0, total |-> 0,
                    cancelled |-> FALSE, button |-> FALSE, answer |-> None]
<1>1. task = idle
  BY DEF Archive!Init, Archive!Idle
<1>2. \A f : f \in DOMAIN idle <=> f \in ArchiveFields
  BY DEF ArchiveFields
<1>3. DOMAIN task = ArchiveFields /\ task.step = "idle"
  BY <1>1, <1>2
<1>4. DOMAIN world = {"dest", "staging"} /\ world.dest \in {None, Other} /\ world.staging = None
  BY DEF Archive!Init
<1> QED
  BY <1>3, <1>4 DEF ArchiveInv, Working

\* What happens to the destination while the worker keeps what it was given.
LEMMA ArchiveFails ==
    ASSUME ArchiveInv, task.step \notin {"idle", "return", "over"}, NEW answer, answer # "done", Archive!Failed(answer)
    PROVE  ArchiveInv'
<1>1. DOMAIN task' = ArchiveFields /\ task'.step = "over" /\ task'.answer = answer /\ task'.op = task.op /\ task'.given = task.given
  BY DEF Archive!Failed, ArchiveInv, ArchiveFields
<1>2. DOMAIN world' = {"dest", "staging"} /\ world'.staging = None /\ world'.dest \in {None, Other}
  BY DEF Archive!Failed, ArchiveInv
<1>3. Given(task') = Given(task)
  BY <1>1, SameGiven
<1>4. IsSequence(Given(task'))
  BY <1>3 DEF ArchiveInv
<1> QED
  BY <1>1, <1>2, <1>4 DEF ArchiveInv, Working

LEMMA ArchiveBegins ==
    ASSUME ArchiveInv, Archive!_start_task
    PROVE  ArchiveInv'
<1>1. PICK what, given, left :
        /\ task' = [Archive!Idle EXCEPT !.step = "open", !.op = what, !.given = given, !.left = left, !.button = TRUE]
        /\ \/ what \in {"zip", "7z"} /\ given \in Archives /\ left = given.members
           \/ what = "create" /\ given = Sources /\ left = Sources
  BY Zenon DEF Archive!_start_task
<1>2. task.step = "idle" /\ world' = world
  BY DEF Archive!_start_task
<1> DEFINE idle == [step |-> "idle", op |-> None, given |-> <<>>, left |-> <<>>, written |-> 0, total |-> 0,
                    cancelled |-> FALSE, button |-> FALSE, answer |-> None]
<1>3. \A f : f \in DOMAIN idle <=> f \in ArchiveFields
  BY DEF ArchiveFields
<1>4. DOMAIN idle = ArchiveFields
  BY <1>3
<1>5. Archive!Idle = idle
  BY DEF Archive!Idle
<1> HIDE DEF idle
<1>6. DOMAIN task' = ArchiveFields /\ task'.step = "open" /\ task'.op = what /\ task'.given = given /\ task'.left = left
  BY <1>1, <1>4, <1>5 DEF ArchiveFields
<1>7. Given(task') = left
  BY <1>1, <1>6 DEF Given, Extracts
<1>8. IsSequence(left)
  BY <1>1, ArchiveTypes DEF IsSequence
<1>9. Done(task') = 0 /\ Len(left) \in Nat
  BY <1>6, <1>7, <1>8, SequenceShape DEF Done
<1>10. LeftInv(task')
  BY <1>6, <1>7, <1>8, <1>9 DEF LeftInv
<1>11. DOMAIN world' = {"dest", "staging"} /\ world'.staging = None /\ world'.dest \in {None, Other}
  BY <1>2 DEF ArchiveInv, Working
<1> QED
  BY <1>6, <1>7, <1>8, <1>10, <1>11 DEF ArchiveInv, Working

\* Neither what the worker was given nor what it has left changes.
LEMMA ArchiveSame ==
    ASSUME ArchiveInv, DOMAIN task' = ArchiveFields,
           UNCHANGED <<task.step, task.op, task.given, task.left, task.answer, world>>
    PROVE  ArchiveInv'
<1>1. /\ Given(task') = Given(task) /\ (Extracts(task') <=> Extracts(task)) /\ Done(task') = Done(task)
      /\ \A i : KeyAt(task', i) = KeyAt(task, i) /\ (IsFileAt(task', i) <=> IsFileAt(task, i))
      /\ \A tree, n, also : Holds(task', tree, n, also) <=> Holds(task, tree, n, also)
      /\ (Validated(task') <=> Validated(task)) /\ (LeftInv(task') <=> LeftInv(task))
      /\ \A tree : Published(task', tree) <=> Published(task, tree)
  BY SameGiven
<1>2. /\ task'.step = task.step /\ task'.left = task.left /\ task'.answer = task.answer /\ world' = world
  OBVIOUS
<1> QED
  BY <1>1, <1>2 DEF ArchiveInv

LEMMA ArchiveOpens ==
    ASSUME ArchiveInv, Archive!Open
    PROVE  ArchiveInv'
<1>1. task.step = "open"
  BY DEF Archive!Open
<1>2. CASE \E answer : answer # "done" /\ Archive!Failed(answer)
  BY <1>1, <1>2, ArchiveFails
<1>3. CASE /\ Archive!Extracting => Archive!validate_archive_members(task.given) /\ world.dest = None
           /\ task' = [task EXCEPT !.step = "member"]
           /\ world' = [world EXCEPT !.staging = [key \in {} |-> 0]]
  <2>1. /\ DOMAIN task' = ArchiveFields /\ task'.step = "member"
        /\ task'.op = task.op /\ task'.given = task.given /\ task'.left = task.left
    BY <1>3 DEF ArchiveInv, ArchiveFields
  <2>2. DOMAIN world' = {"dest", "staging"} /\ world'.staging = [key \in {} |-> 0] /\ world'.dest = world.dest
    BY <1>3 DEF ArchiveInv
  <2>3. /\ Given(task') = Given(task) /\ Done(task') = Done(task)
        /\ (Validated(task') <=> Validated(task)) /\ (LeftInv(task') <=> LeftInv(task))
    BY <2>1, SameGiven
  <2>4. LeftInv(task) /\ Len(task.left) = Len(Given(task)) /\ world.dest \in {None, Other} /\ IsSequence(Given(task))
    BY <1>1 DEF ArchiveInv
  <2>5. Done(task) = 0
    BY <2>4, LeftShape DEF Done
  <2>6. Validated(task)
    <3> SUFFICES ASSUME Extracts(task)
                 PROVE  /\ \A i, j \in DOMAIN Given(task) : i # j => Given(task)[i].key # Given(task)[j].key
                        /\ \A i \in DOMAIN Given(task) : Given(task)[i].safe /\ Given(task)[i].kind \in {"file", "dir"}
      BY DEF Validated
    <3>1. Given(task) = task.given.members /\ Archive!Extracting
      BY DEF Given, Extracts, Archive!Extracting
    <3>2. Archive!validate_archive_members(task.given)
      BY <1>3, <3>1
    <3>3. /\ \A i, j \in DOMAIN task.given.members : i # j => task.given.members[i].key # task.given.members[j].key
          /\ \A m \in Archive!Elements(task.given.members) : m.safe /\ m.kind \in {"file", "dir"}
      BY <3>2 DEF Archive!validate_archive_members
    <3> QED
      BY <3>1, <3>3, ArchiveLibrary DEF Elements
  <2>7. Holds(task', world'.staging, 0, {})
    BY <2>2 DEF Holds
  <2> QED
    BY <2>1, <2>2, <2>3, <2>4, <2>5, <2>6, <2>7 DEF ArchiveInv, Working
<1> QED
  BY <1>2, <1>3, Zenon DEF Archive!Open, Archive!check_cancelled

LEMMA ArchiveNext ==
    ASSUME ArchiveInv, Archive!NextMember
    PROVE  ArchiveInv'
<1>1. task.step = "member"
  BY DEF Archive!NextMember
<1>2. CASE \E answer : answer # "done" /\ Archive!Failed(answer)
  BY <1>1, <1>2, ArchiveFails
<1>3. /\ LeftInv(task) /\ Validated(task) /\ Holds(task, world.staging, Done(task), {})
      /\ DOMAIN task = ArchiveFields /\ DOMAIN world = {"dest", "staging"} /\ world.dest \in {None, Other}
      /\ IsSequence(Given(task)) /\ (Archive!Extracting <=> Extracts(task))
  BY <1>1 DEF ArchiveInv, Working, Archive!Extracting, Extracts
<1>4. CASE task.left = <<>> /\ task' = [task EXCEPT !.step = "verify"] /\ UNCHANGED world
  <2>1. /\ DOMAIN task' = ArchiveFields /\ task'.step = "verify"
        /\ task'.op = task.op /\ task'.given = task.given /\ task'.left = task.left
    BY <1>3, <1>4 DEF ArchiveFields
  <2>2. /\ Given(task') = Given(task) /\ Done(task') = Done(task)
        /\ (Validated(task') <=> Validated(task)) /\ (LeftInv(task') <=> LeftInv(task))
        /\ Holds(task', world.staging, Done(task), {}) <=> Holds(task, world.staging, Done(task), {})
    BY <2>1, SameGiven
  <2> QED
    BY <1>3, <1>4, <2>1, <2>2 DEF ArchiveInv, Working
<1>5. CASE task.left # <<>> /\ Archive!Extracting /\ Archive!Member.kind = "dir" /\ task' = [task EXCEPT !.left = Tail(@)] /\ UNCHANGED world
  <2>1. /\ DOMAIN task' = ArchiveFields /\ task'.step = "member"
        /\ task'.op = task.op /\ task'.given = task.given /\ task'.left = Tail(task.left)
    BY <1>1, <1>3, <1>5 DEF ArchiveFields
  <2>2. /\ Given(task') = Given(task) /\ (Validated(task') <=> Validated(task))
        /\ \A n : Holds(task', world.staging, n, {}) <=> Holds(task, world.staging, n, {})
    BY <2>1, SameGiven
  <2>3. LeftInv(task') /\ Done(task') = Done(task) + 1
    BY <1>3, <1>5, <2>1, TakenShape
  <2>4. ~IsFileAt(task, Done(task) + 1) /\ Done(task) \in Nat
    BY <1>3, <1>5, LeftShape DEF IsFileAt, Archive!Member
  <2>5. \A i \in 1..Done(task) + 1 : i \in 1..Done(task) \/ i = Done(task) + 1
    BY <2>4
  <2>6. \A i \in 1..Done(task) : i \in 1..Done(task) + 1
    BY <2>4
  <2>7. Holds(task, world.staging, Done(task) + 1, {})
    BY <1>3, <2>4, <2>5, <2>6 DEF Holds
  <2> QED
    BY <1>3, <1>5, <2>1, <2>2, <2>3, <2>7 DEF ArchiveInv, Working
<1>6. CASE task.left # <<>> /\ ~(Archive!Extracting /\ Archive!Member.kind = "dir")
           /\ task' = [task EXCEPT !.step = "chunk", !.written = 0] /\ UNCHANGED world
  <2>1. /\ DOMAIN task' = ArchiveFields /\ task'.step = "chunk"
        /\ task'.op = task.op /\ task'.given = task.given /\ task'.left = task.left
    BY <1>3, <1>6 DEF ArchiveFields
  <2>2. /\ Given(task') = Given(task) /\ Done(task') = Done(task)
        /\ (Validated(task') <=> Validated(task)) /\ (LeftInv(task') <=> LeftInv(task))
        /\ \A also : Holds(task', world.staging, Done(task), also) <=> Holds(task, world.staging, Done(task), also)
        /\ \A i : IsFileAt(task', i) <=> IsFileAt(task, i)
    BY <2>1, SameGiven
  <2>3. /\ Done(task) + 1 \in DOMAIN Given(task) /\ Archive!Member = Given(task)[Done(task) + 1]
    BY <1>3, <1>6, LeftShape DEF Archive!Member
  <2>4. IsFileAt(task, Done(task) + 1)
    BY <1>3, <1>6, <2>3 DEF IsFileAt, Validated
  <2>5. Holds(task, world.staging, Done(task), {KeyAt(task', Done(task) + 1)})
    BY <1>3 DEF Holds
  <2> QED
    BY <1>3, <1>6, <2>1, <2>2, <2>4, <2>5 DEF ArchiveInv, Working
<1> QED
  BY <1>2, <1>4, <1>5, <1>6, Zenon DEF Archive!NextMember, Archive!check_cancelled

LEMMA ArchiveWrites ==
    ASSUME ArchiveInv, Archive!WriteChunk
    PROVE  ArchiveInv'
<1>1. task.step = "chunk"
  BY DEF Archive!WriteChunk
<1>2. CASE \E answer : answer # "done" /\ Archive!Failed(answer)
  BY <1>1, <1>2, ArchiveFails
<1> DEFINE k == KeyAt(task, Done(task) + 1)
           New(count) == [key \in DOMAIN world.staging \cup {k} |-> IF key = k THEN count ELSE world.staging[key]]
<1>3. /\ LeftInv(task) /\ Validated(task) /\ Holds(task, world.staging, Done(task), {k})
      /\ task.left # <<>> /\ IsFileAt(task, Done(task) + 1)
      /\ DOMAIN task = ArchiveFields /\ DOMAIN world = {"dest", "staging"} /\ world.dest \in {None, Other}
      /\ IsSequence(Given(task)) /\ (Archive!Extracting <=> Extracts(task))
  BY <1>1 DEF ArchiveInv, Working, Archive!Extracting, Extracts
<1>4. /\ Done(task) + 1 \in DOMAIN Given(task) /\ Archive!Member = Given(task)[Done(task) + 1]
      /\ Len(task.left) \in Nat /\ Len(Given(task)) \in Nat /\ Done(task) = Len(Given(task)) - Len(task.left)
  BY <1>3, LeftShape DEF Archive!Member, Done
<1>5. Archive!Key = k
  <2>1. CASE Extracts(task)
    BY <1>3, <1>4, <2>1 DEF Archive!Key, KeyAt
  <2>2. CASE ~Extracts(task)
    <3>1. Len(task.left) = Len(Given(task)) - (Done(task) + 1) + 1
      BY <1>4
    <3> QED
      BY <1>3, <2>2, <3>1 DEF Archive!Key, KeyAt
  <2> QED
    BY <2>1, <2>2
<1>6. \A count : Archive!Tree(count) = New(count)
  BY <1>5 DEF Archive!Tree
<1>7. \A count : /\ Holds(task, New(count), Done(task), {k})
                 /\ count = SizeAt(task, Done(task) + 1) => Holds(task, New(count), Done(task) + 1, {})
  BY <1>3, WriteHolds
<1> HIDE DEF New
<1>8. CASE \E count : /\ task' = [task EXCEPT !.written = count, !.total = @ + 1]
                      /\ world' = [world EXCEPT !.staging = Archive!Tree(count)]
  <2>1. PICK count : /\ task' = [task EXCEPT !.written = count, !.total = @ + 1]
                     /\ world' = [world EXCEPT !.staging = New(count)]
    BY <1>6, <1>8
  <2>2. /\ DOMAIN task' = ArchiveFields /\ task'.step = "chunk"
        /\ task'.op = task.op /\ task'.given = task.given /\ task'.left = task.left
    BY <1>1, <1>3, <2>1 DEF ArchiveFields
  <2>3. DOMAIN world' = {"dest", "staging"} /\ world'.dest = world.dest /\ world'.staging = New(count)
    BY <1>3, <2>1
  <2>4. /\ Given(task') = Given(task) /\ Done(task') = Done(task)
        /\ (Validated(task') <=> Validated(task)) /\ (LeftInv(task') <=> LeftInv(task))
        /\ \A also : Holds(task', New(count), Done(task), also) <=> Holds(task, New(count), Done(task), also)
        /\ \A i : (IsFileAt(task', i) <=> IsFileAt(task, i)) /\ KeyAt(task', i) = KeyAt(task, i)
    BY <2>2, SameGiven
  <2> QED
    BY <1>3, <1>7, <2>2, <2>3, <2>4 DEF ArchiveInv, Working
<1>9. CASE /\ task.written = Archive!Chunks /\ Archive!Complete(task.written)
           /\ task' = [task EXCEPT !.step = "member", !.left = Tail(@)]
           /\ world' = [world EXCEPT !.staging = Archive!Tree(task.written)]
  <2>1. task.written = SizeAt(task, Done(task) + 1)
    <3>1. CASE Extracts(task)
      BY <1>3, <1>4, <1>9, <3>1 DEF Archive!Complete, SizeAt
    <3>2. CASE ~Extracts(task)
      BY <1>3, <1>4, <1>9, <3>2 DEF Archive!Chunks, SizeAt
    <3> QED
      BY <3>1, <3>2
  <2>2. /\ DOMAIN task' = ArchiveFields /\ task'.step = "member"
        /\ task'.op = task.op /\ task'.given = task.given /\ task'.left = Tail(task.left)
    BY <1>3, <1>9 DEF ArchiveFields
  <2>3. DOMAIN world' = {"dest", "staging"} /\ world'.dest = world.dest /\ world'.staging = New(task.written)
    BY <1>3, <1>6, <1>9
  <2>4. /\ Given(task') = Given(task) /\ (Validated(task') <=> Validated(task))
        /\ \A tree, n : Holds(task', tree, n, {}) <=> Holds(task, tree, n, {})
    BY <2>2, SameGiven
  <2>5. LeftInv(task') /\ Done(task') = Done(task) + 1
    BY <1>3, <2>2, TakenShape
  <2>6. Holds(task', world'.staging, Done(task'), {})
    BY <1>7, <2>1, <2>3, <2>4, <2>5
  <2> QED
    BY <1>3, <2>2, <2>3, <2>4, <2>5, <2>6 DEF ArchiveInv, Working
<1> QED
  BY <1>2, <1>8, <1>9, Zenon DEF Archive!WriteChunk, Archive!check_cancelled

LEMMA ArchivePublishes ==
    ASSUME ArchiveInv, Archive!Verify \/ Archive!Publish
    PROVE  ArchiveInv'
<1>1. task.step \in {"verify", "publish"}
  BY DEF Archive!Verify, Archive!Publish
<1>2. CASE \E answer : answer # "done" /\ Archive!Failed(answer)
  BY <1>1, <1>2, ArchiveFails
<1>3. /\ LeftInv(task) /\ Validated(task) /\ Holds(task, world.staging, Done(task), {}) /\ task.left = <<>>
      /\ DOMAIN task = ArchiveFields /\ DOMAIN world = {"dest", "staging"} /\ world.dest \in {None, Other}
      /\ IsSequence(Given(task)) /\ (Archive!Extracting <=> Extracts(task))
  BY <1>1 DEF ArchiveInv, Working, Archive!Extracting, Extracts
<1>4. CASE /\ Archive!Extracting => Archive!_verify_extracted_tree(world.staging)
           /\ task' = [task EXCEPT !.step = "publish"] /\ UNCHANGED world
  <2>1. /\ DOMAIN task' = ArchiveFields /\ task'.step = "publish"
        /\ task'.op = task.op /\ task'.given = task.given /\ task'.left = task.left
    BY <1>3, <1>4 DEF ArchiveFields
  <2>2. /\ Given(task') = Given(task) /\ Done(task') = Done(task) /\ (Extracts(task') <=> Extracts(task))
        /\ (Validated(task') <=> Validated(task)) /\ (LeftInv(task') <=> LeftInv(task))
        /\ Holds(task', world.staging, Done(task), {}) <=> Holds(task, world.staging, Done(task), {})
    BY <2>1, SameGiven
  <2> QED
    BY <1>3, <1>4, <2>1, <2>2 DEF ArchiveInv, Working
<1>5. CASE /\ task.step = "publish"
           /\ task' = [task EXCEPT !.step = "return"]
           /\ world' = [dest |-> world.staging, staging |-> None]
  <2>1. /\ DOMAIN task' = ArchiveFields /\ task'.step = "return"
        /\ task'.op = task.op /\ task'.given = task.given /\ task'.left = task.left
    BY <1>3, <1>5 DEF ArchiveFields
  <2>2. DOMAIN world' = {"dest", "staging"} /\ world'.dest = world.staging /\ world'.staging = None
    BY <1>5
  <2>3. Given(task') = Given(task) /\ \A tree : Published(task', tree) <=> Published(task, tree)
    BY <2>1, SameGiven
  <2>4. Done(task) = Len(Given(task))
    BY <1>3, LeftShape
  <2>5. Extracts(task) => Archive!_verify_extracted_tree(world.staging)
    BY <1>5 DEF ArchiveInv
  <2>6. Published(task, world.staging)
    BY <1>3, <2>4, <2>5 DEF Published
  <2> QED
    BY <1>3, <2>1, <2>2, <2>3, <2>6 DEF ArchiveInv, Working
<1>6. CASE Archive!Verify
  BY <1>2, <1>4, <1>6, Zenon DEF Archive!Verify, Archive!check_cancelled
<1>7. CASE Archive!Publish
  <2>1. (\E answer : answer # "done" /\ Archive!Failed(answer)) \/ Archive!_publish_staging
    BY <1>7, Zenon DEF Archive!Publish
  <2>2. task.step = "publish"
    BY <1>7 DEF Archive!Publish
  <2> QED
    BY <1>2, <1>5, <2>1, <2>2, Zenon DEF Archive!_publish_staging
<1> QED
  BY <1>6, <1>7

LEMMA ArchiveReturns ==
    ASSUME ArchiveInv, Archive!Return
    PROVE  ArchiveInv'
<1>1. /\ task.step = "return" /\ world' = world
      /\ task' = [task EXCEPT !.step = "over", !.answer = IF task.cancelled THEN "cancelled" ELSE "done"]
  BY DEF Archive!Return
<1>2. /\ DOMAIN task' = ArchiveFields /\ task'.step = "over" /\ task'.answer \in {"cancelled", "done"}
      /\ task'.op = task.op /\ task'.given = task.given
  BY <1>1 DEF ArchiveInv, ArchiveFields
<1>3. Given(task') = Given(task) /\ \A tree : Published(task', tree) <=> Published(task, tree)
  BY <1>2, SameGiven
<1>4. Published(task, world.dest) /\ IsSequence(Given(task)) /\ DOMAIN world = {"dest", "staging"} /\ world.staging = None
  BY <1>1 DEF ArchiveInv, Working
<1> QED
  BY <1>1, <1>2, <1>3, <1>4 DEF ArchiveInv, Working

LEMMA ArchiveStep ==
    ASSUME ArchiveInv, Archive!Next
    PROVE  ArchiveInv'
<1>1. CASE Archive!cancel_operation
  <2>1. /\ DOMAIN task' = ArchiveFields
        /\ UNCHANGED <<task.step, task.op, task.given, task.left, task.answer, world>>
    BY <1>1 DEF Archive!cancel_operation, ArchiveInv, ArchiveFields
  <2> QED
    BY <2>1, ArchiveSame
<1>2. CASE Archive!_on_finished
  <2> DEFINE idle == [step |-> "idle", op |-> None, given |-> <<>>, left |-> <<>>, written |-> 0, total |-> 0,
                      cancelled |-> FALSE, button |-> FALSE, answer |-> None]
  <2>1. task' = idle
    BY <1>2 DEF Archive!_on_finished, Archive!Idle
  <2>2. \A f : f \in DOMAIN idle <=> f \in ArchiveFields
    BY DEF ArchiveFields
  <2>3. DOMAIN task' = ArchiveFields /\ task'.step = "idle"
    BY <2>1, <2>2
  <2>4. DOMAIN world' = {"dest", "staging"} /\ world'.dest \in {None, Other} /\ world'.staging = None
    BY <1>2 DEF Archive!_on_finished
  <2> QED
    BY <2>3, <2>4 DEF ArchiveInv, Working
<1>3. CASE Archive!Appear
  <2>1. /\ task' = task /\ task.step \notin {"idle", "return", "over"}
        /\ DOMAIN world' = {"dest", "staging"} /\ world'.dest = Other /\ world'.staging = world.staging
    BY <1>3 DEF Archive!Appear, ArchiveInv
  <2> QED
    BY <2>1 DEF ArchiveInv
<1> QED
  BY <1>1, <1>2, <1>3, ArchiveBegins, ArchiveOpens, ArchiveNext, ArchiveWrites, ArchivePublishes, ArchiveReturns
     DEF Archive!Next

-----------------------------------------------------------------------------
(* The temporary-file cleaner: the disk. *)

Root == Cleaner!Container

\* That a literal is a string has to be told to the provers.
Text == STRING \cup {"temp", "cache", "C:", "Windows"}

\* What no step of the cleaner and no change by other programs takes from a disk.
Tree(fs) ==
    /\ Cleaner!FileSystem(fs)
    /\ {Root, Swapped} \cup Newcomers \subseteq DOMAIN fs /\ None \notin DOMAIN fs
    /\ fs[Root].kind = "dir" /\ fs[Root].in = None
    /\ \A i \in DOMAIN fs : fs[i].in = Root /\ fs[i].name = "temp" => ~fs[i].kept
    /\ fs[Swapped].kind = "link" /\ ~fs[Swapped].kept
    /\ \A n \in Newcomers :
          /\ fs[n].kind = "file" /\ ~fs[n].kept
          /\ \A i \in DOMAIN fs \ {n} : fs[i].name # fs[n].name

\* The inode i, alone, is removed, or put in directory d.
Puts(fs, fs2, i, d) ==
    /\ DOMAIN fs2 = DOMAIN fs /\ \A j \in DOMAIN fs \ {i} : fs2[j] = fs[j]
    /\ fs2[i].in = d /\ DOMAIN fs2[i] = DOMAIN fs[i]
    /\ fs2[i].name = fs[i].name /\ fs2[i].kind = fs[i].kind /\ fs2[i].to = fs[i].to /\ fs2[i].kept = fs[i].kept

\* A link takes the place of directory d.
Swaps(fs, fs2, d) ==
    /\ DOMAIN fs2 = DOMAIN fs /\ \A j \in DOMAIN fs \ {d, Swapped} : fs2[j] = fs[j]
    /\ DOMAIN fs2[d] = DOMAIN fs[d] /\ DOMAIN fs2[Swapped] = DOMAIN fs[Swapped]
    /\ fs2[d].in = None /\ fs2[d].name = fs[d].name /\ fs2[d].kind = fs[d].kind /\ fs2[d].kept = fs[d].kept
    /\ fs2[Swapped].in = fs[d].in /\ fs2[Swapped].name = fs[d].name
    /\ fs2[Swapped].kind = fs[Swapped].kind /\ fs2[Swapped].kept = fs[Swapped].kept

LEMMA CleanerTypes ==
    /\ Swapped \notin Newcomers
    /\ \A fs \in Disks : Tree(fs) /\ \A n \in Newcomers : fs[n].in = None
BY ToolWindowsAssumption DEF Cleaner!DiskConstants, Tree, Root, Cleaner!Target

LEMMA PutsIs ==
    ASSUME NEW fs, Tree(fs), NEW i \in DOMAIN fs, NEW d
    PROVE  Puts(fs, [fs EXCEPT ![i].in = d], i, d)
<1>1. DOMAIN fs[i] = {"in", "name", "kind", "to", "locked", "kept"}
  BY DEF Tree, Cleaner!FileSystem, Cleaner!Node
<1> QED
  BY <1>1 DEF Puts

LEMMA SwapsIs ==
    ASSUME NEW fs, Tree(fs), NEW d \in DOMAIN fs, d # Swapped
    PROVE  Swaps(fs, [fs EXCEPT ![d].in = None, ![Swapped].in = fs[d].in, ![Swapped].name = fs[d].name], d)
<1>1. DOMAIN fs[d] = {"in", "name", "kind", "to", "locked", "kept"}
      /\ DOMAIN fs[Swapped] = {"in", "name", "kind", "to", "locked", "kept"} /\ Swapped \in DOMAIN fs
  BY DEF Tree, Cleaner!FileSystem, Cleaner!Node
<1> QED
  BY <1>1 DEF Swaps

LEMMA RemovedTree ==
    ASSUME NEW fs, Tree(fs), NEW i \in DOMAIN fs, NEW fs2, Puts(fs, fs2, i, None)
    PROVE  Tree(fs2)
<1> USE DEF Puts
<1>1. Cleaner!FileSystem(fs2)
  <2>1. \A j \in DOMAIN fs2 : DOMAIN fs2[j] = Cleaner!Node /\ fs2[j].name \in STRING
    BY DEF Tree, Cleaner!FileSystem
  <2>2. \A j \in DOMAIN fs2 : fs2[j].in # None => j # i /\ fs2[j] = fs[j]
    OBVIOUS
  <2>3. \A j \in DOMAIN fs2 : fs2[j].kind = fs[j].kind /\ fs2[j].kept = fs[j].kept /\ fs2[j].name = fs[j].name
    OBVIOUS
  <2> QED
    BY <2>1, <2>2, <2>3 DEF Tree, Cleaner!FileSystem
<1>2. \A j \in DOMAIN fs2 : fs2[j].kind = fs[j].kind /\ fs2[j].kept = fs[j].kept /\ fs2[j].name = fs[j].name
                             /\ (fs2[j].in = fs[j].in \/ fs2[j].in = None)
  OBVIOUS
<1>3. Root # None
  BY DEF Tree
<1> QED
  BY <1>1, <1>2, <1>3 DEF Tree

LEMMA ArrivedTree ==
    ASSUME NEW fs, Tree(fs), NEW n \in Newcomers, NEW d \in DOMAIN fs, fs[d].kind = "dir", d # Root, NEW fs2, Puts(fs, fs2, n, d)
    PROVE  Tree(fs2)
<1> USE DEF Puts
<1>0. n \in DOMAIN fs /\ Root # n
  BY DEF Tree
<1>1. \A j \in DOMAIN fs2 : /\ DOMAIN fs2[j] = DOMAIN fs[j] /\ fs2[j].kind = fs[j].kind /\ fs2[j].kept = fs[j].kept
                            /\ fs2[j].name = fs[j].name
                            /\ fs2[j].in = IF j = n THEN d ELSE fs[j].in
  BY <1>0
<1> HIDE DEF Puts
<1>2. DOMAIN fs2 = DOMAIN fs
  BY DEF Puts
<1>3. Cleaner!FileSystem(fs2)
  <2>1. \A j \in DOMAIN fs2 : DOMAIN fs2[j] = Cleaner!Node /\ fs2[j].name \in STRING
    BY <1>1, <1>2 DEF Tree, Cleaner!FileSystem
  <2>2. \A j \in DOMAIN fs2 : fs2[j].in # None =>
          fs2[j].in \in DOMAIN fs2 /\ fs2[fs2[j].in].kind = "dir" /\ (fs2[j].kept => fs2[fs2[j].in].kept)
    BY <1>0, <1>1, <1>2 DEF Tree, Cleaner!FileSystem
  <2>3. \A i, j \in DOMAIN fs2 : i # j /\ fs2[i].in # None /\ fs2[i].in = fs2[j].in => fs2[i].name # fs2[j].name
    <3>1. \A j \in DOMAIN fs : j # n => fs[j].name # fs[n].name
      BY DEF Tree
    <3> QED
      BY <1>0, <1>1, <1>2, <3>1 DEF Tree, Cleaner!FileSystem
  <2> QED
    BY <2>1, <2>2, <2>3 DEF Cleaner!FileSystem
<1> QED
  BY <1>0, <1>1, <1>2, <1>3 DEF Tree

LEMMA SwappedTree ==
    ASSUME NEW fs, Tree(fs), NEW d \in DOMAIN fs, fs[d].kind = "dir", fs[d].in # None, NEW fs2, Swaps(fs, fs2, d)
    PROVE  Tree(fs2)
<1>0. d # Swapped /\ Swapped \in DOMAIN fs /\ d # Root /\ Swapped # Root /\ Swapped \notin Newcomers /\ d \notin Newcomers
  BY CleanerTypes DEF Tree
<1>1. \A j \in DOMAIN fs2 : /\ DOMAIN fs2[j] = DOMAIN fs[j] /\ fs2[j].kind = fs[j].kind /\ fs2[j].kept = fs[j].kept
                            /\ fs2[j].name = IF j = Swapped THEN fs[d].name ELSE fs[j].name
                            /\ fs2[j].in = IF j = Swapped THEN fs[d].in ELSE IF j = d THEN None ELSE fs[j].in
  BY <1>0 DEF Swaps
<1>2. DOMAIN fs2 = DOMAIN fs
  BY DEF Swaps
<1>3. Cleaner!FileSystem(fs2)
  <2>1. \A j \in DOMAIN fs2 : DOMAIN fs2[j] = Cleaner!Node /\ fs2[j].name \in STRING
    BY <1>1, <1>2 DEF Tree, Cleaner!FileSystem
  <2>2. \A j \in DOMAIN fs2 : fs2[j].in # None =>
          fs2[j].in \in DOMAIN fs2 /\ fs2[fs2[j].in].kind = "dir" /\ (fs2[j].kept => fs2[fs2[j].in].kept)
    BY <1>0, <1>1, <1>2 DEF Tree, Cleaner!FileSystem
  <2>3. \A i, j \in DOMAIN fs2 : i # j /\ fs2[i].in # None /\ fs2[i].in = fs2[j].in => fs2[i].name # fs2[j].name
    <3> SUFFICES ASSUME NEW i \in DOMAIN fs, NEW j \in DOMAIN fs, i # j, fs2[i].in # None, fs2[i].in = fs2[j].in
                 PROVE  fs2[i].name # fs2[j].name
      BY <1>2
    <3>1. i # d /\ j # d
      BY <1>0, <1>1, <1>2
    <3>2. \A a, b \in DOMAIN fs : a # b /\ fs[a].in # None /\ fs[a].in = fs[b].in => fs[a].name # fs[b].name
      BY DEF Tree, Cleaner!FileSystem
    <3>3. CASE i = Swapped
      BY <1>0, <1>1, <1>2, <3>1, <3>2, <3>3
    <3>4. CASE j = Swapped
      BY <1>0, <1>1, <1>2, <3>1, <3>2, <3>4
    <3>5. CASE i # Swapped /\ j # Swapped
      BY <1>0, <1>1, <1>2, <3>1, <3>2, <3>5
    <3> QED
      BY <3>3, <3>4, <3>5
  <2> QED
    BY <2>1, <2>2, <2>3 DEF Cleaner!FileSystem
<1>4. \A n \in Newcomers : /\ fs2[n].kind = "file" /\ ~fs2[n].kept
                           /\ \A i \in DOMAIN fs2 \ {n} : fs2[i].name # fs2[n].name
  BY <1>0, <1>1, <1>2 DEF Tree
<1> QED
  BY <1>0, <1>1, <1>2, <1>3, <1>4 DEF Tree

\* What holds of 0, and of every number up to n if it holds of the one before, holds of all of them.
LEMMA Induction ==
    ASSUME NEW n \in Nat, NEW S, 0 \in S, \A k \in 1..n : k - 1 \in S => k \in S
    PROVE  0..n \subseteq S
<1> DEFINE B == (0..n) \ S
<1> SUFFICES ASSUME B # {} PROVE FALSE
  OBVIOUS
<1>1. B \in SUBSET Nat
  OBVIOUS
<1>2. PICK x \in B : \A y \in B : x <= y
  <2> HIDE DEF B
  <2> QED
    BY <1>1, Least
<1>3. x \in 1..n /\ x - 1 \in 0..n /\ x \notin S /\ ~(x <= x - 1)
  OBVIOUS
<1>4. x - 1 \in S
  BY <1>2, <1>3
<1> QED
  BY <1>3, <1>4

\* A name in a directory leads to at most one inode.
LEMMA HeldIs ==
    ASSUME NEW fs, Tree(fs), NEW d, NEW x
    PROVE  LET h == Cleaner!Held(fs, d, x)
           IN  /\ h # None => h \in DOMAIN fs /\ d # None /\ fs[h].in = d /\ fs[h].name = x
               /\ \A i \in DOMAIN fs : d # None /\ fs[i].in = d /\ fs[i].name = x => h = i
<1> DEFINE there == {i \in Cleaner!Listing(fs, d) : fs[i].name = x}
           h == Cleaner!Held(fs, d, x)
<1>1. h = IF d = None \/ there = {} THEN None ELSE CHOOSE i \in there : TRUE
  BY DEF Cleaner!Held
<1>2. \A i : i \in there <=> i \in DOMAIN fs /\ fs[i].in = d /\ fs[i].name = x
  BY DEF Cleaner!Listing
<1>3. \A i, j \in there : d # None => i = j
  BY <1>2 DEF Tree, Cleaner!FileSystem
<1> HIDE DEF there, h
<1>4. h # None => h \in there /\ d # None
  BY <1>1
<1>5. \A i \in there : d # None => h = i
  BY <1>1, <1>3
<1>6. /\ h # None => h \in DOMAIN fs /\ d # None /\ fs[h].in = d /\ fs[h].name = x
      /\ \A i \in DOMAIN fs : d # None /\ fs[i].in = d /\ fs[i].name = x => h = i
  BY <1>2, <1>4, <1>5
<1> QED
  BY <1>6 DEF h

LEMMA TrailIs ==
    ASSUME NEW fs, NEW p, Len(p) \in Nat
    PROVE  LET t == Cleaner!Trail(fs, p)
           IN  /\ t = [k \in 0..Len(p) |-> t[k]]
               /\ t[0] = Root
               /\ \A k \in 1..Len(p) : t[k] = Cleaner!Held(fs, Cleaner!Followed(fs, t[k - 1]), p[k])
<1> DEFINE H(i, k) == Cleaner!Held(fs, Cleaner!Followed(fs, i), p[k])
           Upto(g, n) == g = [k \in 0..n |-> IF k = 0 THEN Root ELSE H(g[k - 1], k)]
           S == {n \in 0..Len(p) : \E g : Upto(g, n)}
<1>1. 0 \in S
  <2> DEFINE g == [k \in 0..0 |-> Root]
  <2>1. Upto(g, 0)
    OBVIOUS
  <2> HIDE DEF Upto, g
  <2> QED
    BY <2>1
<1>2. ASSUME NEW n \in 1..Len(p), n - 1 \in S PROVE n \in S
  <2>1. PICK g : Upto(g, n - 1)
    BY <1>2
  <2> DEFINE f == [k \in 0..n |-> IF k = n THEN H(g[n - 1], n) ELSE g[k]]
  <2> HIDE DEF H
  <2>2. \A k \in 0..n - 1 : g[k] = IF k = 0 THEN Root ELSE H(g[k - 1], k)
    BY <2>1
  <2>3. \A k \in 0..n : k # n => k \in 0..n - 1 /\ f[k] = g[k]
    OBVIOUS
  <2>4. f[n] = H(g[n - 1], n) /\ n # 0 /\ f[n - 1] = g[n - 1]
    OBVIOUS
  <2>5. ASSUME NEW k \in 0..n PROVE f[k] = IF k = 0 THEN Root ELSE H(f[k - 1], k)
    <3>1. CASE k = n
      BY <2>4, <3>1
    <3>2. CASE k # n
      <4>1. k # 0 => k - 1 \in 0..n /\ k - 1 # n
        OBVIOUS
      <4>2. k # 0 => f[k - 1] = g[k - 1]
        BY <2>3, <4>1
      <4> QED
        BY <2>2, <2>3, <3>2, <4>2
    <3> QED
      BY <3>1, <3>2
  <2>6. Upto(f, n)
    <3> DEFINE G(k) == IF k = 0 THEN Root ELSE H(f[k - 1], k)
               e == f
    <3>1. \A k \in 0..n : e[k] = G(k)
      BY <2>5
    <3>2. e = [k \in 0..n |-> e[k]]
      OBVIOUS
    <3> HIDE DEF e, G
    <3>3. e = [k \in 0..n |-> G(k)]
      BY <3>1, <3>2
    <3> QED
      BY <3>3 DEF e, G
  <2> HIDE DEF Upto, f
  <2> QED
    BY <2>6
<1>3. Len(p) \in S
  <2> HIDE DEF S
  <2>1. 0..Len(p) \subseteq S
    BY <1>1, <1>2, Induction
  <2> QED
    BY <2>1
<1>4. PICK g : Upto(g, Len(p))
  BY <1>3
<1> DEFINE t == Cleaner!Trail(fs, p)
<1>5. t = CHOOSE f : Upto(f, Len(p))
  BY DEF Cleaner!Trail, Root
<1>6. Upto(t, Len(p))
  <2> HIDE DEF Upto
  <2> QED
    BY <1>4, <1>5
<1> HIDE DEF t, H
<1>7. t = [k \in 0..Len(p) |-> t[k]]
  BY <1>6
<1>8. t[0] = Root /\ \A k \in 1..Len(p) : t[k] = H(t[k - 1], k)
  <2>1. \A k \in 0..Len(p) : t[k] = IF k = 0 THEN Root ELSE H(t[k - 1], k)
    BY <1>6
  <2>2. 0 \in 0..Len(p) /\ \A k \in 1..Len(p) : k \in 0..Len(p) /\ k # 0
    OBVIOUS
  <2> QED
    BY <2>1, <2>2
<1> QED
  BY <1>7, <1>8 DEF t, H

LEMMA LookupInside ==
    ASSUME NEW fs, Tree(fs), NEW p \in Seq(Text), NEW x \in Text
    PROVE  Cleaner!lstat(fs, Append(p, x)) = Cleaner!Held(fs, Cleaner!Followed(fs, Cleaner!lstat(fs, p)), x)
<1> DEFINE q == Append(p, x)
           n == Len(p)
           t == Cleaner!Trail(fs, p)
           u == Cleaner!Trail(fs, q)
           S == {k \in 0..n : u[k] = t[k]}
<1>1. n \in Nat /\ q \in Seq(Text) /\ Len(q) = n + 1 /\ q[n + 1] = x /\ \A k \in 1..n : q[k] = p[k]
  OBVIOUS
<1>2. t[0] = Root /\ \A k \in 1..n : t[k] = Cleaner!Held(fs, Cleaner!Followed(fs, t[k - 1]), p[k])
  BY <1>1, TrailIs
<1>3. u[0] = Root /\ \A k \in 1..n + 1 : u[k] = Cleaner!Held(fs, Cleaner!Followed(fs, u[k - 1]), q[k])
  <2> HIDE DEF n, q
  <2>1. Len(q) \in Nat
    BY <1>1
  <2> QED
    BY <1>1, <2>1, TrailIs
<1>4. Cleaner!lstat(fs, p) = t[n] /\ Cleaner!lstat(fs, q) = u[n + 1]
  <2>1. Cleaner!lstat(fs, p) = t[Len(p)] /\ Cleaner!lstat(fs, q) = u[Len(q)]
    BY DEF Cleaner!lstat
  <2> HIDE DEF t, u, n, q
  <2> QED
    BY <1>1, <2>1 DEF n
<1> HIDE DEF t, u, n, q
<1>5. 0..n \subseteq S
  <2>1. 0 \in S
    BY <1>1, <1>2, <1>3
  <2>2. ASSUME NEW k \in 1..n, k - 1 \in S PROVE k \in S
    <3>1. k \in 0..n /\ k \in 1..n + 1 /\ u[k - 1] = t[k - 1]
      BY <1>1, <2>2
    <3>2. u[k] = t[k]
      BY <1>1, <1>2, <1>3, <3>1
    <3> QED
      BY <3>1, <3>2
  <2> HIDE DEF S
  <2> QED
    BY <1>1, <2>1, <2>2, Induction
<1>6. u[n] = t[n]
  BY <1>1, <1>5
<1>7. u[n + 1] = Cleaner!Held(fs, Cleaner!Followed(fs, u[n]), x)
  <2>1. n + 1 \in 1..n + 1 /\ (n + 1) - 1 = n
    BY <1>1
  <2> QED
    BY <1>1, <1>3, <2>1
<1> QED
  BY <1>4, <1>6, <1>7 DEF q

\* A path leads to what bears its last name.
LEMMA LookupIs ==
    ASSUME NEW fs, Tree(fs), NEW p \in Seq(Text), p # <<>>
    PROVE  LET i == Cleaner!lstat(fs, p)
           IN  i # None => i \in DOMAIN fs /\ fs[i].in # None /\ fs[i].name = p[Len(p)]
<1> DEFINE n == Len(p)
           t == Cleaner!Trail(fs, p)
<1>1. n \in Nat /\ n \in 1..n
  OBVIOUS
<1>2. \A k \in 1..n : t[k] = Cleaner!Held(fs, Cleaner!Followed(fs, t[k - 1]), p[k])
  BY <1>1, TrailIs
<1>3. Cleaner!lstat(fs, p) = t[n]
  BY DEF Cleaner!lstat
<1> HIDE DEF n, t
<1>4. t[n] = Cleaner!Held(fs, Cleaner!Followed(fs, t[n - 1]), p[n])
  BY <1>1, <1>2
<1>5. PICK d : d = Cleaner!Followed(fs, t[n - 1])
  OBVIOUS
<1>6. t[n] = Cleaner!Held(fs, d, p[n])
  BY <1>4, <1>5
<1>7. t[n] # None => t[n] \in DOMAIN fs /\ fs[t[n]].in # None /\ fs[t[n]].name = p[n]
  BY <1>6, HeldIs
<1> QED
  BY <1>3, <1>7 DEF n

LEMMA TargetLookup ==
    ASSUME NEW fs, Tree(fs)
    PROVE  LET i == Cleaner!lstat(fs, Cleaner!Target)
           IN  /\ i # None => i \in DOMAIN fs /\ fs[i].in = Root /\ fs[i].name = "temp" /\ ~fs[i].kept
               /\ \A r \in DOMAIN fs : fs[r].in = Root /\ fs[r].name = "temp" => i = r
<1> DEFINE t == Cleaner!Trail(fs, <<"temp">>)
<1>1. Len(<<"temp">>) = 1 /\ <<"temp">>[1] = "temp" /\ 1 \in Nat
  OBVIOUS
<1>2. t[0] = Root /\ \A k \in 1..1 : t[k] = Cleaner!Held(fs, Cleaner!Followed(fs, t[k - 1]), <<"temp">>[k])
  <2>1. Len(<<"temp">>) \in Nat
    BY <1>1
  <2>2. t[0] = Root /\ \A k \in 1..Len(<<"temp">>) : t[k] = Cleaner!Held(fs, Cleaner!Followed(fs, t[k - 1]), <<"temp">>[k])
    BY <2>1, TrailIs
  <2> HIDE DEF t
  <2> QED
    BY <1>1, <2>2
<1>3. Cleaner!lstat(fs, Cleaner!Target) = t[1]
  BY <1>1 DEF Cleaner!lstat, Cleaner!Target
<1> HIDE DEF t
<1>4. t[1] = Cleaner!Held(fs, Cleaner!Followed(fs, t[1 - 1]), <<"temp">>[1])
  BY <1>2
<1>5. t[1 - 1] = Root
  BY <1>2
<1>6. Cleaner!Followed(fs, Root) = Root
  BY DEF Cleaner!Followed, Tree
<1>7. t[1] = Cleaner!Held(fs, Root, "temp")
  BY <1>1, <1>4, <1>5, <1>6
<1>8. /\ t[1] # None => t[1] \in DOMAIN fs /\ fs[t[1]].in = Root /\ fs[t[1]].name = "temp"
      /\ \A r \in DOMAIN fs : fs[r].in = Root /\ fs[r].name = "temp" => t[1] = r
  <2>1. Root # None
    BY DEF Tree
  <2> QED
    BY <1>7, <2>1, HeldIs
<1> QED
  BY <1>3, <1>8 DEF Tree

\* An inode is taken away, or a newcomer is put somewhere.
Unswapped(fs, fs2) ==
    \/ \E i \in DOMAIN fs : Puts(fs, fs2, i, None)
    \/ \E n \in Newcomers : \E d \in DOMAIN fs : Puts(fs, fs2, n, d)

LEMMA HeldSteady ==
    ASSUME NEW fs, Tree(fs), NEW fs2, Tree(fs2), Unswapped(fs, fs2), NEW g \in DOMAIN fs \cup {None},
           NEW h \in {g, None} \cup Newcomers, NEW x
    PROVE  Cleaner!Held(fs2, Cleaner!Followed(fs2, h), x)
              \in {Cleaner!Held(fs, Cleaner!Followed(fs, g), x), None} \cup Newcomers
<1>1. PICK a : a = Cleaner!Held(fs, Cleaner!Followed(fs, g), x)
  OBVIOUS
<1>2. PICK d : d = Cleaner!Followed(fs2, h)
  OBVIOUS
<1>3. PICK b : b = Cleaner!Held(fs2, d, x)
  OBVIOUS
<1> SUFFICES ASSUME b # None, b \notin Newcomers PROVE b = a
  BY <1>1, <1>2, <1>3
<1>4. b \in DOMAIN fs2 /\ d # None /\ fs2[b].in = d /\ fs2[b].name = x
  BY <1>3, HeldIs
<1>5. fs2[d].kind = "dir"
  BY <1>4 DEF Tree, Cleaner!FileSystem
<1>6. h # None
  BY <1>2, <1>4 DEF Cleaner!Followed
<1>7. h \notin Newcomers
  BY <1>2, <1>5 DEF Cleaner!Followed, Tree
<1>8. h = g /\ g \in DOMAIN fs /\ g # None
  BY <1>6, <1>7 DEF Tree
<1>9. /\ DOMAIN fs2 = DOMAIN fs /\ \A j \in DOMAIN fs : fs2[j].kind = fs[j].kind /\ fs2[j].to = fs[j].to
      /\ fs2[b] = fs[b]
  <2>1. CASE \E i \in DOMAIN fs : Puts(fs, fs2, i, None)
    BY <1>4, <2>1 DEF Puts
  <2>2. CASE \E n \in Newcomers : \E e \in DOMAIN fs : Puts(fs, fs2, n, e)
    BY <1>4, <2>2 DEF Puts
  <2> QED
    BY <2>1, <2>2 DEF Unswapped
<1>10. Cleaner!Followed(fs, g) = d
  BY <1>2, <1>8, <1>9 DEF Cleaner!Followed
<1>11. a = Cleaner!Held(fs, d, x)
  BY <1>1, <1>10
<1> QED
  BY <1>4, <1>9, <1>11, HeldIs

\* What a path leads to is the same, nothing or a newcomer unless a directory was replaced.
LEMMA LookupSteady ==
    ASSUME NEW fs, Tree(fs), NEW fs2, Tree(fs2), Unswapped(fs, fs2), NEW p \in Seq(Text)
    PROVE  Cleaner!lstat(fs2, p) \in {Cleaner!lstat(fs, p), None} \cup Newcomers
<1> DEFINE n == Len(p)
           t == Cleaner!Trail(fs, p)
           u == Cleaner!Trail(fs2, p)
           S == {k \in 0..n : u[k] \in {t[k], None} \cup Newcomers}
<1>1. n \in Nat
  OBVIOUS
<1>2. /\ t[0] = Root /\ \A k \in 1..n : t[k] = Cleaner!Held(fs, Cleaner!Followed(fs, t[k - 1]), p[k])
      /\ u[0] = Root /\ \A k \in 1..n : u[k] = Cleaner!Held(fs2, Cleaner!Followed(fs2, u[k - 1]), p[k])
  BY <1>1, TrailIs
<1>3. Cleaner!lstat(fs, p) = t[n] /\ Cleaner!lstat(fs2, p) = u[n]
  BY DEF Cleaner!lstat
<1> HIDE DEF n, t, u
<1>4. \A k \in 0..n : t[k] \in DOMAIN fs \cup {None}
  <2> SUFFICES ASSUME NEW k \in 0..n PROVE t[k] \in DOMAIN fs \cup {None}
    OBVIOUS
  <2>1. CASE k = 0
    BY <1>2, <2>1 DEF Tree
  <2>2. CASE k # 0
    <3>1. k \in 1..n
      BY <1>1, <2>2
    <3>2. PICK d : d = Cleaner!Followed(fs, t[k - 1])
      OBVIOUS
    <3>3. t[k] = Cleaner!Held(fs, d, p[k])
      BY <1>2, <3>1, <3>2
    <3> QED
      BY <3>3, HeldIs
  <2> QED
    BY <2>1, <2>2
<1>5. 0 \in S
  BY <1>1, <1>2
<1>6. ASSUME NEW k \in 1..n, k - 1 \in S PROVE k \in S
  <2>1. k - 1 \in 0..n /\ k \in 0..n
    BY <1>1
  <2>2. PICK g : g = t[k - 1]
    OBVIOUS
  <2>3. PICK h : h = u[k - 1]
    OBVIOUS
  <2>4. g \in DOMAIN fs \cup {None} /\ h \in {g, None} \cup Newcomers
    BY <1>4, <1>6, <2>1, <2>2, <2>3
  <2>5. Cleaner!Held(fs2, Cleaner!Followed(fs2, h), p[k]) \in {Cleaner!Held(fs, Cleaner!Followed(fs, g), p[k]), None} \cup Newcomers
    BY <2>4, HeldSteady
  <2>6. u[k] \in {t[k], None} \cup Newcomers
    BY <1>2, <2>2, <2>3, <2>5
  <2> QED
    BY <2>1, <2>6
<1>7. 0..n \subseteq S
  <2> HIDE DEF S
  <2> QED
    BY <1>1, <1>5, <1>6, Induction
<1> QED
  BY <1>1, <1>3, <1>7

-----------------------------------------------------------------------------
(* The temporary-file cleaner: the traversal.  A directory is listed once, its parent before it; *)
(* what is still to be done in a directory was there when it was listed.                             *)

CleanerFields == {"step", "targets", "stack", "entry", "link", "items", "deleted", "failed",
                  "listed", "lost", "came", "late", "raced", "strayed", "quiet"}
Walking == {"list", "scan", "recheck", "look", "stat", "act", "leave", "verify", "rmdir"}

\* The directory on top has not been listed yet.
Unscanned == {"list", "scan"}

Unkept(fs, i) == i # None => i \in DOMAIN fs /\ ~fs[i].kept

Level(s, fs, seen) ==
    /\ DOMAIN s = {"path", "id", "todo"} /\ s.path \in Seq(Text) /\ s.path # <<>> /\ s.todo \subseteq Text
    /\ s.id \in DOMAIN fs /\ fs[s.id].kind = "dir" /\ ~fs[s.id].kept /\ s.id # Root
    /\ fs[s.id].in \in seen \cup {None, Root}

StackInv(t, fs) ==
    /\ IsSequence(t.stack) /\ (t.step \in Walking => t.stack # <<>>)
    /\ \A k \in DOMAIN t.stack : Level(t.stack[k], fs, t.listed)
    /\ \A k, l \in DOMAIN t.stack : t.stack[k].id = t.stack[l].id => k = l
    /\ \A k \in DOMAIN t.stack : t.stack[k].id \in t.listed \/ (t.step \in Unscanned \cup {"recheck"} /\ k = Len(t.stack))
    /\ t.step \in Unscanned => t.stack[Len(t.stack)].id \notin t.listed /\ t.stack[Len(t.stack)].todo = {}
    /\ Root \notin t.listed
    /\ \A c \in t.listed : c \in DOMAIN fs /\ fs[c].kind = "dir" /\ fs[c].in \in t.listed \cup {None, Root}

FreshInv(t, fs) ==
    \A k \in DOMAIN t.stack : \A c \in DOMAIN fs :
        fs[c].in = t.stack[k].id /\ fs[c].name \in t.stack[k].todo =>
            c \notin t.listed /\ \A l \in DOMAIN t.stack : t.stack[l].id # c

ComeInv(t, fs) ==
    /\ t.late \subseteq t.came /\ t.came \subseteq Newcomers
    /\ \A n \in Newcomers \ t.came : fs[n].in = None
    /\ t.lost \cap t.late = {} /\ t.lost \cap Newcomers \subseteq t.came
    /\ \A n \in t.late : fs[n].in # None => fs[n].in \in t.listed
    /\ \A k \in DOMAIN t.stack : \A n \in Newcomers : fs[n].name \in t.stack[k].todo =>
           n \in t.came /\ (t.stack[k].id \in t.listed => n \notin t.late)

LostInv(t, fs) ==
    /\ \A i \in t.lost : i \in DOMAIN fs /\ fs[i].in = None
    /\ IsFiniteSet(t.lost) /\ t.deleted = Cardinality(t.lost)

Core(t, fs) == StackInv(t, fs) /\ FreshInv(t, fs) /\ ComeInv(t, fs) /\ LostInv(t, fs)

\* The directory of that name, if the path leads to one in the directory on top, is entered once.
NextIs(t, fs, top, x) ==
    /\ x \notin top.todo
    /\ \A c \in DOMAIN fs : fs[c].in = top.id /\ fs[c].name = x =>
           c \notin t.listed /\ \A l \in DOMAIN t.stack : t.stack[l].id # c
    /\ ~t.raced => LET i == Cleaner!lstat(fs, t.entry)
                   IN  i # None /\ fs[i].kind = "dir" => fs[i].in = top.id

\* Unless a directory was replaced meanwhile, what was looked at is what is removed.
EntryInv(t, fs) ==
    /\ t.step \in {"stat", "act"} =>
          /\ t.entry \in Seq(Text) /\ t.entry # <<>>
          /\ \A n \in Newcomers : fs[n].name = t.entry[Len(t.entry)] => n \in t.came \ t.late
          /\ ~t.raced => Unkept(fs, Cleaner!lstat(fs, t.entry))
    /\ t.step = "stat" => NextIs(t, fs, t.stack[Len(t.stack)], t.entry[Len(t.entry)])
    /\ t.step \in {"leave", "verify"} =>
          /\ t.entry[1] \in Seq(Text) /\ t.entry[1] # <<>>
          /\ t.entry[2] \in DOMAIN fs /\ ~fs[t.entry[2]].kept
    /\ t.step = "rmdir" =>
          /\ t.entry[1] \in Seq(Text) /\ t.entry[1] # <<>>
          /\ ~t.raced => Unkept(fs, Cleaner!lstat(fs, t.entry[1]))

WalkInv(t, fs) ==
    /\ DOMAIN t = CleanerFields /\ t.step \in {"choose", "confirm", "done"} \cup Walking
    /\ t.step \in {"choose", "confirm"} => t.stack = <<>> /\ t.listed = {}
    /\ Core(t, fs) /\ EntryInv(t, fs)

CleanerInv ==
    /\ DOMAIN world = {"disk", "machine", "changes"} /\ Tree(world.disk)
    /\ WalkInv(task, world.disk)
    /\ task.step \in {"choose", "confirm"} => world.machine \in Machines
    /\ task.step \in Walking => task.targets = {}
    /\ Cleaner!TargetsAreSafe

LEMMA CleanerLibrary ==
    \A S : Cleaner!Cardinality(S) = Cardinality(S)
BY DEF Cleaner!Cardinality, Cardinality

LEMMA CleanerIsRight ==
    ASSUME CleanerInv
    PROVE  Cleaner!TargetsAreSafe /\ Cleaner!NewcomersStay /\ Cleaner!DeletedIsExact
BY CleanerLibrary DEF CleanerInv, WalkInv, Core, ComeInv, LostInv, Cleaner!NewcomersStay, Cleaner!DeletedIsExact

\* What the fields that no step but its own changes carry over.
LEMMA SameCore ==
    ASSUME NEW t, NEW u, NEW fs, Core(t, fs), u.stack = t.stack, u.listed = t.listed, u.lost = t.lost, u.came = t.came,
           u.late = t.late, u.deleted = t.deleted,
           \/ u.step = t.step
           \/ t.step \in Unscanned /\ u.step \in Unscanned
           \/ t.step \in Walking \ (Unscanned \cup {"recheck"}) /\ u.step \notin Unscanned
           \/ t.step = "recheck" /\ t.stack[Len(t.stack)].id \in t.listed /\ u.step \notin Unscanned
           \/ t.step \notin Walking /\ u.step \notin Walking
    PROVE  Core(u, fs)
<1>1. StackInv(u, fs)
  BY DEF Core, StackInv, Walking, Unscanned
<1>2. FreshInv(u, fs)
  BY DEF Core, FreshInv
<1>3. ComeInv(u, fs)
  BY DEF Core, ComeInv
<1>4. LostInv(u, fs)
  BY DEF Core, LostInv
<1> QED
  BY <1>1, <1>2, <1>3, <1>4 DEF Core

\* The directory on top is left.
LEMMA FrontShape ==
    ASSUME NEW s, IsSequence(s), Len(s) # 1, s # <<>>
    PROVE  LET f == SubSeq(s, 1, Len(s) - 1)
           IN  /\ IsSequence(f) /\ f # <<>> /\ Len(f) = Len(s) - 1
               /\ \A k \in DOMAIN f : k \in DOMAIN s /\ k # Len(s) /\ f[k] = s[k]
<1>1. PICK S : s \in Seq(S)
  BY DEF IsSequence
<1>2. Len(s) \in Nat /\ Len(s) # 0 /\ DOMAIN s = 1..Len(s)
  BY <1>1
<1> DEFINE f == SubSeq(s, 1, Len(s) - 1)
<1>3. f \in Seq(S) /\ Len(f) = Len(s) - 1 /\ \A k \in 1..Len(s) - 1 : f[k] = s[k]
  BY <1>1, <1>2
<1> HIDE DEF f
<1>4. f # <<>> /\ DOMAIN f = 1..Len(s) - 1
  BY <1>2, <1>3
<1>5. \A k \in DOMAIN f : k \in DOMAIN s /\ k # Len(s) /\ f[k] = s[k]
  BY <1>2, <1>3, <1>4
<1> QED
  BY <1>3, <1>4, <1>5 DEF f, IsSequence

LEMMA ReturnedHolds ==
    ASSUME NEW t, NEW fs, WalkInv(t, fs), t.step \in Walking, NEW completed \in BOOLEAN
    PROVE  LET u == Cleaner!Returned(t, completed)
           IN  /\ WalkInv(u, fs) /\ u.step \notin {"choose", "confirm"} /\ u.targets = t.targets
               /\ u.lost = t.lost
<1>1. DOMAIN t = CleanerFields /\ IsSequence(t.stack) /\ t.stack # <<>> /\ Core(t, fs)
  BY DEF WalkInv, Core, StackInv
<1>2. CASE Len(t.stack) = 1
  <2>1. PICK u : u = [t EXCEPT !.step = "done", !.stack = <<>>]
    OBVIOUS
  <2>2. u = Cleaner!Returned(t, completed)
    BY <1>2, <2>1 DEF Cleaner!Returned
  <2>3. /\ DOMAIN u = CleanerFields /\ u.step = "done" /\ u.stack = <<>> /\ u.listed = t.listed /\ u.lost = t.lost
        /\ u.came = t.came /\ u.late = t.late /\ u.deleted = t.deleted /\ u.targets = t.targets
    BY <1>1, <2>1 DEF CleanerFields
  <2>4. DOMAIN u.stack = {} /\ IsSequence(u.stack)
    BY <2>3 DEF IsSequence
  <2>5. StackInv(u, fs)
    BY <1>1, <2>3, <2>4 DEF Core, StackInv, Walking, Unscanned
  <2>6. FreshInv(u, fs) /\ ComeInv(u, fs) /\ LostInv(u, fs)
    BY <1>1, <2>3, <2>4 DEF Core, FreshInv, ComeInv, LostInv
  <2> QED
    BY <2>2, <2>3, <2>5, <2>6 DEF WalkInv, Core, EntryInv
<1>3. CASE Len(t.stack) # 1
  <2>1. PICK f : f = SubSeq(t.stack, 1, Len(t.stack) - 1)
    OBVIOUS
  <2>2. PICK e : e = IF completed THEN <<t.stack[Len(t.stack)].path, t.stack[Len(t.stack)].id>> ELSE None
    OBVIOUS
  <2>3. PICK s : s = IF completed THEN "leave" ELSE "look"
    OBVIOUS
  <2>4. PICK u : u = [t EXCEPT !.step = s, !.stack = f, !.entry = e]
    OBVIOUS
  <2>5. u = Cleaner!Returned(t, completed)
    BY <1>3, <2>1, <2>2, <2>3, <2>4, CleanerLibrary DEF Cleaner!Returned
  <2>6. /\ DOMAIN u = CleanerFields /\ u.step = s /\ u.stack = f /\ u.entry = e /\ u.listed = t.listed /\ u.lost = t.lost
        /\ u.came = t.came /\ u.late = t.late /\ u.deleted = t.deleted /\ u.targets = t.targets
    BY <1>1, <2>4 DEF CleanerFields
  <2>7. /\ IsSequence(f) /\ f # <<>>
        /\ \A k \in DOMAIN f : k \in DOMAIN t.stack /\ k # Len(t.stack) /\ f[k] = t.stack[k]
    BY <1>1, <1>3, <2>1, FrontShape
  <2>8. StackInv(u, fs)
    BY <1>1, <2>3, <2>6, <2>7 DEF Core, StackInv, Unscanned
  <2>9. FreshInv(u, fs)
    BY <1>1, <2>6, <2>7 DEF Core, FreshInv
  <2>10. ComeInv(u, fs) /\ LostInv(u, fs)
    BY <1>1, <2>6, <2>7 DEF Core, ComeInv, LostInv
  <2>11. EntryInv(u, fs)
    <3>1. Len(t.stack) \in DOMAIN t.stack
      <4>1. PICK S : t.stack \in Seq(S)
        BY <1>1 DEF IsSequence
      <4> QED
        BY <1>1, <4>1
    <3>2. Level(t.stack[Len(t.stack)], fs, t.listed)
      BY <1>1, <3>1 DEF Core, StackInv
    <3> QED
      BY <2>2, <2>3, <2>6, <3>2 DEF EntryInv, Level
  <2> QED
    BY <2>3, <2>5, <2>6, <2>8, <2>9, <2>10, <2>11 DEF WalkInv, Core, Walking
<1> QED
  BY <1>2, <1>3

\* A step of the traversal that changes nothing on the disk.
LEMMA QuietStep ==
    ASSUME CleanerInv, task.step \in Walking, world' = world, WalkInv(task', world.disk),
           task'.step \notin {"choose", "confirm"}, task'.targets = task.targets, task'.lost = task.lost
    PROVE  CleanerInv' /\ Cleaner!ContainedStep
<1>1. task.targets = {}
  BY DEF CleanerInv
<1>2. Cleaner!TargetsAreSafe'
  BY <1>1 DEF Cleaner!TargetsAreSafe
<1>3. Cleaner!ContainedStep
  BY DEF Cleaner!ContainedStep
<1> QED
  BY <1>1, <1>2, <1>3 DEF CleanerInv

LEMMA TopIs ==
    ASSUME CleanerInv, task.step \in Walking
    PROVE  /\ DOMAIN task = CleanerFields /\ IsSequence(task.stack) /\ Len(task.stack) \in DOMAIN task.stack
           /\ DOMAIN task.stack = 1..Len(task.stack) /\ Len(task.stack) \in Nat
           /\ Cleaner!Top = task.stack[Len(task.stack)] /\ Level(Cleaner!Top, world.disk, task.listed)
           /\ Cleaner!TopMatches \in BOOLEAN
<1>1. DOMAIN task = CleanerFields /\ IsSequence(task.stack) /\ task.stack # <<>>
      /\ \A k \in DOMAIN task.stack : Level(task.stack[k], world.disk, task.listed)
  BY DEF CleanerInv, WalkInv, Core, StackInv
<1>2. PICK S : task.stack \in Seq(S)
  BY <1>1 DEF IsSequence
<1>3. Len(task.stack) \in Nat /\ DOMAIN task.stack = 1..Len(task.stack) /\ Len(task.stack) \in DOMAIN task.stack
  BY <1>1, <1>2
<1> QED
  BY <1>1, <1>3, CleanerLibrary DEF Cleaner!Top, Cleaner!TopMatches, Cleaner!_directory_matches

\* Neither a failure nor the end of a directory disturbs what is known of the others.
LEMMA FailureHolds ==
    ASSUME NEW t, NEW fs, WalkInv(t, fs)
    PROVE  LET u == Cleaner!_record_failure(t)
           IN  /\ WalkInv(u, fs) /\ u.step = t.step /\ u.targets = t.targets /\ u.lost = t.lost
               /\ u.stack = t.stack
<1>1. PICK u : u = [t EXCEPT !.failed = @ + 1]
  OBVIOUS
<1>2. u = Cleaner!_record_failure(t)
  BY <1>1 DEF Cleaner!_record_failure
<1>3. DOMAIN t = CleanerFields
  BY DEF WalkInv
<1>4. /\ DOMAIN u = CleanerFields /\ u.step = t.step /\ u.targets = t.targets /\ u.lost = t.lost /\ u.stack = t.stack
      /\ u.listed = t.listed /\ u.came = t.came /\ u.late = t.late /\ u.deleted = t.deleted /\ u.entry = t.entry
      /\ u.raced = t.raced
  BY <1>1, <1>3 DEF CleanerFields
<1>5. Core(u, fs)
  BY <1>4, SameCore DEF WalkInv
<1>6. EntryInv(u, fs)
  BY <1>4 DEF WalkInv, EntryInv, NextIs
<1> QED
  BY <1>2, <1>4, <1>5, <1>6 DEF WalkInv

\* The traversal of the directory on top ends, with or without a failure.
LEMMA EndsHere ==
    ASSUME CleanerInv, task.step \in Walking, world' = world,
           \/ task' = Cleaner!Returned(task, Cleaner!TopMatches)
           \/ task' = Cleaner!Returned(Cleaner!_record_failure(task), FALSE)
    PROVE  CleanerInv' /\ Cleaner!ContainedStep
<1>1. WalkInv(task, world.disk) /\ Cleaner!TopMatches \in BOOLEAN
  BY TopIs DEF CleanerInv
<1>2. CASE task' = Cleaner!Returned(task, Cleaner!TopMatches)
  BY <1>1, <1>2, ReturnedHolds, QuietStep
<1>3. CASE task' = Cleaner!Returned(Cleaner!_record_failure(task), FALSE)
  <2>1. PICK t : t = Cleaner!_record_failure(task)
    OBVIOUS
  <2>2. WalkInv(t, world.disk) /\ t.step \in Walking /\ t.targets = task.targets /\ t.lost = task.lost
    BY <1>1, <2>1, FailureHolds
  <2>3. WalkInv(task', world.disk) /\ task'.step \notin {"choose", "confirm"} /\ task'.targets = t.targets /\ task'.lost = t.lost
    BY <1>3, <2>1, <2>2, ReturnedHolds
  <2> QED
    BY <2>2, <2>3, QuietStep
<1> QED
  BY <1>2, <1>3

\* It takes names from another directory for those of this one, or enters a directory of others.
GoesAstray ==
    /\ task'.strayed
    /\ \/ task.step = "recheck" /\ Cleaner!Top.id \notin task.listed
       \/ task.step = "stat" /\ world.disk[Cleaner!lstat(world.disk, task.entry)].in # Cleaner!Top.id

LEMMA RecheckKeeps ==
    ASSUME CleanerInv, Cleaner!_delete_directory_contents_Recheck
    PROVE  (CleanerInv' \/ GoesAstray) /\ Cleaner!ContainedStep
<1>1. task.step = "recheck" /\ task.step \in Walking /\ world' = world
  BY DEF Cleaner!_delete_directory_contents_Recheck, Walking
<1>2. PICK b : b = (task.strayed \/ Cleaner!Top.id \notin task.listed)
  OBVIOUS
<1>3. DOMAIN task = CleanerFields /\ Cleaner!Top = task.stack[Len(task.stack)]
  BY <1>1, TopIs
<1>4. CASE Cleaner!TopMatches
  <2>1. task' = [task EXCEPT !.step = "look", !.strayed = b]
    BY <1>2, <1>4 DEF Cleaner!_delete_directory_contents_Recheck
  <2>2. /\ DOMAIN task' = CleanerFields /\ task'.step = "look" /\ task'.targets = task.targets /\ task'.lost = task.lost
        /\ task'.stack = task.stack /\ task'.listed = task.listed /\ task'.came = task.came /\ task'.late = task.late
        /\ task'.deleted = task.deleted /\ task'.strayed = b
    BY <1>3, <2>1 DEF CleanerFields
  <2>3. CASE Cleaner!Top.id \in task.listed
    <3>1. "look" \notin Unscanned
      BY DEF Unscanned
    <3>2. Core(task', world.disk)
      BY <1>1, <1>3, <2>2, <2>3, <3>1, SameCore DEF CleanerInv, WalkInv, Walking
    <3>3. WalkInv(task', world.disk)
      BY <2>2, <3>2 DEF WalkInv, EntryInv, Walking
    <3> QED
      BY <1>1, <2>2, <3>3, QuietStep
  <2>4. CASE Cleaner!Top.id \notin task.listed
    <3>1. b
      BY <1>2, <2>4, Zenon
    <3> QED
      BY <1>1, <2>2, <2>4, <3>1, Zenon DEF Cleaner!ContainedStep, GoesAstray
  <2> QED
    BY <2>3, <2>4
<1>5. CASE ~Cleaner!TopMatches
  <2>1. task' = Cleaner!Returned(Cleaner!_record_failure(task), FALSE)
    BY <1>5 DEF Cleaner!_delete_directory_contents_Recheck
  <2> QED
    BY <1>1, <2>1, EndsHere
<1> QED
  BY <1>4, <1>5

\* The entry of a directory that has just been looked at.
LEMMA LeaveKeeps ==
    ASSUME CleanerInv, Cleaner!_delete_directory_contents_Leave
    PROVE  CleanerInv' /\ Cleaner!ContainedStep
<1>1. task.step = "leave" /\ task.step \in Walking /\ world' = world /\ WalkInv(task, world.disk)
  BY DEF Cleaner!_delete_directory_contents_Leave, Walking, CleanerInv
<1>2. CASE ~Cleaner!TopMatches
  <2>1. task' = Cleaner!Returned(Cleaner!_record_failure(task), FALSE)
    BY <1>2 DEF Cleaner!_delete_directory_contents_Leave
  <2> QED
    BY <1>1, <2>1, EndsHere
<1>3. CASE Cleaner!TopMatches
  <2>1. task' = [task EXCEPT !.step = "verify"]
    BY <1>3 DEF Cleaner!_delete_directory_contents_Leave
  <2>2. DOMAIN task = CleanerFields
    BY <1>1, TopIs
  <2>3. /\ DOMAIN task' = CleanerFields /\ task'.step = "verify" /\ task'.targets = task.targets /\ task'.lost = task.lost
        /\ task'.stack = task.stack /\ task'.listed = task.listed /\ task'.came = task.came /\ task'.late = task.late
        /\ task'.deleted = task.deleted /\ task'.entry = task.entry
    BY <2>1, <2>2 DEF CleanerFields
  <2>4. Core(task', world.disk)
    BY <1>1, <2>3, SameCore DEF WalkInv, Walking, Unscanned
  <2>5. WalkInv(task', world.disk)
    BY <1>1, <2>3, <2>4 DEF WalkInv, EntryInv, Walking
  <2> QED
    BY <1>1, <2>3, <2>5, QuietStep
<1> QED
  BY <1>2, <1>3

LEMMA VerifyKeeps ==
    ASSUME CleanerInv, Cleaner!_delete_directory_contents_Verify
    PROVE  CleanerInv' /\ Cleaner!ContainedStep
<1>1. /\ task.step = "verify" /\ task.step \in Walking /\ world' = world /\ WalkInv(task, world.disk)
      /\ DOMAIN task = CleanerFields
  BY DEF Cleaner!_delete_directory_contents_Verify, Walking, CleanerInv, WalkInv
<1>2. CASE Cleaner!_directory_matches(world.disk, task.entry[1], task.entry[2])
  <2>1. task' = [task EXCEPT !.step = "rmdir", !.raced = FALSE]
    BY <1>2 DEF Cleaner!_delete_directory_contents_Verify, Cleaner!Disk
  <2>2. /\ DOMAIN task' = CleanerFields /\ task'.step = "rmdir" /\ task'.targets = task.targets /\ task'.lost = task.lost
        /\ task'.stack = task.stack /\ task'.listed = task.listed /\ task'.came = task.came /\ task'.late = task.late
        /\ task'.deleted = task.deleted /\ task'.entry = task.entry
    BY <1>1, <2>1 DEF CleanerFields
  <2>3. Core(task', world.disk)
    BY <1>1, <2>2, SameCore DEF WalkInv, Walking, Unscanned
  <2>4. EntryInv(task', world.disk)
    <3>1. Cleaner!lstat(world.disk, task.entry[1]) = task.entry[2]
      BY <1>2 DEF Cleaner!_directory_matches
    <3> QED
      BY <1>1, <2>2, <3>1 DEF WalkInv, EntryInv, Unkept
  <2>5. WalkInv(task', world.disk)
    BY <2>2, <2>3, <2>4 DEF WalkInv, Walking
  <2> QED
    BY <1>1, <2>2, <2>5, QuietStep
<1>3. CASE ~Cleaner!_directory_matches(world.disk, task.entry[1], task.entry[2])
  <2>1. task' = [Cleaner!_record_failure(task) EXCEPT !.step = "look", !.entry = None]
    BY <1>3 DEF Cleaner!_delete_directory_contents_Verify, Cleaner!Disk
  <2>2. /\ DOMAIN task' = CleanerFields /\ task'.step = "look" /\ task'.targets = task.targets /\ task'.lost = task.lost
        /\ task'.stack = task.stack /\ task'.listed = task.listed /\ task'.came = task.came /\ task'.late = task.late
        /\ task'.deleted = task.deleted
    BY <1>1, <2>1 DEF CleanerFields, Cleaner!_record_failure
  <2>3. Core(task', world.disk)
    BY <1>1, <2>2, SameCore DEF WalkInv, Walking, Unscanned
  <2>4. WalkInv(task', world.disk)
    BY <2>2, <2>3 DEF WalkInv, EntryInv, Walking
  <2> QED
    BY <1>1, <2>2, <2>4, QuietStep
<1> QED
  BY <1>2, <1>3

\* The directory on top has other entries left to do.
LeavesToDo(s, s2, X) ==
    /\ IsSequence(s2) /\ Len(s2) = Len(s) /\ DOMAIN s2 = DOMAIN s
    /\ \A k \in DOMAIN s : k # Len(s) => s2[k] = s[k]
    /\ DOMAIN s2[Len(s)] = {"path", "id", "todo"} /\ s2[Len(s)].path = s[Len(s)].path /\ s2[Len(s)].id = s[Len(s)].id
    /\ s2[Len(s)].todo = X

LEMMA LeftToDo ==
    ASSUME NEW s, IsSequence(s), Len(s) \in DOMAIN s, DOMAIN s[Len(s)] = {"path", "id", "todo"}, NEW X
    PROVE  LeavesToDo(s, [s EXCEPT ![Len(s)].todo = X], X)
<1>1. PICK S : s \in Seq(S)
  BY DEF IsSequence
<1>2. PICK v : v = [s[Len(s)] EXCEPT !.todo = X]
  OBVIOUS
<1>3. DOMAIN v = {"path", "id", "todo"} /\ v.path = s[Len(s)].path /\ v.id = s[Len(s)].id /\ v.todo = X
  BY <1>2
<1>4. PICK s2 : s2 = [s EXCEPT ![Len(s)] = v]
  OBVIOUS
<1>5. s \in Seq(S \cup {v})
  BY <1>1
<1>6. s2 \in Seq(S \cup {v}) /\ Len(s2) = Len(s) /\ DOMAIN s2 = DOMAIN s /\ s2[Len(s)] = v
      /\ \A k \in DOMAIN s : k # Len(s) => s2[k] = s[k]
  BY <1>4, <1>5
<1>7. s2 = [s EXCEPT ![Len(s)].todo = X]
  BY <1>2, <1>4
<1> QED
  BY <1>3, <1>6, <1>7 DEF LeavesToDo, IsSequence

LEMMA ListKeeps ==
    ASSUME CleanerInv, Cleaner!_delete_directory_contents_List
    PROVE  CleanerInv' /\ Cleaner!ContainedStep
<1>1. /\ task.step = "list" /\ task.step \in Walking /\ world' = world /\ WalkInv(task, world.disk)
      /\ DOMAIN task = CleanerFields
  BY DEF Cleaner!_delete_directory_contents_List, Walking, CleanerInv, WalkInv
<1>2. CASE ~Cleaner!TopMatches
  <2>1. task' = Cleaner!Returned(Cleaner!_record_failure(task), FALSE)
    BY <1>2 DEF Cleaner!_delete_directory_contents_List
  <2> QED
    BY <1>1, <2>1, EndsHere
<1>3. CASE Cleaner!TopMatches
  <2>1. task' = [task EXCEPT !.step = "scan"]
    BY <1>3 DEF Cleaner!_delete_directory_contents_List
  <2>2. /\ DOMAIN task' = CleanerFields /\ task'.step = "scan" /\ task'.targets = task.targets /\ task'.lost = task.lost
        /\ task'.stack = task.stack /\ task'.listed = task.listed /\ task'.came = task.came /\ task'.late = task.late
        /\ task'.deleted = task.deleted
    BY <1>1, <2>1 DEF CleanerFields
  <2>3. Core(task', world.disk)
    BY <1>1, <2>2, SameCore DEF WalkInv, Unscanned
  <2>4. WalkInv(task', world.disk)
    BY <2>2, <2>3 DEF WalkInv, EntryInv, Walking
  <2> QED
    BY <1>1, <2>2, <2>4, QuietStep
<1> QED
  BY <1>2, <1>3

\* The names may be those of another directory, which then is not the one listed.
LEMMA ScanKeeps ==
    ASSUME CleanerInv, Cleaner!_delete_directory_contents_Scan
    PROVE  CleanerInv' /\ Cleaner!ContainedStep
<1>1. task.step = "scan" /\ task.step \in Walking /\ world' = world /\ Tree(world.disk) /\ WalkInv(task, world.disk)
  BY DEF Cleaner!_delete_directory_contents_Scan, Walking, CleanerInv
<1>2. PICK D : D = Cleaner!Followed(world.disk, Cleaner!lstat(world.disk, Cleaner!Top.path))
  OBVIOUS
<1>3. CASE ~(D \in DOMAIN world.disk /\ world.disk[D].kind = "dir" /\ ~world.disk[D].locked)
  <2>1. task' = Cleaner!Returned(Cleaner!_record_failure(task), FALSE)
    BY <1>2, <1>3 DEF Cleaner!_delete_directory_contents_Scan, Cleaner!Disk
  <2> QED
    BY <1>1, <2>1, EndsHere
<1>4. CASE D \in DOMAIN world.disk /\ world.disk[D].kind = "dir" /\ ~world.disk[D].locked
  <2>1. PICK n : n = Len(task.stack)
    OBVIOUS
  <2>2. PICK d : d = task.stack[n].id
    OBVIOUS
  <2>3. PICK fs : fs = world.disk
    OBVIOUS
  <2>4. PICK X : X = {fs[i].name : i \in Cleaner!Listing(fs, D)}
    OBVIOUS
  <2>5. PICK s : s = [task.stack EXCEPT ![n].todo = X]
    OBVIOUS
  <2>6. PICK L : L = task.listed \cup ({D} \cap {d})
    OBVIOUS
  <2>7. /\ DOMAIN task = CleanerFields /\ n \in DOMAIN task.stack /\ IsSequence(task.stack)
        /\ Cleaner!Top = task.stack[n] /\ Level(task.stack[n], fs, task.listed)
    BY <1>1, <2>1, <2>3, TopIs
  <2>8. task' = [task EXCEPT !.step = "recheck", !.listed = L, !.stack = s]
    BY <1>2, <1>4, <2>1, <2>2, <2>3, <2>4, <2>5, <2>6, <2>7
       DEF Cleaner!_delete_directory_contents_Scan, Cleaner!Disk, CleanerFields
  <2>9. /\ DOMAIN task' = CleanerFields /\ task'.step = "recheck" /\ task'.targets = task.targets /\ task'.lost = task.lost
        /\ task'.stack = s /\ task'.listed = L /\ task'.came = task.came /\ task'.late = task.late
        /\ task'.deleted = task.deleted
    BY <2>7, <2>8 DEF CleanerFields
  <2>10. LeavesToDo(task.stack, s, X)
    BY <2>1, <2>5, <2>7, LeftToDo DEF Level
  <2>11. /\ d \in DOMAIN fs /\ fs[d].kind = "dir" /\ d # Root /\ d # None /\ d \notin task.listed
         /\ fs[d].in \in task.listed \cup {None, Root}
         /\ task.listed \subseteq L /\ L \subseteq task.listed \cup {d} /\ (d \in L => D = d)
    BY <1>1, <2>1, <2>2, <2>3, <2>6, <2>7 DEF Level, Tree, WalkInv, Core, StackInv, Unscanned
  <2>12. \A x \in X : \E i \in DOMAIN fs : fs[i].in = D /\ fs[i].name = x
    BY <2>4 DEF Cleaner!Listing
  <2>13. X \subseteq Text
    BY <1>1, <2>3, <2>12 DEF Tree, Cleaner!FileSystem, Text
  <2>14. StackInv(task', fs)
    <3>1. StackInv(task, fs)
      BY <1>1, <2>3 DEF WalkInv, Core
    <3>2. \A k \in DOMAIN s : s[k].id = task.stack[k].id
      BY <2>1, <2>10 DEF LeavesToDo
    <3>3. \A k \in DOMAIN s : Level(s[k], fs, L)
      BY <2>1, <2>7, <2>10, <2>11, <2>13, <3>1 DEF LeavesToDo, StackInv, Level
    <3>4. IsSequence(s) /\ s # <<>> /\ DOMAIN s = DOMAIN task.stack /\ Len(s) = n
      BY <2>1, <2>7, <2>10 DEF LeavesToDo
    <3>5. \A k \in DOMAIN s : s[k].id \in L \/ k = n
      BY <2>1, <2>11, <3>1, <3>2, <3>4 DEF StackInv
    <3>6. \A k, l \in DOMAIN s : s[k].id = s[l].id => k = l
      BY <3>1, <3>2, <3>4 DEF StackInv
    <3>7. Root \notin L /\ \A c \in L : c \in DOMAIN fs /\ fs[c].kind = "dir" /\ fs[c].in \in L \cup {None, Root}
      BY <2>11, <3>1 DEF StackInv
    <3> QED
      BY <2>9, <3>3, <3>4, <3>5, <3>6, <3>7 DEF StackInv, Unscanned
  <2>15. FreshInv(task', fs)
    <3>1. \A c \in DOMAIN fs : fs[c].in = d => c \notin task.listed \cup {d} /\ \A l \in DOMAIN task.stack : task.stack[l].id # c
      BY <1>1, <2>3, <2>11 DEF WalkInv, Core, StackInv, Level
    <3>2. FreshInv(task, fs)
      BY <1>1, <2>3 DEF WalkInv, Core
    <3>3. \A k \in DOMAIN s : s[k].id = task.stack[k].id /\ k \in DOMAIN task.stack
                              /\ (k # n => s[k].todo = task.stack[k].todo)
      BY <2>1, <2>10 DEF LeavesToDo
    <3> SUFFICES ASSUME NEW k \in DOMAIN s, NEW c \in DOMAIN fs, fs[c].in = s[k].id, fs[c].name \in s[k].todo
                 PROVE  c \notin task.listed \cup {d} /\ \A l \in DOMAIN s : s[l].id # c
      BY <2>9, <2>11 DEF FreshInv
    <3>4. CASE k = n
      BY <2>2, <3>1, <3>3, <3>4
    <3>5. CASE k # n
      <4>1. c \notin task.listed /\ \A l \in DOMAIN task.stack : task.stack[l].id # c
        BY <3>2, <3>3, <3>5 DEF FreshInv
      <4>2. c # d
        BY <2>2, <2>7, <4>1
      <4> QED
        BY <3>3, <4>1, <4>2
    <3> QED
      BY <3>4, <3>5
  <2>16. ComeInv(task', fs)
    <3>1. ComeInv(task, fs)
      BY <1>1, <2>3 DEF WalkInv, Core
    <3>2. \A m \in Newcomers : fs[m].name \in X => m \in task.came /\ (d \in L => m \notin task.late)
      <4> SUFFICES ASSUME NEW m \in Newcomers, fs[m].name \in X PROVE m \in task.came /\ (d \in L => m \notin task.late)
        OBVIOUS
      <4>1. PICK i \in DOMAIN fs : fs[i].in = D /\ fs[i].name = fs[m].name
        BY <2>12
      <4>2. i = m
        BY <1>1, <2>3, <4>1 DEF Tree
      <4>3. D # None
        BY <1>1, <1>4 DEF Tree
      <4> QED
        BY <2>11, <3>1, <4>1, <4>2, <4>3 DEF ComeInv
    <3>3. \A k \in DOMAIN s : /\ k \in DOMAIN task.stack /\ s[k].id = task.stack[k].id
                              /\ (k # n => s[k].todo = task.stack[k].todo) /\ (k = n => s[k].todo = X)
      BY <2>1, <2>10 DEF LeavesToDo
    <3>4. \A k \in DOMAIN s : \A m \in Newcomers : fs[m].name \in s[k].todo => m \in task.came /\ (s[k].id \in L => m \notin task.late)
      <4> SUFFICES ASSUME NEW k \in DOMAIN s, NEW m \in Newcomers, fs[m].name \in s[k].todo
                   PROVE  m \in task.came /\ (s[k].id \in L => m \notin task.late)
        OBVIOUS
      <4>1. CASE k = n
        BY <2>2, <3>2, <3>3, <4>1
      <4>2. CASE k # n
        <5>1. task.stack[k].id \in task.listed
          BY <1>1, <2>1, <3>3, <4>2 DEF WalkInv, Core, StackInv
        <5> QED
          BY <3>1, <3>3, <4>2, <5>1 DEF ComeInv
      <4> QED
        BY <4>1, <4>2
    <3>5. \A m \in task.late : fs[m].in # None => fs[m].in \in L
      BY <2>11, <3>1 DEF ComeInv
    <3> QED
      BY <2>9, <3>1, <3>4, <3>5 DEF ComeInv
  <2>17. LostInv(task', fs)
    BY <1>1, <2>3, <2>9 DEF WalkInv, Core, LostInv
  <2>18. WalkInv(task', world.disk)
    BY <2>3, <2>9, <2>14, <2>15, <2>16, <2>17 DEF WalkInv, Core, EntryInv, Walking
  <2> QED
    BY <1>1, <2>9, <2>18, QuietStep
<1> QED
  BY <1>3, <1>4

\* The next name is taken from the directory on top.
LEMMA NamedHolds ==
    ASSUME CleanerInv, task.step = "look", NEW x \in Cleaner!Top.todo, NEW s,
           s = [task.stack EXCEPT ![Len(task.stack)].todo = Cleaner!Top.todo \ {x}],
           NEW t, DOMAIN t = CleanerFields, t.step \in {"look", "stat"}, t.stack = s, t.listed = task.listed, t.lost = task.lost,
           t.came = task.came, t.late = task.late, t.deleted = task.deleted
    PROVE  /\ Core(t, world.disk) /\ LeavesToDo(task.stack, s, Cleaner!Top.todo \ {x})
           /\ \A n \in Newcomers : world.disk[n].name = x => n \in task.came \ task.late
<1>1. /\ IsSequence(task.stack) /\ Len(task.stack) \in DOMAIN task.stack /\ Cleaner!Top = task.stack[Len(task.stack)]
      /\ Level(task.stack[Len(task.stack)], world.disk, task.listed) /\ Core(task, world.disk)
  BY TopIs DEF CleanerInv, WalkInv, Walking
<1>2. PICK X : X = Cleaner!Top.todo \ {x}
  OBVIOUS
<1>3. LeavesToDo(task.stack, s, X)
  <2>1. DOMAIN task.stack[Len(task.stack)] = {"path", "id", "todo"}
    BY <1>1 DEF Level
  <2>2. LeavesToDo(task.stack, [task.stack EXCEPT ![Len(task.stack)].todo = X], X)
    BY <1>1, <2>1, LeftToDo
  <2> QED
    BY <1>2, <2>2
<1>4. \A k \in DOMAIN s : /\ k \in DOMAIN task.stack /\ s[k].id = task.stack[k].id
                          /\ s[k].todo \subseteq task.stack[k].todo
  BY <1>1, <1>2, <1>3 DEF LeavesToDo
<1>5. \A k \in DOMAIN s : Level(s[k], world.disk, task.listed)
  <2>1. \A k \in DOMAIN task.stack : Level(task.stack[k], world.disk, task.listed)
    BY <1>1 DEF Core, StackInv
  <2>2. \A k \in DOMAIN s : DOMAIN s[k] = {"path", "id", "todo"} /\ s[k].path = task.stack[k].path
    <3> SUFFICES ASSUME NEW k \in DOMAIN s PROVE DOMAIN s[k] = {"path", "id", "todo"} /\ s[k].path = task.stack[k].path
      OBVIOUS
    <3>1. CASE k = Len(task.stack)
      BY <1>3, <3>1 DEF LeavesToDo
    <3>2. CASE k # Len(task.stack)
      <4>1. s[k] = task.stack[k] /\ Level(task.stack[k], world.disk, task.listed)
        BY <1>3, <1>4, <2>1, <3>2 DEF LeavesToDo
      <4> QED
        BY <4>1 DEF Level
    <3> QED
      BY <3>1, <3>2
  <2> SUFFICES ASSUME NEW k \in DOMAIN s PROVE Level(s[k], world.disk, task.listed)
    OBVIOUS
  <2>3. Level(task.stack[k], world.disk, task.listed) /\ DOMAIN s[k] = {"path", "id", "todo"}
        /\ s[k].path = task.stack[k].path /\ s[k].id = task.stack[k].id /\ s[k].todo \subseteq task.stack[k].todo
    BY <1>4, <2>1, <2>2
  <2> QED
    BY <2>3 DEF Level
<1>6. IsSequence(s) /\ s # <<>> /\ DOMAIN s = DOMAIN task.stack /\ Len(s) = Len(task.stack)
  BY <1>1, <1>3 DEF LeavesToDo
<1>7. StackInv(t, world.disk)
  <2>1. /\ StackInv(task, world.disk) /\ task.step \notin Unscanned \cup {"recheck"}
        /\ t.step \notin Unscanned \cup {"recheck"}
    BY <1>1 DEF Core, Unscanned
  <2>2. /\ \A k \in DOMAIN s : s[k].id \in task.listed
        /\ \A k, l \in DOMAIN s : s[k].id = s[l].id => k = l
    BY <1>4, <2>1 DEF StackInv
  <2> QED
    BY <1>5, <1>6, <2>1, <2>2 DEF StackInv
<1>8. FreshInv(t, world.disk)
  BY <1>1, <1>4 DEF Core, FreshInv
<1>9. ComeInv(t, world.disk)
  BY <1>1, <1>4 DEF Core, ComeInv
<1>10. LostInv(t, world.disk)
  BY <1>1 DEF Core, LostInv
<1>11. Cleaner!Top.id \in task.listed
  BY <1>1 DEF Core, StackInv, Unscanned
<1>12. \A n \in Newcomers : world.disk[n].name = x => n \in task.came \ task.late
  BY <1>1, <1>11 DEF Core, ComeInv
<1> QED
  BY <1>2, <1>3, <1>7, <1>8, <1>9, <1>10, <1>12 DEF Core

\* What a name leads to in the directory on top.
LEMMA LookedAt ==
    ASSUME CleanerInv, task.step = "look", Cleaner!TopMatches, NEW x \in Cleaner!Top.todo
    PROVE  LET d == Cleaner!Top.id
               i == Cleaner!lstat(world.disk, Append(Cleaner!Top.path, x))
           IN  i # None => /\ i \in DOMAIN world.disk /\ world.disk[i].in = d /\ world.disk[i].name = x
                           /\ ~world.disk[i].kept /\ i # Root
<1>1. PICK fs : fs = world.disk
  OBVIOUS
<1>2. PICK p : p = Cleaner!Top.path
  OBVIOUS
<1>3. PICK d : d = Cleaner!Top.id
  OBVIOUS
<1>4. Tree(fs) /\ p \in Seq(Text) /\ x \in Text /\ d \in DOMAIN fs /\ fs[d].kind = "dir" /\ ~fs[d].kept
  BY <1>1, <1>2, <1>3, TopIs DEF CleanerInv, Level, Walking
<1>5. d # None /\ Cleaner!lstat(fs, p) = d
  BY <1>1, <1>2, <1>3 DEF Cleaner!TopMatches, Cleaner!_directory_matches, Cleaner!Disk
<1>6. Cleaner!Followed(fs, d) = d
  BY <1>4 DEF Cleaner!Followed
<1>7. PICK i : i = Cleaner!lstat(fs, Append(p, x))
  OBVIOUS
<1>8. i = Cleaner!Held(fs, d, x)
  BY <1>4, <1>5, <1>6, <1>7, LookupInside
<1>9. i # None => i \in DOMAIN fs /\ fs[i].in = d /\ fs[i].name = x
  BY <1>4, <1>8, HeldIs
<1>10. i # None => ~fs[i].kept /\ i # Root
  BY <1>4, <1>5, <1>9 DEF Tree, Cleaner!FileSystem
<1> QED
  BY <1>1, <1>2, <1>3, <1>7, <1>9, <1>10

\* The directory that is entered comes on top.
LEMMA EnteredHolds ==
    ASSUME NEW t, NEW fs, Tree(fs), WalkInv(t, fs), t.step = "stat", NEW i \in DOMAIN fs, fs[i].kind = "dir", ~fs[i].kept,
           i # Root, fs[i].in \in t.listed, i \notin t.listed,
           \A l \in DOMAIN t.stack : t.stack[l].id # i,
           \A k \in DOMAIN t.stack : t.stack[k].id = fs[i].in => fs[i].name \notin t.stack[k].todo,
           NEW path \in Seq(Text), path # <<>>,
           NEW u, DOMAIN u = CleanerFields, u.step = "list", u.stack = Append(t.stack, [path |-> path, id |-> i, todo |-> {}]),
           u.listed = t.listed, u.lost = t.lost, u.came = t.came, u.late = t.late, u.deleted = t.deleted
    PROVE  WalkInv(u, fs)
<1>1. PICK e : e = [path |-> path, id |-> i, todo |-> {}]
  OBVIOUS
<1>2. PICK n : n = Len(t.stack)
  OBVIOUS
<1>3. StackInv(t, fs) /\ FreshInv(t, fs) /\ ComeInv(t, fs) /\ LostInv(t, fs)
  BY DEF WalkInv, Core
<1>4. /\ IsSequence(u.stack) /\ n \in Nat /\ Len(u.stack) = n + 1 /\ u.stack[n + 1] = e /\ DOMAIN u.stack = 1..n + 1
      /\ DOMAIN t.stack = 1..n /\ \A k \in 1..n : u.stack[k] = t.stack[k]
  <2>1. PICK S : t.stack \in Seq(S)
    BY <1>3 DEF StackInv, IsSequence
  <2>2. t.stack \in Seq(S \cup {e})
    BY <2>1
  <2>3. u.stack \in Seq(S \cup {e}) /\ n \in Nat /\ Len(u.stack) = n + 1 /\ u.stack[n + 1] = e
        /\ \A k \in 1..n : u.stack[k] = t.stack[k]
    BY <1>1, <1>2, <2>2
  <2>4. DOMAIN t.stack = 1..n /\ DOMAIN u.stack = 1..n + 1
    BY <1>2, <2>1, <2>3
  <2>5. IsSequence(u.stack)
    BY <2>3 DEF IsSequence
  <2> QED
    BY <2>3, <2>4, <2>5
<1>5. \A k \in DOMAIN u.stack : (k \in DOMAIN t.stack /\ k # n + 1 /\ u.stack[k] = t.stack[k]) \/ (k = n + 1 /\ u.stack[k] = e)
  BY <1>4
<1>6. DOMAIN e = {"path", "id", "todo"} /\ e.path = path /\ e.id = i /\ e.todo = {}
  BY <1>1
<1>7. u.stack # <<>> /\ n + 1 \in DOMAIN u.stack
  <2>1. n + 1 \in 1..n + 1
    BY <1>4
  <2>2. DOMAIN u.stack # {}
    BY <1>4, <2>1, Zenon
  <2>3. DOMAIN <<>> = {}
    OBVIOUS
  <2> QED
    BY <1>4, <2>1, <2>2, <2>3, Zenon
<1>8. Level(e, fs, t.listed)
  BY <1>6 DEF Level
<1>9. StackInv(u, fs)
  <2>1. \A k \in DOMAIN u.stack : Level(u.stack[k], fs, t.listed)
    BY <1>3, <1>5, <1>8 DEF StackInv
  <2>2. \A k, l \in DOMAIN u.stack : u.stack[k].id = u.stack[l].id => k = l
    BY <1>3, <1>5, <1>6 DEF StackInv
  <2>3. \A k \in DOMAIN u.stack : u.stack[k].id \in t.listed \/ k = n + 1
    BY <1>3, <1>5 DEF StackInv, Unscanned
  <2> QED
    BY <1>3, <1>4, <1>6, <1>7, <2>1, <2>2, <2>3 DEF StackInv, Unscanned
<1>10. FreshInv(u, fs)
  BY <1>3, <1>5, <1>6 DEF FreshInv
<1>11. ComeInv(u, fs) /\ LostInv(u, fs)
  BY <1>3, <1>5, <1>6 DEF ComeInv, LostInv
<1> QED
  BY <1>9, <1>10, <1>11 DEF WalkInv, Core, EntryInv, Walking

LEMMA LookKeeps ==
    ASSUME CleanerInv, Cleaner!_delete_directory_contents_Look
    PROVE  CleanerInv' /\ Cleaner!ContainedStep
<1>1. task.step = "look" /\ task.step \in Walking /\ world' = world /\ Tree(world.disk) /\ WalkInv(task, world.disk)
  BY DEF Cleaner!_delete_directory_contents_Look, Walking, CleanerInv
<1>2. CASE Cleaner!Top.todo = {} \/ ~Cleaner!TopMatches
  <2>1. task' = Cleaner!Returned(task, Cleaner!TopMatches) \/ task' = Cleaner!Returned(Cleaner!_record_failure(task), FALSE)
    BY <1>2 DEF Cleaner!_delete_directory_contents_Look
  <2> QED
    BY <1>1, <2>1, EndsHere
<1>3. CASE Cleaner!Top.todo # {} /\ Cleaner!TopMatches
  <2>1. PICK x \in Cleaner!Top.todo : task' = Cleaner!Taken(x)
    BY <1>3 DEF Cleaner!_delete_directory_contents_Look
  <2>2. PICK fs : fs = world.disk
    OBVIOUS
  <2>3. PICK n : n = Len(task.stack)
    OBVIOUS
  <2>4. PICK s : s = [task.stack EXCEPT ![n].todo = Cleaner!Top.todo \ {x}]
    OBVIOUS
  <2>5. PICK path : path = Append(Cleaner!Top.path, x)
    OBVIOUS
  <2>6. PICK i : i = Cleaner!lstat(fs, path)
    OBVIOUS
  <2>7. /\ DOMAIN task = CleanerFields /\ Level(Cleaner!Top, fs, task.listed) /\ Cleaner!Top = task.stack[n]
        /\ n \in DOMAIN task.stack
    BY <1>1, <2>2, <2>3, TopIs
  <2>8. task' = [task EXCEPT !.step = "stat", !.stack = s, !.entry = path, !.raced = FALSE]
    BY <2>1, <2>3, <2>4, <2>5, <2>7 DEF Cleaner!Taken, CleanerFields
  <2>9. /\ DOMAIN task' = CleanerFields /\ task'.step = "stat" /\ task'.stack = s /\ task'.listed = task.listed
        /\ task'.lost = task.lost /\ task'.came = task.came /\ task'.late = task.late /\ task'.deleted = task.deleted
        /\ task'.targets = task.targets /\ task'.entry = path
    BY <2>7, <2>8 DEF CleanerFields
  <2>10. /\ Core(task', fs) /\ LeavesToDo(task.stack, s, Cleaner!Top.todo \ {x})
         /\ \A m \in Newcomers : fs[m].name = x => m \in task.came \ task.late
    BY <1>1, <2>1, <2>2, <2>3, <2>4, <2>9, NamedHolds
  <2>11. x \in Text /\ path \in Seq(Text) /\ path # <<>> /\ path[Len(path)] = x
    BY <2>1, <2>5, <2>7 DEF Level
  <2>12. i # None => /\ i \in DOMAIN fs /\ fs[i].in = Cleaner!Top.id /\ fs[i].name = x
                     /\ ~fs[i].kept /\ i # Root
    BY <1>1, <1>3, <2>1, <2>2, <2>5, <2>6, LookedAt
  <2>13. \A c \in DOMAIN fs : fs[c].in = Cleaner!Top.id /\ fs[c].name = x =>
             c \notin task.listed /\ \A l \in DOMAIN task.stack : task.stack[l].id # c
    BY <1>1, <2>1, <2>2, <2>7 DEF WalkInv, Core, FreshInv
  <2>14. /\ Len(s) = n /\ s[n].todo = Cleaner!Top.todo \ {x} /\ s[n].id = Cleaner!Top.id
         /\ \A l \in DOMAIN s : l \in DOMAIN task.stack /\ s[l].id = task.stack[l].id
    BY <2>3, <2>7, <2>10 DEF LeavesToDo
  <2>15. NextIs(task', fs, s[n], x)
    BY <2>6, <2>9, <2>12, <2>13, <2>14 DEF NextIs
  <2>16. EntryInv(task', fs)
    <3>1. Unkept(fs, i)
      BY <2>12 DEF Unkept
    <3>2. task'.stack[Len(task'.stack)] = s[n] /\ task'.entry[Len(task'.entry)] = x
      BY <2>9, <2>11, <2>14
    <3> QED
      BY <2>6, <2>9, <2>10, <2>11, <2>15, <3>1, <3>2 DEF EntryInv
  <2>17. WalkInv(task', world.disk)
    BY <2>2, <2>9, <2>10, <2>16 DEF WalkInv, Walking
  <2> QED
    BY <1>1, <2>9, <2>17, QuietStep
<1> QED
  BY <1>2, <1>3

\* A directory that is found in another one, for which a directory was replaced, leads it astray.
LEMMA StatKeeps ==
    ASSUME CleanerInv, Cleaner!_delete_directory_contents_Stat
    PROVE  (CleanerInv' \/ GoesAstray) /\ Cleaner!ContainedStep
<1>1. task.step = "stat" /\ task.step \in Walking /\ world' = world /\ Tree(world.disk) /\ WalkInv(task, world.disk)
  BY DEF Cleaner!_delete_directory_contents_Stat, Walking, CleanerInv
<1>2. PICK fs : fs = world.disk
  OBVIOUS
<1>3. PICK i : i = Cleaner!lstat(fs, task.entry)
  OBVIOUS
<1>4. PICK top : top = task.stack[Len(task.stack)]
  OBVIOUS
<1>5. PICK x : x = task.entry[Len(task.entry)]
  OBVIOUS
<1>6. /\ DOMAIN task = CleanerFields /\ Level(top, fs, task.listed) /\ Cleaner!Top = top
      /\ Len(task.stack) \in DOMAIN task.stack
  BY <1>1, <1>2, <1>4, TopIs
<1>7. /\ task.entry \in Seq(Text) /\ task.entry # <<>> /\ NextIs(task, fs, top, x) /\ EntryInv(task, fs) /\ Core(task, fs)
  BY <1>1, <1>2, <1>4, <1>5 DEF WalkInv, EntryInv
<1>8. i # None => i \in DOMAIN fs /\ fs[i].in # None /\ fs[i].name = x
  BY <1>1, <1>2, <1>3, <1>5, <1>7, LookupIs
<1>9. \/ i = None /\ task' = [Cleaner!_record_failure(task) EXCEPT !.step = "look", !.entry = None]
      \/ i # None /\ fs[i].kind = "dir" /\ task' = Cleaner!Enter(i)
      \/ i # None /\ fs[i].kind # "dir" /\ task' = [task EXCEPT !.step = "act", !.link = fs[i].kind = "link"]
  BY <1>2, <1>3 DEF Cleaner!_delete_directory_contents_Stat, Cleaner!Disk
<1>10. CASE i = None /\ task' = [Cleaner!_record_failure(task) EXCEPT !.step = "look", !.entry = None]
  <2>1. /\ DOMAIN task' = CleanerFields /\ task'.step = "look" /\ task'.targets = task.targets /\ task'.lost = task.lost
        /\ task'.stack = task.stack /\ task'.listed = task.listed /\ task'.came = task.came /\ task'.late = task.late
        /\ task'.deleted = task.deleted
    BY <1>6, <1>10 DEF CleanerFields, Cleaner!_record_failure
  <2>2. Core(task', world.disk)
    BY <1>1, <1>2, <1>7, <2>1, SameCore DEF Walking, Unscanned
  <2>3. WalkInv(task', world.disk)
    BY <2>1, <2>2 DEF WalkInv, EntryInv, Walking
  <2> QED
    BY <1>1, <2>1, <2>3, QuietStep
<1>11. CASE i # None /\ fs[i].kind = "dir" /\ task' = Cleaner!Enter(i)
  <2>1. PICK e : e = [path |-> task.entry, id |-> i, todo |-> {}]
    OBVIOUS
  <2>2. PICK b : b = (task.strayed \/ (task.raced /\ fs[i].in # top.id))
    OBVIOUS
  <2>3. task' = [task EXCEPT !.step = "list", !.entry = None, !.strayed = b, !.stack = Append(task.stack, e)]
    BY <1>2, <1>6, <1>11, <2>1, <2>2 DEF Cleaner!Enter, Cleaner!Disk, CleanerFields
  <2>4. /\ DOMAIN task' = CleanerFields /\ task'.step = "list" /\ task'.targets = task.targets /\ task'.lost = task.lost
        /\ task'.listed = task.listed /\ task'.came = task.came /\ task'.late = task.late /\ task'.deleted = task.deleted
        /\ task'.stack = Append(task.stack, e) /\ task'.strayed = b
    BY <1>6, <2>3 DEF CleanerFields
  <2>5. CASE fs[i].in = top.id
    <3>1. ~fs[i].kept /\ i # Root
      BY <1>1, <1>2, <1>6, <1>8, <1>11, <2>5 DEF Level, Tree, Cleaner!FileSystem
    <3>2. top.id \in task.listed
      BY <1>1, <1>4, <1>6, <1>7 DEF Core, StackInv, Unscanned
    <3>3. i \notin task.listed /\ \A l \in DOMAIN task.stack : task.stack[l].id # i
      BY <1>7, <1>8, <1>11, <2>5 DEF NextIs
    <3>4. \A k \in DOMAIN task.stack : task.stack[k].id = top.id => x \notin task.stack[k].todo
      BY <1>4, <1>6, <1>7 DEF Core, StackInv, NextIs
    <3>5. WalkInv(task', fs)
      <4>1. /\ i \in DOMAIN fs /\ fs[i].in \in task.listed /\ i \notin task.listed
            /\ \A k \in DOMAIN task.stack : task.stack[k].id = fs[i].in => fs[i].name \notin task.stack[k].todo
        BY <1>8, <1>11, <2>5, <3>2, <3>3, <3>4
      <4>2. task'.stack = Append(task.stack, [path |-> task.entry, id |-> i, todo |-> {}])
        BY <2>1, <2>4
      <4>3. Tree(fs) /\ WalkInv(task, fs)
        BY <1>1, <1>2
      <4> HIDE DEF CleanerFields
      <4> QED
        BY <1>1, <1>7, <1>11, <2>4, <3>1, <3>3, <4>1, <4>2, <4>3, EnteredHolds
    <3> QED
      BY <1>1, <1>2, <2>4, <3>5, QuietStep
  <2>6. CASE fs[i].in # top.id
    <3>1. task.raced
      BY <1>3, <1>7, <1>11, <2>6 DEF NextIs
    <3>2. b
      BY <2>2, <2>6, <3>1, Zenon
    <3>3. world.disk[Cleaner!lstat(world.disk, task.entry)].in # Cleaner!Top.id
      BY <1>2, <1>3, <1>6, <2>6
    <3> QED
      BY <1>1, <2>4, <3>2, <3>3, Zenon DEF Cleaner!ContainedStep, GoesAstray
  <2> QED
    BY <2>5, <2>6
<1>12. CASE i # None /\ fs[i].kind # "dir" /\ task' = [task EXCEPT !.step = "act", !.link = fs[i].kind = "link"]
  <2>1. /\ DOMAIN task' = CleanerFields /\ task'.step = "act" /\ task'.targets = task.targets /\ task'.lost = task.lost
        /\ task'.stack = task.stack /\ task'.listed = task.listed /\ task'.came = task.came /\ task'.late = task.late
        /\ task'.deleted = task.deleted /\ task'.entry = task.entry /\ task'.raced = task.raced
    BY <1>6, <1>12 DEF CleanerFields
  <2>2. Core(task', world.disk)
    BY <1>1, <1>2, <1>7, <2>1, SameCore DEF Walking, Unscanned
  <2>3. EntryInv(task', world.disk)
    BY <1>1, <1>2, <1>7, <2>1 DEF EntryInv
  <2>4. WalkInv(task', world.disk)
    BY <2>1, <2>2, <2>3 DEF WalkInv, Walking
  <2> QED
    BY <1>1, <2>1, <2>4, QuietStep
<1> QED
  BY <1>9, <1>10, <1>11, <1>12

\* Directories are only ever taken away from where they are.
LEMMA StackSteady ==
    ASSUME NEW t, NEW fs, NEW fs2, StackInv(t, fs), DOMAIN fs2 = DOMAIN fs,
           \A i \in DOMAIN fs : /\ fs2[i].kind = fs[i].kind /\ fs2[i].kept = fs[i].kept
                                /\ fs[i].kind = "dir" => fs2[i].in \in {fs[i].in, None},
           NEW u, u.stack = t.stack, u.listed = t.listed,
           u.step = t.step \/ (t.step \in {"act", "rmdir"} /\ u.step = "look")
    PROVE  StackInv(u, fs2)
<1>1. \A k \in DOMAIN t.stack : Level(t.stack[k], fs2, t.listed)
  BY DEF StackInv, Level
<1> QED
  BY <1>1 DEF StackInv, Unscanned, Walking

LEMMA RemovedKeeps ==
    ASSUME CleanerInv, task.step \in {"act", "rmdir"}, NEW p \in Seq(Text), p # <<>>,
           NEW j \in {Cleaner!lstat(world.disk, p), None}, j \notin task.late, j \in Newcomers => j \in task.came,
           j \in DOMAIN world.disk /\ world.disk[j].kept => task.raced, Cleaner!Removed(j, "look")
    PROVE  CleanerInv' /\ Cleaner!ContainedStep
<1>1. task.step \in Walking /\ Tree(world.disk) /\ WalkInv(task, world.disk) /\ DOMAIN task = CleanerFields
      /\ DOMAIN world = {"disk", "machine", "changes"}
  BY TopIs DEF Walking, CleanerInv
<1>2. CASE j # None /\ ~world.disk[j].locked
  <2>1. PICK fs : fs = world.disk
    OBVIOUS
  <2>2. PICK fs2 : fs2 = [fs EXCEPT ![j].in = None]
    OBVIOUS
  <2>3. world' = [world EXCEPT !.disk = fs2]
    BY <1>1, <1>2, <2>1, <2>2 DEF Cleaner!Removed, Cleaner!Disk
  <2>4. task' = [task EXCEPT !.step = "look", !.entry = None, !.deleted = @ + 1, !.lost = @ \cup {j}]
    BY <1>2 DEF Cleaner!Removed, Cleaner!Disk
  <2>5. world'.disk = fs2 /\ DOMAIN world' = {"disk", "machine", "changes"}
    BY <1>1, <2>3
  <2>6. /\ DOMAIN task' = CleanerFields /\ task'.step = "look" /\ task'.listed = task.listed /\ task'.lost = task.lost \cup {j}
        /\ task'.came = task.came /\ task'.late = task.late /\ task'.targets = task.targets
        /\ task'.stack = task.stack /\ task'.deleted = task.deleted + 1
    BY <1>1, <2>4 DEF CleanerFields
  <2>7. j \in DOMAIN fs /\ fs[j].in # None
    BY <1>1, <1>2, <2>1, LookupIs
  <2>8. Puts(fs, fs2, j, None)
    BY <1>1, <2>1, <2>2, <2>7, PutsIs
  <2>9. Tree(fs2)
    BY <1>1, <2>1, <2>7, <2>8, RemovedTree
  <2>10. DOMAIN fs2 = DOMAIN fs /\ \A i \in DOMAIN fs : /\ fs2[i].kind = fs[i].kind /\ fs2[i].kept = fs[i].kept
                                                       /\ fs2[i].name = fs[i].name
                                                       /\ fs2[i].in = IF i = j THEN None ELSE fs[i].in
    BY <2>8 DEF Puts
  <2>11. StackInv(task, fs) /\ FreshInv(task, fs) /\ ComeInv(task, fs) /\ LostInv(task, fs) /\ Tree(fs)
    BY <1>1, <2>1 DEF WalkInv, Core
  <2>12. StackInv(task', fs2)
    <3>1. \A i \in DOMAIN fs : /\ fs2[i].kind = fs[i].kind /\ fs2[i].kept = fs[i].kept
                               /\ fs[i].kind = "dir" => fs2[i].in \in {fs[i].in, None}
      BY <2>10
    <3> QED
      BY <2>6, <2>10, <2>11, <3>1, StackSteady
  <2>13. FreshInv(task', fs2)
    <3>1. \A k \in DOMAIN task.stack : task.stack[k].id # None
      BY <2>11 DEF StackInv, Level, Tree
    <3> QED
      BY <2>6, <2>10, <2>11, <3>1 DEF FreshInv
  <2>14. ComeInv(task', fs2)
    <3>1. \A n \in Newcomers : n \in DOMAIN fs
      BY <2>11 DEF Tree
    <3>2. \A n \in Newcomers \ task.came : fs2[n].in = None
      BY <2>10, <2>11, <3>1 DEF ComeInv
    <3>3. \A n \in task.late : fs2[n].in # None => fs2[n].in \in task.listed
      BY <2>10, <2>11, <3>1 DEF ComeInv
    <3>4. \A k \in DOMAIN task.stack : \A n \in Newcomers : fs2[n].name \in task.stack[k].todo =>
              n \in task.came /\ (task.stack[k].id \in task.listed => n \notin task.late)
      BY <2>10, <2>11, <3>1 DEF ComeInv
    <3> QED
      BY <2>6, <2>11, <3>2, <3>3, <3>4 DEF ComeInv
  <2>15. LostInv(task', fs2)
    <3>1. j \notin task.lost
      BY <2>7, <2>11 DEF LostInv
    <3>2. IsFiniteSet(task.lost)
      BY <2>11 DEF LostInv
    <3>3. IsFiniteSet(task.lost \cup {j}) /\ Cardinality(task.lost \cup {j}) = Cardinality(task.lost) + 1
      BY <3>1, <3>2, FS_AddElement
    <3>4. \A i \in task.lost \cup {j} : i \in DOMAIN fs2 /\ fs2[i].in = None
      BY <2>7, <2>10, <2>11 DEF LostInv
    <3> QED
      BY <2>6, <2>11, <3>3, <3>4 DEF LostInv
  <2>16. WalkInv(task', fs2)
    BY <2>6, <2>12, <2>13, <2>14, <2>15 DEF WalkInv, Core, EntryInv, Walking
  <2>17. Cleaner!ContainedStep
    BY <2>1, <2>6, <2>7 DEF Cleaner!ContainedStep, Cleaner!Disk
  <2>18. task.targets = {}
    BY <1>1 DEF CleanerInv
  <2>19. Cleaner!TargetsAreSafe'
    BY <2>6, <2>18 DEF Cleaner!TargetsAreSafe
  <2> QED
    BY <2>5, <2>6, <2>9, <2>16, <2>17, <2>18, <2>19 DEF CleanerInv
<1>3. CASE ~(j # None /\ ~world.disk[j].locked)
  <2>1. task' = [Cleaner!_record_failure(task) EXCEPT !.step = "look", !.entry = None] /\ world' = world
    BY <1>3 DEF Cleaner!Removed, Cleaner!Disk
  <2>2. /\ DOMAIN task' = CleanerFields /\ task'.step = "look" /\ task'.targets = task.targets /\ task'.lost = task.lost
        /\ task'.stack = task.stack /\ task'.listed = task.listed /\ task'.came = task.came /\ task'.late = task.late
        /\ task'.deleted = task.deleted
    BY <1>1, <2>1 DEF CleanerFields, Cleaner!_record_failure
  <2>3. Core(task', world.disk)
    BY <1>1, <2>2, SameCore DEF WalkInv, Walking, Unscanned
  <2>4. WalkInv(task', world.disk)
    BY <2>2, <2>3 DEF WalkInv, EntryInv, Walking
  <2> QED
    BY <1>1, <2>1, <2>2, <2>4, QuietStep
<1> QED
  BY <1>2, <1>3

LEMMA ActKeeps ==
    ASSUME CleanerInv, Cleaner!_delete_directory_contents_Act
    PROVE  CleanerInv' /\ Cleaner!ContainedStep
<1>1. task.step = "act" /\ Tree(world.disk) /\ WalkInv(task, world.disk)
  BY DEF Cleaner!_delete_directory_contents_Act, CleanerInv
<1>2. PICK p : p = task.entry
  OBVIOUS
<1>3. PICK i : i = Cleaner!lstat(world.disk, p)
  OBVIOUS
<1>4. PICK j \in {i, None} : Cleaner!Removed(j, "look")
  BY <1>2, <1>3 DEF Cleaner!_delete_directory_contents_Act, Cleaner!_remove_link_or_reparse, Cleaner!Disk
<1>5. /\ p \in Seq(Text) /\ p # <<>>
      /\ \A n \in Newcomers : world.disk[n].name = p[Len(p)] => n \in task.came \ task.late
      /\ ~task.raced => Unkept(world.disk, i)
  BY <1>1, <1>2, <1>3 DEF WalkInv, EntryInv
<1>6. i # None => i \in DOMAIN world.disk /\ world.disk[i].name = p[Len(p)]
  BY <1>1, <1>3, <1>5, LookupIs
<1>7. None \notin DOMAIN world.disk /\ task.late \subseteq Newcomers /\ Newcomers \subseteq DOMAIN world.disk
  BY <1>1 DEF Tree, WalkInv, Core, ComeInv
<1>8. /\ j \notin task.late /\ (j \in Newcomers => j \in task.came)
      /\ (j \in DOMAIN world.disk /\ world.disk[j].kept => task.raced)
  BY <1>4, <1>5, <1>6, <1>7 DEF Unkept
<1> QED
  BY <1>1, <1>3, <1>4, <1>5, <1>8, RemovedKeeps

LEMMA RmdirKeeps ==
    ASSUME CleanerInv, Cleaner!_delete_directory_contents_Rmdir
    PROVE  CleanerInv' /\ Cleaner!ContainedStep
<1>1. task.step = "rmdir" /\ Tree(world.disk) /\ WalkInv(task, world.disk)
  BY DEF Cleaner!_delete_directory_contents_Rmdir, CleanerInv
<1>2. PICK p : p = task.entry[1]
  OBVIOUS
<1>3. PICK i : i = Cleaner!lstat(world.disk, p)
  OBVIOUS
<1>4. PICK j \in {i, None} : Cleaner!Removed(j, "look") /\ (j # None => world.disk[j].kind = "dir")
  BY <1>2, <1>3 DEF Cleaner!_delete_directory_contents_Rmdir, Cleaner!Disk
<1>5. p \in Seq(Text) /\ p # <<>> /\ (~task.raced => Unkept(world.disk, i))
  BY <1>1, <1>2, <1>3 DEF WalkInv, EntryInv
<1>6. None \notin DOMAIN world.disk /\ task.late \subseteq Newcomers /\ Newcomers \subseteq DOMAIN world.disk
      /\ \A n \in Newcomers : world.disk[n].kind = "file"
  BY <1>1 DEF Tree, WalkInv, Core, ComeInv
<1>7. j \notin Newcomers
  BY <1>4, <1>6
<1>8. /\ j \notin task.late /\ (j \in Newcomers => j \in task.came)
      /\ (j \in DOMAIN world.disk /\ world.disk[j].kept => task.raced)
  BY <1>4, <1>5, <1>6, <1>7 DEF Unkept
<1> QED
  BY <1>1, <1>3, <1>4, <1>5, <1>8, RemovedKeeps

\* Another program has changed the disk.
LEMMA ChangeKeeps ==
    ASSUME CleanerInv, NEW fs2, Tree(fs2), world' = [world EXCEPT !.changes = @ + 1, !.disk = fs2],
           DOMAIN task' = CleanerFields, task'.step = task.step, task'.stack = task.stack, task'.entry = task.entry,
           task'.listed = task.listed, task'.lost = task.lost, task'.deleted = task.deleted, task'.targets = task.targets,
           Core(task', fs2), EntryInv(task', fs2)
    PROVE  CleanerInv' /\ Cleaner!ContainedStep
<1>1. DOMAIN world = {"disk", "machine", "changes"} /\ WalkInv(task, world.disk) /\ Cleaner!TargetsAreSafe
  BY DEF CleanerInv
<1>2. DOMAIN world' = {"disk", "machine", "changes"} /\ world'.disk = fs2 /\ world'.machine = world.machine
  BY <1>1
<1>3. WalkInv(task', fs2)
  BY <1>1 DEF WalkInv
<1>4. Cleaner!TargetsAreSafe'
  BY <1>1, <1>2 DEF Cleaner!TargetsAreSafe
<1>5. Cleaner!ContainedStep
  BY DEF Cleaner!ContainedStep
<1> QED
  BY <1>2, <1>3, <1>4, <1>5 DEF CleanerInv

\* A path that was seen to lead to nothing of others still does.
LEMMA EntrySteady ==
    ASSUME NEW t, NEW fs, NEW fs2, Tree(fs), Tree(fs2), Unswapped(fs, fs2), EntryInv(t, fs),
           DOMAIN fs2 = DOMAIN fs, \A i \in DOMAIN fs : fs2[i].kept = fs[i].kept /\ fs2[i].name = fs[i].name,
           NEW u, u.step = t.step, u.entry = t.entry, u.raced = t.raced, u.stack = t.stack, u.listed = t.listed,
           StackInv(t, fs), t.step \in Walking => Len(t.stack) \in DOMAIN t.stack,
           \A n \in t.came \ t.late : n \in u.came \ u.late
    PROVE  EntryInv(u, fs2)
<1>1. Newcomers \subseteq DOMAIN fs /\ \A n \in Newcomers : ~fs2[n].kept
  BY DEF Tree
<1>2. ASSUME NEW p \in Seq(Text), Unkept(fs, Cleaner!lstat(fs, p))
      PROVE  Unkept(fs2, Cleaner!lstat(fs2, p))
  <2>1. Cleaner!lstat(fs2, p) \in {Cleaner!lstat(fs, p), None} \cup Newcomers
    BY LookupSteady
  <2> QED
    BY <1>1, <1>2, <2>1 DEF Unkept
<1>3. \A i \in DOMAIN fs : fs2[i].kind = fs[i].kind /\ (fs[i].kind = "dir" => fs2[i].in \in {fs[i].in, None})
  BY <1>1 DEF Unswapped, Puts, Tree
<1>4. ASSUME t.step = "stat" PROVE NextIs(u, fs2, t.stack[Len(t.stack)], t.entry[Len(t.entry)])
  <2>1. PICK top : top = t.stack[Len(t.stack)]
    OBVIOUS
  <2>2. PICK x : x = t.entry[Len(t.entry)]
    OBVIOUS
  <2>3. NextIs(t, fs, top, x) /\ t.entry \in Seq(Text) /\ t.entry # <<>>
    BY <1>4, <2>1, <2>2 DEF EntryInv
  <2>4. top.id \in DOMAIN fs /\ top.id # None
    BY <1>4, <2>1 DEF StackInv, Level, Tree, Walking
  <2>5. ASSUME NEW c \in DOMAIN fs2, fs2[c].in = top.id, fs2[c].name = x
        PROVE  c \notin t.listed /\ \A l \in DOMAIN t.stack : t.stack[l].id # c
    <3>1. CASE fs[c].kind = "dir"
      BY <1>3, <2>3, <2>4, <2>5, <3>1 DEF NextIs
    <3>2. CASE fs[c].kind # "dir"
      BY <3>2 DEF StackInv, Level
    <3> QED
      BY <3>1, <3>2
  <2>6. ASSUME ~t.raced, NEW i, i = Cleaner!lstat(fs2, t.entry), i # None, fs2[i].kind = "dir" PROVE fs2[i].in = top.id
    <3>1. i \in DOMAIN fs2 /\ fs2[i].in # None
      BY <2>3, <2>6, LookupIs
    <3>2. i \notin Newcomers
      BY <2>6 DEF Tree
    <3>3. i = Cleaner!lstat(fs, t.entry)
      BY <2>3, <2>6, <3>2, LookupSteady
    <3> QED
      BY <1>3, <2>3, <2>6, <3>1, <3>3 DEF NextIs
  <2> QED
    BY <2>1, <2>2, <2>3, <2>5, <2>6 DEF NextIs
<1> QED
  BY <1>1, <1>2, <1>4 DEF EntryInv

LEMMA VanishKeeps ==
    ASSUME CleanerInv, Cleaner!Vanish
    PROVE  CleanerInv' /\ Cleaner!ContainedStep
<1>1. PICK fs : fs = world.disk
  OBVIOUS
<1>2. Tree(fs) /\ WalkInv(task, fs) /\ DOMAIN task = CleanerFields
  BY <1>1 DEF CleanerInv, WalkInv
<1>3. PICK i \in DOMAIN fs : fs[i].kind # "dir" /\ fs[i].in # None /\ Cleaner!Changed([fs EXCEPT ![i].in = None])
                             /\ task' = [task EXCEPT !.quiet = FALSE]
  BY <1>1 DEF Cleaner!Vanish, Cleaner!Disk
<1>4. PICK fs2 : fs2 = [fs EXCEPT ![i].in = None]
  OBVIOUS
<1>5. world' = [world EXCEPT !.changes = @ + 1, !.disk = fs2]
  BY <1>3, <1>4 DEF Cleaner!Changed
<1>6. Puts(fs, fs2, i, None)
  BY <1>2, <1>4, PutsIs
<1>7. Tree(fs2)
  BY <1>2, <1>6, RemovedTree
<1>8. DOMAIN fs2 = DOMAIN fs /\ \A j \in DOMAIN fs : /\ fs2[j].kind = fs[j].kind /\ fs2[j].kept = fs[j].kept
                                                    /\ fs2[j].name = fs[j].name
                                                    /\ fs2[j].in = IF j = i THEN None ELSE fs[j].in
  BY <1>6 DEF Puts
<1>9. /\ DOMAIN task' = CleanerFields /\ task'.step = task.step /\ task'.stack = task.stack /\ task'.entry = task.entry
      /\ task'.listed = task.listed /\ task'.lost = task.lost /\ task'.deleted = task.deleted /\ task'.targets = task.targets
      /\ task'.came = task.came /\ task'.late = task.late /\ task'.raced = task.raced
  BY <1>2, <1>3 DEF CleanerFields
<1>10. StackInv(task, fs) /\ FreshInv(task, fs) /\ ComeInv(task, fs) /\ LostInv(task, fs)
  BY <1>2 DEF WalkInv, Core
<1>11. StackInv(task', fs2)
  <2>1. \A j \in DOMAIN fs : /\ fs2[j].kind = fs[j].kind /\ fs2[j].kept = fs[j].kept
                             /\ fs[j].kind = "dir" => fs2[j].in \in {fs[j].in, None}
    BY <1>8
  <2> QED
    BY <1>8, <1>9, <1>10, <2>1, StackSteady
<1>12. FreshInv(task', fs2)
  <2>1. \A k \in DOMAIN task.stack : task.stack[k].id # None
    BY <1>2, <1>10 DEF StackInv, Level, Tree
  <2> QED
    BY <1>8, <1>9, <1>10, <2>1 DEF FreshInv
<1>13. Newcomers \subseteq DOMAIN fs
  BY <1>2 DEF Tree
<1>14. ComeInv(task', fs2)
  BY <1>8, <1>9, <1>10, <1>13 DEF ComeInv
<1>15. LostInv(task', fs2)
  BY <1>8, <1>9, <1>10 DEF LostInv
<1>16. EntryInv(task', fs2)
  <2>0. task.step \in Walking => Len(task.stack) \in DOMAIN task.stack
    BY TopIs
  <2>1. Unswapped(fs, fs2) /\ EntryInv(task, fs)
    BY <1>2, <1>6 DEF Unswapped, WalkInv
  <2> QED
    BY <1>2, <1>7, <1>8, <1>9, <1>10, <2>0, <2>1, EntrySteady
<1> QED
  BY <1>5, <1>7, <1>9, <1>11, <1>12, <1>14, <1>15, <1>16, ChangeKeeps DEF Core

LEMMA ArriveKeeps ==
    ASSUME CleanerInv, Cleaner!Arrive
    PROVE  CleanerInv' /\ Cleaner!ContainedStep
<1>1. PICK fs : fs = world.disk
  OBVIOUS
<1>2. Tree(fs) /\ WalkInv(task, fs) /\ DOMAIN task = CleanerFields
  BY <1>1 DEF CleanerInv, WalkInv
<1>3. PICK n \in Newcomers \ task.came, d \in DOMAIN fs \ {Root} :
        /\ fs[d].kind = "dir" /\ fs[d].in # None /\ Cleaner!Changed([fs EXCEPT ![n].in = d])
        /\ task' = [task EXCEPT !.came = @ \cup {n}, !.late = IF d \in task.listed THEN @ \cup {n} ELSE @,
                                !.quiet = FALSE]
  BY <1>1 DEF Cleaner!Arrive, Cleaner!Disk, Root
<1>4. PICK fs2 : fs2 = [fs EXCEPT ![n].in = d]
  OBVIOUS
<1>5. world' = [world EXCEPT !.changes = @ + 1, !.disk = fs2]
  BY <1>3, <1>4 DEF Cleaner!Changed
<1>6. Newcomers \subseteq DOMAIN fs /\ fs[n].kind = "file"
  BY <1>2, <1>3 DEF Tree
<1>7. Puts(fs, fs2, n, d)
  BY <1>2, <1>4, <1>6, PutsIs
<1>8. Tree(fs2)
  BY <1>2, <1>3, <1>7, ArrivedTree
<1>9. DOMAIN fs2 = DOMAIN fs /\ \A j \in DOMAIN fs : /\ fs2[j].kind = fs[j].kind /\ fs2[j].kept = fs[j].kept
                                                    /\ fs2[j].name = fs[j].name
                                                    /\ fs2[j].in = IF j = n THEN d ELSE fs[j].in
  BY <1>7 DEF Puts
<1>10. PICK late : late = IF d \in task.listed THEN task.late \cup {n} ELSE task.late
  OBVIOUS
<1>11. /\ DOMAIN task' = CleanerFields /\ task'.step = task.step /\ task'.stack = task.stack /\ task'.entry = task.entry
       /\ task'.listed = task.listed /\ task'.lost = task.lost /\ task'.deleted = task.deleted /\ task'.targets = task.targets
       /\ task'.came = task.came \cup {n} /\ task'.late = late /\ task'.raced = task.raced
  BY <1>2, <1>3, <1>10 DEF CleanerFields
<1>12. StackInv(task, fs) /\ FreshInv(task, fs) /\ ComeInv(task, fs) /\ LostInv(task, fs)
  BY <1>2 DEF WalkInv, Core
<1>13. \A k \in DOMAIN task.stack : fs[n].name \notin task.stack[k].todo
  BY <1>12 DEF ComeInv
<1>14. StackInv(task', fs2)
  <2>1. \A j \in DOMAIN fs : /\ fs2[j].kind = fs[j].kind /\ fs2[j].kept = fs[j].kept
                             /\ fs[j].kind = "dir" => fs2[j].in \in {fs[j].in, None}
    BY <1>6, <1>9
  <2> QED
    BY <1>9, <1>11, <1>12, <2>1, StackSteady
<1>15. FreshInv(task', fs2)
  BY <1>9, <1>11, <1>12, <1>13 DEF FreshInv
<1>16. ComeInv(task', fs2)
  <2>1. late \subseteq task.came \cup {n} /\ task.came \cup {n} \subseteq Newcomers
    BY <1>10, <1>12 DEF ComeInv
  <2>2. \A m \in Newcomers \ (task.came \cup {n}) : fs2[m].in = None
    BY <1>6, <1>9, <1>12 DEF ComeInv
  <2>3. task.lost \cap late = {} /\ task.lost \cap Newcomers \subseteq task.came \cup {n}
    BY <1>10, <1>12 DEF ComeInv
  <2>4. \A m \in late : fs2[m].in # None => fs2[m].in \in task.listed
    BY <1>6, <1>9, <1>10, <1>12 DEF ComeInv
  <2>5. \A k \in DOMAIN task.stack : \A m \in Newcomers : fs2[m].name \in task.stack[k].todo =>
            m \in task.came \cup {n} /\ (task.stack[k].id \in task.listed => m \notin late)
    BY <1>6, <1>9, <1>10, <1>12, <1>13 DEF ComeInv
  <2> QED
    BY <1>11, <2>1, <2>2, <2>3, <2>4, <2>5 DEF ComeInv
<1>17. LostInv(task', fs2)
  <2>1. n \notin task.lost
    BY <1>12 DEF ComeInv
  <2> QED
    BY <1>9, <1>11, <1>12, <2>1 DEF LostInv
<1>18. EntryInv(task', fs2)
  <2>1. Unswapped(fs, fs2) /\ EntryInv(task, fs)
    BY <1>2, <1>7 DEF Unswapped, WalkInv
  <2>2. \A m \in task.came \ task.late : m \in task'.came \ task'.late
    BY <1>10, <1>11
  <2>3. task.step \in Walking => Len(task.stack) \in DOMAIN task.stack
    BY TopIs
  <2> QED
    BY <1>2, <1>8, <1>9, <1>11, <1>12, <2>1, <2>2, <2>3, EntrySteady
<1> QED
  BY <1>5, <1>8, <1>11, <1>14, <1>15, <1>16, <1>17, <1>18, ChangeKeeps DEF Core

LEMMA SwapKeeps ==
    ASSUME CleanerInv, Cleaner!Swap
    PROVE  CleanerInv' /\ Cleaner!ContainedStep
<1>1. PICK fs : fs = world.disk
  OBVIOUS
<1>2. Tree(fs) /\ WalkInv(task, fs) /\ DOMAIN task = CleanerFields
  BY <1>1 DEF CleanerInv, WalkInv
<1>3. PICK d \in DOMAIN fs :
        /\ fs[d].kind = "dir" /\ fs[d].in # None /\ Swapped \notin task.lost
        /\ Cleaner!Changed([fs EXCEPT ![d].in = None, ![Swapped].in = fs[d].in, ![Swapped].name = fs[d].name])
        /\ task' = [task EXCEPT !.raced = TRUE, !.quiet = FALSE]
  BY <1>1 DEF Cleaner!Swap, Cleaner!Disk
<1>4. PICK fs2 : fs2 = [fs EXCEPT ![d].in = None, ![Swapped].in = fs[d].in, ![Swapped].name = fs[d].name]
  OBVIOUS
<1>5. world' = [world EXCEPT !.changes = @ + 1, !.disk = fs2]
  BY <1>3, <1>4 DEF Cleaner!Changed
<1>6. /\ Newcomers \cup {Swapped} \subseteq DOMAIN fs /\ Swapped \notin Newcomers /\ fs[Swapped].kind = "link"
      /\ \A n \in Newcomers : fs[n].kind = "file"
  BY <1>2, CleanerTypes DEF Tree
<1>7. Swaps(fs, fs2, d)
  BY <1>2, <1>3, <1>4, <1>6, SwapsIs
<1>8. Tree(fs2)
  BY <1>2, <1>3, <1>7, SwappedTree
<1>9. DOMAIN fs2 = DOMAIN fs /\ \A j \in DOMAIN fs :
         /\ fs2[j].kind = fs[j].kind /\ fs2[j].kept = fs[j].kept
         /\ fs2[j].name = IF j = Swapped THEN fs[d].name ELSE fs[j].name
         /\ fs2[j].in = IF j = Swapped THEN fs[d].in ELSE IF j = d THEN None ELSE fs[j].in
  BY <1>3, <1>6, <1>7 DEF Swaps
<1>10. /\ DOMAIN task' = CleanerFields /\ task'.step = task.step /\ task'.stack = task.stack /\ task'.entry = task.entry
       /\ task'.listed = task.listed /\ task'.lost = task.lost /\ task'.deleted = task.deleted /\ task'.targets = task.targets
       /\ task'.came = task.came /\ task'.late = task.late /\ task'.raced = TRUE
  BY <1>2, <1>3 DEF CleanerFields
<1>11. StackInv(task, fs) /\ FreshInv(task, fs) /\ ComeInv(task, fs) /\ LostInv(task, fs) /\ EntryInv(task, fs)
  BY <1>2 DEF WalkInv, Core
<1>12. StackInv(task', fs2)
  <2>1. \A j \in DOMAIN fs : /\ fs2[j].kind = fs[j].kind /\ fs2[j].kept = fs[j].kept
                             /\ fs[j].kind = "dir" => fs2[j].in \in {fs[j].in, None}
    BY <1>6, <1>9
  <2> QED
    BY <1>9, <1>10, <1>11, <2>1, StackSteady
<1>13. FreshInv(task', fs2)
  <2>1. \A k \in DOMAIN task.stack : task.stack[k].id # None /\ task.stack[k].id # Swapped
    BY <1>2, <1>6, <1>11 DEF StackInv, Level, Tree
  <2>2. Swapped \notin task.listed
    BY <1>6, <1>11 DEF StackInv
  <2> SUFFICES ASSUME NEW k \in DOMAIN task.stack, NEW c \in DOMAIN fs, fs2[c].in = task.stack[k].id,
                      fs2[c].name \in task.stack[k].todo
               PROVE  c \notin task.listed /\ \A l \in DOMAIN task.stack : task.stack[l].id # c
    BY <1>9, <1>10 DEF FreshInv
  <2>3. CASE c = Swapped
    BY <2>1, <2>2, <2>3
  <2>4. CASE c # Swapped
    <3>1. fs[c].in = task.stack[k].id /\ fs[c].name \in task.stack[k].todo
      BY <1>9, <2>1, <2>4
    <3> QED
      BY <1>11, <3>1 DEF FreshInv
  <2> QED
    BY <2>3, <2>4
<1>14. \A n \in Newcomers : fs2[n].in = fs[n].in /\ fs2[n].name = fs[n].name
  BY <1>3, <1>6, <1>9
<1>15. ComeInv(task', fs2)
  BY <1>10, <1>11, <1>14 DEF ComeInv
<1>16. LostInv(task', fs2)
  BY <1>3, <1>9, <1>10, <1>11 DEF LostInv
<1>17. EntryInv(task', fs2)
  <2>1. ASSUME task.step = "stat" PROVE NextIs(task', fs2, task.stack[Len(task.stack)], task.entry[Len(task.entry)])
    <3>1. PICK top : top = task.stack[Len(task.stack)]
      OBVIOUS
    <3>2. PICK x : x = task.entry[Len(task.entry)]
      OBVIOUS
    <3>3. NextIs(task, fs, top, x)
      BY <1>11, <2>1, <3>1, <3>2 DEF EntryInv
    <3>4. top.id # None
      BY <1>1, <1>2, <2>1, <3>1, TopIs DEF Level, Tree, Walking
    <3>5. \A k \in DOMAIN task.stack : task.stack[k].id # Swapped
      BY <1>6, <1>11 DEF StackInv, Level
    <3>6. Swapped \notin task.listed
      BY <1>6, <1>11 DEF StackInv
    <3>7. \A c \in DOMAIN fs2 : fs2[c].in = top.id /\ fs2[c].name = x =>
              c \notin task.listed /\ \A l \in DOMAIN task.stack : task.stack[l].id # c
      BY <1>9, <3>3, <3>4, <3>5, <3>6 DEF NextIs
    <3> QED
      BY <1>10, <3>1, <3>2, <3>3, <3>7 DEF NextIs
  <2> QED
    BY <1>9, <1>10, <1>11, <1>14, <2>1 DEF EntryInv
<1> QED
  BY <1>5, <1>8, <1>10, <1>12, <1>13, <1>15, <1>16, <1>17, ChangeKeeps DEF Core

LEMMA SingleShape ==
    /\ \A S : \A x \in S : <<x>> \in Seq(S)
    /\ \A x : Len(<<x>>) = 1 /\ <<x>> # <<>> /\ <<x>>[1] = x /\ DOMAIN <<x>> = {1}
<1>1. \A S : \A x \in S : <<x>> \in Seq(S)
  OBVIOUS
<1>2. \A x : Len(<<x>>) = 1 /\ <<x>>[1] = x
  OBVIOUS
<1>3. \A x : <<x>> # <<>>
  OBVIOUS
<1>4. \A x : DOMAIN <<x>> = 1..1
  OBVIOUS
<1>5. 1..1 = {1}
  OBVIOUS
<1> QED
  BY <1>1, <1>2, <1>3, <1>4, <1>5, Zenon

\* Paths of names of which some are literals.
Tracks == Seq(Text) \ {<<>>}

LEMMA PlacesAreTracks == \A p \in Cleaner!Places : p \in Tracks
<1>1. \A p \in Seq(STRING) : p \in Seq(Text)
  BY DEF Text
<1> QED
  BY <1>1 DEF Cleaner!Places, Tracks

\* What is strictly below a directory of a machine is deeper than a drive.
LEMMA BelowIsDeep ==
    ASSUME NEW c \in Tracks, NEW p \in Tracks, Cleaner!IsInside(c, p)
    PROVE  Len(p) > 1 /\ p # c
<1>1. c \in Seq(Text) /\ p \in Seq(Text) /\ c # <<>> /\ p # <<>>
  BY DEF Tracks
<1>2. Len(c) < Len(p)
  BY DEF Cleaner!IsInside
<1>3. \A s \in Seq(Text) : Len(s) \in Nat /\ (s # <<>> => Len(s) # 0)
  OBVIOUS
<1> QED
  BY <1>1, <1>2, <1>3

LEMMA ContainersArePlaces ==
    ASSUME NEW m \in Machines, NEW c \in Cleaner!_allowed_clean_containers(m)
    PROVE  c \in Tracks
<1>1. m.home \in Tracks /\ \A x \in {m.local, m.root, m.temp, m.tmp} : x = None \/ x \in Tracks
  BY ToolWindowsAssumption, PlacesAreTracks DEF Cleaner!MachineConstants
<1>2. \A x : \A y \in Cleaner!_resolved_path(m, x) : y = x /\ x # None
  BY DEF Cleaner!_resolved_path
<1>3. \A x \in Tracks : x \o <<"cache">> \in Tracks
  <2> SUFFICES ASSUME NEW x \in Tracks PROVE x \o <<"cache">> \in Tracks
    OBVIOUS
  <2>1. x \in Seq(Text)
    BY DEF Tracks
  <2>2. PICK e : e = <<"cache">>
    OBVIOUS
  <2>3. e \in Seq(Text) /\ Len(e) = 1
    <3>1. <<"cache">> \in Seq(Text)
      BY SingleShape, Zenon DEF Text
    <3>2. Len(<<"cache">>) = 1
      OBVIOUS
    <3> QED
      BY <2>2, <3>1, <3>2, Zenon
  <2>4. x \o e \in Seq(Text) /\ Len(x \o e) = Len(x) + 1 /\ Len(x) \in Nat
    <3>1. \A S : \A u \in Seq(S), v \in Seq(S) : u \o v \in Seq(S) /\ Len(u \o v) = Len(u) + Len(v) /\ Len(u) \in Nat
      OBVIOUS
    <3> QED
      BY <2>1, <2>3, <3>1
  <2>5. x \o e # <<>>
    BY <2>4
  <2> QED
    BY <2>2, <2>4, <2>5 DEF Tracks
<1>4. <<"C:", "Windows">> \in Tracks
  <2>1. <<"C:", "Windows">> \in Seq(Text)
    <3>1. \A S : \A x, y \in S : <<x, y>> \in Seq(S)
      OBVIOUS
    <3> QED
      BY <3>1, Zenon DEF Text
  <2>2. <<"C:", "Windows">> # <<>>
    OBVIOUS
  <2> QED
    BY <2>1, <2>2, Zenon DEF Tracks
<1>5. \A x \in Tracks : Cleaner!Parent(x) \in Tracks
  <2> SUFFICES ASSUME NEW x \in Tracks PROVE Cleaner!Parent(x) \in Tracks
    OBVIOUS
  <2>1. x \in Seq(Text) /\ Len(x) \in Nat \ {0}
    BY DEF Tracks
  <2>2. CASE Len(x) = 1
    BY <2>2 DEF Cleaner!Parent
  <2>3. CASE Len(x) # 1
    <3>1. PICK f : f = SubSeq(x, 1, Len(x) - 1)
      OBVIOUS
    <3>2. f \in Seq(Text) /\ Len(f) = Len(x) - 1
      <4>1. Len(x) - 1 \in 0..Len(x)
        BY <2>1
      <4>2. \A k \in 0..Len(x) : SubSeq(x, 1, k) \in Seq(Text) /\ Len(SubSeq(x, 1, k)) = k
        BY <2>1
      <4> QED
        BY <3>1, <4>1, <4>2
    <3>3. f # <<>>
      BY <2>1, <2>3, <3>2
    <3> QED
      BY <2>3, <3>1, <3>2, <3>3, CleanerLibrary DEF Cleaner!Parent, Tracks
  <2> QED
    BY <2>2, <2>3
<1>6. \A y \in Cleaner!Parents(m) : y \in Tracks
  BY <1>1, <1>2, <1>5 DEF Cleaner!Parents
<1> QED
  BY <1>1, <1>2, <1>3, <1>4, <1>6 DEF Cleaner!_allowed_clean_containers, Cleaner!Given, Cleaner!_browser_cache_root

LEMMA SafeIsSafe ==
    ASSUME NEW m \in Machines, NEW S, NEW p \in Cleaner!_unique_safe_targets(m, S)
    PROVE  p \in m.real /\ p \notin m.through /\ p \notin {m.home, m.local, m.root} /\ Len(p) > 1
<1>1. /\ m.real \subseteq Tracks /\ None \notin m.real /\ m.real \cap m.through = {}
      /\ ~m.windows => m.root = None
  BY ToolWindowsAssumption, PlacesAreTracks DEF Cleaner!MachineConstants
<1>2. p \in m.real /\ Cleaner!_is_safe_clean_root(m, p)
  BY DEF Cleaner!_unique_safe_targets, Cleaner!_resolve_existing
<1>3. p \notin Cleaner!_forbidden_clean_roots(m)
  BY <1>2 DEF Cleaner!_is_safe_clean_root
<1>4. PICK c \in Cleaner!_allowed_clean_containers(m) : Cleaner!IsInside(c, p)
  BY <1>2 DEF Cleaner!_is_safe_clean_root
<1>5. Len(p) > 1 /\ p # c
  BY <1>1, <1>2, <1>4, ContainersArePlaces, BelowIsDeep
<1>6. p # None /\ p \notin m.through /\ Cleaner!_resolved_path(m, p) = {p}
  BY <1>1, <1>2 DEF Cleaner!_resolved_path
<1>7. p # m.home
  BY <1>3, <1>6 DEF Cleaner!_forbidden_clean_roots
<1>8. CASE m.windows
  <2>1. p # m.local /\ p # m.root
    BY <1>3, <1>6, <1>8 DEF Cleaner!_forbidden_clean_roots
  <2> QED
    BY <1>2, <1>5, <1>6, <1>7, <2>1
<1>9. CASE ~m.windows
  <2>1. c = Cleaner!_browser_cache_root(m)
    BY <1>4, <1>9 DEF Cleaner!_allowed_clean_containers, Cleaner!_resolved_path
  <2>2. p # m.local
    BY <1>5, <1>6, <2>1 DEF Cleaner!_browser_cache_root, Cleaner!Given
  <2> QED
    BY <1>1, <1>2, <1>5, <1>6, <1>7, <1>9, <2>2
<1> QED
  BY <1>8, <1>9

LEMMA CleanActionKeeps ==
    ASSUME CleanerInv, Cleaner!clean_action
    PROVE  CleanerInv' /\ Cleaner!ContainedStep
<1>1. task.step = "choose" /\ world' = world /\ WalkInv(task, world.disk) /\ DOMAIN task = CleanerFields
      /\ world.machine \in Machines
  BY DEF Cleaner!clean_action, CleanerInv, WalkInv
<1>2. PICK temp \in BOOLEAN, cache \in BOOLEAN, logs \in BOOLEAN :
        LET m == world.machine
            targets == (IF temp THEN Cleaner!_unique_safe_targets(m, Cleaner!_temp_candidates(m)) ELSE {})
                       \cup (IF cache THEN Cleaner!_unique_safe_targets(m, Cleaner!_browser_cache_candidates(m)) ELSE {})
                       \cup (IF logs THEN Cleaner!_unique_safe_targets(m, Cleaner!_log_candidates(m)) ELSE {})
            root == Cleaner!_directory_identity(Cleaner!Disk, Cleaner!Target)
        IN  task' = [task EXCEPT !.targets = targets,
                                 !.step = IF targets = {} \/ root = None THEN "done" ELSE "confirm",
                                 !.items = IF targets = {} \/ root = None THEN 0
                                           ELSE Cleaner!Cardinality(Cleaner!_preview_directory(Cleaner!Disk, root))]
  BY DEF Cleaner!clean_action
<1>3. PICK targets : targets =
          (IF temp THEN Cleaner!_unique_safe_targets(world.machine, Cleaner!_temp_candidates(world.machine)) ELSE {})
          \cup (IF cache THEN Cleaner!_unique_safe_targets(world.machine, Cleaner!_browser_cache_candidates(world.machine)) ELSE {})
          \cup (IF logs THEN Cleaner!_unique_safe_targets(world.machine, Cleaner!_log_candidates(world.machine)) ELSE {})
  OBVIOUS
<1>4. PICK root : root = Cleaner!_directory_identity(Cleaner!Disk, Cleaner!Target)
  OBVIOUS
<1>5. PICK step : step = IF targets = {} \/ root = None THEN "done" ELSE "confirm"
  OBVIOUS
<1>6. PICK items : items = IF targets = {} \/ root = None THEN 0
                            ELSE Cleaner!Cardinality(Cleaner!_preview_directory(Cleaner!Disk, root))
  OBVIOUS
<1>7. step \in {"done", "confirm"} /\ task' = [task EXCEPT !.targets = targets, !.step = step, !.items = items]
  BY <1>2, <1>3, <1>4, <1>5, <1>6
<1>8. /\ DOMAIN task' = CleanerFields /\ task'.step = step /\ task'.stack = task.stack /\ task'.listed = task.listed
      /\ task'.lost = task.lost /\ task'.came = task.came /\ task'.late = task.late /\ task'.deleted = task.deleted
      /\ task'.targets = targets
  BY <1>1, <1>7 DEF CleanerFields
<1>9. Core(task', world.disk)
  BY <1>1, <1>7, <1>8, SameCore DEF WalkInv, Walking
<1>10. WalkInv(task', world.disk)
  BY <1>1, <1>7, <1>8, <1>9 DEF WalkInv, EntryInv, Walking
<1>11. \A p \in targets : \E S : p \in Cleaner!_unique_safe_targets(world.machine, S)
  BY <1>3
<1>12. Cleaner!TargetsAreSafe'
  BY <1>1, <1>8, <1>11, SafeIsSafe DEF Cleaner!TargetsAreSafe
<1>13. Cleaner!ContainedStep
  BY <1>8 DEF Cleaner!ContainedStep
<1> QED
  BY <1>1, <1>7, <1>8, <1>10, <1>12, <1>13 DEF CleanerInv, Walking

LEMMA DeleteKeeps ==
    ASSUME CleanerInv, Cleaner!delete_folder_contents
    PROVE  CleanerInv' /\ Cleaner!ContainedStep
<1>1. /\ task.step = "confirm" /\ WalkInv(task, world.disk) /\ DOMAIN task = CleanerFields /\ Tree(world.disk)
      /\ task.stack = <<>> /\ task.listed = {} /\ DOMAIN world = {"disk", "machine", "changes"}
  BY DEF Cleaner!delete_folder_contents, CleanerInv, WalkInv
<1>2. world' = [world EXCEPT !.machine = None]
  BY DEF Cleaner!delete_folder_contents
<1>3. world'.disk = world.disk /\ DOMAIN world' = {"disk", "machine", "changes"}
  BY <1>1, <1>2
<1>4. PICK root : root = Cleaner!_directory_identity(world.disk, Cleaner!Target)
  OBVIOUS
<1>5. \/ /\ root # None
         /\ task' = [task EXCEPT !.step = "list", !.targets = {},
                                 !.stack = <<[path |-> Cleaner!Target, id |-> root, todo |-> {}]>>]
      \/ task' = [task EXCEPT !.step = "done", !.targets = {}]
  BY <1>4 DEF Cleaner!delete_folder_contents, Cleaner!Disk
<1>6. CASE /\ root # None
           /\ task' = [task EXCEPT !.step = "list", !.targets = {},
                                   !.stack = <<[path |-> Cleaner!Target, id |-> root, todo |-> {}]>>]
  <2>1. PICK e : e = [path |-> Cleaner!Target, id |-> root, todo |-> {}]
    OBVIOUS
  <2>2. DOMAIN e = {"path", "id", "todo"} /\ e.path = Cleaner!Target /\ e.id = root /\ e.todo = {}
    BY <2>1
  <2>3. /\ DOMAIN task' = CleanerFields /\ task'.step = "list" /\ task'.stack = <<e>> /\ task'.listed = {}
        /\ task'.lost = task.lost /\ task'.came = task.came /\ task'.late = task.late /\ task'.deleted = task.deleted
        /\ task'.targets = {}
    BY <1>1, <1>6, <2>1 DEF CleanerFields
  <2>4. /\ root \in DOMAIN world.disk /\ world.disk[root].kind = "dir" /\ world.disk[root].in = Root
        /\ ~world.disk[root].kept
    BY <1>1, <1>4, <1>6, TargetLookup DEF Cleaner!_directory_identity
  <2>5. root # Root
    BY <1>1, <2>4 DEF Tree
  <2>6. Cleaner!Target \in Seq(Text) /\ Cleaner!Target # <<>>
    <3>1. <<"temp">> \in Seq(Text)
      BY SingleShape, Zenon DEF Text
    <3> QED
      BY <3>1, SingleShape, Zenon DEF Cleaner!Target
  <2>7. Level(e, world.disk, {})
    BY <2>2, <2>4, <2>5, <2>6 DEF Level
  <2>8. IsSequence(<<e>>) /\ <<e>> # <<>> /\ DOMAIN <<e>> = {1} /\ Len(<<e>>) = 1 /\ <<e>>[1] = e
    <3>1. <<e>> \in Seq({e})
      BY SingleShape
    <3>2. IsSequence(<<e>>)
      BY <3>1, Zenon DEF IsSequence
    <3> QED
      BY <3>2, SingleShape
  <2>9. StackInv(task', world.disk)
    BY <2>2, <2>3, <2>7, <2>8 DEF StackInv, Unscanned
  <2>10. FreshInv(task', world.disk)
    BY <2>2, <2>3, <2>8 DEF FreshInv
  <2>11. ComeInv(task', world.disk) /\ LostInv(task', world.disk)
    BY <1>1, <2>2, <2>3, <2>8 DEF WalkInv, Core, ComeInv, LostInv
  <2>12. WalkInv(task', world.disk)
    BY <2>3, <2>9, <2>10, <2>11 DEF WalkInv, Core, EntryInv, Walking
  <2> QED
    BY <1>1, <1>3, <2>3, <2>12 DEF CleanerInv, Cleaner!TargetsAreSafe, Cleaner!ContainedStep
<1>7. CASE task' = [task EXCEPT !.step = "done", !.targets = {}]
  <2>1. /\ DOMAIN task' = CleanerFields /\ task'.step = "done" /\ task'.stack = task.stack /\ task'.listed = task.listed
        /\ task'.lost = task.lost /\ task'.came = task.came /\ task'.late = task.late /\ task'.deleted = task.deleted
        /\ task'.targets = {}
    BY <1>1, <1>7 DEF CleanerFields
  <2>2. Core(task', world.disk)
    BY <1>1, <2>1, SameCore DEF WalkInv, Walking
  <2>3. WalkInv(task', world.disk)
    BY <2>1, <2>2 DEF WalkInv, EntryInv, Walking
  <2> QED
    BY <1>1, <1>3, <2>1, <2>3 DEF CleanerInv, Cleaner!TargetsAreSafe, Cleaner!ContainedStep
<1> QED
  BY <1>5, <1>6, <1>7

LEMMA CleanerInit ==
    ASSUME Cleaner!Init
    PROVE  CleanerInv
<1>1. PICK m \in Machines, fs \in Disks :
        /\ world = [disk |-> fs, machine |-> m, changes |-> 0]
        /\ task = [step |-> "choose", targets |-> {}, stack |-> <<>>, entry |-> None, link |-> FALSE,
                   items |-> 0, deleted |-> 0, failed |-> 0,
                   listed |-> {}, lost |-> {}, came |-> {}, late |-> {}, raced |-> FALSE,
                   strayed |-> FALSE, quiet |-> TRUE]
  BY DEF Cleaner!Init
<1>2. /\ DOMAIN world = {"disk", "machine", "changes"} /\ world.disk = fs /\ world.machine \in Machines
      /\ DOMAIN task = CleanerFields /\ task.step = "choose" /\ task.targets = {} /\ task.stack = <<>> /\ task.deleted = 0
      /\ task.listed = {} /\ task.lost = {} /\ task.came = {} /\ task.late = {}
  BY <1>1 DEF CleanerFields
<1>3. Tree(fs) /\ \A n \in Newcomers : fs[n].in = None
  BY <1>1, CleanerTypes
<1>4. IsSequence(<<>>) /\ DOMAIN <<>> = {}
  BY DEF IsSequence
<1>5. StackInv(task, fs)
  BY <1>2, <1>4 DEF StackInv, Walking, Unscanned
<1>6. FreshInv(task, fs)
  BY <1>2, <1>4 DEF FreshInv
<1>7. ComeInv(task, fs)
  BY <1>2, <1>3, <1>4 DEF ComeInv
<1>8. LostInv(task, fs)
  BY <1>2, FS_EmptySet DEF LostInv
<1> QED
  BY <1>2, <1>3, <1>5, <1>6, <1>7, <1>8 DEF CleanerInv, WalkInv, Core, EntryInv, Walking, Cleaner!TargetsAreSafe

LEMMA CleanerStep ==
    ASSUME CleanerInv, [Cleaner!Next]_(Cleaner!vars)
    PROVE  (CleanerInv' \/ (GoesAstray /\ Cleaner!Next)) /\ Cleaner!ContainedStep
<1>1. CASE Cleaner!Next
  BY <1>1, CleanActionKeeps, DeleteKeeps, ListKeeps, ScanKeeps, RecheckKeeps, LookKeeps, StatKeeps, ActKeeps, LeaveKeeps,
     VerifyKeeps, RmdirKeeps, ArriveKeeps, VanishKeeps, SwapKeeps DEF Cleaner!Next
<1>2. CASE UNCHANGED Cleaner!vars
  <2>1. task' = task /\ world' = world
    BY <1>2 DEF Cleaner!vars
  <2> QED
    BY <2>1 DEF CleanerInv, Cleaner!TargetsAreSafe, Cleaner!ContainedStep
<1> QED
  BY <1>1, <1>2

-----------------------------------------------------------------------------
(* The temporary-file cleaner: astray.  What is left of the invariant when it has entered a       *)
(* directory of others: what it removed is counted, and nothing that is removed comes back.        *)

Frame(f) == DOMAIN f = {"path", "id", "todo"} /\ f.path \in Seq(Text) /\ f.path # <<>> /\ f.todo \subseteq Text

GoneInv(t, fs) ==
    /\ LostInv(t, fs) /\ t.lost \cap Newcomers \subseteq t.came
    /\ \A n \in Newcomers \ t.came : fs[n].in = None

Loose(t, fs) ==
    /\ DOMAIN t = CleanerFields /\ t.step \in Walking \cup {"done"} /\ t.targets = {}
    /\ IsSequence(t.stack) /\ (t.step \in Walking => t.stack # <<>>)
    /\ \A k \in DOMAIN t.stack : Frame(t.stack[k])
    /\ GoneInv(t, fs)
    /\ t.step \in {"stat", "act"} => t.entry \in Seq(Text) /\ t.entry # <<>>
    /\ t.step \in {"leave", "verify", "rmdir"} => t.entry[1] \in Seq(Text) /\ t.entry[1] # <<>>

Adrift ==
    /\ DOMAIN world = {"disk", "machine", "changes"} /\ Tree(world.disk)
    /\ Loose(task, world.disk)

\* When it has gone astray others have changed the disk.
Strays == task.strayed /\ ~task.quiet /\ Adrift

LEMMA InvIsAdrift ==
    ASSUME CleanerInv, task.step \in Walking
    PROVE  Adrift
<1>1. WalkInv(task, world.disk) /\ Core(task, world.disk) /\ EntryInv(task, world.disk)
  BY DEF CleanerInv, WalkInv
<1>2. \A k \in DOMAIN task.stack : Frame(task.stack[k])
  BY <1>1 DEF Core, StackInv, Level, Frame
<1>3. GoneInv(task, world.disk)
  BY <1>1 DEF Core, ComeInv, GoneInv
<1> QED
  BY <1>1, <1>2, <1>3 DEF CleanerInv, WalkInv, Core, StackInv, EntryInv, Adrift, Loose

LEMMA LooseTop ==
    ASSUME NEW t, NEW fs, Loose(t, fs), t.step \in Walking
    PROVE  /\ Len(t.stack) \in DOMAIN t.stack /\ Frame(t.stack[Len(t.stack)])
           /\ DOMAIN t.stack = 1..Len(t.stack) /\ Len(t.stack) \in Nat
<1>1. PICK S : t.stack \in Seq(S)
  BY DEF Loose, IsSequence
<1>2. Len(t.stack) \in DOMAIN t.stack /\ DOMAIN t.stack = 1..Len(t.stack) /\ Len(t.stack) \in Nat
  BY <1>1 DEF Loose
<1> QED
  BY <1>2 DEF Loose

\* The fields that are not about the directories and the entry it is at.
Carries(u, t) ==
    /\ DOMAIN u = CleanerFields /\ u.targets = t.targets /\ u.lost = t.lost /\ u.came = t.came /\ u.deleted = t.deleted

LEMMA LooseMoves ==
    ASSUME NEW t, NEW fs, Loose(t, fs), NEW u, Carries(u, t), u.stack = t.stack, t.step \in Walking, u.step \in Walking,
           u.step \in {"stat", "act"} => u.entry \in Seq(Text) /\ u.entry # <<>>,
           u.step \in {"leave", "verify", "rmdir"} => u.entry[1] \in Seq(Text) /\ u.entry[1] # <<>>
    PROVE  Loose(u, fs)
<1>1. GoneInv(u, fs)
  BY DEF Loose, GoneInv, LostInv, Carries
<1> QED
  BY <1>1 DEF Loose, Carries

LEMMA LooseReturns ==
    ASSUME NEW t, NEW fs, Loose(t, fs), t.step \in Walking, NEW completed \in BOOLEAN
    PROVE  LET u == Cleaner!Returned(t, completed)
           IN  Loose(u, fs) /\ u.strayed = t.strayed /\ u.quiet = t.quiet
<1>1. DOMAIN t = CleanerFields /\ GoneInv(t, fs) /\ IsSequence(t.stack) /\ t.stack # <<>>
  BY DEF Loose
<1>2. CASE Len(t.stack) = 1
  <2>1. PICK u : u = [t EXCEPT !.step = "done", !.stack = <<>>]
    OBVIOUS
  <2>2. u = Cleaner!Returned(t, completed)
    BY <1>2, <2>1 DEF Cleaner!Returned
  <2>3. Carries(u, t) /\ u.step = "done" /\ u.stack = <<>> /\ u.strayed = t.strayed /\ u.quiet = t.quiet
    BY <1>1, <2>1 DEF CleanerFields, Carries
  <2>4. DOMAIN u.stack = {} /\ IsSequence(u.stack)
    BY <2>3 DEF IsSequence
  <2>5. GoneInv(u, fs)
    BY <1>1, <2>3 DEF GoneInv, LostInv, Carries
  <2> QED
    BY <2>2, <2>3, <2>4, <2>5 DEF Loose, Carries, Walking
<1>3. CASE Len(t.stack) # 1
  <2>1. PICK f : f = SubSeq(t.stack, 1, Len(t.stack) - 1)
    OBVIOUS
  <2>2. PICK e : e = IF completed THEN <<t.stack[Len(t.stack)].path, t.stack[Len(t.stack)].id>> ELSE None
    OBVIOUS
  <2>3. PICK s : s = IF completed THEN "leave" ELSE "look"
    OBVIOUS
  <2>4. PICK u : u = [t EXCEPT !.step = s, !.stack = f, !.entry = e]
    OBVIOUS
  <2>5. u = Cleaner!Returned(t, completed)
    BY <1>3, <2>1, <2>2, <2>3, <2>4, CleanerLibrary DEF Cleaner!Returned
  <2>6. /\ Carries(u, t) /\ u.step = s /\ u.stack = f /\ u.entry = e /\ u.strayed = t.strayed /\ u.quiet = t.quiet
    BY <1>1, <2>4 DEF CleanerFields, Carries
  <2>7. /\ IsSequence(f) /\ f # <<>>
        /\ \A k \in DOMAIN f : k \in DOMAIN t.stack /\ f[k] = t.stack[k]
    BY <1>1, <1>3, <2>1, FrontShape
  <2>8. GoneInv(u, fs)
    BY <1>1, <2>6 DEF GoneInv, LostInv, Carries
  <2>9. Frame(t.stack[Len(t.stack)])
    BY LooseTop
  <2>10. u.step \in {"leave", "verify", "rmdir"} => u.entry[1] \in Seq(Text) /\ u.entry[1] # <<>>
    BY <2>2, <2>3, <2>6, <2>9 DEF Frame
  <2>11. \A k \in DOMAIN u.stack : Frame(u.stack[k])
    BY <2>6, <2>7 DEF Loose
  <2> QED
    BY <2>3, <2>5, <2>6, <2>7, <2>8, <2>10, <2>11 DEF Loose, Carries, Walking
<1> QED
  BY <1>2, <1>3

\* A look at the disk changes nothing on it.
LEMMA LooseFails ==
    ASSUME NEW t, NEW fs, Loose(t, fs), t.step \in Walking
    PROVE  LET u == Cleaner!_record_failure(t)
           IN  Loose(u, fs) /\ u.step = t.step /\ u.strayed = t.strayed /\ u.quiet = t.quiet
<1>1. PICK u : u = [t EXCEPT !.failed = @ + 1]
  OBVIOUS
<1>2. u = Cleaner!_record_failure(t)
  BY <1>1 DEF Cleaner!_record_failure
<1>3. DOMAIN t = CleanerFields
  BY DEF Loose
<1>4. /\ Carries(u, t) /\ u.step = t.step /\ u.stack = t.stack /\ u.entry = t.entry
      /\ u.strayed = t.strayed /\ u.quiet = t.quiet
  BY <1>1, <1>3 DEF CleanerFields, Carries
<1>5. Loose(u, fs)
  BY <1>4, LooseMoves DEF Loose
<1> QED
  BY <1>2, <1>4, <1>5

\* What a step of the traversal leaves when it was adrift before.
Still == Adrift' /\ task'.quiet = task.quiet /\ (task.strayed => task'.strayed)

LEMMA LooseEnds ==
    ASSUME Adrift, task.step \in Walking, world' = world,
           \/ \E completed \in BOOLEAN : task' = Cleaner!Returned(task, completed)
           \/ task' = Cleaner!Returned(Cleaner!_record_failure(task), FALSE)
           \/ task' = [Cleaner!_record_failure(task) EXCEPT !.step = "look", !.entry = None]
    PROVE  Still
<1>1. Loose(task, world.disk) /\ DOMAIN task = CleanerFields
  BY DEF Adrift, Loose
<1>2. CASE \E completed \in BOOLEAN : task' = Cleaner!Returned(task, completed)
  BY <1>1, <1>2, LooseReturns DEF Still, Adrift
<1>3. CASE task' = Cleaner!Returned(Cleaner!_record_failure(task), FALSE)
  BY <1>1, <1>3, LooseFails, LooseReturns DEF Still, Adrift
<1>4. CASE task' = [Cleaner!_record_failure(task) EXCEPT !.step = "look", !.entry = None]
  <2>1. /\ Carries(task', task) /\ task'.step = "look" /\ task'.stack = task.stack
        /\ task'.strayed = task.strayed /\ task'.quiet = task.quiet
    BY <1>1, <1>4 DEF Carries, CleanerFields, Cleaner!_record_failure
  <2>2. Loose(task', world.disk)
    BY <1>1, <2>1, LooseMoves DEF Walking
  <2> QED
    BY <2>1, <2>2 DEF Still, Adrift
<1> QED
  BY <1>2, <1>3, <1>4

LEMMA LooseGoes ==
    ASSUME Adrift, task.step \in Walking, world' = world, Loose(task', world.disk), task'.quiet = task.quiet,
           task.strayed => task'.strayed
    PROVE  Still
BY DEF Still, Adrift

LEMMA LooseLists ==
    ASSUME Adrift,
           \/ Cleaner!_delete_directory_contents_List \/ Cleaner!_delete_directory_contents_Recheck
           \/ Cleaner!_delete_directory_contents_Leave \/ Cleaner!_delete_directory_contents_Verify
    PROVE  Still
<1>1. /\ task.step \in {"list", "recheck", "leave", "verify"} /\ task.step \in Walking /\ world' = world
      /\ Loose(task, world.disk) /\ DOMAIN task = CleanerFields
  BY DEF Cleaner!_delete_directory_contents_List, Cleaner!_delete_directory_contents_Recheck,
         Cleaner!_delete_directory_contents_Leave, Cleaner!_delete_directory_contents_Verify, Walking, Adrift, Loose
<1>2. PICK b : b = (task.strayed \/ Cleaner!Top.id \notin task.listed)
  OBVIOUS
<1>3. task.strayed => b
  BY <1>2, Zenon
<1>4. \/ task' = Cleaner!Returned(Cleaner!_record_failure(task), FALSE)
      \/ task' = [Cleaner!_record_failure(task) EXCEPT !.step = "look", !.entry = None]
      \/ task.step = "list" /\ task' = [task EXCEPT !.step = "scan"]
      \/ task.step = "recheck" /\ task' = [task EXCEPT !.step = "look", !.strayed = b]
      \/ task.step = "leave" /\ task' = [task EXCEPT !.step = "verify"]
      \/ task.step = "verify" /\ task' = [task EXCEPT !.step = "rmdir", !.raced = FALSE]
  BY <1>2 DEF Cleaner!_delete_directory_contents_List, Cleaner!_delete_directory_contents_Recheck,
         Cleaner!_delete_directory_contents_Leave, Cleaner!_delete_directory_contents_Verify
<1>5. CASE \/ task' = Cleaner!Returned(Cleaner!_record_failure(task), FALSE)
           \/ task' = [Cleaner!_record_failure(task) EXCEPT !.step = "look", !.entry = None]
  BY <1>1, <1>5, LooseEnds
<1>6. CASE task.step = "recheck" /\ task' = [task EXCEPT !.step = "look", !.strayed = b]
  <2>1. /\ Carries(task', task) /\ task'.step = "look" /\ task'.stack = task.stack
        /\ task'.strayed = b /\ task'.quiet = task.quiet
    BY <1>1, <1>6 DEF Carries, CleanerFields
  <2>2. Loose(task', world.disk)
    BY <1>1, <2>1, LooseMoves DEF Walking
  <2>3. task.strayed => task'.strayed
    BY <1>3, <2>1, Zenon
  <2> QED
    BY <1>1, <2>1, <2>2, <2>3, LooseGoes
<1>7. CASE \/ task.step = "list" /\ task' = [task EXCEPT !.step = "scan"]
           \/ task.step = "leave" /\ task' = [task EXCEPT !.step = "verify"]
           \/ task.step = "verify" /\ task' = [task EXCEPT !.step = "rmdir", !.raced = FALSE]
  <2>1. /\ Carries(task', task) /\ task'.stack = task.stack /\ task'.entry = task.entry
        /\ task'.strayed = task.strayed /\ task'.quiet = task.quiet
        /\ task'.step \in {"scan", "verify", "rmdir"} /\ (task'.step # "scan" => task.step \in {"leave", "verify"})
    BY <1>1, <1>7 DEF Carries, CleanerFields
  <2>2. Loose(task', world.disk)
    BY <1>1, <2>1, LooseMoves DEF Walking, Loose
  <2> QED
    BY <1>1, <2>1, <2>2, LooseGoes
<1> QED
  <2>1. \/ \/ task' = Cleaner!Returned(Cleaner!_record_failure(task), FALSE)
           \/ task' = [Cleaner!_record_failure(task) EXCEPT !.step = "look", !.entry = None]
        \/ task.step = "recheck" /\ task' = [task EXCEPT !.step = "look", !.strayed = b]
        \/ \/ task.step = "list" /\ task' = [task EXCEPT !.step = "scan"]
           \/ task.step = "leave" /\ task' = [task EXCEPT !.step = "verify"]
           \/ task.step = "verify" /\ task' = [task EXCEPT !.step = "rmdir", !.raced = FALSE]
    BY <1>4, Zenon
  <2> QED
    BY <2>1, <1>5, <1>6, <1>7, Zenon

LEMMA LooseNames ==
    ASSUME NEW t, NEW fs, Loose(t, fs), t.step \in Walking, NEW X, X \subseteq Text, NEW u, Carries(u, t),
           u.stack = [t.stack EXCEPT ![Len(t.stack)].todo = X], u.step \in Walking,
           u.step \in {"stat", "act"} => u.entry \in Seq(Text) /\ u.entry # <<>>,
           u.step \notin {"leave", "verify", "rmdir"}
    PROVE  Loose(u, fs)
<1>1. LeavesToDo(t.stack, u.stack, X)
  <2>1. IsSequence(t.stack)
    BY DEF Loose
  <2>2. Len(t.stack) \in DOMAIN t.stack /\ Frame(t.stack[Len(t.stack)])
    BY LooseTop
  <2>3. DOMAIN t.stack[Len(t.stack)] = {"path", "id", "todo"}
    BY <2>2 DEF Frame
  <2>4. LeavesToDo(t.stack, [t.stack EXCEPT ![Len(t.stack)].todo = X], X)
    BY <2>1, <2>2, <2>3, LeftToDo
  <2> QED
    BY <2>4
<1>2. IsSequence(u.stack) /\ DOMAIN u.stack = DOMAIN t.stack /\ Len(t.stack) \in DOMAIN t.stack
  BY <1>1, LooseTop DEF LeavesToDo
<1>3. u.stack # <<>>
  BY <1>2
<1>4. \A k \in DOMAIN u.stack : Frame(u.stack[k])
  <2> SUFFICES ASSUME NEW k \in DOMAIN t.stack PROVE Frame(u.stack[k])
    BY <1>2
  <2>1. Frame(t.stack[k])
    BY DEF Loose
  <2>2. CASE k = Len(t.stack)
    BY <1>1, <2>1, <2>2 DEF LeavesToDo, Frame
  <2>3. CASE k # Len(t.stack)
    <3>1. u.stack[k] = t.stack[k]
      BY <1>1, <2>3 DEF LeavesToDo
    <3> QED
      BY <2>1, <3>1
  <2> QED
    BY <2>2, <2>3
<1>5. GoneInv(u, fs)
  BY DEF Loose, GoneInv, LostInv, Carries
<1> QED
  BY <1>2, <1>3, <1>4, <1>5 DEF Loose, Carries

LEMMA LooseScans ==
    ASSUME Adrift, Cleaner!_delete_directory_contents_Scan
    PROVE  Still
<1>1. /\ task.step = "scan" /\ task.step \in Walking /\ world' = world /\ Tree(world.disk)
      /\ Loose(task, world.disk) /\ DOMAIN task = CleanerFields
  BY DEF Cleaner!_delete_directory_contents_Scan, Walking, Adrift, Loose
<1>2. PICK D : D = Cleaner!Followed(world.disk, Cleaner!lstat(world.disk, Cleaner!Top.path))
  OBVIOUS
<1>3. PICK X : X = {world.disk[i].name : i \in Cleaner!Listing(world.disk, D)}
  OBVIOUS
<1>4. PICK L : L = task.listed \cup ({D} \cap {Cleaner!Top.id})
  OBVIOUS
<1>5. PICK s : s = [task.stack EXCEPT ![Len(task.stack)].todo = X]
  OBVIOUS
<1>6. \/ task' = [task EXCEPT !.step = "recheck", !.listed = L, !.stack = s]
      \/ task' = Cleaner!Returned(Cleaner!_record_failure(task), FALSE)
  BY <1>1, <1>2, <1>3, <1>4, <1>5 DEF Cleaner!_delete_directory_contents_Scan, Cleaner!Disk, CleanerFields
<1>7. CASE task' = [task EXCEPT !.step = "recheck", !.listed = L, !.stack = s]
  <2>1. /\ Carries(task', task) /\ task'.step = "recheck" /\ task'.stack = s /\ task'.strayed = task.strayed
        /\ task'.quiet = task.quiet
    BY <1>1, <1>7 DEF Carries, CleanerFields
  <2>2. X \subseteq Text
    BY <1>1, <1>3 DEF Tree, Cleaner!FileSystem, Text, Cleaner!Listing
  <2>3. Loose(task', world.disk)
    BY <1>1, <1>5, <2>1, <2>2, LooseNames DEF Walking
  <2> QED
    BY <1>1, <2>1, <2>3, LooseGoes
<1>8. CASE task' = Cleaner!Returned(Cleaner!_record_failure(task), FALSE)
  BY <1>1, <1>8, LooseEnds
<1> QED
  BY <1>6, <1>7, <1>8

LEMMA LooseLooks ==
    ASSUME Adrift, Cleaner!_delete_directory_contents_Look
    PROVE  Still
<1>1. /\ task.step = "look" /\ task.step \in Walking /\ world' = world
      /\ Loose(task, world.disk) /\ DOMAIN task = CleanerFields
  BY DEF Cleaner!_delete_directory_contents_Look, Walking, Adrift, Loose
<1>2. Cleaner!TopMatches \in BOOLEAN
  BY DEF Cleaner!TopMatches, Cleaner!_directory_matches
<1>3. CASE \/ task' = Cleaner!Returned(task, Cleaner!TopMatches)
           \/ task' = Cleaner!Returned(Cleaner!_record_failure(task), FALSE)
  BY <1>1, <1>2, <1>3, LooseEnds
<1>4. ASSUME NEW x \in Cleaner!Top.todo, task' = Cleaner!Taken(x) PROVE Still
  <2>1. PICK top : top = task.stack[Len(task.stack)]
    OBVIOUS
  <2>2. PICK X : X = top.todo \ {x}
    OBVIOUS
  <2>3. PICK s : s = [task.stack EXCEPT ![Len(task.stack)].todo = X]
    OBVIOUS
  <2>4. PICK path : path = Append(top.path, x)
    OBVIOUS
  <2>5. Cleaner!Top = top
    BY <2>1, CleanerLibrary DEF Cleaner!Top
  <2>6. Frame(top) /\ Len(task.stack) \in DOMAIN task.stack
    BY <1>1, <2>1, LooseTop
  <2>7. task' = [task EXCEPT !.step = "stat", !.stack = s, !.entry = path, !.raced = FALSE]
    BY <1>1, <1>4, <2>1, <2>2, <2>3, <2>4, <2>5, <2>6 DEF Cleaner!Taken, CleanerFields
  <2>8. /\ Carries(task', task) /\ task'.step = "stat" /\ task'.stack = s /\ task'.entry = path
        /\ task'.strayed = task.strayed /\ task'.quiet = task.quiet
    BY <1>1, <2>7 DEF Carries, CleanerFields
  <2>9. x \in Text /\ path \in Seq(Text) /\ path # <<>> /\ X \subseteq Text
    BY <1>4, <2>2, <2>4, <2>5, <2>6 DEF Frame
  <2>10. Loose(task', world.disk)
    BY <1>1, <2>3, <2>8, <2>9, LooseNames DEF Walking
  <2> QED
    BY <1>1, <2>8, <2>10, LooseGoes
<1> QED
  BY <1>3, <1>4 DEF Cleaner!_delete_directory_contents_Look

LEMMA LooseStats ==
    ASSUME Adrift, Cleaner!_delete_directory_contents_Stat
    PROVE  Still
<1>1. /\ task.step = "stat" /\ task.step \in Walking /\ world' = world
      /\ Loose(task, world.disk) /\ DOMAIN task = CleanerFields
  BY DEF Cleaner!_delete_directory_contents_Stat, Walking, Adrift, Loose
<1>2. PICK i : i = Cleaner!lstat(world.disk, task.entry)
  OBVIOUS
<1>3. \/ task' = [Cleaner!_record_failure(task) EXCEPT !.step = "look", !.entry = None]
      \/ task' = Cleaner!Enter(i)
      \/ task' = [task EXCEPT !.step = "act", !.link = world.disk[i].kind = "link"]
  BY <1>2 DEF Cleaner!_delete_directory_contents_Stat, Cleaner!Disk
<1>4. CASE task' = [Cleaner!_record_failure(task) EXCEPT !.step = "look", !.entry = None]
  BY <1>1, <1>4, LooseEnds
<1>5. CASE task' = Cleaner!Enter(i)
  <2>1. PICK e : e = [path |-> task.entry, id |-> i, todo |-> {}]
    OBVIOUS
  <2>2. PICK b : b = (task.strayed \/ (task.raced /\ world.disk[i].in # Cleaner!Top.id))
    OBVIOUS
  <2>3. PICK s : s = Append(task.stack, e)
    OBVIOUS
  <2>4. task' = [task EXCEPT !.step = "list", !.entry = None, !.strayed = b, !.stack = s]
    BY <1>1, <1>5, <2>1, <2>2, <2>3 DEF Cleaner!Enter, Cleaner!Disk, CleanerFields
  <2>5. /\ Carries(task', task) /\ task'.step = "list" /\ task'.stack = s /\ task'.strayed = b /\ task'.quiet = task.quiet
    BY <1>1, <2>4 DEF Carries, CleanerFields
  <2>6. task.strayed => task'.strayed
    BY <2>2, <2>5, Zenon
  <2>7. Frame(e)
    <3>1. DOMAIN e = {"path", "id", "todo"} /\ e.path = task.entry /\ e.todo = {}
      BY <2>1
    <3> QED
      BY <1>1, <3>1 DEF Loose, Frame
  <2>8. IsSequence(s) /\ s # <<>> /\ \A k \in DOMAIN s : (k \in DOMAIN task.stack /\ s[k] = task.stack[k]) \/ s[k] = e
    <3>1. PICK R : task.stack \in Seq(R)
      BY <1>1 DEF Loose, IsSequence
    <3>2. task.stack \in Seq(R \cup {e})
      BY <3>1
    <3>3. s \in Seq(R \cup {e}) /\ s # <<>> /\ Len(s) = Len(task.stack) + 1 /\ s[Len(task.stack) + 1] = e
          /\ \A k \in 1..Len(task.stack) : s[k] = task.stack[k]
      BY <2>3, <3>2
    <3>4. DOMAIN s = 1..Len(task.stack) + 1 /\ DOMAIN task.stack = 1..Len(task.stack) /\ Len(task.stack) \in Nat
      BY <3>2, <3>3
    <3>5. \A k \in 1..Len(task.stack) + 1 : k \in 1..Len(task.stack) \/ k = Len(task.stack) + 1
      BY <3>4
    <3>6. IsSequence(s)
      BY <3>3, Zenon DEF IsSequence
    <3> QED
      BY <3>3, <3>4, <3>5, <3>6
  <2>9. \A k \in DOMAIN s : Frame(s[k])
    BY <1>1, <2>7, <2>8 DEF Loose
  <2>10. GoneInv(task', world.disk)
    BY <1>1, <2>5 DEF Loose, GoneInv, LostInv, Carries
  <2>11. Loose(task', world.disk)
    BY <1>1, <2>5, <2>8, <2>9, <2>10 DEF Loose, Carries, Walking
  <2> QED
    BY <1>1, <2>5, <2>6, <2>11, LooseGoes
<1>6. CASE task' = [task EXCEPT !.step = "act", !.link = world.disk[i].kind = "link"]
  <2>1. /\ Carries(task', task) /\ task'.step = "act" /\ task'.stack = task.stack /\ task'.entry = task.entry
        /\ task'.strayed = task.strayed /\ task'.quiet = task.quiet
    BY <1>1, <1>6 DEF Carries, CleanerFields
  <2>2. Loose(task', world.disk)
    BY <1>1, <2>1, LooseMoves DEF Walking, Loose
  <2> QED
    BY <1>1, <2>1, <2>2, LooseGoes
<1> QED
  BY <1>3, <1>4, <1>5, <1>6

LEMMA LooseRemoves ==
    ASSUME Adrift, task.step \in {"act", "rmdir"}, NEW p \in Seq(Text), p # <<>>,
           NEW j \in {Cleaner!lstat(world.disk, p), None}, Cleaner!Removed(j, "look")
    PROVE  Still
<1>1. task.step \in Walking /\ Tree(world.disk) /\ Loose(task, world.disk) /\ DOMAIN task = CleanerFields
      /\ DOMAIN world = {"disk", "machine", "changes"}
  BY DEF Walking, Adrift, Loose
<1>2. CASE j # None /\ ~world.disk[j].locked
  <2>1. PICK fs : fs = world.disk
    OBVIOUS
  <2>2. PICK fs2 : fs2 = [fs EXCEPT ![j].in = None]
    OBVIOUS
  <2>3. /\ world' = [world EXCEPT !.disk = fs2]
        /\ task' = [task EXCEPT !.step = "look", !.entry = None, !.deleted = @ + 1, !.lost = @ \cup {j}]
    BY <1>1, <1>2, <2>1, <2>2 DEF Cleaner!Removed, Cleaner!Disk
  <2>4. world'.disk = fs2 /\ DOMAIN world' = {"disk", "machine", "changes"}
    BY <1>1, <2>3
  <2>5. /\ DOMAIN task' = CleanerFields /\ task'.step = "look" /\ task'.lost = task.lost \cup {j}
        /\ task'.came = task.came /\ task'.targets = task.targets
        /\ task'.stack = task.stack /\ task'.deleted = task.deleted + 1
        /\ task'.strayed = task.strayed /\ task'.quiet = task.quiet
    BY <1>1, <2>3 DEF CleanerFields
  <2>6. j \in DOMAIN fs /\ fs[j].in # None
    BY <1>1, <1>2, <2>1, LookupIs
  <2>7. Puts(fs, fs2, j, None)
    BY <1>1, <2>1, <2>2, <2>6, PutsIs
  <2>8. Tree(fs2)
    BY <1>1, <2>1, <2>6, <2>7, RemovedTree
  <2>9. DOMAIN fs2 = DOMAIN fs /\ \A i \in DOMAIN fs : fs2[i].in = IF i = j THEN None ELSE fs[i].in
    BY <2>7 DEF Puts
  <2>10. GoneInv(task, fs) /\ Newcomers \subseteq DOMAIN fs
    BY <1>1, <2>1 DEF Loose, Tree
  <2>11. j \notin task.lost /\ IsFiniteSet(task.lost)
    BY <2>6, <2>10 DEF GoneInv, LostInv
  <2>12. IsFiniteSet(task.lost \cup {j}) /\ Cardinality(task.lost \cup {j}) = Cardinality(task.lost) + 1
    BY <2>11, FS_AddElement
  <2>13. \A i \in task.lost \cup {j} : i \in DOMAIN fs2 /\ fs2[i].in = None
    BY <2>6, <2>9, <2>10 DEF GoneInv, LostInv
  <2>14. LostInv(task', fs2)
    BY <2>5, <2>10, <2>12, <2>13 DEF GoneInv, LostInv
  <2>15. GoneInv(task', fs2)
    BY <2>5, <2>6, <2>9, <2>10, <2>14 DEF GoneInv
  <2>16. Loose(task', fs2)
    BY <1>1, <2>5, <2>15 DEF Loose, Walking
  <2> QED
    BY <2>4, <2>5, <2>8, <2>16 DEF Still, Adrift
<1>3. CASE ~(j # None /\ ~world.disk[j].locked)
  <2>1. task' = [Cleaner!_record_failure(task) EXCEPT !.step = "look", !.entry = None] /\ world' = world
    BY <1>3 DEF Cleaner!Removed, Cleaner!Disk
  <2> QED
    BY <1>1, <2>1, LooseEnds
<1> QED
  BY <1>2, <1>3

LEMMA LooseActs ==
    ASSUME Adrift, Cleaner!_delete_directory_contents_Act \/ Cleaner!_delete_directory_contents_Rmdir
    PROVE  Still
<1>1. CASE Cleaner!_delete_directory_contents_Act
  <2>1. task.step = "act" /\ task.entry \in Seq(Text) /\ task.entry # <<>>
    BY <1>1 DEF Cleaner!_delete_directory_contents_Act, Adrift, Loose
  <2>2. PICK j \in {Cleaner!lstat(world.disk, task.entry), None} : Cleaner!Removed(j, "look")
    BY <1>1 DEF Cleaner!_delete_directory_contents_Act, Cleaner!_remove_link_or_reparse, Cleaner!Disk
  <2> QED
    BY <2>1, <2>2, LooseRemoves
<1>2. CASE Cleaner!_delete_directory_contents_Rmdir
  <2>1. task.step = "rmdir" /\ task.entry[1] \in Seq(Text) /\ task.entry[1] # <<>>
    BY <1>2 DEF Cleaner!_delete_directory_contents_Rmdir, Adrift, Loose
  <2>2. PICK j \in {Cleaner!lstat(world.disk, task.entry[1]), None} : Cleaner!Removed(j, "look")
    BY <1>2 DEF Cleaner!_delete_directory_contents_Rmdir, Cleaner!Disk
  <2> QED
    BY <2>1, <2>2, LooseRemoves
<1> QED
  BY <1>1, <1>2

\* What others change on the disk meanwhile.
LEMMA LooseChange ==
    ASSUME Adrift, NEW fs2, Tree(fs2), world' = [world EXCEPT !.changes = @ + 1, !.disk = fs2],
           DOMAIN task' = CleanerFields, task'.step = task.step, task'.stack = task.stack, task'.entry = task.entry,
           task'.targets = task.targets, GoneInv(task', fs2)
    PROVE  Adrift'
<1>1. DOMAIN world' = {"disk", "machine", "changes"} /\ world'.disk = fs2
  BY DEF Adrift
<1>2. Loose(task', fs2)
  BY DEF Adrift, Loose
<1> QED
  BY <1>1, <1>2 DEF Adrift

LEMMA LooseOthers ==
    ASSUME Adrift, Cleaner!Arrive \/ Cleaner!Vanish \/ Cleaner!Swap
    PROVE  Adrift' /\ task'.quiet = FALSE /\ task'.strayed = task.strayed
<1>1. PICK fs : fs = world.disk
  OBVIOUS
<1>2. Tree(fs) /\ GoneInv(task, fs) /\ DOMAIN task = CleanerFields /\ Newcomers \cup {Swapped} \subseteq DOMAIN fs
      /\ Swapped \notin Newcomers
  BY <1>1, CleanerTypes DEF Adrift, Loose, Tree
<1>3. CASE Cleaner!Vanish
  <2>1. PICK i \in DOMAIN fs : Cleaner!Changed([fs EXCEPT ![i].in = None]) /\ task' = [task EXCEPT !.quiet = FALSE]
    BY <1>1, <1>3 DEF Cleaner!Vanish, Cleaner!Disk
  <2>2. PICK fs2 : fs2 = [fs EXCEPT ![i].in = None]
    OBVIOUS
  <2>3. world' = [world EXCEPT !.changes = @ + 1, !.disk = fs2]
    BY <2>1, <2>2 DEF Cleaner!Changed
  <2>4. Puts(fs, fs2, i, None)
    BY <1>2, <2>2, PutsIs
  <2>5. Tree(fs2)
    BY <1>2, <2>4, RemovedTree
  <2>6. /\ DOMAIN task' = CleanerFields /\ task'.step = task.step /\ task'.stack = task.stack /\ task'.entry = task.entry
        /\ task'.lost = task.lost /\ task'.deleted = task.deleted /\ task'.targets = task.targets
        /\ task'.came = task.came /\ task'.quiet = FALSE /\ task'.strayed = task.strayed
    BY <1>2, <2>1 DEF CleanerFields
  <2>7. GoneInv(task', fs2)
    BY <1>2, <2>4, <2>6 DEF GoneInv, LostInv, Puts
  <2> QED
    BY <2>3, <2>5, <2>6, <2>7, LooseChange
<1>4. CASE Cleaner!Arrive
  <2>1. PICK n \in Newcomers \ task.came, d \in DOMAIN fs \ {Root} :
          /\ fs[d].kind = "dir" /\ fs[d].in # None /\ Cleaner!Changed([fs EXCEPT ![n].in = d])
          /\ task' = [task EXCEPT !.came = @ \cup {n}, !.late = IF d \in task.listed THEN @ \cup {n} ELSE @,
                                  !.quiet = FALSE]
    BY <1>1, <1>4 DEF Cleaner!Arrive, Cleaner!Disk, Root
  <2>2. PICK fs2 : fs2 = [fs EXCEPT ![n].in = d]
    OBVIOUS
  <2>3. world' = [world EXCEPT !.changes = @ + 1, !.disk = fs2]
    BY <2>1, <2>2 DEF Cleaner!Changed
  <2>4. Puts(fs, fs2, n, d)
    BY <1>2, <2>1, <2>2, PutsIs
  <2>5. Tree(fs2)
    BY <1>2, <2>1, <2>4, ArrivedTree
  <2>6. /\ DOMAIN task' = CleanerFields /\ task'.step = task.step /\ task'.stack = task.stack /\ task'.entry = task.entry
        /\ task'.lost = task.lost /\ task'.deleted = task.deleted /\ task'.targets = task.targets
        /\ task'.came = task.came \cup {n} /\ task'.quiet = FALSE /\ task'.strayed = task.strayed
    BY <1>2, <2>1 DEF CleanerFields
  <2>7. n \notin task.lost
    BY <1>2, <2>1 DEF GoneInv
  <2>8. GoneInv(task', fs2)
    BY <1>2, <2>1, <2>4, <2>6, <2>7 DEF GoneInv, LostInv, Puts
  <2> QED
    BY <2>3, <2>5, <2>6, <2>8, LooseChange
<1>5. CASE Cleaner!Swap
  <2>1. PICK d \in DOMAIN fs :
          /\ fs[d].kind = "dir" /\ fs[d].in # None /\ Swapped \notin task.lost
          /\ Cleaner!Changed([fs EXCEPT ![d].in = None, ![Swapped].in = fs[d].in, ![Swapped].name = fs[d].name])
          /\ task' = [task EXCEPT !.raced = TRUE, !.quiet = FALSE]
    BY <1>1, <1>5 DEF Cleaner!Swap, Cleaner!Disk
  <2>2. PICK fs2 : fs2 = [fs EXCEPT ![d].in = None, ![Swapped].in = fs[d].in, ![Swapped].name = fs[d].name]
    OBVIOUS
  <2>3. world' = [world EXCEPT !.changes = @ + 1, !.disk = fs2]
    BY <2>1, <2>2 DEF Cleaner!Changed
  <2>4. fs[Swapped].kind = "link" /\ \A n \in Newcomers : fs[n].kind = "file"
    BY <1>2 DEF Tree
  <2>5. Swaps(fs, fs2, d)
    BY <1>2, <2>1, <2>2, <2>4, SwapsIs
  <2>6. Tree(fs2)
    BY <1>2, <2>1, <2>5, SwappedTree
  <2>7. /\ DOMAIN task' = CleanerFields /\ task'.step = task.step /\ task'.stack = task.stack /\ task'.entry = task.entry
        /\ task'.lost = task.lost /\ task'.deleted = task.deleted /\ task'.targets = task.targets
        /\ task'.came = task.came /\ task'.quiet = FALSE /\ task'.strayed = task.strayed
    BY <1>2, <2>1 DEF CleanerFields
  <2>8. GoneInv(task', fs2)
    BY <1>2, <2>1, <2>4, <2>5, <2>7 DEF GoneInv, LostInv, Swaps
  <2> QED
    BY <2>3, <2>6, <2>7, <2>8, LooseChange
<1> QED
  BY <1>3, <1>4, <1>5

\* Adrift it stays adrift.
LEMMA LooseStep ==
    ASSUME Adrift, task.step \in Walking \cup {"done"}, Cleaner!Next
    PROVE  /\ Adrift' /\ (task'.quiet => task.quiet) /\ (task.strayed => task'.strayed)
<1>1. ~Cleaner!clean_action /\ ~Cleaner!delete_folder_contents
  BY DEF Cleaner!clean_action, Cleaner!delete_folder_contents, Walking
<1>2. CASE Still
  BY <1>2 DEF Still
<1>3. CASE Cleaner!Arrive \/ Cleaner!Vanish \/ Cleaner!Swap
  BY <1>3, LooseOthers
<1> QED
  BY <1>1, <1>2, <1>3, LooseLists, LooseScans, LooseLooks, LooseStats, LooseActs DEF Cleaner!Next

\* Once astray, it removes what it finds and counts it.
LEMMA StraysStep ==
    ASSUME Strays, [Cleaner!Next]_(Cleaner!vars)
    PROVE  Strays' /\ Cleaner!ContainedStep
<1>1. Cleaner!ContainedStep
  BY DEF Strays, Cleaner!ContainedStep
<1>2. CASE Cleaner!Next
  BY <1>1, <1>2, LooseStep DEF Strays, Adrift, Loose
<1>3. CASE UNCHANGED Cleaner!vars
  BY <1>1, <1>3 DEF Strays, Adrift, Cleaner!vars
<1> QED
  BY <1>2, <1>3

LEMMA StraysIsRight ==
    ASSUME Strays
    PROVE  Cleaner!TargetsAreSafe /\ Cleaner!NewcomersStay /\ Cleaner!DeletedIsExact
BY CleanerLibrary DEF Strays, Adrift, Loose, GoneInv, LostInv, Cleaner!TargetsAreSafe, Cleaner!NewcomersStay,
                     Cleaner!DeletedIsExact

-----------------------------------------------------------------------------
(* The temporary-file cleaner: the preview, and the traversal while no other program is at work. *)

LEMMA CleanerSets == \A S : Cleaner!IsFiniteSet(S) <=> IsFiniteSet(S)
  BY DEF Cleaner!IsFiniteSet, IsFiniteSet

Open(o, d) == o[d].kind = "dir" /\ ~o[d].locked

\* Everything below r: closed, and nothing that need not be.
LEMMA PreviewIs ==
    ASSUME NEW o, IsFiniteSet(DOMAIN o), NEW r
    PROVE  LET P == Cleaner!_preview_directory(o, r)
           IN  /\ P \subseteq DOMAIN o
               /\ \A c \in DOMAIN o : o[c].in \in P \cup {r} /\ Open(o, o[c].in) => c \in P
               /\ \A X : (\A c \in DOMAIN o : o[c].in \in X \cup {r} /\ Open(o, o[c].in) => c \in X) => P \subseteq X
<1> DEFINE D == DOMAIN o
           n == Cardinality(D)
           More(B) == B \cup {i \in D : o[i].in \in {d \in B \cup {r} : Open(o, d)}}
           Upto(g, m) == g = [k \in 0..m |-> IF k = 0 THEN {} ELSE More(g[k - 1])]
           S == {m \in 0..n : \E g : Upto(g, m)}
           P == Cleaner!_preview_directory(o, r)
<1>0. n \in Nat
  BY FS_CardinalityType
<1>1. 0 \in S
  <2> DEFINE g == [k \in 0..0 |-> {}]
  <2>1. Upto(g, 0)
    OBVIOUS
  <2> HIDE DEF Upto, g, n
  <2> QED
    BY <1>0, <2>1
<1>2. ASSUME NEW m \in 1..n, m - 1 \in S PROVE m \in S
  <2>1. PICK g : Upto(g, m - 1)
    BY <1>2
  <2> DEFINE f == [k \in 0..m |-> IF k = m THEN More(g[m - 1]) ELSE g[k]]
  <2> HIDE DEF More, n
  <2>2. \A k \in 0..m - 1 : g[k] = IF k = 0 THEN {} ELSE More(g[k - 1])
    BY <2>1
  <2>3. m \in Nat /\ \A k \in 0..m : k # m => k \in 0..m - 1 /\ f[k] = g[k]
    BY <1>0
  <2>4. f[m] = More(g[m - 1]) /\ m # 0 /\ f[m - 1] = g[m - 1]
    BY <1>0
  <2>5. ASSUME NEW k \in 0..m PROVE f[k] = IF k = 0 THEN {} ELSE More(f[k - 1])
    <3>1. k # 0 => k - 1 \in 0..m /\ k - 1 # m
      BY <2>3
    <3> HIDE DEF f
    <3> QED
      BY <2>2, <2>3, <2>4, <3>1
  <2>6. Upto(f, m)
    <3> DEFINE G(k) == IF k = 0 THEN {} ELSE More(f[k - 1])
               e == f
    <3>1. e = [k \in 0..m |-> e[k]] /\ \A k \in 0..m : e[k] = G(k)
      BY <2>5
    <3> HIDE DEF e, G
    <3>2. e = [k \in 0..m |-> G(k)]
      BY <3>1
    <3> QED
      BY <3>2 DEF e, G
  <2> HIDE DEF Upto, f
  <2> QED
    BY <2>6
<1>3. PICK b : Upto(b, n) /\ P = b[n]
  <2>1. n \in S
    <3> HIDE DEF S, n
    <3> QED
      BY <1>0, <1>1, <1>2, Induction
  <2> DEFINE t == CHOOSE g : Upto(g, n)
  <2>2. Upto(t, n)
    <3> HIDE DEF Upto
    <3> QED
      BY <2>1
  <2>3. P = t[n]
    BY CleanerLibrary DEF Cleaner!_preview_directory, Open
  <2> HIDE DEF t, Upto, P
  <2> QED
    BY <2>2, <2>3
<1>4. b[0] = {} /\ \A k \in 1..n : b[k] = More(b[k - 1])
  <2> HIDE DEF More, n
  <2>1. \A k \in 0..n : b[k] = IF k = 0 THEN {} ELSE More(b[k - 1])
    BY <1>3
  <2>2. 0 \in 0..n /\ \A k \in 1..n : k \in 0..n /\ k # 0
    BY <1>0
  <2> QED
    BY <2>1, <2>2
<1> DEFINE Closed(X) == \A c \in D : o[c].in \in X \cup {r} /\ Open(o, o[c].in) => c \in X
<1>5. \A B : B \subseteq More(B) /\ (B \subseteq D => More(B) \subseteq D) /\ (More(B) = B <=> Closed(B))
  OBVIOUS
<1>6. \A X, B : Closed(X) /\ B \subseteq X => More(B) \subseteq X
  OBVIOUS
<1> HIDE DEF More, Upto, S, n, P, Closed
<1>7. \A k \in 0..n : b[k] \subseteq D /\ (Closed(b[k]) \/ Cardinality(b[k]) >= k)
  <2> DEFINE T == {k \in 0..n : b[k] \subseteq D /\ (Closed(b[k]) \/ Cardinality(b[k]) >= k)}
  <2>1. 0 \in T
    BY <1>0, <1>4, FS_EmptySet
  <2>2. ASSUME NEW k \in 1..n, k - 1 \in T PROVE k \in T
    <3>1. k \in 0..n /\ k - 1 \in Nat /\ k \in Int /\ b[k] = More(b[k - 1]) /\ b[k - 1] \subseteq D
      BY <1>0, <1>4, <2>2
    <3>2. b[k] \subseteq D /\ b[k - 1] \subseteq b[k]
      BY <1>5, <3>1
    <3>3. CASE Closed(b[k - 1])
      BY <1>5, <3>1, <3>2, <3>3
    <3>4. CASE ~Closed(b[k - 1])
      <4>1. b[k - 1] # b[k] /\ Cardinality(b[k - 1]) >= k - 1
        BY <1>5, <2>2, <3>1, <3>4
      <4>2. IsFiniteSet(b[k])
        BY <3>2, FS_Subset
      <4>3. Cardinality(b[k - 1]) < Cardinality(b[k])
        <5>1. Cardinality(b[k - 1]) <= Cardinality(b[k])
              /\ (Cardinality(b[k - 1]) = Cardinality(b[k]) => b[k - 1] = b[k])
          BY <3>2, <4>2, FS_Subset
        <5> QED
          BY <3>2, <4>1, <4>2, <5>1, FS_Subset, FS_CardinalityType
      <4>4. Cardinality(b[k]) \in Nat /\ Cardinality(b[k - 1]) \in Nat
        BY <3>2, <4>2, FS_Subset, FS_CardinalityType
      <4>5. Cardinality(b[k]) >= k
        BY <3>1, <4>1, <4>3, <4>4
      <4> QED
        BY <3>1, <3>2, <4>5
    <3> QED
      BY <3>3, <3>4
  <2> HIDE DEF T
  <2>3. 0..n \subseteq T
    BY <1>0, <2>1, <2>2, Induction
  <2> QED
    BY <2>3 DEF T
<1>8. P \subseteq D /\ Closed(P)
  <2>1. n \in 0..n /\ P = b[n]
    BY <1>0, <1>3
  <2>2. P \subseteq D /\ (Closed(P) \/ Cardinality(P) >= n)
    BY <1>7, <2>1
  <2>3. Closed(D)
    BY DEF Closed
  <2>4. Cardinality(P) >= n => P = D
    <3>1. Cardinality(P) <= n /\ (Cardinality(P) = n => P = D)
      BY <2>2, FS_Subset DEF n
    <3>2. Cardinality(P) \in Nat
      BY <2>2, FS_Subset, FS_CardinalityType
    <3> QED
      BY <1>0, <3>1, <3>2
  <2> QED
    BY <2>2, <2>3, <2>4
<1>9. ASSUME NEW X, Closed(X) PROVE P \subseteq X
  <2> DEFINE T == {k \in 0..n : b[k] \subseteq X}
  <2>1. 0 \in T
    BY <1>0, <1>4
  <2>2. ASSUME NEW k \in 1..n, k - 1 \in T PROVE k \in T
    BY <1>0, <1>4, <1>6, <1>9, <2>2
  <2> HIDE DEF T
  <2>3. 0..n \subseteq T
    BY <1>0, <2>1, <2>2, Induction
  <2> QED
    BY <1>0, <1>3, <2>3 DEF T
<1> QED
  BY <1>8, <1>9 DEF P, Closed

\* What the cleaner knows of a disk that nobody else changes: o is the disk it began with, S what
\* it has looked at since.  The directories it is in form a path.
Alike(fs, o, lost) ==
    /\ DOMAIN fs = DOMAIN o /\ IsFiniteSet(DOMAIN o)
    /\ \A j \in DOMAIN o : fs[j].name = o[j].name /\ fs[j].kind = o[j].kind /\ fs[j].locked = o[j].locked
    /\ \A j \in DOMAIN o \ lost : fs[j].in = o[j].in

Chain(s, fs) ==
    /\ s[1].path = Cleaner!Target /\ fs[s[1].id].in = Root /\ fs[s[1].id].name = "temp"
    /\ \A k \in 2..Len(s) : fs[s[k].id].in = s[k - 1].id /\ s[k].path = Append(s[k - 1].path, fs[s[k].id].name)

ToVisit(s, fs, S) ==
    \A k \in DOMAIN s :
        /\ \A x \in s[k].todo : \E c \in DOMAIN fs : fs[c].in = s[k].id /\ fs[c].name = x
        /\ \A c \in DOMAIN fs : fs[c].in = s[k].id /\ fs[c].name \in s[k].todo => c \notin S

Seen(s, L, o, S) ==
    /\ S \subseteq Cleaner!_preview_directory(o, s[1].id)
    /\ L \subseteq S \cup {s[1].id} /\ (L # {} => s[1].id \in L)
    /\ \A k \in DOMAIN s : s[k].id \in S \cup {s[1].id}
    /\ \A d \in L : Open(o, d)
    /\ \A c \in S : o[c].in \in L
    /\ \A c \in DOMAIN o : o[c].in \in L =>
           c \in S \/ \E k \in DOMAIN s : s[k].id = o[c].in /\ o[c].name \in s[k].todo

Here == {"stat", "act", "leave", "verify", "rmdir"}

EntryIs(t, fs, e) ==
    LET top == t.stack[Len(t.stack)]
        path == Append(top.path, fs[e].name)
    IN  /\ fs[e].in = top.id
        /\ t.step \in {"stat", "act"} => t.entry = path
        /\ t.step = "act" => fs[e].kind # "dir"
        /\ t.step \notin {"stat", "act"} => t.entry = <<path, e>> /\ fs[e].kind = "dir"

\* The directory it is about to list, or about to enter.
IsNext(t, fs, d) ==
    \/ t.step \in Unscanned /\ d = t.stack[Len(t.stack)].id
    \/ t.step = "stat" /\ EntryIs(t, fs, d)

\* What it has looked at is counted, but for the directories it is in and the entry it is at.
Counts(t, o, S) ==
    /\ t.failed \in Nat /\ t.items = Cardinality(Cleaner!_preview_directory(o, t.stack[1].id))
    /\ t.deleted + t.failed + Len(t.stack) + (IF t.step \in Here THEN 1 ELSE 0) = Cardinality(S) + 1

Alone(t, fs, o, S) ==
    /\ Alike(fs, o, t.lost) /\ Chain(t.stack, fs) /\ ToVisit(t.stack, fs, S) /\ Seen(t.stack, t.listed, o, S)
    /\ t.lost \subseteq S /\ Counts(t, o, S)
    /\ \A d \in S \cup {t.stack[1].id} : Open(o, d) => d \in t.listed \/ IsNext(t, fs, d)
    /\ t.step \in Here => \E e \in S : EntryIs(t, fs, e)
    /\ t.step = "recheck" => t.stack[Len(t.stack)].id \in t.listed

AloneInv(t, fs) ==
    /\ IsFiniteSet(DOMAIN fs)
    /\ t.quiet =>
          /\ t.step \in {"choose", "confirm"} => t.lost = {} /\ t.failed = 0
          /\ t.step = "confirm" =>
                t.items = Cardinality(Cleaner!_preview_directory(fs, Cleaner!_directory_identity(fs, Cleaner!Target)))
          /\ t.step \in Walking => \E o, S : Alone(t, fs, o, S)
          /\ t.step = "done" /\ t.listed # {} => t.deleted + t.failed = t.items

\* Every path of the traversal leads to the directory it is of.
LEMMA ChainLeads ==
    ASSUME CleanerInv, task.step \in Walking, Chain(task.stack, world.disk)
    PROVE  /\ Cleaner!TopMatches
           /\ \A e \in DOMAIN world.disk : world.disk[e].in = Cleaner!Top.id =>
                  Cleaner!lstat(world.disk, Append(Cleaner!Top.path, world.disk[e].name)) = e
<1>1. PICK fs : fs = world.disk
  OBVIOUS
<1>2. PICK s : s = task.stack
  OBVIOUS
<1>3. PICK n : n = Len(s)
  OBVIOUS
<1>4. /\ Tree(fs) /\ n \in Nat /\ n \in 1..n /\ Cleaner!Top = s[n] /\ Chain(s, fs)
      /\ \A k \in 1..n : s[k].path \in Seq(Text) /\ s[k].id \in DOMAIN fs /\ fs[s[k].id].kind = "dir"
  <2>1. StackInv(task, fs)
    BY <1>1 DEF CleanerInv, WalkInv, Core
  <2> QED
    BY <1>1, <1>2, <1>3, <2>1, TopIs DEF StackInv, Level, CleanerInv
<1>5. ASSUME NEW k \in 1..n, Cleaner!lstat(fs, s[k].path) = s[k].id, NEW e \in DOMAIN fs, fs[e].in = s[k].id
      PROVE  Cleaner!lstat(fs, Append(s[k].path, fs[e].name)) = e
  <2>1. PICK d : d = s[k].id
    OBVIOUS
  <2>2. PICK p : p = s[k].path
    OBVIOUS
  <2>3. d # None /\ Cleaner!Followed(fs, d) = d /\ p \in Seq(Text) /\ Cleaner!lstat(fs, p) = d
    BY <1>4, <1>5, <2>1, <2>2 DEF Tree, Cleaner!Followed
  <2>4. fs[e].name \in Text
    BY <1>4 DEF Tree, Cleaner!FileSystem, Text
  <2>5. Cleaner!lstat(fs, Append(p, fs[e].name)) = Cleaner!Held(fs, d, fs[e].name)
    BY <1>4, <2>3, <2>4, LookupInside
  <2>6. Cleaner!Held(fs, d, fs[e].name) = e
    BY <1>4, <1>5, <2>1, <2>3, HeldIs
  <2> QED
    BY <2>2, <2>5, <2>6
<1> DEFINE T == {k \in 0..n : k # 0 => Cleaner!lstat(fs, s[k].path) = s[k].id}
<1>6. 0 \in T
  BY <1>4
<1>7. ASSUME NEW k \in 1..n, k - 1 \in T PROVE k \in T
  <2>1. CASE k = 1
    <3>1. Cleaner!lstat(fs, Cleaner!Target) = s[1].id
      BY <1>4, <2>1, TargetLookup DEF Chain
    <3> QED
      BY <1>4, <2>1, <3>1 DEF Chain
  <2>2. CASE k # 1
    <3>1. k \in 2..Len(s) /\ k - 1 \in 1..n /\ k \in 0..n /\ k - 1 # 0
      BY <1>3, <1>4, <2>2
    <3>2. fs[s[k].id].in = s[k - 1].id /\ s[k].path = Append(s[k - 1].path, fs[s[k].id].name)
      BY <1>4, <3>1 DEF Chain
    <3>3. Cleaner!lstat(fs, s[k - 1].path) = s[k - 1].id
      BY <1>7, <3>1
    <3>4. s[k].id \in DOMAIN fs
      BY <1>4
    <3> QED
      BY <1>5, <3>1, <3>2, <3>3, <3>4
  <2> QED
    BY <2>1, <2>2
<1>8. Cleaner!lstat(fs, s[n].path) = s[n].id
  <2> HIDE DEF T
  <2>1. 0..n \subseteq T
    BY <1>4, <1>6, <1>7, Induction
  <2>2. n \in 0..n /\ n # 0
    BY <1>4
  <2> QED
    BY <2>1, <2>2 DEF T
<1>9. s[n].id # None
  BY <1>4 DEF Tree
<1>10. Cleaner!TopMatches
  BY <1>1, <1>4, <1>8, <1>9 DEF Cleaner!TopMatches, Cleaner!_directory_matches, Cleaner!Disk
<1> QED
  BY <1>1, <1>4, <1>5, <1>8, <1>10

\* A step that leaves the directories it is in as they are, and what was counted.
LEMMA SameAlone ==
    ASSUME NEW t, NEW fs, NEW o, NEW S, Alone(t, fs, o, S), NEW u,
           u.stack = t.stack, u.listed = t.listed, u.lost = t.lost, u.deleted = t.deleted, u.failed = t.failed,
           u.items = t.items,
           \/ t.step = "list" /\ u.step = "scan"
           \/ t.step = "recheck" /\ u.step = "look"
           \/ t.step \in {"leave", "verify"} /\ u.step \in {"verify", "rmdir"} /\ u.entry = t.entry
    PROVE  Alone(u, fs, o, S)
<1>1. Counts(u, o, S)
  BY DEF Alone, Counts, Here
<1>2. u.step \in Here => \E e \in S : EntryIs(u, fs, e)
  BY DEF Alone, EntryIs, Here
<1>3. \A d : IsNext(t, fs, d) => IsNext(u, fs, d)
  BY DEF IsNext, Unscanned
<1> QED
  BY <1>1, <1>2, <1>3 DEF Alone

\* The sizes that are compared.
LEMMA SeenFinite ==
    ASSUME NEW fs, NEW o, NEW lost, Alike(fs, o, lost), NEW s, NEW L, NEW S, Seen(s, L, o, S)
    PROVE  IsFiniteSet(S) /\ Cardinality(S) \in Nat /\ S \subseteq DOMAIN o
<1>1. IsFiniteSet(DOMAIN o)
  BY DEF Alike
<1>2. S \subseteq DOMAIN o
  BY <1>1, PreviewIs DEF Seen
<1> QED
  BY <1>1, <1>2, FS_Subset, FS_CardinalityType

\* A directory is left for the one it is in, done or not.
LEMMA PoppedAlone ==
    ASSUME CleanerInv, task.step \in {"look", "scan"}, Len(task.stack) # 1, Cleaner!Top.todo = {},
           NEW o, NEW S, Alone(task, world.disk, o, S), task.step = "scan" => ~Open(o, Cleaner!Top.id),
           NEW u, u.stack = SubSeq(task.stack, 1, Len(task.stack) - 1), u.listed = task.listed, u.lost = task.lost,
           u.deleted = task.deleted, u.items = task.items,
           \/ u.step = "leave" /\ u.entry = <<Cleaner!Top.path, Cleaner!Top.id>> /\ u.failed = task.failed
           \/ u.step = "look" /\ u.failed = task.failed + 1
    PROVE  Alone(u, world.disk, o, S)
<1>1. PICK fs : fs = world.disk
  OBVIOUS
<1>2. PICK s : s = task.stack
  OBVIOUS
<1>3. PICK f : f = u.stack
  OBVIOUS
<1>4. PICK n : n = Len(s)
  OBVIOUS
<1>5. /\ IsSequence(s) /\ n \in DOMAIN s /\ DOMAIN s = 1..n /\ n \in Nat /\ Cleaner!Top = s[n]
      /\ Level(s[n], fs, task.listed) /\ s # <<>>
  BY <1>1, <1>2, <1>4, TopIs DEF Walking, CleanerInv, WalkInv, Core, StackInv
<1>6. /\ Len(f) = n - 1 /\ f # <<>> /\ IsSequence(f)
      /\ \A k \in DOMAIN f : k \in DOMAIN s /\ k # n /\ f[k] = s[k]
  BY <1>2, <1>3, <1>4, <1>5, FrontShape
<1>7. n - 1 \in Nat /\ n # 1 /\ DOMAIN f = 1..n - 1 /\ 1 \in DOMAIN f /\ n \in 2..Len(s) /\ n - 1 \in DOMAIN f
  <2>1. PICK R : f \in Seq(R)
    BY <1>6 DEF IsSequence
  <2> QED
    BY <1>2, <1>4, <1>5, <1>6, <2>1
<1>8. /\ Alike(fs, o, task.lost) /\ Chain(s, fs) /\ ToVisit(s, fs, S) /\ Seen(s, task.listed, o, S) /\ task.lost \subseteq S
      /\ Counts(task, o, S) /\ s[n].todo = {}
      /\ \A d \in S \cup {s[1].id} : Open(o, d) => d \in task.listed \/ (task.step = "scan" /\ d = s[n].id)
  BY <1>1, <1>2, <1>4, <1>5 DEF Alone, IsNext, Unscanned
<1>9. f[1] = s[1] /\ f[n - 1] = s[n - 1]
  BY <1>6, <1>7
<1>10. Chain(f, fs)
  <2>1. \A k \in 2..n - 1 : k \in 2..Len(s) /\ f[k] = s[k] /\ f[k - 1] = s[k - 1]
    <3>1. \A k \in 2..n - 1 : k \in 1..n - 1 /\ k - 1 \in 1..n - 1 /\ k \in 2..Len(s)
      BY <1>4, <1>5
    <3> QED
      BY <1>6, <1>7, <3>1
  <2>2. \A k \in 2..Len(f) : fs[f[k].id].in = f[k - 1].id /\ f[k].path = Append(f[k - 1].path, fs[f[k].id].name)
    BY <1>6, <1>8, <2>1 DEF Chain
  <2>3. f[1].path = Cleaner!Target /\ fs[f[1].id].in = Root /\ fs[f[1].id].name = "temp"
    BY <1>8, <1>9 DEF Chain
  <2> QED
    BY <2>2, <2>3 DEF Chain
<1>11. ToVisit(f, fs, S)
  BY <1>6, <1>8 DEF ToVisit
<1>12. Seen(f, task.listed, o, S)
  <2>1. \A c \in DOMAIN o : o[c].in \in task.listed =>
            c \in S \/ \E k \in DOMAIN f : f[k].id = o[c].in /\ o[c].name \in f[k].todo
    <3>1. \A k \in DOMAIN s : k # n => k \in DOMAIN f /\ f[k] = s[k]
      BY <1>5, <1>6, <1>7
    <3> QED
      BY <1>8, <3>1 DEF Seen
  <2>2. \A k \in DOMAIN f : f[k].id \in S \cup {f[1].id}
    BY <1>6, <1>8, <1>9 DEF Seen
  <2> QED
    BY <1>8, <1>9, <2>1, <2>2 DEF Seen
<1>13. Counts(u, o, S)
  <2>1. Cardinality(S) \in Nat /\ task.failed \in Nat /\ task.deleted \in Nat
    BY <1>1, <1>8, SeenFinite, FS_CardinalityType DEF Counts, CleanerInv, WalkInv, Core, LostInv
  <2>2. task.deleted + task.failed + n + 0 = Cardinality(S) + 1 /\ u.items = Cardinality(Cleaner!_preview_directory(o, f[1].id))
    BY <1>2, <1>4, <1>8, <1>9 DEF Counts, Here
  <2>3. Len(u.stack) = n - 1
    BY <1>3, <1>6
  <2>4. /\ u.step = "leave" => u.step \in Here /\ u.failed = task.failed
        /\ u.step = "look" => u.step \notin Here /\ u.failed = task.failed + 1
    BY DEF Here
  <2>5. u.failed \in Nat /\ u.deleted + u.failed + (n - 1) + (IF u.step \in Here THEN 1 ELSE 0) = Cardinality(S) + 1
    BY <1>5, <2>1, <2>2, <2>4
  <2> QED
    BY <1>3, <2>2, <2>3, <2>5 DEF Counts
<1>14. ASSUME u.step \in Here PROVE \E e \in S : EntryIs(u, fs, e)
  <2>1. PICK e : e = s[n].id
    OBVIOUS
  <2>2. e \in S
    <3>1. s[1].id # e
      BY <1>1, <1>2, <1>4, <1>5, <1>7, <2>1 DEF CleanerInv, WalkInv, Core, StackInv
    <3> QED
      BY <1>5, <1>8, <2>1, <3>1 DEF Seen
  <2>3. fs[e].in = f[n - 1].id /\ s[n].path = Append(f[n - 1].path, fs[e].name) /\ fs[e].kind = "dir"
    BY <1>5, <1>7, <1>8, <1>9, <2>1 DEF Chain, Level
  <2>4. u.step = "leave" /\ u.entry = <<s[n].path, e>> /\ u.stack[Len(u.stack)] = f[n - 1]
    BY <1>3, <1>5, <1>6, <1>14, <2>1 DEF Here
  <2> QED
    BY <2>2, <2>3, <2>4 DEF EntryIs
<1>15. \A d \in S \cup {f[1].id} : Open(o, d) => d \in task.listed
  BY <1>5, <1>8, <1>9
<1> QED
  BY <1>1, <1>3, <1>8, <1>10, <1>11, <1>12, <1>13, <1>14, <1>15 DEF Alone

\* The target is done: everything the preview counted was looked at.
LEMMA DoneAlone ==
    ASSUME CleanerInv, task.step = "look", Len(task.stack) = 1, Cleaner!Top.todo = {},
           NEW o, NEW S, Alone(task, world.disk, o, S)
    PROVE  task.deleted + task.failed = task.items
<1>1. PICK fs : fs = world.disk
  OBVIOUS
<1>2. PICK s : s = task.stack
  OBVIOUS
<1>3. PICK P : P = Cleaner!_preview_directory(o, s[1].id)
  OBVIOUS
<1>4. DOMAIN s = {1} /\ s[1].todo = {}
  <2>1. DOMAIN s = 1..1 /\ Cleaner!Top = s[1]
    BY <1>2, TopIs DEF Walking
  <2> QED
    BY <2>1
<1>5. /\ Alike(fs, o, task.lost) /\ Seen(s, task.listed, o, S) /\ Counts(task, o, S)
      /\ \A d \in S \cup {s[1].id} : Open(o, d) => d \in task.listed
  BY <1>1, <1>2 DEF Alone, IsNext, Unscanned
<1>6. \A c \in DOMAIN o : o[c].in \in S \cup {s[1].id} /\ Open(o, o[c].in) => c \in S
  BY <1>4, <1>5 DEF Seen
<1>7. P \subseteq S
  BY <1>3, <1>5, <1>6, PreviewIs DEF Alike
<1>8. P = S
  BY <1>3, <1>5, <1>7 DEF Seen
<1>9. Cardinality(S) \in Nat /\ task.failed \in Nat /\ task.deleted \in Nat
  BY <1>1, <1>5, SeenFinite, FS_CardinalityType DEF Counts, CleanerInv, WalkInv, Core, LostInv
<1>10. task.deleted + task.failed + 1 + 0 = Cardinality(S) + 1 /\ task.items = Cardinality(S)
  BY <1>2, <1>3, <1>5, <1>8 DEF Counts, Here
<1> QED
  BY <1>9, <1>10

\* Its entries are what is to be visited of a directory that was listed.
LEMMA ListedAlone ==
    ASSUME CleanerInv, task.step = "scan", NEW o, NEW S, Alone(task, world.disk, o, S), Open(o, Cleaner!Top.id),
           NEW X, X = {world.disk[i].name : i \in Cleaner!Listing(world.disk, Cleaner!Top.id)},
           NEW u, LeavesToDo(task.stack, u.stack, X), u.step = "recheck", u.listed = task.listed \cup {Cleaner!Top.id},
           u.lost = task.lost, u.deleted = task.deleted, u.failed = task.failed, u.items = task.items
    PROVE  Alone(u, world.disk, o, S)
<1>1. PICK fs : fs = world.disk
  OBVIOUS
<1>2. PICK s : s = task.stack
  OBVIOUS
<1>3. PICK f : f = u.stack
  OBVIOUS
<1>4. PICK n : n = Len(s)
  OBVIOUS
<1>5. PICK d : d = s[n].id
  OBVIOUS
<1>6. /\ n \in DOMAIN s /\ DOMAIN s = 1..n /\ n \in Nat /\ Cleaner!Top = s[n] /\ s[n].todo = {}
      /\ d \in DOMAIN fs /\ d # None /\ fs[d].kind = "dir" /\ d \notin task.listed
      /\ \A k \in DOMAIN s : k # n => s[k].id \in task.listed
      /\ \A k \in DOMAIN s : s[k].id = d => k = n
      /\ \A c \in task.lost : fs[c].in = None
  BY <1>1, <1>2, <1>4, <1>5, TopIs DEF Walking, Unscanned, CleanerInv, WalkInv, Core, StackInv, Level, Tree, LostInv
<1>7. /\ Alike(fs, o, task.lost) /\ Chain(s, fs) /\ ToVisit(s, fs, S) /\ Seen(s, task.listed, o, S) /\ task.lost \subseteq S
      /\ Counts(task, o, S) /\ Open(o, d)
      /\ \A e \in S \cup {s[1].id} : Open(o, e) => e \in task.listed \cup {d}
  BY <1>1, <1>2, <1>4, <1>5, <1>6 DEF Alone, IsNext, Unscanned
<1>8. /\ Len(f) = n /\ DOMAIN f = DOMAIN s /\ f[n].todo = X
      /\ \A k \in DOMAIN s : f[k].id = s[k].id /\ f[k].path = s[k].path /\ (k # n => f[k].todo = s[k].todo)
  BY <1>2, <1>3, <1>4, <1>6 DEF LeavesToDo
<1>9. \A x : x \in X <=> \E c \in DOMAIN fs : fs[c].in = d /\ fs[c].name = x
  BY <1>1, <1>5, <1>6 DEF Cleaner!Listing
<1>10. 1 \in DOMAIN s /\ f[1].id = s[1].id /\ f[1].path = s[1].path
  BY <1>6, <1>8
<1>11. Chain(f, fs)
  <2>1. \A k \in 2..Len(f) : k \in DOMAIN s /\ k - 1 \in DOMAIN s /\ k \in 2..Len(s)
    BY <1>4, <1>6, <1>8
  <2>2. \A k \in 2..Len(f) : fs[f[k].id].in = f[k - 1].id /\ f[k].path = Append(f[k - 1].path, fs[f[k].id].name)
    BY <1>7, <1>8, <2>1 DEF Chain
  <2> QED
    BY <1>7, <1>10, <2>2 DEF Chain
<1>12. \A c \in DOMAIN fs : fs[c].in = d => c \notin S
  BY <1>6, <1>7 DEF Alike, Seen
<1>13. ToVisit(f, fs, S)
  BY <1>5, <1>6, <1>7, <1>8, <1>9, <1>12 DEF ToVisit
<1>14. Seen(f, task.listed \cup {d}, o, S)
  <2>1. s[1].id \in task.listed \cup {d}
    BY <1>5, <1>6, <1>10
  <2>2. d \in S \cup {s[1].id}
    BY <1>5, <1>6, <1>7 DEF Seen
  <2>3. ASSUME NEW c \in DOMAIN o, o[c].in \in task.listed \cup {d}, c \notin S
        PROVE  \E k \in DOMAIN f : f[k].id = o[c].in /\ o[c].name \in f[k].todo
    <3>1. CASE o[c].in = d
      <4>1. c \in DOMAIN fs /\ fs[c].in = d /\ fs[c].name = o[c].name
        BY <1>7, <2>3, <3>1 DEF Alike
      <4> QED
        BY <1>5, <1>6, <1>8, <1>9, <3>1, <4>1
    <3>2. CASE o[c].in \in task.listed
      <4>1. PICK k \in DOMAIN s : s[k].id = o[c].in /\ o[c].name \in s[k].todo
        BY <1>7, <2>3, <3>2 DEF Seen
      <4>2. k # n
        BY <1>6, <4>1
      <4> QED
        BY <1>8, <4>1, <4>2
    <3> QED
      BY <2>3, <3>1, <3>2
  <2> QED
    BY <1>7, <1>8, <1>10, <2>1, <2>2, <2>3 DEF Seen
<1>15. Counts(u, o, S)
  BY <1>2, <1>3, <1>4, <1>7, <1>8, <1>10 DEF Counts, Here
<1>16. u.stack[Len(u.stack)].id = d /\ u.listed = task.listed \cup {d} /\ u.step = "recheck"
  BY <1>3, <1>4, <1>5, <1>6, <1>8
<1> QED
  BY <1>1, <1>3, <1>5, <1>6, <1>7, <1>10, <1>11, <1>13, <1>14, <1>15, <1>16 DEF Alone, Here

\* The next name is taken, and what bears it is looked at.
LEMMA NamedAlone ==
    ASSUME CleanerInv, task.step = "look", NEW o, NEW S, Alone(task, world.disk, o, S), NEW x \in Cleaner!Top.todo,
           NEW s, LeavesToDo(task.stack, s, Cleaner!Top.todo \ {x}),
           NEW i \in DOMAIN world.disk, world.disk[i].in = Cleaner!Top.id, world.disk[i].name = x
    PROVE  /\ Chain(s, world.disk) /\ ToVisit(s, world.disk, S \cup {i}) /\ Seen(s, task.listed, o, S \cup {i})
           /\ s[1].id = task.stack[1].id /\ i \notin S
<1>1. PICK fs : fs = world.disk
  OBVIOUS
<1>2. PICK r : r = task.stack
  OBVIOUS
<1>3. PICK n : n = Len(r)
  OBVIOUS
<1>4. PICK d : d = r[n].id
  OBVIOUS
<1>5. /\ n \in DOMAIN r /\ DOMAIN r = 1..n /\ n \in Nat /\ Cleaner!Top = r[n] /\ d # None /\ Tree(fs)
      /\ d \in task.listed /\ \A k \in DOMAIN r : r[k].id = d => k = n
      /\ \A c \in task.lost : fs[c].in = None
  BY <1>1, <1>2, <1>3, <1>4, TopIs DEF Walking, Unscanned, CleanerInv, WalkInv, Core, StackInv, Level, Tree, LostInv
<1>6. /\ Alike(fs, o, task.lost) /\ Chain(r, fs) /\ ToVisit(r, fs, S) /\ Seen(r, task.listed, o, S) /\ task.lost \subseteq S
  BY <1>1, <1>2 DEF Alone
<1>7. /\ Len(s) = n /\ DOMAIN s = DOMAIN r /\ s[n].todo = r[n].todo \ {x}
      /\ \A k \in DOMAIN r : s[k].id = r[k].id /\ s[k].path = r[k].path /\ (k # n => s[k].todo = r[k].todo)
  BY <1>2, <1>3, <1>5 DEF LeavesToDo
<1>8. 1 \in DOMAIN r /\ s[1].id = r[1].id /\ s[1].path = r[1].path
  BY <1>5, <1>7
<1>9. Chain(s, fs)
  <2>1. \A k \in 2..Len(s) : k \in DOMAIN r /\ k - 1 \in DOMAIN r /\ k \in 2..Len(r)
    BY <1>3, <1>5, <1>7
  <2>2. \A k \in 2..Len(s) : fs[s[k].id].in = s[k - 1].id /\ s[k].path = Append(s[k - 1].path, fs[s[k].id].name)
    BY <1>6, <1>7, <2>1 DEF Chain
  <2> QED
    BY <1>6, <1>8, <2>2 DEF Chain
<1>10. i \in DOMAIN fs /\ fs[i].in = d /\ fs[i].name = x /\ x \in r[n].todo
  BY <1>1, <1>4, <1>5
<1>11. i \notin S /\ i \notin task.lost /\ i \in DOMAIN o /\ o[i].in = d
  BY <1>4, <1>5, <1>6, <1>10 DEF ToVisit, Alike
<1>12. \A c \in DOMAIN fs : fs[c].in = d /\ fs[c].name = x => c = i
  BY <1>5, <1>10 DEF Tree, Cleaner!FileSystem
<1>13. ToVisit(s, fs, S \cup {i})
  <2>1. \A k \in DOMAIN s : s[k].todo \subseteq r[k].todo
    BY <1>7
  <2>2. ASSUME NEW k \in DOMAIN s, NEW c \in DOMAIN fs, fs[c].in = s[k].id, fs[c].name \in s[k].todo PROVE c # i
    BY <1>5, <1>7, <1>10, <2>2
  <2> QED
    BY <1>6, <1>7, <2>1, <2>2 DEF ToVisit
<1>14. Seen(s, task.listed, o, S \cup {i})
  <2>1. i \in Cleaner!_preview_directory(o, r[1].id)
    <3>1. Open(o, d) /\ d \in Cleaner!_preview_directory(o, r[1].id) \cup {r[1].id}
      BY <1>5, <1>6 DEF Seen
    <3> QED
      BY <1>6, <1>11, <3>1, PreviewIs DEF Alike
  <2>2. ASSUME NEW c \in DOMAIN o, o[c].in \in task.listed, c \notin S \cup {i}
        PROVE  \E k \in DOMAIN s : s[k].id = o[c].in /\ o[c].name \in s[k].todo
    <3>1. PICK k \in DOMAIN r : r[k].id = o[c].in /\ o[c].name \in r[k].todo
      BY <1>6, <2>2 DEF Seen
    <3>2. c \in DOMAIN fs /\ fs[c].in = o[c].in /\ fs[c].name = o[c].name
      BY <1>6, <2>2 DEF Alike
    <3>3. k = n => o[c].name # x
      BY <1>4, <1>12, <2>2, <3>1, <3>2
    <3> QED
      BY <1>7, <3>1, <3>3
  <2> QED
    BY <1>5, <1>6, <1>7, <1>8, <1>11, <2>1, <2>2 DEF Seen
<1> QED
  BY <1>1, <1>2, <1>8, <1>9, <1>11, <1>13, <1>14

LEMMA TakenAlone ==
    ASSUME CleanerInv, task.step = "look", NEW o, NEW S, Alone(task, world.disk, o, S), NEW x \in Cleaner!Top.todo,
           NEW s, LeavesToDo(task.stack, s, Cleaner!Top.todo \ {x}),
           NEW i \in DOMAIN world.disk, world.disk[i].in = Cleaner!Top.id, world.disk[i].name = x,
           NEW u, u.listed = task.listed, u.lost = task.lost, u.deleted = task.deleted, u.failed = task.failed,
           u.items = task.items, u.step = "stat", u.stack = s, u.entry = Append(Cleaner!Top.path, x)
    PROVE  Alone(u, world.disk, o, S \cup {i})
<1>1. PICK fs : fs = world.disk
  OBVIOUS
<1>2. PICK n : n = Len(s)
  OBVIOUS
<1>3. /\ n = Len(task.stack) /\ n \in DOMAIN s /\ DOMAIN s = 1..n /\ n \in Nat
      /\ s[n].path = Cleaner!Top.path /\ s[n].id = Cleaner!Top.id
  BY <1>2, TopIs DEF Walking, LeavesToDo
<1>4. /\ Chain(s, fs) /\ ToVisit(s, fs, S \cup {i}) /\ Seen(s, task.listed, o, S \cup {i})
      /\ s[1].id = task.stack[1].id /\ i \notin S
  BY <1>1, NamedAlone
<1>5. /\ Alike(fs, o, task.lost) /\ task.lost \subseteq S /\ Counts(task, o, S)
      /\ \A d \in S \cup {s[1].id} : Open(o, d) => d \in task.listed
      /\ IsFiniteSet(S)
  BY <1>1, <1>4, SeenFinite DEF Alone, IsNext, Unscanned
<1>6. Cardinality(S \cup {i}) = Cardinality(S) + 1 /\ Cardinality(S) \in Nat
  BY <1>4, <1>5, FS_AddElement, FS_CardinalityType
<1>7. /\ task.deleted + task.failed + n + 0 = Cardinality(S) + 1 /\ task.failed \in Nat /\ task.deleted \in Nat
      /\ task.items = Cardinality(Cleaner!_preview_directory(o, s[1].id))
  BY <1>3, <1>4, <1>5, FS_CardinalityType DEF Counts, Here, CleanerInv, WalkInv, Core, LostInv
<1>8. u.deleted + u.failed + n + 1 = Cardinality(S \cup {i}) + 1
  BY <1>3, <1>6, <1>7
<1>9. Counts(u, o, S \cup {i})
  BY <1>2, <1>7, <1>8 DEF Counts, Here
<1>10. EntryIs(u, fs, i)
  BY <1>1, <1>2, <1>3 DEF EntryIs
<1>11. IsNext(u, fs, i)
  BY <1>10 DEF IsNext
<1> QED
  BY <1>1, <1>4, <1>5, <1>9, <1>10, <1>11 DEF Alone

\* A directory is entered.
LEMMA EnteredAlone ==
    ASSUME CleanerInv, task.step = "stat", NEW o, NEW S, Alone(task, world.disk, o, S),
           NEW i \in S, EntryIs(task, world.disk, i), \A d \in S : EntryIs(task, world.disk, d) => d = i,
           NEW u, u.listed = task.listed, u.lost = task.lost, u.deleted = task.deleted, u.failed = task.failed,
           u.items = task.items, u.step = "list",
           u.stack = Append(task.stack, [path |-> task.entry, id |-> i, todo |-> {}])
    PROVE  Alone(u, world.disk, o, S)
<1>1. PICK fs : fs = world.disk
  OBVIOUS
<1>2. PICK s : s = task.stack
  OBVIOUS
<1>3. PICK n : n = Len(s)
  OBVIOUS
<1>4. /\ n \in DOMAIN s /\ DOMAIN s = 1..n /\ n \in Nat /\ IsSequence(s)
      /\ fs[i].in = s[n].id /\ task.entry = Append(s[n].path, fs[i].name)
      /\ fs[s[1].id].in # s[n].id
  <2>1. /\ n \in DOMAIN s /\ DOMAIN s = 1..n /\ n \in Nat /\ IsSequence(s)
    BY <1>2, <1>3, TopIs DEF Walking
  <2>2. fs[i].in = s[n].id /\ task.entry = Append(s[n].path, fs[i].name)
    BY <1>1, <1>2, <1>3 DEF EntryIs
  <2>3. s[n].id # Root /\ fs[s[1].id].in = Root
    BY <1>1, <1>2, <1>3, TopIs DEF Walking, Level, Alone, Chain
  <2> QED
    BY <2>1, <2>2, <2>3
<1>5. /\ Chain(s, fs) /\ ToVisit(s, fs, S) /\ Seen(s, task.listed, o, S)
      /\ Alike(fs, o, task.lost) /\ task.lost \subseteq S /\ Counts(task, o, S)
      /\ \A d \in S \cup {s[1].id} : Open(o, d) => d \in task.listed \/ d = i
  <2>1. ~EntryIs(task, fs, s[1].id)
    BY <1>2, <1>3, <1>4 DEF EntryIs
  <2> QED
    BY <1>1, <1>2, <2>1 DEF Alone, IsNext, Unscanned
<1>6. Cardinality(S) \in Nat
  BY <1>5, SeenFinite
<1>7. /\ task.deleted + task.failed + n + 1 = Cardinality(S) + 1 /\ task.failed \in Nat /\ task.deleted \in Nat
      /\ task.items = Cardinality(Cleaner!_preview_directory(o, s[1].id))
  BY <1>2, <1>3, <1>5, FS_CardinalityType DEF Counts, Here, CleanerInv, WalkInv, Core, LostInv
<1>8. PICK e : e = [path |-> task.entry, id |-> i, todo |-> {}]
  OBVIOUS
<1>9. PICK f : f = Append(s, e)
  OBVIOUS
<1>10. u.stack = f /\ e.path = task.entry /\ e.id = i /\ e.todo = {}
  BY <1>2, <1>8, <1>9
<1>11. Len(f) = n + 1 /\ DOMAIN f = 1..n + 1 /\ f[n + 1] = e /\ \A k \in 1..n : f[k] = s[k]
  <2>1. PICK R : s \in Seq(R)
    BY <1>4 DEF IsSequence
  <2>2. s \in Seq(R \cup {e})
    BY <2>1
  <2>3. f \in Seq(R \cup {e}) /\ Len(f) = n + 1 /\ f[n + 1] = e /\ \A k \in 1..n : f[k] = s[k]
    BY <1>3, <1>9, <2>2
  <2> QED
    BY <2>3
<1>12. /\ 1 \in 1..n /\ f[1] = s[1] /\ n + 1 \in DOMAIN f /\ f[(n + 1) - 1] = s[n]
       /\ \A k \in DOMAIN f : (k \in DOMAIN s /\ f[k] = s[k]) \/ (k = n + 1 /\ f[k] = e)
  <2>1. n \in Nat /\ n \in 1..n
    BY <1>4
  <2>2. 1 \in 1..n /\ n + 1 \in 1..n + 1 /\ (n + 1) - 1 = n /\ \A k \in 1..n + 1 : k \in 1..n \/ k = n + 1
    BY <2>1
  <2> QED
    BY <1>4, <1>11, <2>1, <2>2
<1>13. Chain(f, fs)
  <2>1. ASSUME NEW k \in 2..Len(f) PROVE fs[f[k].id].in = f[k - 1].id /\ f[k].path = Append(f[k - 1].path, fs[f[k].id].name)
    <3>1. CASE k = n + 1
      BY <1>4, <1>10, <1>11, <1>12, <3>1
    <3>2. CASE k # n + 1
      <4>1. k \in 2..Len(s) /\ k \in 1..n /\ k - 1 \in 1..n
        BY <1>3, <1>4, <1>11, <3>2
      <4> QED
        BY <1>5, <1>11, <4>1 DEF Chain
    <3> QED
      BY <3>1, <3>2
  <2> QED
    BY <1>5, <1>12, <2>1 DEF Chain
<1>14. ToVisit(f, fs, S)
  BY <1>5, <1>10, <1>12 DEF ToVisit
<1>15. Seen(f, task.listed, o, S)
  <2>1. \A k \in DOMAIN s : k \in DOMAIN f /\ f[k] = s[k]
    BY <1>4, <1>11
  <2>2. \A k \in DOMAIN f : f[k].id \in S \cup {f[1].id}
    BY <1>5, <1>10, <1>12 DEF Seen
  <2> QED
    BY <1>5, <1>12, <2>1, <2>2 DEF Seen
<1>16. u.step \notin Here /\ u.deleted + u.failed + (n + 1) + 0 = Cardinality(S) + 1
  BY <1>4, <1>6, <1>7 DEF Here
<1>17. Counts(u, o, S)
  BY <1>7, <1>10, <1>11, <1>12, <1>16 DEF Counts
<1>18. IsNext(u, fs, i)
  BY <1>10, <1>11 DEF IsNext, Unscanned
<1>19. \A d \in S \cup {f[1].id} : Open(o, d) => d \in task.listed \/ IsNext(u, fs, d)
  BY <1>5, <1>12, <1>18
<1> QED
  BY <1>1, <1>5, <1>10, <1>13, <1>14, <1>15, <1>16, <1>17, <1>19 DEF Alone

\* What was looked at is removed or remains.
LEMMA RemovedAlone ==
    ASSUME CleanerInv, task.step \in {"act", "rmdir"}, NEW o, NEW S, Alone(task, world.disk, o, S),
           NEW e \in S, EntryIs(task, world.disk, e), NEW j \in {e, None}, Cleaner!Removed(j, "look"),
           j = e /\ task.step = "rmdir" => Cleaner!Listing(world.disk, e) = {}
    PROVE  Alone(task', world'.disk, o, S)
<1>1. PICK fs : fs = world.disk
  OBVIOUS
<1>2. PICK s : s = task.stack
  OBVIOUS
<1>3. PICK n : n = Len(s)
  OBVIOUS
<1>4. /\ n \in DOMAIN s /\ DOMAIN s = 1..n /\ n \in Nat /\ DOMAIN task = CleanerFields /\ Tree(fs)
      /\ DOMAIN world = {"disk", "machine", "changes"} /\ \A k \in DOMAIN s : fs[s[k].id].kind = "dir" /\ s[k].id \in DOMAIN fs
      /\ task.deleted \in Nat /\ task.step \in Here /\ task.step \in Walking
      /\ \A c \in task.lost : fs[c].in = None
  BY <1>1, <1>2, <1>3, TopIs, FS_CardinalityType DEF Walking, Here, CleanerInv, WalkInv, Core, StackInv, Level, LostInv
<1>5. /\ Alike(fs, o, task.lost) /\ Chain(s, fs) /\ ToVisit(s, fs, S) /\ Seen(s, task.listed, o, S) /\ task.lost \subseteq S
      /\ Counts(task, o, S) /\ \A d \in S \cup {s[1].id} : Open(o, d) => d \in task.listed
  BY <1>1, <1>2, <1>4 DEF Alone, IsNext, Unscanned
<1>6. Cardinality(S) \in Nat /\ e \in DOMAIN fs
  BY <1>5, SeenFinite DEF Alike
<1>7. /\ task.deleted + task.failed + n + 1 = Cardinality(S) + 1 /\ task.failed \in Nat
      /\ task.items = Cardinality(Cleaner!_preview_directory(o, s[1].id))
  BY <1>2, <1>3, <1>4, <1>5 DEF Counts
<1>8. CASE j # None /\ ~fs[j].locked
  <2>1. PICK fs2 : fs2 = [fs EXCEPT ![e].in = None]
    OBVIOUS
  <2>2. world' = [world EXCEPT !.disk = fs2] /\ j = e
    BY <1>1, <1>4, <1>8, <2>1 DEF Cleaner!Removed, Cleaner!Disk
  <2>3. task' = [task EXCEPT !.step = "look", !.entry = None, !.deleted = @ + 1, !.lost = @ \cup {e}]
    BY <1>1, <1>8, <2>2 DEF Cleaner!Removed, Cleaner!Disk
  <2>4. world'.disk = fs2
    BY <1>4, <2>2
  <2>5. /\ task'.step = "look" /\ task'.stack = s /\ task'.listed = task.listed /\ task'.lost = task.lost \cup {e}
        /\ task'.deleted = task.deleted + 1 /\ task'.failed = task.failed /\ task'.items = task.items
    BY <1>2, <1>4, <2>3 DEF CleanerFields
  <2>6. Puts(fs, fs2, e, None)
    BY <1>4, <1>6, <2>1, PutsIs
  <2>7. DOMAIN fs2 = DOMAIN fs /\ \A i \in DOMAIN fs : /\ fs2[i].kind = fs[i].kind /\ fs2[i].name = fs[i].name
                                                      /\ fs2[i].locked = fs[i].locked
                                                      /\ fs2[i].in = IF i = e THEN None ELSE fs[i].in
    <3>1. fs2[e].locked = fs[e].locked
      BY <1>4, <1>6, <2>1 DEF Tree, Cleaner!FileSystem, Cleaner!Node
    <3> QED
      BY <2>6, <3>1 DEF Puts
  <2>8. \A k \in DOMAIN s : s[k].id # e
    <3> SUFFICES ASSUME NEW k \in DOMAIN s, s[k].id = e PROVE FALSE
      OBVIOUS
    <3>1. task.step = "rmdir" /\ \A c \in DOMAIN fs : fs[c].in # e
      BY <1>1, <1>4, <2>2 DEF EntryIs, Cleaner!Listing
    <3>2. CASE k = n
      BY <1>1, <1>2, <1>3, <1>6, <3>1, <3>2 DEF EntryIs
    <3>3. CASE k # n
      <4>1. k + 1 \in 2..Len(s) /\ k + 1 \in DOMAIN s /\ (k + 1) - 1 = k
        BY <1>3, <1>4, <3>3
      <4>2. fs[s[k + 1].id].in = s[k].id
        BY <1>5, <4>1 DEF Chain
      <4> QED
        BY <1>4, <3>1, <4>1, <4>2
    <3> QED
      BY <3>2, <3>3
  <2>9. Alike(fs2, o, task.lost \cup {e})
    BY <1>5, <2>7 DEF Alike
  <2>10. Chain(s, fs2)
    <3>1. \A k \in DOMAIN s : fs2[s[k].id].in = fs[s[k].id].in /\ fs2[s[k].id].name = fs[s[k].id].name
      BY <1>4, <2>7, <2>8
    <3>2. 1 \in DOMAIN s /\ \A k \in 2..Len(s) : k \in DOMAIN s
      BY <1>3, <1>4
    <3> QED
      BY <1>5, <3>1, <3>2 DEF Chain
  <2>11. ToVisit(s, fs2, S)
    <3>1. \A k \in DOMAIN s : s[k].id # None
      BY <1>4 DEF Tree
    <3> SUFFICES ASSUME NEW k \in DOMAIN s
                 PROVE  /\ \A x \in s[k].todo : \E c \in DOMAIN fs2 : fs2[c].in = s[k].id /\ fs2[c].name = x
                        /\ \A c \in DOMAIN fs2 : fs2[c].in = s[k].id /\ fs2[c].name \in s[k].todo => c \notin S
      BY DEF ToVisit
    <3>2. \A c \in DOMAIN fs2 : fs2[c].in = s[k].id /\ fs2[c].name \in s[k].todo => c \notin S
      BY <1>5, <2>7, <3>1 DEF ToVisit
    <3>3. ASSUME NEW x \in s[k].todo PROVE \E c \in DOMAIN fs2 : fs2[c].in = s[k].id /\ fs2[c].name = x
      <4>1. PICK c \in DOMAIN fs : fs[c].in = s[k].id /\ fs[c].name = x
        BY <1>5 DEF ToVisit
      <4>2. c # e
        BY <1>5, <4>1 DEF ToVisit
      <4> QED
        BY <2>7, <4>1, <4>2
    <3> QED
      BY <3>2, <3>3
  <2>12. Counts(task', o, S)
    <3>1. task'.step \notin Here /\ task'.deleted + task'.failed + n + 0 = Cardinality(S) + 1
      BY <1>4, <1>6, <1>7, <2>5 DEF Here
    <3> QED
      BY <1>3, <1>7, <2>5, <3>1 DEF Counts
  <2> QED
    BY <1>5, <2>4, <2>5, <2>9, <2>10, <2>11, <2>12 DEF Alone, Here
<1>9. CASE ~(j # None /\ ~fs[j].locked)
  <2>1. task' = [Cleaner!_record_failure(task) EXCEPT !.step = "look", !.entry = None] /\ world' = world
    BY <1>1, <1>9 DEF Cleaner!Removed, Cleaner!Disk
  <2>2. /\ task'.step = "look" /\ task'.stack = s /\ task'.listed = task.listed /\ task'.lost = task.lost
        /\ task'.deleted = task.deleted /\ task'.failed = task.failed + 1 /\ task'.items = task.items
    BY <1>2, <1>4, <2>1 DEF CleanerFields, Cleaner!_record_failure
  <2>3. Counts(task', o, S)
    <3>1. task'.step \notin Here /\ task'.deleted + task'.failed + n + 0 = Cardinality(S) + 1 /\ task'.failed \in Nat
      BY <1>4, <1>6, <1>7, <2>2 DEF Here
    <3> QED
      BY <1>3, <1>7, <2>2, <3>1 DEF Counts
  <2> QED
    BY <1>1, <1>5, <2>1, <2>2, <2>3 DEF Alone, Here
<1> QED
  BY <1>8, <1>9

LEMMA FailedIs ==
    ASSUME NEW t, DOMAIN t = CleanerFields
    PROVE  LET u == Cleaner!_record_failure(t)
           IN  /\ DOMAIN u = CleanerFields /\ u.step = t.step /\ u.stack = t.stack /\ u.entry = t.entry /\ u.listed = t.listed
               /\ u.lost = t.lost /\ u.deleted = t.deleted /\ u.failed = t.failed + 1 /\ u.items = t.items /\ u.quiet = t.quiet
BY DEF Cleaner!_record_failure, CleanerFields

LEMMA ReturnedIs ==
    ASSUME NEW t, DOMAIN t = CleanerFields, NEW completed \in BOOLEAN
    PROVE  LET u == Cleaner!Returned(t, completed)
               top == t.stack[Len(t.stack)]
           IN  /\ u.listed = t.listed /\ u.lost = t.lost /\ u.deleted = t.deleted /\ u.failed = t.failed
               /\ u.items = t.items /\ u.quiet = t.quiet
               /\ Len(t.stack) = 1 => u.step = "done"
               /\ Len(t.stack) # 1 =>
                     /\ u.step = IF completed THEN "leave" ELSE "look"
                     /\ u.stack = SubSeq(t.stack, 1, Len(t.stack) - 1)
                     /\ completed => u.entry = <<top.path, top.id>>
<1>1. PICK top : top = t.stack[Len(t.stack)]
  OBVIOUS
<1>2. PICK u : u = Cleaner!Returned(t, completed)
  OBVIOUS
<1>3. PICK f : f = SubSeq(t.stack, 1, Len(t.stack) - 1)
  OBVIOUS
<1>4. PICK e : e = IF completed THEN <<top.path, top.id>> ELSE None
  OBVIOUS
<1>5. PICK s : s = IF completed THEN "leave" ELSE "look"
  OBVIOUS
<1>6. CASE Len(t.stack) = 1
  <2>1. u = [t EXCEPT !.step = "done", !.stack = <<>>]
    BY <1>2, <1>6 DEF Cleaner!Returned
  <2> QED
    BY <1>2, <1>6, <2>1 DEF CleanerFields
<1>7. CASE Len(t.stack) # 1
  <2>1. u = [t EXCEPT !.step = s, !.stack = f, !.entry = e]
    BY <1>1, <1>2, <1>3, <1>4, <1>5, <1>7 DEF Cleaner!Returned
  <2>2. /\ u.listed = t.listed /\ u.lost = t.lost /\ u.deleted = t.deleted /\ u.failed = t.failed
        /\ u.items = t.items /\ u.quiet = t.quiet /\ u.step = s /\ u.stack = f /\ u.entry = e
    BY <2>1 DEF CleanerFields
  <2> QED
    BY <1>1, <1>2, <1>3, <1>4, <1>5, <1>7, <2>2
<1> QED
  BY <1>6, <1>7

LEMMA StaysAlone ==
    ASSUME NEW t, NEW fs, IsFiniteSet(DOMAIN fs), t.step \in Walking, t.quiet => \E o, S : Alone(t, fs, o, S)
    PROVE  AloneInv(t, fs)
BY DEF AloneInv, Walking

LEMMA AloneInit ==
    ASSUME Cleaner!Init
    PROVE  AloneInv(task, world.disk)
<1>1. PICK m \in Machines, fs \in Disks :
        /\ world = [disk |-> fs, machine |-> m, changes |-> 0]
        /\ task = [step |-> "choose", targets |-> {}, stack |-> <<>>, entry |-> None, link |-> FALSE,
                   items |-> 0, deleted |-> 0, failed |-> 0,
                   listed |-> {}, lost |-> {}, came |-> {}, late |-> {}, raced |-> FALSE,
                   strayed |-> FALSE, quiet |-> TRUE]
  BY DEF Cleaner!Init
<1>2. world.disk = fs /\ task.step = "choose" /\ task.lost = {} /\ task.failed = 0
  BY <1>1
<1>3. IsFiniteSet(DOMAIN fs)
  BY <1>1, CleanerSets, ToolWindowsAssumption DEF Cleaner!DiskConstants
<1> QED
  BY <1>2, <1>3 DEF AloneInv, Walking

LEMMA CleanActionAlone ==
    ASSUME CleanerInv, AloneInv(task, world.disk), Cleaner!clean_action
    PROVE  AloneInv(task', world'.disk)
<1>1. task.step = "choose" /\ world' = world /\ DOMAIN task = CleanerFields /\ task.listed = {}
  BY DEF Cleaner!clean_action, CleanerInv, WalkInv
<1>2. PICK targets :
        LET root == Cleaner!_directory_identity(Cleaner!Disk, Cleaner!Target)
        IN  task' = [task EXCEPT !.targets = targets,
                                 !.step = IF targets = {} \/ root = None THEN "done" ELSE "confirm",
                                 !.items = IF targets = {} \/ root = None THEN 0
                                           ELSE Cleaner!Cardinality(Cleaner!_preview_directory(Cleaner!Disk, root))]
  BY DEF Cleaner!clean_action
<1>3. PICK root : root = Cleaner!_directory_identity(world.disk, Cleaner!Target)
  OBVIOUS
<1>4. PICK step : step = IF targets = {} \/ root = None THEN "done" ELSE "confirm"
  OBVIOUS
<1>5. PICK items : items = IF targets = {} \/ root = None THEN 0
                            ELSE Cleaner!Cardinality(Cleaner!_preview_directory(world.disk, root))
  OBVIOUS
<1>6. task' = [task EXCEPT !.targets = targets, !.step = step, !.items = items]
  BY <1>2, <1>3, <1>4, <1>5 DEF Cleaner!Disk
<1>7. /\ task'.step = step /\ task'.items = items /\ task'.listed = {} /\ task'.lost = task.lost
      /\ task'.failed = task.failed /\ task'.quiet = task.quiet
  BY <1>1, <1>6 DEF CleanerFields
<1>8. step = "confirm" => items = Cardinality(Cleaner!_preview_directory(world.disk, root))
  BY <1>4, <1>5, CleanerLibrary
<1>9. step \in {"done", "confirm"}
  BY <1>4
<1> QED
  BY <1>1, <1>3, <1>7, <1>8, <1>9 DEF AloneInv, Walking

LEMMA DeleteAlone ==
    ASSUME CleanerInv, AloneInv(task, world.disk), Cleaner!delete_folder_contents
    PROVE  AloneInv(task', world'.disk)
<1>1. /\ task.step = "confirm" /\ WalkInv(task, world.disk) /\ DOMAIN task = CleanerFields /\ Tree(world.disk)
      /\ task.listed = {} /\ DOMAIN world = {"disk", "machine", "changes"} /\ task.deleted = Cardinality(task.lost)
  BY DEF Cleaner!delete_folder_contents, CleanerInv, WalkInv, Core, LostInv
<1>2. PICK fs : fs = world.disk
  OBVIOUS
<1>3. world'.disk = fs
  BY <1>1, <1>2 DEF Cleaner!delete_folder_contents
<1>4. PICK root : root = Cleaner!_directory_identity(fs, Cleaner!Target)
  OBVIOUS
<1>5. PICK e : e = [path |-> Cleaner!Target, id |-> root, todo |-> {}]
  OBVIOUS
<1>6. \/ root # None /\ task' = [task EXCEPT !.step = "list", !.targets = {}, !.stack = <<e>>]
      \/ task' = [task EXCEPT !.step = "done", !.targets = {}]
  BY <1>2, <1>4, <1>5 DEF Cleaner!delete_folder_contents, Cleaner!Disk
<1>7. IsFiniteSet(DOMAIN fs)
  BY <1>2 DEF AloneInv
<1>8. CASE root # None /\ task' = [task EXCEPT !.step = "list", !.targets = {}, !.stack = <<e>>]
  <2>1. /\ task'.step = "list" /\ task'.stack = <<e>> /\ task'.listed = {} /\ task'.lost = task.lost
        /\ task'.deleted = task.deleted /\ task'.failed = task.failed /\ task'.items = task.items /\ task'.quiet = task.quiet
    BY <1>1, <1>8 DEF CleanerFields
  <2> SUFFICES ASSUME task.quiet PROVE Alone(task', fs, fs, {})
    BY <1>3, <1>7, <2>1, StaysAlone DEF Walking
  <2>2. task.lost = {} /\ task.failed = 0 /\ task.items = Cardinality(Cleaner!_preview_directory(fs, root))
    BY <1>1, <1>2, <1>4 DEF AloneInv
  <2>3. root \in DOMAIN fs /\ fs[root].in = Root /\ fs[root].name = "temp"
    BY <1>1, <1>2, <1>4, <1>8, TargetLookup DEF Cleaner!_directory_identity
  <2>4. e.path = Cleaner!Target /\ e.id = root /\ e.todo = {}
    BY <1>5
  <2>5. DOMAIN <<e>> = {1} /\ Len(<<e>>) = 1 /\ <<e>>[1] = e
    BY SingleShape
  <2>6. PICK s : s = <<e>>
    OBVIOUS
  <2>7. task'.stack = s /\ DOMAIN s = {1} /\ Len(s) = 1 /\ s[1] = e
    BY <2>1, <2>5, <2>6
  <2>8. Alike(fs, fs, {})
    BY <1>7 DEF Alike
  <2>9. Chain(s, fs)
    BY <2>3, <2>4, <2>7 DEF Chain
  <2>10. ToVisit(s, fs, {})
    BY <2>4, <2>7 DEF ToVisit
  <2>11. Seen(s, {}, fs, {})
    BY <2>7 DEF Seen
  <2>12. Counts(task', fs, {})
    BY <1>1, <2>1, <2>2, <2>4, <2>7, FS_EmptySet DEF Counts, Here
  <2>13. IsNext(task', fs, s[1].id)
    BY <2>1, <2>7 DEF IsNext, Unscanned
  <2>14. task'.step \notin Here /\ task'.step # "recheck"
    BY <2>1 DEF Here
  <2> QED
    BY <2>1, <2>2, <2>7, <2>8, <2>9, <2>10, <2>11, <2>12, <2>13, <2>14 DEF Alone
<1>9. CASE task' = [task EXCEPT !.step = "done", !.targets = {}]
  <2>1. task'.step = "done" /\ task'.listed = {} /\ task'.quiet = task.quiet
    BY <1>1, <1>9 DEF CleanerFields
  <2> QED
    BY <1>3, <1>7, <2>1 DEF AloneInv, Walking
<1> QED
  BY <1>6, <1>8, <1>9

LEMMA ListAlone ==
    ASSUME CleanerInv, AloneInv(task, world.disk), Cleaner!_delete_directory_contents_List
    PROVE  AloneInv(task', world'.disk)
<1>1. PICK fs : fs = world.disk
  OBVIOUS
<1>2. /\ task.step = "list" /\ task.step \in Walking /\ world'.disk = fs /\ DOMAIN task = CleanerFields
      /\ IsFiniteSet(DOMAIN fs)
  BY <1>1 DEF Cleaner!_delete_directory_contents_List, Walking, CleanerInv, WalkInv, AloneInv
<1>3. CASE task.quiet
  <2>1. PICK o, S : Alone(task, fs, o, S)
    BY <1>1, <1>2, <1>3 DEF AloneInv
  <2>2. Cleaner!TopMatches
    BY <1>1, <1>2, <2>1, ChainLeads DEF Alone
  <2>3. task' = [task EXCEPT !.step = "scan"]
    BY <2>2 DEF Cleaner!_delete_directory_contents_List
  <2>4. /\ task'.step = "scan" /\ task'.stack = task.stack /\ task'.listed = task.listed /\ task'.lost = task.lost
        /\ task'.deleted = task.deleted /\ task'.failed = task.failed /\ task'.items = task.items
    BY <1>2, <2>3 DEF CleanerFields
  <2>5. Alone(task', fs, o, S)
    BY <1>2, <2>1, <2>4, SameAlone
  <2> QED
    BY <1>2, <2>4, <2>5, StaysAlone DEF Walking
<1>4. CASE ~task.quiet
  <2>1. task'.quiet = task.quiet
    BY <1>2, <1>4, FailedIs, ReturnedIs DEF Cleaner!_delete_directory_contents_List, CleanerFields
  <2> QED
    BY <1>2, <1>4, <2>1 DEF AloneInv
<1> QED
  BY <1>3, <1>4

LEMMA ScanAlone ==
    ASSUME CleanerInv, AloneInv(task, world.disk), Cleaner!_delete_directory_contents_Scan
    PROVE  AloneInv(task', world'.disk)
<1>1. PICK fs : fs = world.disk
  OBVIOUS
<1>2. /\ task.step = "scan" /\ task.step \in Walking /\ world'.disk = fs /\ WalkInv(task, fs) /\ DOMAIN task = CleanerFields
      /\ IsFiniteSet(DOMAIN fs) /\ StackInv(task, fs)
  BY <1>1 DEF Cleaner!_delete_directory_contents_Scan, Walking, CleanerInv, WalkInv, Core, AloneInv
<1> DEFINE found == Cleaner!Followed(fs, Cleaner!lstat(fs, Cleaner!Top.path))
           listable == found \in DOMAIN fs /\ fs[found].kind = "dir" /\ ~fs[found].locked
<1>3. PICK n : n = Len(task.stack)
  OBVIOUS
<1>4. /\ n \in DOMAIN task.stack /\ IsSequence(task.stack) /\ Cleaner!Top = task.stack[n]
      /\ Level(task.stack[n], fs, task.listed) /\ Cleaner!Top.todo = {} /\ Cleaner!Top.id \notin task.listed
  BY <1>1, <1>2, <1>3, TopIs DEF StackInv, Unscanned
<1>7. ASSUME task.quiet PROVE found = Cleaner!Top.id
  <2>1. PICK o, S : Alone(task, fs, o, S)
    BY <1>1, <1>2, <1>7 DEF AloneInv
  <2>2. Cleaner!TopMatches
    BY <1>1, <1>2, <2>1, ChainLeads DEF Alone
  <2> QED
    BY <1>1, <2>2 DEF Cleaner!TopMatches, Cleaner!_directory_matches, Cleaner!Followed, Cleaner!Disk
<1>8. /\ task.step = "scan"
      /\ task' = IF listable
                 THEN [task EXCEPT !.step = "recheck", !.listed = @ \cup ({found} \cap {Cleaner!Top.id}),
                                   !.stack[Len(task.stack)].todo = {fs[i].name : i \in Cleaner!Listing(fs, found)}]
                 ELSE Cleaner!Returned(Cleaner!_record_failure(task), FALSE)
  BY <1>1 DEF Cleaner!_delete_directory_contents_Scan, Cleaner!Disk
<1> HIDE DEF found
<1>5. CASE ~listable
  <2>1. PICK t : t = Cleaner!_record_failure(task)
    OBVIOUS
  <2>2. task' = Cleaner!Returned(t, FALSE)
    BY <1>5, <1>8, <2>1
  <2>3. /\ DOMAIN t = CleanerFields /\ t.stack = task.stack /\ t.listed = task.listed /\ t.lost = task.lost
        /\ t.deleted = task.deleted /\ t.failed = task.failed + 1 /\ t.items = task.items /\ t.quiet = task.quiet
    BY <1>2, <2>1, FailedIs
  <2>4. /\ task'.listed = task.listed /\ task'.lost = task.lost /\ task'.deleted = task.deleted
        /\ task'.failed = task.failed + 1 /\ task'.items = task.items /\ task'.quiet = task.quiet
        /\ n = 1 => task'.step = "done"
        /\ n # 1 => task'.step = "look" /\ task'.stack = SubSeq(task.stack, 1, n - 1)
    <3>1. PICK u : u = Cleaner!Returned(t, FALSE)
      OBVIOUS
    <3>2. /\ u.listed = t.listed /\ u.lost = t.lost /\ u.deleted = t.deleted /\ u.failed = t.failed
          /\ u.items = t.items /\ u.quiet = t.quiet
          /\ Len(t.stack) = 1 => u.step = "done"
          /\ Len(t.stack) # 1 => u.step = "look" /\ u.stack = SubSeq(t.stack, 1, Len(t.stack) - 1)
      BY <2>3, <3>1, ReturnedIs
    <3>3. task' = u
      BY <2>2, <3>1
    <3> QED
      BY <1>3, <2>3, <3>2, <3>3
  <2>5. CASE n = 1
    <3>1. task.quiet => task.listed = {}
      BY <1>1, <1>2, <1>4, <2>5 DEF AloneInv, Alone, Seen
    <3> QED
      BY <1>2, <2>4, <2>5, <3>1 DEF AloneInv, Walking
  <2>6. CASE n # 1
    <3> SUFFICES ASSUME task.quiet PROVE \E o, S : Alone(task', fs, o, S)
      BY <1>2, <2>4, <2>6, StaysAlone DEF Walking
    <3>1. PICK o, S : Alone(task, fs, o, S)
      BY <1>1, <1>2 DEF AloneInv
    <3>3. fs[Cleaner!Top.id].locked /\ Cleaner!Top.id \in DOMAIN fs
      BY <1>4, <1>5, <1>7 DEF Level
    <3>4. ~Open(o, Cleaner!Top.id)
      BY <3>1, <3>3 DEF Alone, Alike, Open
    <3>5. Alone(task', fs, o, S)
      BY <1>1, <1>2, <1>3, <1>4, <2>4, <2>6, <3>1, <3>4, PoppedAlone
    <3> QED
      BY <3>5
  <2> QED
    BY <2>5, <2>6
<1>6. CASE listable
  <2>1. PICK d : d = Cleaner!Top.id
    OBVIOUS
  <2>2. PICK X : X = {fs[i].name : i \in Cleaner!Listing(fs, found)}
    OBVIOUS
  <2>3. PICK s : s = [task.stack EXCEPT ![n].todo = X]
    OBVIOUS
  <2>4. PICK L : L = task.listed \cup ({found} \cap {d})
    OBVIOUS
  <2>5. task' = [task EXCEPT !.step = "recheck", !.listed = L, !.stack = s]
    BY <1>2, <1>3, <1>6, <1>8, <2>1, <2>2, <2>3, <2>4 DEF CleanerFields
  <2>6. /\ task'.step = "recheck" /\ task'.stack = s /\ task'.listed = L /\ task'.lost = task.lost
        /\ task'.deleted = task.deleted /\ task'.failed = task.failed /\ task'.items = task.items /\ task'.quiet = task.quiet
    BY <1>2, <2>5 DEF CleanerFields
  <2>7. LeavesToDo(task.stack, s, X)
    BY <1>3, <1>4, <2>3, LeftToDo DEF Level
  <2> SUFFICES ASSUME task.quiet PROVE \E o, S : Alone(task', fs, o, S)
    BY <1>2, <2>6, StaysAlone DEF Walking
  <2>8. found = d /\ L = task.listed \cup {d}
    BY <1>7, <2>1, <2>4
  <2>9. PICK o, S : Alone(task, fs, o, S)
    BY <1>1, <1>2 DEF AloneInv
  <2>10. Open(o, d)
    BY <1>4, <1>6, <2>1, <2>8, <2>9 DEF Alone, Alike, Open, Level
  <2>11. Alone(task, world.disk, o, S) /\ Open(o, Cleaner!Top.id)
    BY <1>1, <2>1, <2>9, <2>10
  <2>12. X = {world.disk[i].name : i \in Cleaner!Listing(world.disk, Cleaner!Top.id)}
    BY <1>1, <2>1, <2>2, <2>8
  <2>13. LeavesToDo(task.stack, task'.stack, X) /\ task'.listed = task.listed \cup {Cleaner!Top.id}
    BY <2>1, <2>6, <2>7, <2>8
  <2>14. Alone(task', world.disk, o, S)
    BY <1>2, <2>6, <2>11, <2>12, <2>13, ListedAlone
  <2> QED
    BY <1>1, <2>14
<1> QED
  BY <1>5, <1>6

LEMMA RecheckAlone ==
    ASSUME CleanerInv, AloneInv(task, world.disk), Cleaner!_delete_directory_contents_Recheck
    PROVE  AloneInv(task', world'.disk)
<1>1. PICK fs : fs = world.disk
  OBVIOUS
<1>2. /\ task.step = "recheck" /\ task.step \in Walking /\ world'.disk = fs /\ DOMAIN task = CleanerFields
      /\ IsFiniteSet(DOMAIN fs)
  BY <1>1 DEF Cleaner!_delete_directory_contents_Recheck, Walking, CleanerInv, WalkInv, AloneInv
<1>3. CASE task.quiet
  <2>1. PICK o, S : Alone(task, fs, o, S)
    BY <1>1, <1>2, <1>3 DEF AloneInv
  <2>2. Cleaner!TopMatches
    BY <1>1, <1>2, <2>1, ChainLeads DEF Alone
  <2>3. PICK b : task' = [task EXCEPT !.step = "look", !.strayed = b]
    BY <2>2 DEF Cleaner!_delete_directory_contents_Recheck
  <2>4. /\ task'.step = "look" /\ task'.stack = task.stack /\ task'.listed = task.listed /\ task'.lost = task.lost
        /\ task'.deleted = task.deleted /\ task'.failed = task.failed /\ task'.items = task.items
    BY <1>2, <2>3 DEF CleanerFields
  <2>5. Alone(task', fs, o, S)
    BY <1>2, <2>1, <2>4, SameAlone
  <2> QED
    BY <1>2, <2>4, <2>5, StaysAlone DEF Walking
<1>4. CASE ~task.quiet
  <2>1. task'.quiet = task.quiet
    BY <1>2, <1>4, FailedIs, ReturnedIs DEF Cleaner!_delete_directory_contents_Recheck, CleanerFields
  <2> QED
    BY <1>2, <1>4, <2>1 DEF AloneInv
<1> QED
  BY <1>3, <1>4

LEMMA LookAlone ==
    ASSUME CleanerInv, AloneInv(task, world.disk), Cleaner!_delete_directory_contents_Look
    PROVE  AloneInv(task', world'.disk)
<1>1. PICK fs : fs = world.disk
  OBVIOUS
<1>2. /\ task.step = "look" /\ task.step \in Walking /\ world'.disk = fs /\ Tree(fs) /\ IsFiniteSet(DOMAIN fs)
  BY <1>1 DEF Cleaner!_delete_directory_contents_Look, Walking, CleanerInv, AloneInv
<1>3. PICK n : n = Len(task.stack)
  OBVIOUS
<1>4. /\ DOMAIN task = CleanerFields /\ n \in DOMAIN task.stack /\ IsSequence(task.stack) /\ Cleaner!Top = task.stack[n]
      /\ Level(task.stack[n], fs, task.listed) /\ Cleaner!TopMatches \in BOOLEAN
  BY <1>1, <1>2, <1>3, TopIs
<1>5. task.quiet => \E o, S : Alone(task, fs, o, S)
  BY <1>1, <1>2 DEF AloneInv
<1>6. task.quiet => Cleaner!TopMatches
  BY <1>1, <1>2, <1>5, ChainLeads DEF Alone
<1>7. CASE Cleaner!Top.todo = {}
  <2>1. task' = Cleaner!Returned(task, Cleaner!TopMatches)
    BY <1>7 DEF Cleaner!_delete_directory_contents_Look
  <2>2. /\ task'.listed = task.listed /\ task'.lost = task.lost /\ task'.deleted = task.deleted
        /\ task'.failed = task.failed /\ task'.items = task.items /\ task'.quiet = task.quiet
        /\ n = 1 => task'.step = "done"
        /\ n # 1 => /\ task'.step = IF Cleaner!TopMatches THEN "leave" ELSE "look"
                    /\ task'.stack = SubSeq(task.stack, 1, n - 1)
                    /\ Cleaner!TopMatches => task'.entry = <<Cleaner!Top.path, Cleaner!Top.id>>
    BY <1>3, <1>4, <2>1, ReturnedIs
  <2>3. CASE n = 1
    <3>1. task.quiet => task.deleted + task.failed = task.items
      BY <1>1, <1>2, <1>3, <1>5, <1>7, <2>3, DoneAlone
    <3> QED
      BY <1>2, <2>2, <2>3, <3>1 DEF AloneInv, Walking
  <2>4. CASE n # 1
    <3>1. task'.step \in Walking
      BY <1>4, <2>2, <2>4 DEF Walking
    <3> SUFFICES ASSUME task.quiet PROVE \E o, S : Alone(task', fs, o, S)
      BY <1>2, <2>2, <3>1, StaysAlone
    <3>2. PICK o, S : Alone(task, fs, o, S)
      BY <1>5
    <3>3. task'.step = "leave" /\ task'.entry = <<Cleaner!Top.path, Cleaner!Top.id>>
      BY <1>6, <2>2, <2>4
    <3>4. Alone(task', fs, o, S)
      BY <1>1, <1>2, <1>3, <1>7, <2>2, <2>4, <3>2, <3>3, PoppedAlone
    <3> QED
      BY <3>4
  <2> QED
    BY <2>3, <2>4
<1>8. CASE Cleaner!Top.todo # {} /\ ~Cleaner!TopMatches
  <2>1. PICK t : t = Cleaner!_record_failure(task)
    OBVIOUS
  <2>2. task' = Cleaner!Returned(t, FALSE)
    BY <1>8, <2>1 DEF Cleaner!_delete_directory_contents_Look
  <2>3. DOMAIN t = CleanerFields /\ t.quiet = task.quiet
    BY <1>4, <2>1, FailedIs
  <2>4. task'.quiet = task.quiet
    BY <2>2, <2>3, ReturnedIs
  <2> QED
    BY <1>2, <1>6, <1>8, <2>4 DEF AloneInv
<1>9. CASE Cleaner!Top.todo # {} /\ Cleaner!TopMatches
  <2>1. PICK x \in Cleaner!Top.todo : task' = Cleaner!Taken(x)
    BY <1>9 DEF Cleaner!_delete_directory_contents_Look
  <2>2. PICK s : s = [task.stack EXCEPT ![n].todo = Cleaner!Top.todo \ {x}]
    OBVIOUS
  <2>3. PICK path : path = Append(Cleaner!Top.path, x)
    OBVIOUS
  <2>4. task' = [task EXCEPT !.step = "stat", !.stack = s, !.entry = path, !.raced = FALSE]
    BY <1>3, <1>4, <2>1, <2>2, <2>3 DEF Cleaner!Taken, CleanerFields
  <2>5. /\ task'.step = "stat" /\ task'.stack = s /\ task'.entry = path /\ task'.listed = task.listed /\ task'.lost = task.lost
        /\ task'.deleted = task.deleted /\ task'.failed = task.failed /\ task'.items = task.items /\ task'.quiet = task.quiet
    BY <1>4, <2>4 DEF CleanerFields
  <2>6. LeavesToDo(task.stack, s, Cleaner!Top.todo \ {x})
    BY <1>3, <1>4, <2>2, LeftToDo DEF Level
  <2> SUFFICES ASSUME task.quiet PROVE \E o, S : Alone(task', fs, o, S)
    BY <1>2, <2>5, StaysAlone DEF Walking
  <2>7. PICK o, S : Alone(task, fs, o, S)
    BY <1>5
  <2>8. PICK c \in DOMAIN fs : fs[c].in = Cleaner!Top.id /\ fs[c].name = x
    BY <1>4, <2>1, <2>7 DEF Alone, ToVisit
  <2>9. /\ Alone(task, world.disk, o, S) /\ c \in DOMAIN world.disk /\ world.disk[c].in = Cleaner!Top.id
        /\ world.disk[c].name = x
    BY <1>1, <2>7, <2>8
  <2>10. task'.entry = Append(Cleaner!Top.path, x)
    BY <2>3, <2>5
  <2>11. Alone(task', world.disk, o, S \cup {c})
    BY <1>2, <2>1, <2>5, <2>6, <2>9, <2>10, TakenAlone
  <2> QED
    BY <1>1, <2>11
<1> QED
  BY <1>7, <1>8, <1>9

\* The entry that was looked at is still there, and its path leads to it.
LEMMA EntryLeads ==
    ASSUME CleanerInv, AloneInv(task, world.disk), task.step \in Here, task.quiet
    PROVE  \E o, S : \E e \in S :
              /\ Alone(task, world.disk, o, S) /\ EntryIs(task, world.disk, e) /\ e \in DOMAIN world.disk /\ e # None
              /\ Cleaner!TopMatches
              /\ Cleaner!lstat(world.disk, IF task.step \in {"stat", "act"} THEN task.entry ELSE task.entry[1]) = e
              /\ \A d \in S : EntryIs(task, world.disk, d) => d = e
<1>1. task.step \in Walking /\ Tree(world.disk)
  BY DEF Here, Walking, CleanerInv
<1>2. PICK o, S : Alone(task, world.disk, o, S)
  BY <1>1 DEF AloneInv
<1>3. PICK e \in S : EntryIs(task, world.disk, e)
  BY <1>2 DEF Alone
<1>4. S \subseteq DOMAIN world.disk
  BY <1>2, SeenFinite DEF Alone, Alike
<1>5. PICK path : path = IF task.step \in {"stat", "act"} THEN task.entry ELSE task.entry[1]
  OBVIOUS
<1>6. ASSUME NEW d \in S, EntryIs(task, world.disk, d) PROVE Cleaner!lstat(world.disk, path) = d
  <2>1. Cleaner!lstat(world.disk, Append(Cleaner!Top.path, world.disk[d].name)) = d
    BY <1>1, <1>2, <1>4, <1>6, TopIs, ChainLeads DEF Alone, EntryIs
  <2>2. Append(Cleaner!Top.path, world.disk[d].name) = path
    BY <1>1, <1>5, <1>6, TopIs DEF EntryIs
  <2> QED
    BY <2>1, <2>2
<1>7. Cleaner!TopMatches
  BY <1>1, <1>2, ChainLeads DEF Alone
<1> QED
  BY <1>1, <1>2, <1>3, <1>4, <1>5, <1>6, <1>7 DEF Tree

LEMMA StatAlone ==
    ASSUME CleanerInv, AloneInv(task, world.disk), Cleaner!_delete_directory_contents_Stat
    PROVE  AloneInv(task', world'.disk)
<1>1. PICK fs : fs = world.disk
  OBVIOUS
<1>2. /\ task.step = "stat" /\ task.step \in Here /\ world'.disk = fs /\ DOMAIN task = CleanerFields
      /\ IsFiniteSet(DOMAIN fs) /\ task.step \in Walking
  BY <1>1 DEF Cleaner!_delete_directory_contents_Stat, Here, Walking, CleanerInv, WalkInv, AloneInv
<1>3. PICK i : i = Cleaner!lstat(fs, task.entry)
  OBVIOUS
<1>4. PICK b : b = (task.strayed \/ (task.raced /\ fs[i].in # Cleaner!Top.id))
  OBVIOUS
<1>5. PICK link : link = (fs[i].kind = "link")
  OBVIOUS
<1>6. PICK f : f = Append(task.stack, [path |-> task.entry, id |-> i, todo |-> {}])
  OBVIOUS
<1>7. \/ i = None /\ task' = [Cleaner!_record_failure(task) EXCEPT !.step = "look", !.entry = None]
      \/ /\ i # None /\ fs[i].kind = "dir"
         /\ task' = [task EXCEPT !.step = "list", !.entry = None, !.strayed = b, !.stack = f]
      \/ i # None /\ fs[i].kind # "dir" /\ task' = [task EXCEPT !.step = "act", !.link = link]
  <2>1. \/ i = None /\ task' = [Cleaner!_record_failure(task) EXCEPT !.step = "look", !.entry = None]
        \/ i # None /\ fs[i].kind = "dir" /\ task' = Cleaner!Enter(i)
        \/ i # None /\ fs[i].kind # "dir" /\ task' = [task EXCEPT !.step = "act", !.link = link]
    BY <1>1, <1>3, <1>5 DEF Cleaner!_delete_directory_contents_Stat, Cleaner!Disk
  <2>2. Cleaner!Enter(i) = [task EXCEPT !.step = "list", !.entry = None, !.strayed = b, !.stack = f]
    BY <1>1, <1>2, <1>4, <1>6 DEF Cleaner!Enter, Cleaner!Disk, CleanerFields
  <2> QED
    BY <2>1, <2>2
<1>8. CASE ~task.quiet
  <2>1. task'.quiet = task.quiet
    BY <1>2, <1>7 DEF Cleaner!_record_failure, CleanerFields
  <2> QED
    BY <1>2, <1>8, <2>1 DEF AloneInv
<1>9. CASE task.quiet
  <2>1. PICK o, S : \E e \in S : /\ Alone(task, fs, o, S) /\ EntryIs(task, fs, e) /\ e # None /\ i = e
                                 /\ \A d \in S : EntryIs(task, fs, d) => d = e
    BY <1>1, <1>2, <1>3, <1>9, EntryLeads
  <2>2. /\ Alone(task, fs, o, S) /\ i \in S /\ EntryIs(task, fs, i) /\ i # None
        /\ \A d \in S : EntryIs(task, fs, d) => d = i
    BY <2>1
  <2>3. CASE fs[i].kind = "dir"
    <3>1. task' = [task EXCEPT !.step = "list", !.entry = None, !.strayed = b, !.stack = f]
      BY <1>7, <2>2, <2>3
    <3>2. /\ task'.step = "list" /\ task'.stack = f /\ task'.listed = task.listed /\ task'.lost = task.lost
          /\ task'.deleted = task.deleted /\ task'.failed = task.failed /\ task'.items = task.items
      BY <1>2, <3>1 DEF CleanerFields
    <3>3. Alone(task', fs, o, S)
      BY <1>1, <1>2, <1>6, <2>2, <3>2, EnteredAlone
    <3> QED
      BY <1>2, <3>2, <3>3, StaysAlone DEF Walking
  <2>4. CASE fs[i].kind # "dir"
    <3>1. task' = [task EXCEPT !.step = "act", !.link = link]
      BY <1>7, <2>2, <2>4
    <3>2. /\ task'.step = "act" /\ task'.stack = task.stack /\ task'.listed = task.listed /\ task'.lost = task.lost
          /\ task'.deleted = task.deleted /\ task'.failed = task.failed /\ task'.items = task.items
          /\ task'.entry = task.entry
      BY <1>2, <3>1 DEF CleanerFields
    <3>3. EntryIs(task', fs, i)
      BY <1>2, <2>2, <2>4, <3>2 DEF EntryIs
    <3>4. Counts(task', o, S)
      BY <1>2, <2>2, <3>2 DEF Alone, Counts, Here
    <3>5. ~Open(o, i)
      BY <2>2, <2>4, SeenFinite DEF Alone, Alike, Open
    <3>6. ~EntryIs(task, fs, task.stack[1].id)
      <4>1. fs[task.stack[1].id].in = Root /\ task.stack[Len(task.stack)].id # Root
        BY <1>1, <1>2, <2>2, TopIs DEF Alone, Chain, Level
      <4> QED
        BY <4>1 DEF EntryIs
    <3>7. \A d \in S \cup {task.stack[1].id} : Open(o, d) => d \in task.listed
      BY <1>2, <2>2, <3>5, <3>6 DEF Alone, IsNext, Unscanned
    <3>8. Alone(task', fs, o, S)
      BY <2>2, <3>2, <3>3, <3>4, <3>7 DEF Alone
    <3> QED
      BY <1>2, <3>2, <3>8, StaysAlone DEF Walking
  <2> QED
    BY <2>3, <2>4
<1> QED
  BY <1>8, <1>9

LEMMA RemovedStays ==
    ASSUME CleanerInv, AloneInv(task, world.disk), task.step \in Here, NEW j, Cleaner!Removed(j, "look"),
           task.quiet => \E o, S : Alone(task', world'.disk, o, S)
    PROVE  AloneInv(task', world'.disk)
<1>1. DOMAIN task = CleanerFields /\ DOMAIN world = {"disk", "machine", "changes"} /\ IsFiniteSet(DOMAIN world.disk)
  BY DEF CleanerInv, WalkInv, AloneInv
<1>2. CASE j # None /\ ~world.disk[j].locked
  <2>1. PICK fs2 : fs2 = [world.disk EXCEPT ![j].in = None]
    OBVIOUS
  <2>2. /\ world' = [world EXCEPT !.disk = fs2]
        /\ task' = [task EXCEPT !.step = "look", !.entry = None, !.deleted = @ + 1, !.lost = @ \cup {j}]
    BY <1>1, <1>2, <2>1 DEF Cleaner!Removed, Cleaner!Disk
  <2>3. task'.step = "look" /\ task'.quiet = task.quiet /\ world'.disk = fs2 /\ DOMAIN fs2 = DOMAIN world.disk
    BY <1>1, <2>1, <2>2 DEF CleanerFields
  <2> QED
    BY <1>1, <2>3, StaysAlone DEF Walking
<1>3. CASE ~(j # None /\ ~world.disk[j].locked)
  <2>1. task' = [Cleaner!_record_failure(task) EXCEPT !.step = "look", !.entry = None] /\ world' = world
    BY <1>3 DEF Cleaner!Removed, Cleaner!Disk
  <2>2. task'.step = "look" /\ task'.quiet = task.quiet
    BY <1>1, <2>1 DEF CleanerFields, Cleaner!_record_failure
  <2> QED
    BY <1>1, <2>1, <2>2, StaysAlone DEF Walking
<1> QED
  BY <1>2, <1>3

LEMMA ActAlone ==
    ASSUME CleanerInv, AloneInv(task, world.disk), Cleaner!_delete_directory_contents_Act
    PROVE  AloneInv(task', world'.disk)
<1>1. PICK fs : fs = world.disk
  OBVIOUS
<1>2. task.step = "act" /\ task.step \in Here
  BY DEF Cleaner!_delete_directory_contents_Act, Here
<1>3. PICK i : i = Cleaner!lstat(fs, task.entry)
  OBVIOUS
<1>4. PICK j : j = IF i # None /\ (fs[i].kind = "dir" => task.link /\ Cleaner!Listing(fs, i) = {}) THEN i ELSE None
  OBVIOUS
<1>5. Cleaner!Removed(j, "look")
  BY <1>1, <1>3, <1>4 DEF Cleaner!_delete_directory_contents_Act, Cleaner!_remove_link_or_reparse, Cleaner!Disk
<1>6. ASSUME task.quiet PROVE \E o, S : Alone(task', world'.disk, o, S)
  <2>1. PICK o, S : \E e \in S : Alone(task, fs, o, S) /\ EntryIs(task, fs, e) /\ e # None /\ i = e
    BY <1>1, <1>2, <1>3, <1>6, EntryLeads
  <2>2. PICK e \in S : Alone(task, fs, o, S) /\ EntryIs(task, fs, e) /\ e # None /\ i = e
    BY <2>1
  <2>3. j \in {e, None}
    BY <1>4, <2>2
  <2>4. Alone(task', world'.disk, o, S)
    BY <1>1, <1>2, <1>5, <2>2, <2>3, RemovedAlone
  <2> QED
    BY <2>4
<1> QED
  BY <1>2, <1>5, <1>6, RemovedStays

LEMMA RmdirAlone ==
    ASSUME CleanerInv, AloneInv(task, world.disk), Cleaner!_delete_directory_contents_Rmdir
    PROVE  AloneInv(task', world'.disk)
<1>1. PICK fs : fs = world.disk
  OBVIOUS
<1>2. task.step = "rmdir" /\ task.step \in Here
  BY DEF Cleaner!_delete_directory_contents_Rmdir, Here
<1>3. PICK i : i = Cleaner!lstat(fs, task.entry[1])
  OBVIOUS
<1>4. PICK j : j = IF i # None /\ fs[i].kind = "dir" /\ Cleaner!Listing(fs, i) = {} THEN i ELSE None
  OBVIOUS
<1>5. Cleaner!Removed(j, "look")
  BY <1>1, <1>3, <1>4 DEF Cleaner!_delete_directory_contents_Rmdir, Cleaner!Disk
<1>6. ASSUME task.quiet PROVE \E o, S : Alone(task', world'.disk, o, S)
  <2>1. PICK o, S : \E e \in S : Alone(task, fs, o, S) /\ EntryIs(task, fs, e) /\ e # None /\ i = e
    BY <1>1, <1>2, <1>3, <1>6, EntryLeads
  <2>2. PICK e \in S : Alone(task, fs, o, S) /\ EntryIs(task, fs, e) /\ e # None /\ i = e
    BY <2>1
  <2>3. j \in {e, None} /\ (j = e => Cleaner!Listing(fs, e) = {})
    BY <1>4, <2>2
  <2>4. Alone(task', world'.disk, o, S)
    BY <1>1, <1>2, <1>5, <2>2, <2>3, RemovedAlone
  <2> QED
    BY <2>4
<1> QED
  BY <1>2, <1>5, <1>6, RemovedStays

LEMMA LeaveAlone ==
    ASSUME CleanerInv, AloneInv(task, world.disk), Cleaner!_delete_directory_contents_Leave
    PROVE  AloneInv(task', world'.disk)
<1>1. PICK fs : fs = world.disk
  OBVIOUS
<1>2. /\ task.step = "leave" /\ task.step \in Walking /\ world'.disk = fs /\ DOMAIN task = CleanerFields
      /\ IsFiniteSet(DOMAIN fs)
  BY <1>1 DEF Cleaner!_delete_directory_contents_Leave, Walking, CleanerInv, WalkInv, AloneInv
<1>3. CASE task.quiet
  <2>1. PICK o, S : Alone(task, fs, o, S)
    BY <1>1, <1>2, <1>3 DEF AloneInv
  <2>2. Cleaner!TopMatches
    BY <1>1, <1>2, <2>1, ChainLeads DEF Alone
  <2>3. task' = [task EXCEPT !.step = "verify"]
    BY <2>2 DEF Cleaner!_delete_directory_contents_Leave
  <2>4. /\ task'.step = "verify" /\ task'.stack = task.stack /\ task'.listed = task.listed /\ task'.lost = task.lost
        /\ task'.deleted = task.deleted /\ task'.failed = task.failed /\ task'.items = task.items /\ task'.entry = task.entry
    BY <1>2, <2>3 DEF CleanerFields
  <2>5. Alone(task', fs, o, S)
    BY <1>2, <2>1, <2>4, SameAlone
  <2> QED
    BY <1>2, <2>4, <2>5, StaysAlone DEF Walking
<1>4. CASE ~task.quiet
  <2>1. task'.quiet = task.quiet
    BY <1>2, <1>4, FailedIs, ReturnedIs DEF Cleaner!_delete_directory_contents_Leave, CleanerFields
  <2> QED
    BY <1>2, <1>4, <2>1 DEF AloneInv
<1> QED
  BY <1>3, <1>4

LEMMA VerifyAlone ==
    ASSUME CleanerInv, AloneInv(task, world.disk), Cleaner!_delete_directory_contents_Verify
    PROVE  AloneInv(task', world'.disk)
<1>1. PICK fs : fs = world.disk
  OBVIOUS
<1>2. /\ task.step = "verify" /\ task.step \in Here /\ world'.disk = fs /\ DOMAIN task = CleanerFields
      /\ IsFiniteSet(DOMAIN fs)
  BY <1>1 DEF Cleaner!_delete_directory_contents_Verify, Here, CleanerInv, WalkInv, AloneInv
<1>3. CASE task.quiet
  <2>1. PICK o, S : \E e \in S : /\ Alone(task, fs, o, S) /\ EntryIs(task, fs, e) /\ e # None
                                 /\ Cleaner!lstat(fs, task.entry[1]) = e
    BY <1>1, <1>2, <1>3, EntryLeads
  <2>2. PICK e \in S : /\ Alone(task, fs, o, S) /\ EntryIs(task, fs, e) /\ e # None
                       /\ Cleaner!lstat(fs, task.entry[1]) = e
    BY <2>1
  <2>3. Cleaner!_directory_matches(fs, task.entry[1], task.entry[2])
    BY <1>2, <2>2 DEF EntryIs, Cleaner!_directory_matches
  <2>4. task' = [task EXCEPT !.step = "rmdir", !.raced = FALSE]
    BY <1>1, <2>3 DEF Cleaner!_delete_directory_contents_Verify, Cleaner!Disk
  <2>5. /\ task'.step = "rmdir" /\ task'.stack = task.stack /\ task'.listed = task.listed /\ task'.lost = task.lost
        /\ task'.deleted = task.deleted /\ task'.failed = task.failed /\ task'.items = task.items /\ task'.entry = task.entry
    BY <1>2, <2>4 DEF CleanerFields
  <2>6. Alone(task', fs, o, S)
    BY <1>2, <2>2, <2>5, SameAlone
  <2> QED
    BY <1>2, <2>5, <2>6, StaysAlone DEF Walking
<1>4. CASE ~task.quiet
  <2>1. \/ task' = [task EXCEPT !.step = "rmdir", !.raced = FALSE]
        \/ task' = [Cleaner!_record_failure(task) EXCEPT !.step = "look", !.entry = None]
    BY DEF Cleaner!_delete_directory_contents_Verify
  <2>2. task'.quiet = task.quiet
    BY <1>2, <2>1 DEF CleanerFields, Cleaner!_record_failure
  <2> QED
    BY <1>2, <1>4, <2>2 DEF AloneInv
<1> QED
  BY <1>3, <1>4

\* Of a disk that others change nothing is said.
LEMMA ChangedAlone ==
    ASSUME CleanerInv, AloneInv(task, world.disk), Cleaner!Arrive \/ Cleaner!Vanish \/ Cleaner!Swap
    PROVE  AloneInv(task', world'.disk)
<1>1. DOMAIN task = CleanerFields /\ DOMAIN world = {"disk", "machine", "changes"} /\ IsFiniteSet(DOMAIN world.disk)
  BY DEF CleanerInv, WalkInv, AloneInv
<1>2. PICK fs2 : Cleaner!Changed(fs2) /\ DOMAIN fs2 = DOMAIN world.disk
  <2>1. CASE Cleaner!Arrive
    <3>1. PICK n, d : Cleaner!Changed([world.disk EXCEPT ![n].in = d])
      BY <2>1 DEF Cleaner!Arrive, Cleaner!Disk
    <3> QED
      BY <3>1
  <2>2. CASE Cleaner!Vanish
    <3>1. PICK i : Cleaner!Changed([world.disk EXCEPT ![i].in = None])
      BY <2>2 DEF Cleaner!Vanish, Cleaner!Disk
    <3> QED
      BY <3>1
  <2>3. CASE Cleaner!Swap
    <3>1. PICK d : Cleaner!Changed([world.disk EXCEPT ![d].in = None, ![Swapped].in = world.disk[d].in,
                                                    ![Swapped].name = world.disk[d].name])
      BY <2>3 DEF Cleaner!Swap, Cleaner!Disk
    <3> QED
      BY <3>1
  <2> QED
    BY <2>1, <2>2, <2>3
<1>3. world'.disk = fs2
  BY <1>1, <1>2 DEF Cleaner!Changed
<1>4. task'.quiet = FALSE
  BY <1>1 DEF Cleaner!Arrive, Cleaner!Vanish, Cleaner!Swap, CleanerFields
<1> QED
  BY <1>1, <1>2, <1>3, <1>4 DEF AloneInv

LEMMA AloneStep ==
    ASSUME CleanerInv, AloneInv(task, world.disk), [Cleaner!Next]_(Cleaner!vars)
    PROVE  AloneInv(task', world'.disk)
<1>1. CASE Cleaner!Next
  BY <1>1, CleanActionAlone, DeleteAlone, ListAlone, ScanAlone, RecheckAlone, LookAlone, StatAlone, ActAlone, LeaveAlone,
     VerifyAlone, RmdirAlone, ChangedAlone DEF Cleaner!Next
<1>2. CASE UNCHANGED Cleaner!vars
  BY <1>2 DEF Cleaner!vars
<1> QED
  BY <1>1, <1>2

\* Only through others it goes astray.
LEMMA AstrayIsNotAlone ==
    ASSUME CleanerInv, AloneInv(task, world.disk), GoesAstray
    PROVE  ~task.quiet
<1> SUFFICES ASSUME task.quiet PROVE FALSE
  OBVIOUS
<1>1. CASE task.step = "recheck" /\ Cleaner!Top.id \notin task.listed
  <2>1. task.step \in Walking
    BY <1>1 DEF Walking
  <2>2. PICK o, S : Alone(task, world.disk, o, S)
    BY <2>1 DEF AloneInv
  <2> QED
    BY <1>1, <2>1, <2>2, TopIs DEF Alone
<1>2. CASE task.step = "stat" /\ world.disk[Cleaner!lstat(world.disk, task.entry)].in # Cleaner!Top.id
  <2>1. task.step \in Here /\ task.step \in Walking
    BY <1>2 DEF Here, Walking
  <2>2. PICK o, S : \E e \in S : EntryIs(task, world.disk, e) /\ Cleaner!lstat(world.disk, task.entry) = e
    BY <1>2, <2>1, EntryLeads
  <2> QED
    BY <1>2, <2>1, <2>2, TopIs DEF EntryIs
<1> QED
  BY <1>1, <1>2 DEF GoesAstray

\* The disk keeps its inodes.
LEMMA InodesStay ==
    ASSUME DOMAIN world = {"disk", "machine", "changes"}, [Cleaner!Next]_(Cleaner!vars)
    PROVE  DOMAIN world'.disk = DOMAIN world.disk
<1>1. ASSUME NEW j, NEW walk, Cleaner!Removed(j, walk) PROVE DOMAIN world'.disk = DOMAIN world.disk
  BY <1>1 DEF Cleaner!Removed, Cleaner!Disk
<1>2. ASSUME NEW fs2, Cleaner!Changed(fs2), DOMAIN fs2 = DOMAIN world.disk PROVE DOMAIN world'.disk = DOMAIN world.disk
  BY <1>2 DEF Cleaner!Changed
<1>3. CASE Cleaner!_delete_directory_contents_Act \/ Cleaner!_delete_directory_contents_Rmdir
  BY <1>1, <1>3 DEF Cleaner!_delete_directory_contents_Act, Cleaner!_remove_link_or_reparse,
                    Cleaner!_delete_directory_contents_Rmdir
<1>4. CASE Cleaner!Arrive
  <2>1. PICK n, d : Cleaner!Changed([world.disk EXCEPT ![n].in = d])
    BY <1>4 DEF Cleaner!Arrive, Cleaner!Disk
  <2> QED
    BY <1>2, <2>1
<1>5. CASE Cleaner!Vanish
  <2>1. PICK i : Cleaner!Changed([world.disk EXCEPT ![i].in = None])
    BY <1>5 DEF Cleaner!Vanish, Cleaner!Disk
  <2> QED
    BY <1>2, <2>1
<1>6. CASE Cleaner!Swap
  <2>1. PICK d : Cleaner!Changed([world.disk EXCEPT ![d].in = None, ![Swapped].in = world.disk[d].in,
                                                  ![Swapped].name = world.disk[d].name])
    BY <1>6 DEF Cleaner!Swap, Cleaner!Disk
  <2> QED
    BY <1>2, <2>1
<1>7. CASE Cleaner!delete_folder_contents
  BY <1>7 DEF Cleaner!delete_folder_contents
<1>8. CASE world' = world
  BY <1>8
<1> QED
  BY <1>3, <1>4, <1>5, <1>6, <1>7, <1>8
     DEF Cleaner!Next, Cleaner!vars, Cleaner!clean_action, Cleaner!_delete_directory_contents_List,
         Cleaner!_delete_directory_contents_Scan, Cleaner!_delete_directory_contents_Recheck,
         Cleaner!_delete_directory_contents_Look, Cleaner!_delete_directory_contents_Stat,
         Cleaner!_delete_directory_contents_Leave, Cleaner!_delete_directory_contents_Verify

\* The cleaner at work: on what is below the target, or astray.
AtWork == (CleanerInv \/ Strays) /\ AloneInv(task, world.disk)

LEMMA WorkStep ==
    ASSUME AtWork, [Cleaner!Next]_(Cleaner!vars)
    PROVE  AtWork' /\ Cleaner!ContainedStep
<1>1. CASE CleanerInv
  <2>1. AloneInv(task, world.disk)' /\ Cleaner!ContainedStep /\ (CleanerInv' \/ (GoesAstray /\ Cleaner!Next))
    BY <1>1, CleanerStep, AloneStep DEF AtWork
  <2>2. CASE GoesAstray /\ Cleaner!Next
    <3>1. ~task.quiet /\ task.step \in Walking
      BY <1>1, <2>2, AstrayIsNotAlone DEF AtWork, GoesAstray, Walking
    <3>2. Adrift
      BY <1>1, <3>1, InvIsAdrift
    <3>3. Adrift' /\ ~task'.quiet
      BY <2>2, <3>1, <3>2, LooseStep
    <3> QED
      BY <2>1, <2>2, <3>3 DEF AtWork, Strays, GoesAstray
  <2> QED
    BY <2>1, <2>2 DEF AtWork
<1>2. CASE Strays
  <2>1. Strays' /\ Cleaner!ContainedStep
    BY <1>2, StraysStep
  <2>2. AloneInv(task, world.disk)'
    BY <1>2, <2>1, InodesStay DEF AtWork, Strays, Adrift, AloneInv
  <2> QED
    BY <2>1, <2>2 DEF AtWork
<1> QED
  BY <1>1, <1>2 DEF AtWork

LEMMA WorkIsRight ==
    ASSUME AtWork
    PROVE  /\ Cleaner!TargetsAreSafe /\ Cleaner!NewcomersStay /\ Cleaner!DeletedIsExact /\ Cleaner!ItemsAreAccounted
<1>1. Cleaner!ItemsAreAccounted
  BY DEF AtWork, AloneInv, Cleaner!ItemsAreAccounted
<1> QED
  BY <1>1, CleanerIsRight, StraysIsRight DEF AtWork

=============================================================================
