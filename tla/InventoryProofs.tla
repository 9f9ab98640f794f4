-------------------------- MODULE InventoryProofs --------------------------
(***************************************************************************)
(* The inventory for every set of scopes with no address in common, every set   *)
(* of observations, fingerprints and snapshots, and every database that an older *)
(* version may have left.                                                       *)
(*                                                                         *)
(* Sound, the invariant, is proved of a merge and of a written row first; then of *)
(* the transactions that consist of them, those of a scan and of the repair by     *)
(* looking at the first step of the loop that would break it; and then of each      *)
(* action.  Follows says what became of every asset and of every physical link:     *)
(* it composes, and NothingForgotten is read off it.                              *)
(***************************************************************************)
EXTENDS Inventory, FiniteSetTheorems, WellFoundedInduction, TLAPS

\* A set of naturals has a least element: induction is the search of the least counterexample.
LEMMA Smallest ==
    ASSUME NEW S \in SUBSET Nat, S # {}
    PROVE  \E x \in S : \A y \in S : x <= y
<1> DEFINE R == {p \in Nat \X Nat : p[1] < p[2]}
<1>1. IsWellFoundedOn(R, Nat)
  BY NatLessThanWellFounded DEF OpToRel
<1>2. \A x, y \in S : <<y, x>> \notin R => x <= y
  OBVIOUS
<1> HIDE DEF R
<1>3. \E x \in S : \A y \in S : <<y, x>> \notin R
  BY <1>1, WFMin
<1> QED
  BY <1>2, <1>3

-----------------------------------------------------------------------------
(* A finite set is put in order by how many of its elements come before each. *)

\* A strict total order.
StrictOrder(R, S) ==
    /\ \A x, y \in S : x # y => <<x, y>> \in R \/ <<y, x>> \in R
    /\ \A x \in S : <<x, x>> \notin R
    /\ \A x, y, z \in S : <<x, y>> \in R /\ <<y, z>> \in R => <<x, z>> \in R

\* In the order of its elements a finite set is listed whole and without repetition, as a query
\* with ORDER BY lists its rows (list_assets, repair_legacy_identity_duplicates).
LEMMA RankedOnce ==
    ASSUME NEW S, IsFiniteSet(S), NEW R, StrictOrder(R, S)
    PROVE  LET f == Ranked(S, R)
           IN  /\ Cardinality(S) \in Nat
               /\ \A i \in 1..Cardinality(S) : f[i] \in S
               /\ \A x \in S : \E i \in 1..Cardinality(S) : f[i] = x
               /\ \A i, j \in 1..Cardinality(S) : f[i] = f[j] => i = j
<1> DEFINE f == Ranked(S, R)
           n == Cardinality(S)
           Ahead(x) == {y \in S : <<y, x>> \in R}
           c == [x \in S |-> Cardinality(Ahead(x))]
<1>1. n \in Nat
  BY FS_CardinalityType
<1>2. ASSUME NEW x \in S PROVE IsFiniteSet(Ahead(x)) /\ c[x] = Cardinality(Ahead(x)) /\ c[x] \in 0..n - 1
  <2>1. Ahead(x) \subseteq S /\ x \notin Ahead(x)
    BY DEF StrictOrder
  <2>2. IsFiniteSet(Ahead(x)) /\ Cardinality(Ahead(x)) <= n /\ Cardinality(Ahead(x)) # n
    BY <2>1, FS_Subset
  <2>3. Cardinality(Ahead(x)) \in Nat
    BY <2>2, FS_CardinalityType
  <2>4. c[x] = Cardinality(Ahead(x))
    OBVIOUS
  <2> HIDE DEF c, n, Ahead
  <2> QED
    BY <1>1, <2>2, <2>3, <2>4
<1>3. ASSUME NEW x \in S, NEW y \in S, <<x, y>> \in R
      PROVE  c[x] < c[y]
  <2>1. Ahead(x) \subseteq Ahead(y) /\ x \in Ahead(y) /\ x \notin Ahead(x)
    BY <1>3 DEF StrictOrder
  <2>2. IsFiniteSet(Ahead(y)) /\ c[x] = Cardinality(Ahead(x)) /\ c[y] = Cardinality(Ahead(y))
        /\ c[x] \in 0..n - 1 /\ c[y] \in 0..n - 1
    BY <1>2
  <2> HIDE DEF Ahead, c, n
  <2>3. Cardinality(Ahead(x)) <= Cardinality(Ahead(y)) /\ Cardinality(Ahead(x)) # Cardinality(Ahead(y))
    BY <2>1, <2>2, FS_Subset
  <2> QED
    BY <1>1, <2>2, <2>3
<1>4. c \in [S -> 0..n - 1]
  BY <1>2
<1>5. \A i \in 1..n : f[i] = CHOOSE x \in S : Cardinality(Ahead(x)) = i - 1
  BY <1>1, Zenon DEF Ranked
<1>6. DOMAIN f = 1..n
  BY DEF Ranked
<1>7. f = [i \in 1..n |-> f[i]]
  <2> DEFINE Place(i) == CHOOSE x \in S : Cardinality(Ahead(x)) = i - 1
  <2>1. f = [i \in 1..n |-> Place(i)]
    BY DEF Ranked
  <2> HIDE DEF Place, f
  <2> QED
    BY <2>1
<1>8. \A x \in S : c[x] = Cardinality(Ahead(x))
  BY <1>2
<1> HIDE DEF c, f, n, Ahead
<1>9. ASSUME NEW x \in S, NEW y \in S, c[x] <= c[y] PROVE x = y \/ <<x, y>> \in R
  <2>1. c[x] \in Int /\ c[y] \in Int
    BY <1>1, <1>4
  <2>2. ~(c[y] < c[x])
    BY <2>1, <1>9
  <2> QED
    BY <1>3, <2>2 DEF StrictOrder
<1>10. ASSUME NEW x \in S, NEW y \in S, c[x] = c[y] PROVE x = y
  <2>1. c[x] \in Int /\ c[x] <= c[y] /\ c[y] <= c[x]
    BY <1>1, <1>4, <1>10
  <2>2. ~(<<x, y>> \in R /\ <<y, x>> \in R)
    BY DEF StrictOrder
  <2> QED
    BY <1>9, <2>1, <2>2
<1>11. c \in Surjection(S, 0..n - 1)
  <2>1. c \in Injection(S, 0..n - 1)
    BY <1>4, <1>10 DEF Injection, IsInjective
  <2>2. IsFiniteSet(0..n - 1) /\ Cardinality(0..n - 1) = n
    BY <1>1, FS_Interval
  <2> QED
    BY <2>1, <2>2, FS_Injection DEF n
<1>12. ASSUME NEW i \in 1..n PROVE f[i] \in S /\ c[f[i]] = i - 1
  <2>1. PICK x \in S : c[x] = i - 1
    BY <1>1, <1>11 DEF Surjection
  <2>2. Cardinality(Ahead(x)) = i - 1
    BY <1>8, <2>1
  <2>3. f[i] \in S /\ Cardinality(Ahead(f[i])) = i - 1
    BY <1>5, <2>2, Zenon
  <2> QED
    BY <1>8, <2>3
<1>14. ASSUME NEW x \in S PROVE \E i \in 1..n : f[i] = x
  <2>1. c[x] + 1 \in 1..n /\ (c[x] + 1) - 1 = c[x]
    BY <1>1, <1>4
  <2>2. f[c[x] + 1] = x
    BY <1>10, <1>12, <2>1
  <2> QED
    BY <2>1, <2>2
<1>15. ASSUME NEW i \in 1..n, NEW j \in 1..n, f[i] = f[j] PROVE i = j
  BY <1>1, <1>12, <1>15
<1> QED
  BY <1>1, <1>12, <1>14, <1>15 DEF f, n

\* The observations of a scan are recorded one after the other.
LEMMA UpsertsOneByOne ==
    ASSUME NEW d, NEW s, NEW found, NEW at, IsFiniteSet(found)
    PROVE  \E after : /\ \A i \in 1..Cardinality(found) :
                           after[i] = _upsert_device(after[i - 1], s, ByAddress(found)[i], {}, at)
                      /\ after[0] = d
                      /\ Upserted(d, s, found, at) = after[Cardinality(found)]
<1> DEFINE n == Cardinality(found)
           Upserts(e, i) == _upsert_device(e, s, ByAddress(found)[i], {}, at)
           Begun(f, k) == f = [i \in 0..k |-> IF i = 0 THEN d ELSE Upserts(f[i - 1], i)]
           Never == {k \in 0..n : ~\E f : Begun(f, k)}
           after == CHOOSE f : Begun(f, n)
<1>1. n \in Nat
  BY FS_CardinalityType
<1>2. Upserted(d, s, found, at) = after[n]
  BY DEF Upserted
<1> HIDE DEF Upserts
<1>3. Begun([i \in 0..0 |-> d], 0)
  OBVIOUS
<1>4. ASSUME NEW k \in Nat, NEW f, Begun(f, k)
      PROVE  \E g : Begun(g, k + 1)
  <2> DEFINE g == [i \in 0..(k + 1) |-> IF i = k + 1 THEN Upserts(f[k], i) ELSE f[i]]
  <2>1. \A i \in 1..(k + 1) : g[i - 1] = f[i - 1]
    OBVIOUS
  <2>2. f[0] = d /\ \A i \in 1..k : f[i] = Upserts(f[i - 1], i)
    <3>1. \A i \in 0..k : f[i] = IF i = 0 THEN d ELSE Upserts(f[i - 1], i)
      BY <1>4
    <3> QED
      BY <3>1
  <2>3. \A i \in 0..(k + 1) : g[i] = IF i = 0 THEN d ELSE Upserts(g[i - 1], i)
    BY <2>1, <2>2
  <2>4. g = [i \in 0..(k + 1) |-> IF i = 0 THEN d ELSE Upserts(g[i - 1], i)]
    <3>1. g = [i \in 0..(k + 1) |-> g[i]]
      OBVIOUS
    <3> HIDE DEF g
    <3> QED
      BY <3>1, <2>3
  <2> HIDE DEF g
  <2> QED
    BY <2>4
<1>5. Never = {}
  <2> SUFFICES ASSUME Never # {} PROVE FALSE
    OBVIOUS
  <2>1. Never \in SUBSET Nat
    BY <1>1
  <2>2. PICK k \in Never : \A j \in Never : k <= j
    <3> HIDE DEF Never
    <3> QED
      BY <2>1, Smallest
  <2>3. k \in Nat /\ k <= n /\ ~\E f : Begun(f, k)
    BY <1>1
  <2>4. k # 0
    BY <1>3, <2>3
  <2>5. k - 1 \in Nat /\ k - 1 \in 0..n /\ k - 1 \notin Never
    <3> HIDE DEF Never
    <3> QED
      BY <1>1, <2>2, <2>3, <2>4
  <2>6. PICK f : Begun(f, k - 1)
    BY <2>5
  <2>7. \E g : Begun(g, k - 1 + 1)
    <3> HIDE DEF Begun
    <3> QED
      BY <1>4, <2>5, <2>6
  <2> QED
    BY <2>3, <2>7
<1>6. Begun(after, n)
  <2>1. \E f : Begun(f, n)
    BY <1>1, <1>5
  <2> HIDE DEF Begun
  <2> QED
    BY <2>1
<1>7. \A i \in 0..n : after[i] = IF i = 0 THEN d ELSE Upserts(after[i - 1], i)
  <2> HIDE DEF after
  <2> QED
    BY <1>6
<1>8. after[0] = d /\ \A i \in 1..n : after[i] = Upserts(after[i - 1], i)
  <2> HIDE DEF after
  <2> QED
    BY <1>1, <1>7
<1> HIDE DEF after
<1> QED
  BY <1>2, <1>8 DEF Upserts

\* They are repaired one after the other.
LEMMA RepairsOneByOne ==
    ASSUME NEW d, NEW at, IsFiniteSet(Fallbacks(d))
    PROVE  \E after : /\ \A i \in 1..Cardinality(Fallbacks(d)) :
                           after[i] = Repaired(after[i - 1], BySighting(d)[i], d.assets[BySighting(d)[i]], at)
                      /\ after[0] = d
                      /\ repair_legacy_identity_duplicates(d, at) = after[Cardinality(Fallbacks(d))]
<1> DEFINE n == Cardinality(Fallbacks(d))
           Repairs(e, i) == Repaired(e, BySighting(d)[i], d.assets[BySighting(d)[i]], at)
           Begun(f, k) == f = [i \in 0..k |-> IF i = 0 THEN d ELSE Repairs(f[i - 1], i)]
           Never == {k \in 0..n : ~\E f : Begun(f, k)}
           after == CHOOSE f : Begun(f, n)
<1>1. n \in Nat
  BY FS_CardinalityType
<1>2. repair_legacy_identity_duplicates(d, at) = after[n]
  BY DEF repair_legacy_identity_duplicates
<1> HIDE DEF Repairs
<1>3. Begun([i \in 0..0 |-> d], 0)
  OBVIOUS
<1>4. ASSUME NEW k \in Nat, NEW f, Begun(f, k)
      PROVE  \E g : Begun(g, k + 1)
  <2> DEFINE g == [i \in 0..(k + 1) |-> IF i = k + 1 THEN Repairs(f[k], i) ELSE f[i]]
  <2>1. \A i \in 1..(k + 1) : g[i - 1] = f[i - 1]
    OBVIOUS
  <2>2. f[0] = d /\ \A i \in 1..k : f[i] = Repairs(f[i - 1], i)
    <3>1. \A i \in 0..k : f[i] = IF i = 0 THEN d ELSE Repairs(f[i - 1], i)
      BY <1>4
    <3> QED
      BY <3>1
  <2>3. \A i \in 0..(k + 1) : g[i] = IF i = 0 THEN d ELSE Repairs(g[i - 1], i)
    BY <2>1, <2>2
  <2>4. g = [i \in 0..(k + 1) |-> IF i = 0 THEN d ELSE Repairs(g[i - 1], i)]
    <3>1. g = [i \in 0..(k + 1) |-> g[i]]
      OBVIOUS
    <3> HIDE DEF g
    <3> QED
      BY <3>1, <2>3
  <2> HIDE DEF g
  <2> QED
    BY <2>4
<1>5. Never = {}
  <2> SUFFICES ASSUME Never # {} PROVE FALSE
    OBVIOUS
  <2>1. Never \in SUBSET Nat
    BY <1>1
  <2>2. PICK k \in Never : \A j \in Never : k <= j
    <3> HIDE DEF Never
    <3> QED
      BY <2>1, Smallest
  <2>3. k \in Nat /\ k <= n /\ ~\E f : Begun(f, k)
    BY <1>1
  <2>4. k # 0
    BY <1>3, <2>3
  <2>5. k - 1 \in Nat /\ k - 1 \in 0..n /\ k - 1 \notin Never
    <3> HIDE DEF Never
    <3> QED
      BY <1>1, <2>2, <2>3, <2>4
  <2>6. PICK f : Begun(f, k - 1)
    BY <2>5
  <2>7. \E g : Begun(g, k - 1 + 1)
    <3> HIDE DEF Begun
    <3> QED
      BY <1>4, <2>5, <2>6
  <2> QED
    BY <2>3, <2>7
<1>6. Begun(after, n)
  <2>1. \E f : Begun(f, n)
    BY <1>1, <1>5
  <2> HIDE DEF Begun
  <2> QED
    BY <2>1
<1>7. \A i \in 0..n : after[i] = IF i = 0 THEN d ELSE Repairs(after[i - 1], i)
  <2> HIDE DEF after
  <2> QED
    BY <1>6
<1>8. after[0] = d /\ \A i \in 1..n : after[i] = Repairs(after[i - 1], i)
  <2> HIDE DEF after
  <2> QED
    BY <1>1, <1>7
<1> HIDE DEF after
<1> QED
  BY <1>2, <1>8 DEF Repairs

-----------------------------------------------------------------------------
(* One identity is merged into another. *)

\* When the code merges old into id: the fallback is online, or the two are a duplicate that an older
\* version left.
Mergeable(d, old, id, remove) ==
    /\ old \in DOMAIN d.assets /\ old[1] = "ip"
    /\ id = <<"mac", id[2]>> /\ id[2] \in Colon
    /\ \/ d.assets[old].online /\ ~remove
       \/ id \in DOMAIN d.assets /\ _legacy_fingerprint_matches(d.assets[old], d.assets[id]) /\ remove

\* When ok, nothing was told after the time at, and no disappearance at that time.
Calm(d, at, ok) == ok => \A e \in d.events : e.at <= at /\ (e.type = "device_disappeared" => e.at < at)

\* A row with some of its columns set.
IsRow(r) ==
    r = [scope |-> r.scope, ip |-> r.ip, mac |-> r.mac, kind |-> r.kind, name |-> r.name, ports |-> r.ports,
         prints |-> r.prints, first |-> r.first, last |-> r.last, change |-> r.change, online |-> r.online]

SameHost(q, r) ==
    /\ q.scope = r.scope /\ q.ip = r.ip /\ q.kind = r.kind
    /\ q.name = r.name /\ q.ports = r.ports /\ q.prints = r.prints

Seen(r, a, b, c, o) == [r EXCEPT !.first = a, !.last = b, !.change = c, !.online = o]

\* Setting the times and the presence of a row leaves its other columns.
LEMMA RowSeen ==
    ASSUME NEW r, IsRow(r), NEW a, NEW b, NEW c, NEW o
    PROVE  LET q == Seen(r, a, b, c, o)
           IN  IsRow(q) /\ SameHost(q, r) /\ q.mac = r.mac /\ q.first = a /\ q.last = b /\ q.change = c /\ q.online = o
<1>1. PICK q : q = Seen(r, a, b, c, o)
  OBVIOUS
<1>2. q = [r EXCEPT !.first = a, !.last = b, !.change = c, !.online = o]
  BY <1>1 DEF Seen
<1>3. IsRow(q) /\ SameHost(q, r) /\ q.mac = r.mac /\ q.first = a /\ q.last = b /\ q.change = c /\ q.online = o
  BY <1>2 DEF IsRow, SameHost
<1> QED
  BY <1>1, <1>3

Renamed(r, a, b) == [r EXCEPT !.mac = a, !.change = b]

\* Giving a row its MAC leaves its other columns.
LEMMA RowRenamed ==
    ASSUME NEW r, IsRow(r), NEW a, NEW b
    PROVE  LET q == Renamed(r, a, b)
           IN  IsRow(q) /\ SameHost(q, r) /\ q.mac = a /\ q.first = r.first /\ q.last = r.last /\ q.change = b /\ q.online = r.online
<1>1. PICK q : q = Renamed(r, a, b)
  OBVIOUS
<1>2. q = [r EXCEPT !.mac = a, !.change = b]
  BY <1>1 DEF Renamed
<1>3. IsRow(q) /\ SameHost(q, r) /\ q.mac = a /\ q.first = r.first /\ q.last = r.last /\ q.change = b /\ q.online = r.online
  BY <1>2 DEF IsRow, SameHost
<1> QED
  BY <1>1, <1>3

Gone(r, a, b) == [r EXCEPT !.online = a, !.change = b]

\* Marking a row offline leaves its other columns.
LEMMA RowGone ==
    ASSUME NEW r, IsRow(r), NEW a, NEW b
    PROVE  LET q == Gone(r, a, b)
           IN  IsRow(q) /\ SameHost(q, r) /\ q.mac = r.mac /\ q.first = r.first /\ q.last = r.last /\ q.change = b /\ q.online = a
<1>1. PICK q : q = Gone(r, a, b)
  OBVIOUS
<1>2. q = [r EXCEPT !.online = a, !.change = b]
  BY <1>1 DEF Gone
<1>3. IsRow(q) /\ SameHost(q, r) /\ q.mac = r.mac /\ q.first = r.first /\ q.last = r.last /\ q.change = b /\ q.online = a
  BY <1>2 DEF IsRow, SameHost
<1> QED
  BY <1>1, <1>3

\* R is the row of id once old was merged into it.
MergedRow(d, R, old, id, at) ==
    LET F == d.assets[old]
        C == d.assets[id]
        known == id \in DOMAIN d.assets
    IN  /\ RowFiled(id, R) /\ R.change = at
        /\ R.first <= F.first /\ F.last <= R.last
        /\ known => /\ R.first = F.first \/ R.first = C.first
                    /\ R.first <= C.first /\ C.last <= R.last
                    /\ R.scope = C.scope /\ R.ip = C.ip
                    /\ R.kind = C.kind /\ R.ports = C.ports
        /\ ~known => R.first = F.first /\ R.scope = F.scope /\ R.ip = F.ip
        /\ R.online <=> (F.online \/ (known /\ C.online))

\* What the merge does to the rows.
LEMMA MergedRows ==
    ASSUME NEW d, NEW at \in Nat, Filed(d),
           NEW old, NEW id, NEW remove \in BOOLEAN, Mergeable(d, old, id, remove)
    PROVE  LET e == _merge_identity(d, old, id, at, remove)
               R == e.assets[id]
           IN  /\ e = [assets |-> e.assets, events |-> e.events, links |-> e.links]
               /\ e.assets = [x \in DOMAIN e.assets |-> e.assets[x]]
               /\ DOMAIN e.assets = (DOMAIN d.assets \ {old}) \cup {id}
               /\ old # id
               /\ \A x \in DOMAIN d.assets \ {old, id} : e.assets[x] = d.assets[x]
               /\ MergedRow(d, R, old, id, at)
<1> DEFINE e == _merge_identity(d, old, id, at, remove)
           F == d.assets[old]
           C == d.assets[id]
           known == id \in DOMAIN d.assets
           R == IF known
                THEN [C EXCEPT !.first = Least(@, F.first), !.last = Greatest(@, F.last),
                               !.change = at, !.online = @ \/ F.online]
                ELSE [F EXCEPT !.mac = id[2], !.change = at]
<1>1. e.assets = With(Without(d.assets, old), id, R)
      /\ e = [assets |-> e.assets, events |-> e.events, links |-> e.links]
  BY DEF _merge_identity
<1>2. old \in DOMAIN d.assets /\ id = <<"mac", id[2]>> /\ id[2] \in Colon /\ old # id
  BY DEF Mergeable
<1>3. RowFiled(old, F) /\ (known => RowFiled(id, C))
  BY <1>2 DEF Filed
<1>4. MergedRow(d, R, old, id, at)
  <2>1. CASE known
    <3> DEFINE first == Least(C.first, F.first)
               last == Greatest(C.last, F.last)
               online == C.online \/ F.online
    <3>1. IsRow(C)
      BY <1>3, <2>1 DEF RowFiled, IsRow
    <3>2. R = Seen(C, first, last, at, online)
      BY <2>1, Zenon DEF Seen
    <3> HIDE DEF R, online
    <3>3. IsRow(R) /\ SameHost(R, C) /\ R.mac = C.mac
          /\ R.first = first /\ R.last = last /\ R.change = at /\ R.online = online
      BY <3>1, <3>2, RowSeen
    <3>4. R.online = (C.online \/ F.online) /\ R.online \in BOOLEAN
      BY <3>3, Zenon DEF online
    <3> QED
      BY <1>2, <1>3, <2>1, <3>3, <3>4 DEF MergedRow, RowFiled, IsRow, SameHost, asset_identity, _normalize_mac, Least, Greatest
  <2>2. CASE ~known
    <3>0. F.online /\ id[2] # NoMac
      BY <1>2, <2>2, InventoryAssumption DEF Mergeable
    <3>1. IsRow(F)
      BY <1>3 DEF RowFiled, IsRow
    <3> DEFINE m == id[2]
    <3>2. R = Renamed(F, m, at)
      BY <2>2, Zenon DEF Renamed
    <3> HIDE DEF m
    <3> HIDE DEF R
    <3>3. IsRow(R) /\ SameHost(R, F) /\ R.mac = m
          /\ R.first = F.first /\ R.last = F.last /\ R.change = at /\ R.online = F.online
      BY <3>1, <3>2, RowRenamed
    <3> QED
      BY <1>2, <1>3, <2>2, <3>0, <3>1, <3>3 DEF m, MergedRow, RowFiled, IsRow, SameHost, asset_identity, _normalize_mac
  <2> QED
    BY <2>1, <2>2
<1> HIDE DEF e, R
<1>5. DOMAIN e.assets = (DOMAIN d.assets \ {old}) \cup {id}
      /\ e.assets = [x \in DOMAIN e.assets |-> e.assets[x]]
  BY <1>1 DEF With, Without
<1>6. e.assets[id] = R /\ \A x \in DOMAIN d.assets \ {old, id} : e.assets[x] = d.assets[x]
  BY <1>1 DEF With, Without
<1> QED
  BY <1>1, <1>2, <1>4, <1>5, <1>6 DEF e

\* An entry that is about another asset after the merge.
Retold(v, s, old, id) == [v EXCEPT !.asset = IF v.scope = s THEN Substitute(@, old, id) ELSE @]

\* A merge changes of an entry the asset, and only of those about the fallback.
LEMMA RetoldIs ==
    ASSUME NEW v, v = Event(v.asset, v.scope, v.at, v.type), NEW s, NEW old, NEW id, v.asset = old => v.scope = s
    PROVE  Retold(v, s, old, id) = Event(IF v.asset = old THEN id ELSE v.asset, v.scope, v.at, v.type)
<1> DEFINE a == IF v.asset = old THEN id ELSE v.asset
<1>1. Retold(v, s, old, id) = [v EXCEPT !.asset = IF v.scope = s THEN Substitute(v.asset, old, id) ELSE v.asset]
  BY Zenon DEF Retold
<1>2. (IF v.scope = s THEN Substitute(v.asset, old, id) ELSE v.asset) = a
  BY DEF Substitute
<1>3. Retold(v, s, old, id) = [v EXCEPT !.asset = a]
  BY <1>1, <1>2
<1> HIDE DEF a
<1>4. [v EXCEPT !.asset = a] = Event(a, v.scope, v.at, v.type)
  BY DEF Event
<1> QED
  BY <1>3, <1>4 DEF a

\* The entry that a merge takes back: a first sighting that was none, or a disappearance.
TakenBack(d, old, id, remove, v) ==
    LET F == d.assets[old]
        C == d.assets[id]
    IN  \/ /\ id \in DOMAIN d.assets /\ v.type = "new_device"
           /\ \/ v.asset = id /\ v.at = C.first /\ F.first <= C.first
              \/ v.asset = old /\ v.at = F.first /\ C.first < F.first
        \/ remove /\ v.type = "device_disappeared" /\ v.asset = old /\ v.at = F.change

\* What the merge does to the timeline.
LEMMA MergedEvents ==
    ASSUME NEW d, NEW at \in Nat, Filed(d),
           NEW old, NEW id, NEW remove \in BOOLEAN, Mergeable(d, old, id, remove)
    PROVE  LET E == _merge_identity(d, old, id, at, remove).events
               told == Event(id, d.assets[old].scope, at, "reconciled")
           IN  /\ told \in E
               /\ \A v \in E : /\ v = Event(v.asset, v.scope, v.at, v.type) /\ v.asset # old
                               /\ v = told \/ v \in d.events
                                  \/ (v.asset = id /\ Event(old, v.scope, v.at, v.type) \in d.events)
               /\ \A v \in d.events : v.asset \notin {old, id} => v \in E
               /\ \A v \in d.events : v.asset \in {old, id} =>
                      Event(id, v.scope, v.at, v.type) \in E \/ TakenBack(d, old, id, remove, v)
<1> DEFINE e == _merge_identity(d, old, id, at, remove)
           E == e.events
           F == d.assets[old]
           C == d.assets[id]
           s == F.scope
           told == Event(id, s, at, "reconciled")
           known == id \in DOMAIN d.assets
           D == IF ~known THEN d.events
                ELSE _deduplicate_new_device_event(d.events, F, C, old, id)
                     \ (IF remove THEN {Event(old, s, F.change, "device_disappeared")} ELSE {})
<1>1. E = {Retold(v, s, old, id) : v \in D} \cup {told}
  BY Zenon DEF _merge_identity, Retold
<1>2. old \in DOMAIN d.assets /\ old[1] = "ip" /\ id = <<"mac", id[2]>> /\ old # id
  BY DEF Mergeable
<1>3. RowFiled(old, F) /\ (known => RowFiled(id, C))
  BY <1>2 DEF Filed
<1>4. F.first \in Int /\ (known => C.first \in Int)
  BY <1>3 DEF RowFiled
<1>5. ASSUME NEW v \in d.events
      PROVE  /\ v = Event(v.asset, v.scope, v.at, v.type)
             /\ v.asset = old => v.scope = s
             /\ Retold(v, s, old, id) = Event(IF v.asset = old THEN id ELSE v.asset, v.scope, v.at, v.type)
  <2>1. v = Event(v.asset, v.scope, v.at, v.type) /\ (v.asset = old => v.scope = s)
    BY <1>2 DEF Filed
  <2> QED
    BY <2>1, RetoldIs
<1>6. D \subseteq d.events
  BY DEF _deduplicate_new_device_event
<1>7. ASSUME NEW v \in d.events, v \notin D
      PROVE  v.asset \in {old, id} /\ TakenBack(d, old, id, remove, v)
  <2>1. known
    BY <1>7
  <2>2. CASE remove /\ v = Event(old, s, F.change, "device_disappeared")
    BY <2>1, <2>2 DEF TakenBack, Event
  <2>3. CASE ~(remove /\ v = Event(old, s, F.change, "device_disappeared"))
    <3>1. v \notin _deduplicate_new_device_event(d.events, F, C, old, id)
      BY <1>7, <2>1, <2>3
    <3>2. v = IF F.first <= C.first THEN Event(id, s, C.first, "new_device") ELSE Event(old, s, F.first, "new_device")
      BY <3>1 DEF _deduplicate_new_device_event
    <3> QED
      BY <1>4, <2>1, <3>2 DEF TakenBack, Event
  <2> QED
    BY <2>2, <2>3
<1>8. told \in E
  BY <1>1
<1>9. told = Event(told.asset, told.scope, told.at, told.type) /\ told.asset = id
  BY DEF Event
<1> HIDE DEF D, told
<1>10. ASSUME NEW v \in E
       PROVE  /\ v = Event(v.asset, v.scope, v.at, v.type) /\ v.asset # old
              /\ v = told \/ v \in d.events \/ (v.asset = id /\ Event(old, v.scope, v.at, v.type) \in d.events)
  <2>1. CASE v = told
    BY <1>2, <1>9, <2>1
  <2>2. CASE v # told
    <3>1. PICK w \in D : v = Retold(w, s, old, id)
      BY <1>1, <2>2
    <3>2. w \in d.events /\ w = Event(w.asset, w.scope, w.at, w.type)
          /\ v = Event(IF w.asset = old THEN id ELSE w.asset, w.scope, w.at, w.type)
      BY <1>5, <1>6, <3>1
    <3> QED
      BY <1>2, <3>2 DEF Event
  <2> QED
    BY <2>1, <2>2
<1>11. ASSUME NEW v \in D
       PROVE  Event(IF v.asset = old THEN id ELSE v.asset, v.scope, v.at, v.type) \in E
  <2>1. Retold(v, s, old, id) \in E
    BY <1>1
  <2> QED
    BY <1>5, <1>6, <2>1
<1>12. ASSUME NEW v \in d.events, v.asset \notin {old, id} PROVE v \in E
  BY <1>5, <1>7, <1>11, <1>12
<1>13. ASSUME NEW v \in d.events, v.asset \in {old, id}
       PROVE  Event(id, v.scope, v.at, v.type) \in E \/ TakenBack(d, old, id, remove, v)
  <2>1. CASE v \in D
    BY <1>11, <1>13, <2>1
  <2> QED
    BY <1>7, <2>1
<1> HIDE DEF e
<1> QED
  BY <1>8, <1>10, <1>12, <1>13 DEF told, e

\* A relationship that is moved keeps its scope, kind and confidence.
LEMMA MovedIs ==
    ASSUME NEW l, l = Link(l.scope, l.src, l.dst, l.kind, l.confidence), NEW old, NEW id
    PROVE  Moved(l, old, id) =
           Link(l.scope, Substitute(l.src, old, id), Substitute(l.dst, old, id), l.kind, l.confidence)
<1> DEFINE a == Substitute(l.src, old, id)
           b == Substitute(l.dst, old, id)
<1>1. Moved(l, old, id) = [l EXCEPT !.src = a, !.dst = b]
  BY Zenon DEF Moved
<1> HIDE DEF a, b
<1>2. PICK q : q = [l EXCEPT !.src = a, !.dst = b]
  OBVIOUS
<1>3. q = Link(l.scope, a, b, l.kind, l.confidence)
  BY <1>2 DEF Link
<1> QED
  BY <1>1, <1>2, <1>3 DEF a, b

\* What the merge does to the relationships.
LEMMA MergedLinks ==
    ASSUME NEW links, NEW s, NEW old, NEW id, old # id,
           \A l \in links : /\ l = Link(l.scope, l.src, l.dst, l.kind, l.confidence) /\ l.src # l.dst
                            /\ old \in {l.src, l.dst} => l.scope = s,
           \A l, m \in links : SameKey(l, m) => l = m
    PROVE  LET L == _repoint_relationships(links, s, old, id)
           IN  /\ \A m \in L : /\ m = Link(m.scope, m.src, m.dst, m.kind, m.confidence) /\ m.src # m.dst
                               /\ old \notin {m.src, m.dst}
                               /\ m \in links \/ \E l \in links : old \in {l.src, l.dst} /\ m = Moved(l, old, id)
               /\ \A l, m \in L : SameKey(l, m) => l = m
               /\ \A l \in links : old \notin {l.src, l.dst} => l \in L
               /\ \A l \in links : old \in {l.src, l.dst} /\ id \notin {l.src, l.dst} =>
                      \E m \in L : SameKey(m, Moved(l, old, id))
<1> DEFINE L == _repoint_relationships(links, s, old, id)
           touched == {l \in links : l.scope = s /\ old \in {l.src, l.dst}}
           kept == links \ touched
           moved == {Moved(l, old, id) : l \in touched}
<1>1. L = {l \in kept \cup {m \in moved : \A k \in kept : ~SameKey(k, m)} :
              ~(l.scope = s /\ l.src = id /\ l.dst = id)}
  BY Zenon DEF _repoint_relationships
<1>2. ASSUME NEW l \in links
      PROVE  /\ l = Link(l.scope, l.src, l.dst, l.kind, l.confidence) /\ l.src # l.dst
             /\ l \in touched <=> old \in {l.src, l.dst}
             /\ Moved(l, old, id) =
                Link(l.scope, Substitute(l.src, old, id), Substitute(l.dst, old, id), l.kind, l.confidence)
  <2>1. l = Link(l.scope, l.src, l.dst, l.kind, l.confidence) /\ l.src # l.dst
    OBVIOUS
  <2> QED
    BY <2>1, MovedIs
<1>3. ASSUME NEW l \in touched
      PROVE  LET m == Moved(l, old, id)
             IN  /\ m = Link(m.scope, m.src, m.dst, m.kind, m.confidence)
                 /\ m.scope = s /\ m.kind = l.kind /\ old \notin {m.src, m.dst}
                 /\ \/ m.src = id /\ m.dst = l.dst /\ l.src = old
                    \/ m.dst = id /\ m.src = l.src /\ l.dst = old
  <2>1. l \in links /\ l.scope = s /\ old \in {l.src, l.dst}
    OBVIOUS
  <2> HIDE DEF touched
  <2>2. PICK m : m = Moved(l, old, id)
    OBVIOUS
  <2>3. m = Link(l.scope, Substitute(l.src, old, id), Substitute(l.dst, old, id), l.kind, l.confidence)
    BY <1>2, <2>1, <2>2
  <2>4. /\ m = Link(m.scope, m.src, m.dst, m.kind, m.confidence)
        /\ m.scope = s /\ m.kind = l.kind /\ m.src = Substitute(l.src, old, id) /\ m.dst = Substitute(l.dst, old, id)
    BY <2>1, <2>3 DEF Link
  <2>5. l.src # l.dst
    BY <1>2, <2>1
  <2> QED
    BY <2>1, <2>2, <2>4, <2>5 DEF Substitute
<1> HIDE DEF L, touched
<1>4. touched \subseteq links
  BY DEF touched
<1>5. ASSUME NEW m \in L
      PROVE  /\ m = Link(m.scope, m.src, m.dst, m.kind, m.confidence) /\ m.src # m.dst
             /\ old \notin {m.src, m.dst}
             /\ m \in links \/ \E l \in links : old \in {l.src, l.dst} /\ m = Moved(l, old, id)
  <2>1. CASE m \in kept
    BY <1>2, <2>1
  <2>2. CASE m \notin kept
    <3>1. PICK l \in touched : m = Moved(l, old, id)
      BY <1>1, <2>2
    <3>2. ~(m.src = id /\ m.dst = id)
      BY <1>1, <1>3, <3>1
    <3>3. /\ m = Link(m.scope, m.src, m.dst, m.kind, m.confidence)
          /\ old \notin {m.src, m.dst} /\ (m.src = id \/ m.dst = id)
      BY <1>3, <3>1
    <3>4. m.src # m.dst
      BY <3>2, <3>3
    <3>5. l \in links /\ old \in {l.src, l.dst}
      BY <1>2, <1>4
    <3> QED
      BY <3>1, <3>3, <3>4, <3>5
  <2> QED
    BY <2>1, <2>2
<1>6. ASSUME NEW l \in L, NEW m \in L, SameKey(l, m) PROVE l = m
  <2>1. CASE l \in kept /\ m \in kept
    BY <1>6, <2>1
  <2>2. CASE l \in kept /\ m \notin kept
    BY <1>1, <1>6, <2>2
  <2>3. CASE l \notin kept /\ m \in kept
    <3>1. SameKey(m, l)
      BY <1>6 DEF SameKey
    <3> QED
      BY <1>1, <2>3, <3>1
  <2>4. CASE l \notin kept /\ m \notin kept
    <3>1. PICK p \in touched : l = Moved(p, old, id)
      BY <1>1, <2>4
    <3>2. PICK q \in touched : m = Moved(q, old, id)
      BY <1>1, <2>4
    <3>3. ~(l.src = id /\ l.dst = id)
      BY <1>1, <1>3, <3>1
    <3>4. /\ l.scope = s /\ l.kind = p.kind
          /\ (l.src = id /\ l.dst = p.dst /\ p.src = old) \/ (l.dst = id /\ l.src = p.src /\ p.dst = old)
      BY <1>3, <3>1
    <3>5. /\ m.scope = s /\ m.kind = q.kind
          /\ (m.src = id /\ m.dst = q.dst /\ q.src = old) \/ (m.dst = id /\ m.src = q.src /\ q.dst = old)
      BY <1>3, <3>2
    <3>6. p.scope = s /\ q.scope = s /\ p \in links /\ q \in links
      BY DEF touched
    <3>7. p.src = q.src /\ p.dst = q.dst /\ p.kind = q.kind
      BY <1>6, <3>3, <3>4, <3>5 DEF SameKey
    <3>8. p = q
      BY <3>6, <3>7 DEF SameKey
    <3> QED
      BY <3>1, <3>2, <3>8
  <2> QED
    BY <2>1, <2>2, <2>3, <2>4
<1>7. ASSUME NEW l \in links, old \notin {l.src, l.dst} PROVE l \in L
  <2>1. l \in kept /\ l.src # l.dst
    BY <1>2, <1>7
  <2> QED
    BY <1>1, <2>1
<1>8. ASSUME NEW l \in links, old \in {l.src, l.dst}, id \notin {l.src, l.dst}
      PROVE  \E m \in L : SameKey(m, Moved(l, old, id))
  <2>1. l \in touched
    BY <1>2, <1>8
  <2>2. PICK m : m = Moved(l, old, id)
    OBVIOUS
  <2>3. m \in moved
    BY <2>1, <2>2
  <2>4. ~(m.src = id /\ m.dst = id)
    BY <1>3, <1>8, <2>1, <2>2
  <2>5. CASE \A k \in kept : ~SameKey(k, m)
    <3>1. m \in L
      BY <1>1, <2>3, <2>4, <2>5
    <3> QED
      BY <2>2, <3>1 DEF SameKey
  <2>6. CASE \E k \in kept : SameKey(k, m)
    <3>1. PICK k \in kept : SameKey(k, m)
      BY <2>6
    <3>2. k \in L
      BY <1>1, <2>4, <3>1 DEF SameKey
    <3> QED
      BY <2>2, <3>1, <3>2
  <2> QED
    BY <2>5, <2>6
<1> QED
  BY <1>5, <1>6, <1>7, <1>8 DEF L

\* The timeline explains the state of one asset.
Explained(d, x) ==
    LET row == d.assets[x]
    IN  /\ \E e \in Arrived(d, x) : e.at = row.first
        /\ ~row.online => \E e \in Left(d, x) : \A a \in Arrived(d, x) : a.at < e.at
        /\ row.online => \A e \in Left(d, x) :
               \E a \in Told(d, x) : a.type \in {"device_returned", "reconciled"} /\ a.at > e.at
        /\ row.first <= row.last

\* The timeline explains the inventory when it explains every asset.
LEMMA ExplainsEach == ASSUME NEW d PROVE TimelineExplainsPresence(d) <=> \A x \in DOMAIN d.assets : Explained(d, x)
  BY DEF TimelineExplainsPresence, Explained

\* The links of a sound database are what the lemma about their repointing asks for.
LEMMA SoundLinks ==
    ASSUME NEW d, ReferencesExist(d), Filed(d), NEW old \in DOMAIN d.assets, old[1] = "ip"
    PROVE  /\ \A l \in d.links : /\ l = Link(l.scope, l.src, l.dst, l.kind, l.confidence) /\ l.src # l.dst
                                 /\ old \in {l.src, l.dst} => l.scope = d.assets[old].scope
           /\ \A l, m \in d.links : SameKey(l, m) => l = m
  BY DEF ReferencesExist, Filed

\* A merge leaves a sound database.
LEMMA MergeKeeps ==
    ASSUME NEW d, NEW t \in Nat, NEW at \in Nat, at <= t, NEW ok \in BOOLEAN, Sound(d, t, ok), Calm(d, at, ok),
           NEW old, NEW id, NEW remove \in BOOLEAN, Mergeable(d, old, id, remove)
    PROVE  LET e == _merge_identity(d, old, id, at, remove)
           IN  Sound(e, t, ok) /\ Calm(e, at, ok)
<1> DEFINE e == _merge_identity(d, old, id, at, remove)
           F == d.assets[old]
           C == d.assets[id]
           R == e.assets[id]
           known == id \in DOMAIN d.assets
           told == Event(id, F.scope, at, "reconciled")
<1>0. Filed(d) /\ ReferencesExist(d) /\ \A v \in d.events : v.at <= t
  BY DEF Sound
<1>3. ok => TimelineExplainsPresence(d) /\ \A x \in DOMAIN d.assets : \A a \in Arrived(d, x) : a.at <= d.assets[x].change
  BY DEF Sound, Explains
<1>1. /\ e = [assets |-> e.assets, events |-> e.events, links |-> e.links]
      /\ e.assets = [x \in DOMAIN e.assets |-> e.assets[x]]
      /\ DOMAIN e.assets = (DOMAIN d.assets \ {old}) \cup {id}
      /\ old # id
      /\ \A x \in DOMAIN d.assets \ {old, id} : e.assets[x] = d.assets[x]
  BY <1>0, MergedRows
<1>2. /\ RowFiled(id, R) /\ R.change = at
      /\ R.first <= F.first /\ F.last <= R.last
      /\ known => (R.first = F.first \/ R.first = C.first) /\ R.first <= C.first
      /\ ~known => R.first = F.first
      /\ ~R.online => known /\ ~C.online /\ ~F.online
  <2>1. MergedRow(d, R, old, id, at)
    BY <1>0, MergedRows
  <2>2. F.online \/ known
    BY Zenon DEF Mergeable
  <2> HIDE DEF R
  <2> QED
    BY <2>1, <2>2 DEF MergedRow
<1>4. /\ told \in e.events
      /\ \A v \in e.events : /\ v = Event(v.asset, v.scope, v.at, v.type) /\ v.asset # old
                             /\ v = told \/ v \in d.events
                                \/ (v.asset = id /\ Event(old, v.scope, v.at, v.type) \in d.events)
      /\ \A v \in d.events : v.asset \notin {old, id} => v \in e.events
      /\ \A v \in d.events : v.asset \in {old, id} =>
             Event(id, v.scope, v.at, v.type) \in e.events \/ TakenBack(d, old, id, remove, v)
  BY <1>0, MergedEvents
<1>5. old \in DOMAIN d.assets /\ old[1] = "ip" /\ id = <<"mac", id[2]>> /\ id[2] \in Colon
  BY DEF Mergeable
<1>6. e.links = _repoint_relationships(d.links, F.scope, old, id)
  BY DEF _merge_identity
<1>7. /\ \A m \in e.links : /\ m = Link(m.scope, m.src, m.dst, m.kind, m.confidence) /\ m.src # m.dst
                            /\ old \notin {m.src, m.dst}
                            /\ m \in d.links \/ \E l \in d.links : old \in {l.src, l.dst} /\ m = Moved(l, old, id)
      /\ \A l, m \in e.links : SameKey(l, m) => l = m
  <2> HIDE DEF e, F
  <2> DEFINE s == F.scope
  <2>0. /\ \A l \in d.links : /\ l = Link(l.scope, l.src, l.dst, l.kind, l.confidence) /\ l.src # l.dst
                              /\ old \in {l.src, l.dst} => l.scope = s
        /\ \A l, m \in d.links : SameKey(l, m) => l = m
    BY <1>0, <1>5, SoundLinks DEF F
  <2>1. e.links = _repoint_relationships(d.links, s, old, id)
    BY <1>6
  <2> HIDE DEF s
  <2> QED
    BY <1>1, <2>0, <2>1, MergedLinks
<1>8. RowFiled(old, F) /\ (known => RowFiled(id, C))
  BY <1>0, <1>5 DEF Filed
<1>9. \A v \in d.events : /\ v = Event(v.asset, v.scope, v.at, v.type) /\ v.at \in 0..t
                          /\ ok => v.at <= at /\ (v.type = "device_disappeared" => v.at < at)
                          /\ v.asset[1] = "ip" => v.scope = d.assets[v.asset].scope
                          /\ v.asset \in DOMAIN d.assets
  BY <1>0 DEF Filed, ReferencesExist, Calm
<1>10. told.asset = id /\ told.at = at /\ told.type = "reconciled" /\ told.scope = F.scope
  BY DEF Event
<1> HIDE DEF e, told, F, C, R
<1>11. \A v \in e.events : v.at \in 0..t /\ (ok => v.at <= at /\ (v.type = "device_disappeared" => v.at < at))
  <2> TAKE v \in e.events
  <2>1. CASE v = told
    BY <1>10, <2>1
  <2>2. CASE v \in d.events
    BY <1>9, <2>2
  <2>3. CASE Event(old, v.scope, v.at, v.type) \in d.events
    <3>1. PICK w \in d.events : w = Event(old, v.scope, v.at, v.type)
      BY <2>3
    <3>2. w.at = v.at /\ w.type = v.type
      BY <3>1 DEF Event
    <3> QED
      BY <1>9, <3>2
  <2> QED
    BY <1>4, <2>1, <2>2, <2>3
<1>12. Calm(e, at, ok)
  BY <1>11 DEF Calm
<1>13. ASSUME NEW x \in DOMAIN e.assets, x # id
       PROVE  /\ x \in DOMAIN d.assets /\ e.assets[x] = d.assets[x]
              /\ Told(e, x) = Told(d, x) /\ Arrived(e, x) = Arrived(d, x) /\ Left(e, x) = Left(d, x)
  <2>1. x \in DOMAIN d.assets \ {old, id}
    BY <1>1, <1>13
  <2>2. Told(e, x) = Told(d, x)
    BY <1>4, <1>10, <1>13, <2>1 DEF Told
  <2> QED
    BY <1>1, <2>1, <2>2 DEF Arrived, Left
<1>14. ReferencesExist(e)
  <2>1. \A v \in e.events : v.asset \in DOMAIN e.assets
    BY <1>1, <1>4, <1>9, <1>10
  <2>2. ASSUME NEW m \in e.links
        PROVE  {m.src, m.dst} \subseteq DOMAIN e.assets \cup {Internet, Lan}
    <3>1. CASE m \in d.links
      BY <1>0, <1>1, <1>7, <3>1 DEF ReferencesExist
    <3>2. CASE m \notin d.links
      <4>1. PICK l \in d.links : m = Moved(l, old, id)
        BY <1>7, <3>2
      <4>2. m = Link(l.scope, Substitute(l.src, old, id), Substitute(l.dst, old, id), l.kind, l.confidence)
        BY <1>0, <4>1, MovedIs DEF Filed
      <4>3. m.src = Substitute(l.src, old, id) /\ m.dst = Substitute(l.dst, old, id)
        BY <4>2 DEF Link
      <4>4. {l.src, l.dst} \subseteq DOMAIN d.assets \cup {Internet, Lan}
        BY <1>0 DEF ReferencesExist
      <4> QED
        BY <1>1, <4>3, <4>4 DEF Substitute
    <3> QED
      BY <3>1, <3>2
  <2> QED
    BY <1>7, <2>1, <2>2 DEF ReferencesExist
<1>15. Filed(e)
  <2>1. e = [assets |-> [x \in DOMAIN e.assets |-> e.assets[x]], events |-> e.events, links |-> e.links]
    BY <1>1
  <2>2. IsFiniteSet(DOMAIN e.assets)
    <3>1. IsFiniteSet(DOMAIN d.assets \ {old})
      BY <1>0, FS_RemoveElement DEF Filed
    <3> QED
      BY <1>1, <3>1, FS_AddElement
  <2>3. ASSUME NEW x \in DOMAIN e.assets PROVE RowFiled(x, e.assets[x])
    <3>1. CASE x = id
      BY <1>2, <3>1 DEF R
    <3>2. CASE x # id
      <4>1. x \in DOMAIN d.assets /\ e.assets[x] = d.assets[x]
        BY <1>13, <3>2
      <4> QED
        BY <1>0, <4>1 DEF Filed
    <3> QED
      BY <3>1, <3>2
  <2>4. ASSUME NEW v \in e.events
        PROVE  /\ v = Event(v.asset, v.scope, v.at, v.type) /\ v.at \in Nat
               /\ v.asset[1] = "ip" => v.scope = e.assets[v.asset].scope
    <3>1. CASE v.asset = id
      BY <1>4, <1>5, <1>11, <3>1
    <3>2. CASE v.asset # id
      <4>1. v \in d.events /\ v.asset # old
        BY <1>4, <1>10, <3>2
      <4>2. v.asset \in DOMAIN d.assets /\ e.assets[v.asset] = d.assets[v.asset]
        BY <1>1, <1>9, <3>2, <4>1
      <4> QED
        BY <1>4, <1>9, <1>11, <4>1, <4>2
    <3> QED
      BY <3>1, <3>2
  <2>5. ASSUME NEW m \in e.links, NEW x \in {m.src, m.dst}, x[1] = "ip"
        PROVE  e.assets[x].scope = m.scope
    <3>1. x # old /\ x # id /\ x # Internet /\ x # Lan
      BY <1>5, <1>7, <2>5 DEF Internet, Lan
    <3>2. PICK l \in d.links : l.scope = m.scope /\ x \in {l.src, l.dst}
      <4>1. CASE m \in d.links
        BY <4>1
      <4>2. CASE m \notin d.links
        <5>1. PICK l \in d.links : m = Moved(l, old, id)
          BY <1>7, <4>2
        <5>2. m = Link(l.scope, Substitute(l.src, old, id), Substitute(l.dst, old, id), l.kind, l.confidence)
          BY <1>0, <5>1, MovedIs DEF Filed
        <5>3. m.src = Substitute(l.src, old, id) /\ m.dst = Substitute(l.dst, old, id) /\ m.scope = l.scope
          BY <5>2 DEF Link
        <5> QED
          BY <3>1, <5>3 DEF Substitute
      <4> QED
        BY <4>1, <4>2
    <3>3. x \in DOMAIN d.assets /\ d.assets[x].scope = m.scope
      BY <1>0, <2>5, <3>1, <3>2 DEF Filed, ReferencesExist
    <3> QED
      BY <1>1, <3>1, <3>3
  <2> QED
    BY <1>7, <2>1, <2>2, <2>3, <2>4, <2>5 DEF Filed
<1>16. ASSUME ok PROVE Explained(e, id)
  <2>0. /\ F.first \in Int /\ F.last \in Int /\ F.change \in Int /\ R.first \in Int /\ R.last \in Int
        /\ known => C.first \in Int
    BY <1>2, <1>8 DEF RowFiled
  <2>1. \E v \in Arrived(e, id) : v.at = R.first
    <3>1. PICK p \in Arrived(d, old) : p.at = F.first
      BY <1>3, <1>5, <1>16 DEF TimelineExplainsPresence, F
    <3>2. CASE known => F.first <= C.first
      <4>1. R.first = F.first
        BY <1>2, <2>0, <3>2
      <4>2. p \in d.events /\ p.asset = old /\ p.type \in {"new_device", "device_returned"}
        BY <3>1 DEF Arrived, Told
      <4>3. ~TakenBack(d, old, id, remove, p)
        BY <1>1, <2>0, <3>1, <3>2, <4>2 DEF TakenBack, F, C
      <4>4. PICK q \in e.events : q = Event(id, p.scope, p.at, p.type)
        BY <1>4, <4>2, <4>3
      <4>5. q.asset = id /\ q.at = p.at /\ q.type = p.type
        BY <4>4 DEF Event
      <4> QED
        BY <3>1, <4>1, <4>2, <4>4, <4>5 DEF Arrived, Told
    <3>3. CASE known /\ C.first < F.first
      <4>1. R.first = C.first
        BY <1>2, <2>0, <3>3
      <4>2. PICK c \in Arrived(d, id) : c.at = C.first
        BY <1>3, <1>16, <3>3 DEF TimelineExplainsPresence, C
      <4>3. c \in d.events /\ c.asset = id /\ c.type \in {"new_device", "device_returned"}
        BY <4>2 DEF Arrived, Told
      <4>4. ~TakenBack(d, old, id, remove, c)
        BY <1>1, <2>0, <3>3, <4>2, <4>3 DEF TakenBack, F, C
      <4>5. PICK q \in e.events : q = Event(id, c.scope, c.at, c.type)
        BY <1>4, <4>3, <4>4
      <4>6. q.asset = id /\ q.at = c.at /\ q.type = c.type
        BY <4>5 DEF Event
      <4> QED
        BY <4>1, <4>2, <4>3, <4>5, <4>6 DEF Arrived, Told
    <3> QED
      BY <2>0, <3>2, <3>3
  <2>2. ASSUME ~R.online
        PROVE  \E v \in Left(e, id) : \A a \in Arrived(e, id) : a.at < v.at
    <3>1. known /\ ~C.online /\ ~F.online
      BY <1>2, <2>2
    <3>2. _legacy_fingerprint_matches(F, C)
      BY <3>1 DEF Mergeable, F, C
    <3>3. F.change = C.first
      BY <3>2 DEF _legacy_fingerprint_matches
    <3>4. PICK v \in Left(d, id) : \A a \in Arrived(d, id) : a.at < v.at
      BY <1>3, <1>16, <3>1 DEF TimelineExplainsPresence, C
    <3>5. PICK c \in Arrived(d, id) : c.at = C.first
      BY <1>3, <1>16, <3>1 DEF TimelineExplainsPresence, C
    <3>6. v \in d.events /\ v.asset = id /\ v.type = "device_disappeared"
      BY <3>4 DEF Left, Told
    <3>7. ~TakenBack(d, old, id, remove, v)
      BY <1>1, <3>6 DEF TakenBack
    <3>8. v \in e.events
      <4>1. Event(id, v.scope, v.at, v.type) \in e.events
        BY <1>4, <3>6, <3>7
      <4> QED
        BY <1>9, <3>6, <4>1
    <3>9. ASSUME NEW a \in Arrived(e, id) PROVE a.at < v.at
      <4>1. a \in e.events /\ a.asset = id /\ a.type \in {"new_device", "device_returned"}
        BY DEF Arrived, Told
      <4>2. CASE a \in d.events
        <5>1. a \in Arrived(d, id)
          BY <4>1, <4>2 DEF Arrived, Told
        <5> QED
          BY <3>4, <5>1
      <4>3. CASE a \notin d.events
        <5>1. PICK b \in d.events : b = Event(old, a.scope, a.at, a.type)
          BY <1>4, <1>10, <4>1, <4>3
        <5>2. b.asset = old /\ b.at = a.at /\ b.type = a.type
          BY <5>1 DEF Event
        <5>3. b \in Arrived(d, old)
          BY <4>1, <5>1, <5>2 DEF Arrived, Told
        <5>4. b.at <= F.change
          BY <1>3, <1>5, <1>16, <5>3 DEF F
        <5>5. C.first < v.at
          BY <3>4, <3>5
        <5>6. b.at \in Int /\ v.at \in Int
          BY <1>9, <3>6, <5>1
        <5> QED
          BY <2>0, <3>1, <3>3, <5>2, <5>4, <5>5, <5>6
      <4> QED
        BY <4>2, <4>3
    <3>10. v \in Left(e, id)
      BY <3>6, <3>8 DEF Left, Told
    <3> QED
      BY <3>9, <3>10
  <2>3. \A v \in Left(e, id) : \E a \in Told(e, id) : a.type \in {"device_returned", "reconciled"} /\ a.at > v.at
    <3>1. told \in Told(e, id)
      BY <1>4, <1>10 DEF Told
    <3>2. \A v \in Left(e, id) : v.at < at /\ v.at \in Int
      BY <1>11, <1>16 DEF Left, Told
    <3> QED
      BY <1>10, <3>1, <3>2
  <2>4. R.first <= R.last
    <3>1. F.first <= F.last
      BY <1>3, <1>5, <1>16 DEF TimelineExplainsPresence, F
    <3> QED
      BY <1>2, <2>0, <3>1
  <2> QED
    BY <2>1, <2>2, <2>3, <2>4 DEF Explained, R
<1>17. ASSUME ok PROVE Explains(e)
  <2>1. ASSUME NEW x \in DOMAIN e.assets, x # id
        PROVE  Explained(e, x) /\ \A a \in Arrived(e, x) : a.at <= e.assets[x].change
    <3>1. /\ x \in DOMAIN d.assets /\ e.assets[x] = d.assets[x]
          /\ Told(e, x) = Told(d, x) /\ Arrived(e, x) = Arrived(d, x) /\ Left(e, x) = Left(d, x)
      BY <1>13, <2>1
    <3>2. Explained(d, x) /\ \A a \in Arrived(d, x) : a.at <= d.assets[x].change
      BY <1>3, <1>17, <3>1, ExplainsEach
    <3> QED
      BY <3>1, <3>2 DEF Explained
  <2>2. Explained(e, id)
    BY <1>16, <1>17
  <2>3. \A a \in Arrived(e, id) : a.at <= e.assets[id].change
    BY <1>2, <1>11, <1>17 DEF Arrived, Told, R
  <2> QED
    BY <2>1, <2>2, <2>3, ExplainsEach DEF Explains
<1>18. Sound(e, t, ok)
  BY <1>11, <1>14, <1>15, <1>17 DEF Sound
<1> QED
  BY <1>12, <1>18 DEF e

-----------------------------------------------------------------------------
(* One row is written, and what is told of it. *)

\* A database with its three tables.
IsDb(d) == d = [assets |-> [x \in DOMAIN d.assets |-> d.assets[x]], events |-> d.events, links |-> d.links]

\* A database with other assets and another timeline.
Stored(d, a, w) == [d EXCEPT !.assets = a, !.events = w]

\* Storing them leaves the relationships.
LEMMA StoredIs ==
    ASSUME NEW d, IsDb(d), NEW a, NEW w
    PROVE  Stored(d, a, w) = [assets |-> a, events |-> w, links |-> d.links]
<1>1. PICK q : q = Stored(d, a, w)
  OBVIOUS
<1>2. q = [assets |-> a, events |-> w, links |-> d.links]
  <2>1. PICK c : c = d.assets
    OBVIOUS
  <2>2. d = [assets |-> d.assets, events |-> d.events, links |-> d.links]
    BY DEF IsDb
  <2> QED
    BY <1>1, <2>2 DEF Stored
<1> QED
  BY <1>1, <1>2

\* A database with another row for one asset, and another timeline.
Put(d, id, v, w) == [d EXCEPT !.assets[id] = v, !.events = w]

\* Updating a row leaves the other rows and the relationships.
LEMMA PutIs ==
    ASSUME NEW d, IsDb(d), NEW id \in DOMAIN d.assets, NEW v, NEW w
    PROVE  Put(d, id, v, w) = [assets |-> With(d.assets, id, v), events |-> w, links |-> d.links]
<1>1. PICK q : q = Put(d, id, v, w)
  OBVIOUS
<1>2. d = [assets |-> d.assets, events |-> d.events, links |-> d.links]
  BY DEF IsDb
<1>3. [d.assets EXCEPT ![id] = v] = With(d.assets, id, v)
  BY DEF IsDb, With
<1>4. PICK a : a = [d.assets EXCEPT ![id] = v]
  OBVIOUS
<1>5. q = [d EXCEPT !.assets = a, !.events = w]
  BY <1>1, <1>4, Zenon DEF Put
<1>6. q = [assets |-> a, events |-> w, links |-> d.links]
  BY <1>2, <1>5
<1> QED
  BY <1>1, <1>3, <1>4, <1>6

\* A database in which one asset changed at time c.
Changed(d, w, id, c) == [d EXCEPT !.events = w, !.assets[id].change = c]

\* Setting the time of a change leaves the rest of the row and the other rows.
LEMMA ChangedIs ==
    ASSUME NEW d, IsDb(d), NEW id \in DOMAIN d.assets, IsRow(d.assets[id]), NEW c, NEW w
    PROVE  \E r : /\ Changed(d, w, id, c) = [assets |-> With(d.assets, id, r), events |-> w, links |-> d.links]
                  /\ IsRow(r) /\ SameHost(r, d.assets[id]) /\ r.mac = d.assets[id].mac
                  /\ r.first = d.assets[id].first /\ r.last = d.assets[id].last /\ r.change = c
                  /\ r.online = d.assets[id].online
<1>1. PICK q : q = Changed(d, w, id, c)
  OBVIOUS
<1>2. d = [assets |-> d.assets, events |-> d.events, links |-> d.links]
  BY DEF IsDb
<1>3. PICK p : p = d.assets[id]
  OBVIOUS
<1>4. PICK r : r = [p EXCEPT !.change = c]
  OBVIOUS
<1>5. /\ IsRow(r) /\ SameHost(r, p) /\ r.mac = p.mac /\ r.first = p.first /\ r.last = p.last /\ r.change = c
      /\ r.online = p.online
  <2>1. IsRow(p)
    BY <1>3
  <2> QED
    BY <1>4, <2>1 DEF IsRow, SameHost
<1>6. PICK a : a = [d.assets EXCEPT ![id] = r]
  OBVIOUS
<1>7. a = With(d.assets, id, r)
  BY <1>6 DEF IsDb, With
<1>8. q = [d EXCEPT !.events = w, !.assets = a]
  <2>1. q = [d EXCEPT !.events = w, !.assets = [d.assets EXCEPT ![id] = [d.assets[id] EXCEPT !.change = c]]]
    BY <1>1, Zenon DEF Changed
  <2> QED
    BY <1>3, <1>4, <1>6, <2>1, Zenon
<1>9. q = [assets |-> a, events |-> w, links |-> d.links]
  BY <1>2, <1>8
<1> QED
  BY <1>1, <1>3, <1>5, <1>7, <1>9

\* The row that is written, and the entries N of time at that tell of it, keep what the timeline explains.
Writes(d, id, row, N, at, ok) ==
    /\ RowFiled(id, row) /\ row.online /\ (ok => row.first <= row.last)
    /\ \A v \in N : /\ v = Event(id, v.scope, at, v.type) /\ v.type # "device_disappeared"
                    /\ id[1] = "ip" => v.scope = row.scope
                    /\ v.type \in {"new_device", "device_returned"} => row.change = at
    /\ IF id \in DOMAIN d.assets
       THEN /\ row.first = d.assets[id].first
            /\ row.change \in {at, d.assets[id].change}
            /\ id[1] = "ip" => row.scope = d.assets[id].scope
            /\ d.assets[id].online \/ \E v \in N : v.type = "device_returned"
       ELSE row.first = at /\ \E v \in N : v.type = "new_device"

\* Writing a row together with the entries that tell of it leaves a sound database (_upsert_device,
\* persist_asset_fingerprints).
LEMMA RowWritten ==
    ASSUME NEW d, NEW t \in Nat, NEW at \in Nat, at <= t, NEW ok \in BOOLEAN, Sound(d, t, ok), Calm(d, at, ok),
           NEW id, id[1] \in {"ip", "mac"}, NEW row, NEW N, Writes(d, id, row, N, at, ok)
    PROVE  LET e == [assets |-> With(d.assets, id, row), events |-> d.events \cup N, links |-> d.links]
           IN  Sound(e, t, ok) /\ Calm(e, at, ok)
<1>1. PICK e : e = [assets |-> With(d.assets, id, row), events |-> d.events \cup N, links |-> d.links]
  OBVIOUS
<1>2. e.assets = With(d.assets, id, row) /\ e.events = d.events \cup N /\ e.links = d.links
      /\ e = [assets |-> e.assets, events |-> e.events, links |-> e.links]
  BY <1>1
<1>3. /\ DOMAIN e.assets = DOMAIN d.assets \cup {id} /\ e.assets[id] = row
      /\ e.assets = [x \in DOMAIN e.assets |-> e.assets[x]]
      /\ \A x \in DOMAIN d.assets : x # id => e.assets[x] = d.assets[x]
  BY <1>2 DEF With
<1>4. /\ RowFiled(id, row) /\ row.online /\ (ok => row.first <= row.last)
      /\ \A v \in N : /\ v = Event(id, v.scope, at, v.type) /\ v.type # "device_disappeared"
                      /\ id[1] = "ip" => v.scope = row.scope
                      /\ v.type \in {"new_device", "device_returned"} => row.change = at
  BY DEF Writes
<1>5. \A v \in N : v.asset = id /\ v.at = at
  <2> TAKE v \in N
  <2>1. v = Event(id, v.scope, at, v.type)
    BY <1>4
  <2> QED
    BY <2>1 DEF Event
<1>6. Filed(d) /\ ReferencesExist(d) /\ \A v \in d.events : v.at <= t
  BY DEF Sound
<1>0. ok => TimelineExplainsPresence(d) /\ \A x \in DOMAIN d.assets : \A a \in Arrived(d, x) : a.at <= d.assets[x].change
  BY DEF Sound, Explains
<1>7. \A v \in d.events : /\ v = Event(v.asset, v.scope, v.at, v.type) /\ v.at \in 0..t
                          /\ v.asset[1] = "ip" => v.scope = d.assets[v.asset].scope
                          /\ v.asset \in DOMAIN d.assets
                          /\ ok => v.at <= at /\ (v.type = "device_disappeared" => v.at < at)
  BY <1>6 DEF Filed, ReferencesExist, Calm
<1>8. Calm(e, at, ok)
  BY <1>2, <1>4, <1>5, <1>7 DEF Calm
<1>9. id[1] = "ip" /\ id \in DOMAIN d.assets => row.scope = d.assets[id].scope
  BY DEF Writes
<1>10. ReferencesExist(e)
  BY <1>2, <1>3, <1>5, <1>6 DEF ReferencesExist
<1>11. ASSUME NEW x \in DOMAIN d.assets, x # id
       PROVE  Told(e, x) = Told(d, x) /\ Arrived(e, x) = Arrived(d, x) /\ Left(e, x) = Left(d, x)
  <2>1. Told(e, x) = Told(d, x)
    BY <1>2, <1>5, <1>11 DEF Told
  <2> QED
    BY <2>1 DEF Arrived, Left
<1>12. /\ \A a \in Arrived(e, id) : a \in N \/ a \in Arrived(d, id)
       /\ Left(e, id) = Left(d, id)
       /\ \A a \in N : a \in Told(e, id)
       /\ \A a \in Told(d, id) : a \in Told(e, id)
  BY <1>2, <1>4, <1>5 DEF Arrived, Left, Told
<1>13. id \notin DOMAIN d.assets => Told(d, id) = {}
  BY <1>7 DEF Told
<1>14. Filed(e)
  <2>1. e = [assets |-> [x \in DOMAIN e.assets |-> e.assets[x]], events |-> e.events, links |-> e.links]
    BY <1>2, <1>3
  <2>2. IsFiniteSet(DOMAIN e.assets)
    BY <1>3, <1>6, FS_AddElement DEF Filed
  <2>3. ASSUME NEW x \in DOMAIN e.assets PROVE RowFiled(x, e.assets[x])
    BY <1>3, <1>4, <1>6 DEF Filed
  <2>4. ASSUME NEW v \in e.events
        PROVE  /\ v = Event(v.asset, v.scope, v.at, v.type) /\ v.at \in Nat
               /\ v.asset[1] = "ip" => v.scope = e.assets[v.asset].scope
    <3>1. CASE v \in N
      BY <1>3, <1>4, <1>5, <3>1
    <3>2. CASE v \in d.events
      BY <1>3, <1>7, <1>9, <3>2
    <3> QED
      BY <1>2, <3>1, <3>2
  <2>5. ASSUME NEW l \in e.links, NEW x \in {l.src, l.dst}, x[1] = "ip"
        PROVE  e.assets[x].scope = l.scope
    <3>1. l \in d.links /\ d.assets[x].scope = l.scope
      BY <1>2, <1>6, <2>5 DEF Filed
    <3>2. x \in DOMAIN d.assets
      BY <1>6, <2>5, <3>1 DEF ReferencesExist, Internet, Lan
    <3> QED
      BY <1>3, <1>9, <2>5, <3>1, <3>2
  <2>6. \A l \in e.links : l = Link(l.scope, l.src, l.dst, l.kind, l.confidence)
    BY <1>2, <1>6 DEF Filed
  <2> QED
    BY <2>1, <2>2, <2>3, <2>4, <2>5, <2>6 DEF Filed
<1>15. ASSUME ok PROVE Explained(e, id)
  <2>1. CASE id \in DOMAIN d.assets
    <3>1. /\ \E a \in Arrived(d, id) : a.at = d.assets[id].first
          /\ d.assets[id].online => \A v \in Left(d, id) :
                 \E a \in Told(d, id) : a.type \in {"device_returned", "reconciled"} /\ a.at > v.at
      BY <1>0, <1>15, <2>1 DEF TimelineExplainsPresence
    <3>2. row.first = d.assets[id].first
      BY <2>1 DEF Writes
    <3>3. d.assets[id].online \/ \E v \in N : v.type = "device_returned"
      BY <2>1 DEF Writes
    <3>4. \E a \in Arrived(e, id) : a.at = row.first
      BY <1>12, <3>1, <3>2 DEF Arrived
    <3>5. ASSUME NEW v \in Left(e, id)
          PROVE  \E a \in Told(e, id) : a.type \in {"device_returned", "reconciled"} /\ a.at > v.at
      <4>1. v \in Left(d, id)
        BY <1>12
      <4>2. v.at < at /\ v.at \in Int
        BY <1>7, <1>15, <4>1 DEF Left, Told
      <4>3. CASE d.assets[id].online
        BY <1>12, <3>1, <4>1, <4>3
      <4>4. CASE \E a \in N : a.type = "device_returned"
        BY <1>5, <1>12, <4>2, <4>4
      <4> QED
        BY <3>3, <4>3, <4>4
    <3> QED
      BY <1>3, <1>4, <1>15, <3>4, <3>5 DEF Explained
  <2>2. CASE id \notin DOMAIN d.assets
    <3>1. PICK v \in N : v.type = "new_device"
      BY <2>2 DEF Writes
    <3>2. row.first = at
      BY <2>2 DEF Writes
    <3>3. v \in Arrived(e, id) /\ v.at = row.first
      BY <1>5, <1>12, <3>1, <3>2 DEF Arrived
    <3>4. Left(e, id) = {}
      BY <1>12, <1>13, <2>2 DEF Left
    <3> QED
      BY <1>3, <1>4, <1>15, <3>3, <3>4 DEF Explained
  <2> QED
    BY <2>1, <2>2
<1>16. ASSUME ok, NEW a \in Arrived(e, id) PROVE a.at <= row.change
  <2>1. row.change \in Int
    BY <1>4 DEF RowFiled
  <2>2. CASE a \in N
    <3>1. a.type \in {"new_device", "device_returned"}
      BY DEF Arrived
    <3> QED
      BY <1>4, <1>5, <2>1, <2>2, <3>1
  <2>3. CASE a \in Arrived(d, id)
    <3>1. id \in DOMAIN d.assets /\ a.at \in 0..t /\ a.at <= at
      BY <1>7, <1>16, <2>3 DEF Arrived, Told
    <3>2. a.at <= d.assets[id].change /\ row.change \in {at, d.assets[id].change}
      BY <1>0, <1>16, <2>3, <3>1 DEF Writes
    <3> QED
      BY <3>1, <3>2
  <2> QED
    BY <1>12, <2>2, <2>3
<1>17. ASSUME ok PROVE Explains(e)
  <2>1. ASSUME NEW x \in DOMAIN d.assets, x # id
        PROVE  Explained(e, x) /\ \A a \in Arrived(e, x) : a.at <= e.assets[x].change
    <3>1. /\ e.assets[x] = d.assets[x]
          /\ Told(e, x) = Told(d, x) /\ Arrived(e, x) = Arrived(d, x) /\ Left(e, x) = Left(d, x)
      BY <1>3, <1>11, <2>1
    <3>2. Explained(d, x) /\ \A a \in Arrived(d, x) : a.at <= d.assets[x].change
      BY <1>0, <1>17, ExplainsEach
    <3> QED
      BY <3>1, <3>2 DEF Explained
  <2> QED
    BY <1>3, <1>15, <1>16, <1>17, <2>1, ExplainsEach DEF Explains
<1>18. \A v \in e.events : v.at <= t
  BY <1>2, <1>5, <1>6
<1> QED
  BY <1>1, <1>8, <1>10, <1>14, <1>17, <1>18 DEF Sound

\* A database stays sound while time passes.
LEMMA SoundLater ==
    ASSUME NEW d, NEW t \in Nat, NEW at \in Nat, t <= at, NEW ok \in BOOLEAN, Sound(d, t, ok)
    PROVE  Sound(d, at, ok)
<1>1. Filed(d) /\ \A v \in d.events : v.at <= t
  BY DEF Sound
<1>2. \A v \in d.events : v.at <= at
  BY <1>1 DEF Filed
<1> QED
  BY <1>2 DEF Sound

\* What is not known to be written in time need not explain anything.
LEMMA SoundAnyway ==
    ASSUME NEW d, NEW t, NEW ok \in BOOLEAN, Sound(d, t, ok)
    PROVE  Sound(d, t, FALSE)
  BY DEF Sound

\* An observation is reconciled with what is known of its address by one merge, or by none.
LEMMA ReconciledOnce ==
    ASSUME NEW d, NEW s, NEW o, NEW at
    PROVE  LET id == asset_identity(o)
               old == <<"ip", o.ip>>
               r == reconcile_observation_identity(d, s, o.ip, id, at)
           IN  \/ r = d
               \/ \E remove \in BOOLEAN : /\ Mergeable(d, old, id, remove) /\ d.assets[old].scope = s
                                          /\ r = _merge_identity(d, old, id, at, remove)
<1> DEFINE id == asset_identity(o)
           old == <<"ip", o.ip>>
           r == reconcile_observation_identity(d, s, o.ip, id, at)
           F == d.assets[old]
           repair == id \in DOMAIN d.assets /\ _legacy_fingerprint_matches(F, d.assets[id])
           merges == id[1] = "mac" /\ old \in DOMAIN d.assets /\ F.scope = s /\ (F.online \/ repair)
<1>1. r = IF merges THEN _merge_identity(d, old, id, at, repair) ELSE d
  BY Zenon DEF reconcile_observation_identity
<1>2. id[1] = "mac" => id = <<"mac", id[2]>> /\ id[2] \in Colon
  BY InventoryAssumption DEF asset_identity, _normalize_mac
<1>3. old[1] = "ip"
  OBVIOUS
<1>4. repair => ~F.online
  BY Zenon DEF _legacy_fingerprint_matches
<1> HIDE DEF id, old, r
<1>5. CASE ~merges
  BY <1>1, <1>5 DEF id, old, r
<1>6. CASE merges /\ repair
  <2>1. Mergeable(d, old, id, TRUE)
    BY <1>2, <1>3, <1>6 DEF Mergeable
  <2>2. repair = TRUE
    BY <1>6
  <2> HIDE DEF repair
  <2>3. r = _merge_identity(d, old, id, at, TRUE) /\ F.scope = s
    BY <1>1, <1>6, <2>2
  <2> QED
    BY <2>1, <2>3 DEF id, old, r
<1>7. CASE merges /\ ~repair
  <2>1. Mergeable(d, old, id, FALSE)
    BY <1>2, <1>3, <1>7, Zenon DEF Mergeable
  <2>2. repair = FALSE
    BY <1>7
  <2> HIDE DEF repair
  <2>3. r = _merge_identity(d, old, id, at, FALSE) /\ F.scope = s
    BY <1>1, <1>7, <2>2
  <2> QED
    BY <2>1, <2>3 DEF id, old, r
<1> QED
  BY <1>5, <1>6, <1>7

\* No two scopes have an address in common.
Apart == \A s, t \in Scopes : s # t => InScope[s] \cap InScope[t] = {}

\* A row that already says what is observed.
Steadily(row, o) == row.online /\ row.ip = o.ip /\ row.kind = o.kind /\ row.ports = o.ports

\* Observing a host reconciles its identity, and then writes its row.
ReconciledThenWritten(d, t, at, ok, s, o, prints) ==
    LET e == _upsert_device(d, s, o, prints, at)
        id == asset_identity(o)
        r == reconcile_observation_identity(d, s, o.ip, id, at)
    IN  /\ Sound(r, t, ok) /\ Calm(r, at, ok)
        /\ \E row, N :
              /\ e = [assets |-> With(r.assets, id, row), events |-> r.events \cup N, links |-> r.links]
              /\ Writes(r, id, row, N, at, ok) /\ row.scope = s
              /\ id \in DOMAIN r.assets /\ Steadily(r.assets[id], o) => N = {}

\* It does so whatever is observed.
LEMMA UpsertIs ==
    ASSUME Apart, NEW d, NEW t \in Nat, NEW at \in Nat, at <= t, NEW ok \in BOOLEAN, Sound(d, t, ok), Calm(d, at, ok),
           NEW s \in Scopes, NEW o, o.ip \in InScope[s], NEW prints
    PROVE  ReconciledThenWritten(d, t, at, ok, s, o, prints)
<1> DEFINE e == _upsert_device(d, s, o, prints, at)
           id == asset_identity(o)
           old == <<"ip", o.ip>>
           r == reconcile_observation_identity(d, s, o.ip, id, at)
           q == r.assets[id]
           types == Changes(q, o, o.ports)
           fresh == Row(s, o, prints, at)
           change == IF types # {} THEN at ELSE q.change
           again == [fresh EXCEPT !.first = q.first, !.change = change]
<1>1. Sound(r, t, ok) /\ Calm(r, at, ok)
  <2> HIDE DEF id
  <2>1. CASE r = d
    BY <2>1
  <2>2. ASSUME NEW remove \in BOOLEAN, Mergeable(d, old, id, remove),
               r = _merge_identity(d, old, id, at, remove)
        PROVE  Sound(r, t, ok) /\ Calm(r, at, ok)
    <3> HIDE DEF r
    <3>1. Sound(_merge_identity(d, old, id, at, remove), t, ok) /\ Calm(_merge_identity(d, old, id, at, remove), at, ok)
      BY <2>2, MergeKeeps
    <3> QED
      BY <2>2, <3>1, Zenon
  <2> QED
    BY <2>1, <2>2, ReconciledOnce, Zenon DEF id
<1>2. e = IF id \notin DOMAIN r.assets
          THEN Stored(r, With(r.assets, id, fresh), r.events \cup {Event(id, s, at, "new_device")})
          ELSE Put(r, id, again, r.events \cup {Event(id, s, at, u) : u \in types})
  BY Zenon DEF _upsert_device, Stored, Put
<1>3. id = asset_identity(o) /\ id[1] \in {"ip", "mac"} /\ (id[1] = "ip" => id = old)
  BY DEF asset_identity
<1>4. IsDb(r) /\ \A x \in DOMAIN r.assets : RowFiled(x, r.assets[x])
  BY <1>1, Zenon DEF Sound, Filed, IsDb
<1>5. fresh = [scope |-> s, ip |-> o.ip, mac |-> o.mac, kind |-> o.kind, name |-> o.name, ports |-> o.ports,
               prints |-> prints, first |-> at, last |-> at, change |-> at, online |-> TRUE]
  BY DEF Row
<1> HIDE DEF e, r, types, fresh, id
<1>6. CASE id \notin DOMAIN r.assets
  <2> DEFINE N == {Event(id, s, at, "new_device")}
  <2>1. e = [assets |-> With(r.assets, id, fresh), events |-> r.events \cup N, links |-> r.links]
    BY <1>2, <1>4, <1>6, StoredIs
  <2>2. RowFiled(id, fresh)
    BY <1>3, <1>5, InventoryAssumption DEF RowFiled, asset_identity
  <2>3. fresh.online /\ fresh.first = at /\ fresh.last = at /\ fresh.change = at /\ fresh.scope = s
    BY <1>5
  <2>4. Writes(r, id, fresh, N, at, ok) /\ fresh.scope = s
    BY <1>6, <2>2, <2>3 DEF Writes, Event
  <2> HIDE DEF N
  <2> QED
    BY <1>1, <1>6, <2>1, <2>4, Zenon DEF ReconciledThenWritten, e, id, r
<1>7. CASE id \in DOMAIN r.assets
  <2> DEFINE N == {Event(id, s, at, u) : u \in types}
  <2>1. e = [assets |-> With(r.assets, id, again), events |-> r.events \cup N, links |-> r.links]
    <3>1. PICK v : v = again
      OBVIOUS
    <3> QED
      BY <1>2, <1>4, <1>7, <3>1, PutIs
  <2>2. RowFiled(id, q)
    BY <1>4, <1>7
  <2>3. again = [scope |-> s, ip |-> o.ip, mac |-> o.mac, kind |-> o.kind, name |-> o.name, ports |-> o.ports,
                 prints |-> prints, first |-> q.first, last |-> at, change |-> change, online |-> TRUE]
    <3> DEFINE first == q.first
    <3> HIDE DEF change, first
    <3>1. PICK w : w = [fresh EXCEPT !.first = first, !.change = change]
      OBVIOUS
    <3>2. w = [scope |-> s, ip |-> o.ip, mac |-> o.mac, kind |-> o.kind, name |-> o.name, ports |-> o.ports,
               prints |-> prints, first |-> first, last |-> at, change |-> change, online |-> TRUE]
      BY <1>5, <3>1
    <3>3. w = again
      BY <3>1, Zenon DEF first
    <3> QED
      BY <3>2, <3>3, Zenon DEF first
  <2>4. change \in {at, q.change} /\ (types # {} => change = at)
    OBVIOUS
  <2>5. \A u \in types : u \in {"device_returned", "ip_changed", "type_changed", "port_opened", "port_closed"}
    BY DEF types, Changes
  <2>6. ~q.online => "device_returned" \in types
    BY Zenon DEF types, Changes
  <2>7. q.scope \in Scopes /\ q.ip \in InScope[q.scope] /\ q.first \in Nat /\ q.change \in Nat
        /\ id = asset_identity(q)
    BY <2>2 DEF RowFiled
  <2>14. ok => q.first <= at
    <3> SUFFICES ASSUME ok PROVE q.first <= at
      OBVIOUS
    <3>1. \E v \in Arrived(r, id) : v.at = q.first
      BY <1>1, <1>7 DEF Sound, Explains, TimelineExplainsPresence
    <3>2. \A v \in r.events : v.at <= at
      BY <1>1 DEF Calm
    <3> QED
      BY <3>1, <3>2 DEF Arrived, Told
  <2> HIDE DEF change, q, again
  <2>8. RowFiled(id, again) /\ again.online /\ (ok => again.first <= again.last)
        /\ again.scope = s /\ again.first = q.first /\ again.change = change
    BY <1>3, <2>3, <2>4, <2>7, <2>14, InventoryAssumption DEF RowFiled, asset_identity
  <2>9. id[1] = "ip" => s = q.scope
    <3>1. id[1] = "ip" => q.ip = o.ip
      BY <1>3, <2>7 DEF asset_identity
    <3> QED
      BY <2>7, <3>1 DEF Apart
  <2>10. \A v \in N : /\ v = Event(id, v.scope, at, v.type) /\ v.type \in types /\ v.scope = s
    BY DEF Event
  <2>11. q.online \/ \E v \in N : v.type = "device_returned"
    <3>1. ASSUME ~q.online PROVE \E v \in N : v.type = "device_returned"
      <4>1. Event(id, s, at, "device_returned") \in N
        BY <2>6, <3>1
      <4> QED
        BY <4>1 DEF Event
    <3> QED
      BY <3>1
  <2>12. Writes(r, id, again, N, at, ok)
    <3> HIDE DEF N
    <3> QED
      BY <1>7, <2>4, <2>5, <2>8, <2>9, <2>10, <2>11 DEF Writes, q
  <2>13. Steadily(q, o) => N = {}
    <3>1. Steadily(q, o) => types = {}
      BY Zenon DEF Steadily, types, Changes, q
    <3> QED
      BY <3>1
  <2> HIDE DEF N
  <2> QED
    BY <1>1, <2>1, <2>8, <2>12, <2>13, Zenon DEF ReconciledThenWritten, e, id, r, q
<1> QED
  BY <1>6, <1>7

\* Observing a host leaves a sound database.
LEMMA UpsertKeeps ==
    ASSUME Apart, NEW d, NEW t \in Nat, NEW at \in Nat, at <= t, NEW ok \in BOOLEAN, Sound(d, t, ok), Calm(d, at, ok),
           NEW s \in Scopes, NEW o, o.ip \in InScope[s], NEW prints
    PROVE  LET e == _upsert_device(d, s, o, prints, at)
           IN  Sound(e, t, ok) /\ Calm(e, at, ok)
<1> DEFINE e == _upsert_device(d, s, o, prints, at)
           id == asset_identity(o)
           r == reconcile_observation_identity(d, s, o.ip, id, at)
<1>0. ReconciledThenWritten(d, t, at, ok, s, o, prints)
  BY UpsertIs
<1>1. Sound(r, t, ok) /\ Calm(r, at, ok)
  BY <1>0, Zenon DEF ReconciledThenWritten
<1>2. PICK row, N : /\ e = [assets |-> With(r.assets, id, row), events |-> r.events \cup N, links |-> r.links]
                    /\ Writes(r, id, row, N, at, ok)
  BY <1>0, Zenon DEF ReconciledThenWritten
<1>3. id[1] \in {"ip", "mac"}
  BY DEF asset_identity
<1> HIDE DEF e, r, id
<1> QED
  BY <1>1, <1>2, <1>3, RowWritten DEF e

\* What an observation does to the other rows, and to the row it replaces.
WroteRows(d, e, s, o) ==
    LET id == asset_identity(o)
        old == <<"ip", o.ip>>
    IN  /\ id \in DOMAIN e.assets /\ e.assets[id].scope = s
        /\ DOMAIN e.assets \subseteq DOMAIN d.assets \cup {id}
        /\ \A x \in DOMAIN e.assets : x # id => e.assets[x] = d.assets[x]
        /\ \A x \in DOMAIN d.assets \ DOMAIN e.assets :
               x = old /\ id[1] = "mac" /\ d.assets[x].scope = s /\ e.assets[id].first <= d.assets[x].first
        /\ id \in DOMAIN d.assets => e.assets[id].first <= d.assets[id].first

\* What it adds to the timeline is about that asset; of one that was already as it is observed, only a merge.
WroteEvents(d, e, o) ==
    LET id == asset_identity(o)
    IN  /\ \A v \in e.events : v \in d.events \/ v.asset = id
        /\ id \in DOMAIN d.assets /\ Steadily(d.assets[id], o) =>
               \A v \in e.events : \/ v \in d.events \/ v.type = "reconciled"
                                   \/ Event(<<"ip", o.ip>>, v.scope, v.at, v.type) \in d.events

\* The relationships follow the identity.
WroteLinks(d, e, o) ==
    LET id == asset_identity(o)
        old == <<"ip", o.ip>>
    IN  /\ \A l \in d.links : old \notin {l.src, l.dst} \/ old \in DOMAIN e.assets => l \in e.links
        /\ old \in DOMAIN d.assets \ DOMAIN e.assets =>
               \A l \in d.links : old \in {l.src, l.dst} /\ id \notin {l.src, l.dst} =>
                   \E m \in e.links : SameKey(m, Moved(l, old, id))

\* What recording an observation does: to the rows, to the timeline and to the relationships
\* (_upsert_device with reconcile_observation_identity).
LEMMA UpsertWrites ==
    ASSUME Apart, NEW d, NEW t \in Nat, NEW at \in Nat, at <= t, NEW ok \in BOOLEAN, Sound(d, t, ok), Calm(d, at, ok),
           NEW s \in Scopes, NEW o, o.ip \in InScope[s], NEW prints
    PROVE  LET e == _upsert_device(d, s, o, prints, at)
           IN  WroteRows(d, e, s, o) /\ e.assets[asset_identity(o)].online /\ WroteEvents(d, e, o) /\ WroteLinks(d, e, o)
<1> DEFINE e == _upsert_device(d, s, o, prints, at)
           id == asset_identity(o)
           old == <<"ip", o.ip>>
           r == reconcile_observation_identity(d, s, o.ip, id, at)
<1>0. ReconciledThenWritten(d, t, at, ok, s, o, prints)
  BY UpsertIs
<1>1. PICK row, N : /\ e = [assets |-> With(r.assets, id, row), events |-> r.events \cup N, links |-> r.links]
                    /\ Writes(r, id, row, N, at, ok) /\ row.scope = s
                    /\ id \in DOMAIN r.assets /\ Steadily(r.assets[id], o) => N = {}
  BY <1>0, Zenon DEF ReconciledThenWritten
<1>2. Filed(d) /\ ReferencesExist(d)
  BY DEF Sound
<1>3. \/ r = d
      \/ \E remove \in BOOLEAN : /\ Mergeable(d, old, id, remove) /\ d.assets[old].scope = s
                                 /\ r = _merge_identity(d, old, id, at, remove)
  BY ReconciledOnce
<1>4. id[1] = "ip" => id = old
  BY DEF asset_identity
<1> HIDE DEF e, r, id
<1>5. /\ e.assets = With(r.assets, id, row) /\ e.events = r.events \cup N /\ e.links = r.links
  BY <1>1
<1>6. /\ row.online
      /\ \A v \in N : v = Event(id, v.scope, at, v.type)
      /\ id \in DOMAIN r.assets => row.first = r.assets[id].first
      /\ id \notin DOMAIN r.assets => row.first = at
  BY <1>1 DEF Writes
<1>7. \A v \in N : v.asset = id
  <2> TAKE v \in N
  <2>1. v = Event(id, v.scope, at, v.type)
    BY <1>6
  <2> QED
    BY <2>1 DEF Event
<1>8. DOMAIN e.assets = DOMAIN r.assets \cup {id} /\ e.assets[id] = row
      /\ \A x \in DOMAIN r.assets : x # id => e.assets[x] = r.assets[x]
  BY <1>5 DEF With
<1>9. CASE r = d
  <2>1. id \in DOMAIN d.assets => row.first <= d.assets[id].first
    <3>1. id \in DOMAIN d.assets => RowFiled(id, d.assets[id])
      BY <1>2 DEF Filed
    <3>2. id \in DOMAIN d.assets => d.assets[id].first \in Int
      BY <3>1 DEF RowFiled
    <3> QED
      BY <1>6, <1>9, <3>2
  <2>2. WroteRows(d, e, s, o)
    BY <1>1, <1>8, <1>9, <2>1 DEF WroteRows, id
  <2>3. WroteEvents(d, e, o)
    BY <1>1, <1>5, <1>7, <1>9 DEF WroteEvents, id
  <2>4. WroteLinks(d, e, o)
    BY <1>5, <1>8, <1>9 DEF WroteLinks, id
  <2> QED
    BY <1>6, <1>8, <2>2, <2>3, <2>4 DEF id, e
<1>10. ASSUME NEW remove \in BOOLEAN, Mergeable(d, old, id, remove), d.assets[old].scope = s,
              r = _merge_identity(d, old, id, at, remove)
       PROVE  WroteRows(d, e, s, o) /\ e.assets[id].online /\ WroteEvents(d, e, o) /\ WroteLinks(d, e, o)
  <2> HIDE DEF old
  <2>1. /\ DOMAIN r.assets = (DOMAIN d.assets \ {old}) \cup {id} /\ old # id
        /\ \A x \in DOMAIN d.assets \ {old, id} : r.assets[x] = d.assets[x]
        /\ MergedRow(d, r.assets[id], old, id, at)
    <3> DEFINE m == _merge_identity(d, old, id, at, remove)
    <3>0. Filed(d) /\ Mergeable(d, old, id, remove)
      BY <1>2, <1>10
    <3>1. /\ m = [assets |-> m.assets, events |-> m.events, links |-> m.links]
          /\ m.assets = [x \in DOMAIN m.assets |-> m.assets[x]]
          /\ DOMAIN m.assets = (DOMAIN d.assets \ {old}) \cup {id}
          /\ old # id
          /\ \A x \in DOMAIN d.assets \ {old, id} : m.assets[x] = d.assets[x]
      BY <3>0, MergedRows
    <3>2. MergedRow(d, m.assets[id], old, id, at)
      BY <3>0, MergedRows
    <3>3. m = r
      BY <1>10
    <3> HIDE DEF m
    <3> QED
      BY <3>1, <3>2, <3>3
  <2>2. old \in DOMAIN d.assets /\ old[1] = "ip" /\ id[1] = "mac"
    BY <1>10 DEF Mergeable
  <2>3. /\ r.assets[id].first <= d.assets[old].first
        /\ id \in DOMAIN d.assets => r.assets[id].first <= d.assets[id].first
    BY <2>1 DEF MergedRow
  <2>4. WroteRows(d, e, s, o)
    BY <1>1, <1>6, <1>8, <1>10, <2>1, <2>2, <2>3 DEF WroteRows, id, old
  <2>5. \A v \in r.events : \/ v \in d.events
                            \/ v.asset = id /\ (v.type = "reconciled" \/ Event(old, v.scope, v.at, v.type) \in d.events)
    <3> DEFINE told == Event(id, d.assets[old].scope, at, "reconciled")
    <3>1. \A v \in r.events : \/ v = told \/ v \in d.events
                              \/ (v.asset = id /\ Event(old, v.scope, v.at, v.type) \in d.events)
      <4>0. Filed(d) /\ Mergeable(d, old, id, remove)
        BY <1>2, <1>10
      <4> QED
        BY <1>10, <4>0, MergedEvents
    <3>2. told.asset = id /\ told.type = "reconciled"
      BY DEF Event
    <3> HIDE DEF told
    <3> QED
      BY <3>1, <3>2
  <2>6. id \in DOMAIN d.assets /\ Steadily(d.assets[id], o) => Steadily(r.assets[id], o)
    <3> SUFFICES ASSUME id \in DOMAIN d.assets, Steadily(d.assets[id], o) PROVE Steadily(r.assets[id], o)
      OBVIOUS
    <3>1. d.assets[id].online => r.assets[id].online
      BY <2>1, Zenon DEF MergedRow
    <3>2. /\ r.assets[id].ip = d.assets[id].ip /\ r.assets[id].kind = d.assets[id].kind
          /\ r.assets[id].ports = d.assets[id].ports
      BY <2>1 DEF MergedRow
    <3> QED
      BY <3>1, <3>2, Zenon DEF Steadily
  <2>7. WroteEvents(d, e, o)
    <3>1. \A v \in e.events : v \in d.events \/ v.asset = id
      BY <1>5, <1>7, <2>5
    <3>2. ASSUME id \in DOMAIN d.assets, Steadily(d.assets[id], o)
          PROVE  e.events = r.events
      BY <1>1, <1>5, <2>1, <2>6, <3>2
    <3>3. \A v \in r.events : v \in d.events \/ v.type = "reconciled" \/ Event(old, v.scope, v.at, v.type) \in d.events
      BY <2>5
    <3> QED
      BY <3>1, <3>2, <3>3 DEF WroteEvents, id, old
  <2>8. e.links = _repoint_relationships(d.links, s, old, id)
    <3>1. r.links = _repoint_relationships(d.links, d.assets[old].scope, old, id)
      BY <1>10 DEF _merge_identity
    <3> QED
      BY <1>5, <1>10, <3>1
  <2>9. /\ \A l \in d.links : old \notin {l.src, l.dst} => l \in e.links
        /\ \A l \in d.links : old \in {l.src, l.dst} /\ id \notin {l.src, l.dst} =>
               \E m \in e.links : SameKey(m, Moved(l, old, id))
    <3>1. /\ \A l \in d.links : /\ l = Link(l.scope, l.src, l.dst, l.kind, l.confidence) /\ l.src # l.dst
                                /\ old \in {l.src, l.dst} => l.scope = s
          /\ \A l, m \in d.links : SameKey(l, m) => l = m
      BY <1>2, <1>10, <2>2, SoundLinks
    <3> QED
      BY <2>1, <2>8, <3>1, MergedLinks
  <2>10. old \notin DOMAIN e.assets
    BY <1>8, <2>1
  <2>11. WroteLinks(d, e, o)
    BY <2>9, <2>10 DEF WroteLinks, id, old
  <2> QED
    BY <1>6, <1>8, <2>4, <2>7, <2>11
<1> QED
  BY <1>3, <1>9, <1>10 DEF id, e

-----------------------------------------------------------------------------
(* What becomes of the assets and of the relationships between them. *)

\* g tells which asset of e each asset of d has become: itself, or the MAC it was merged into.
Follows(d, e, g, S) ==
    /\ \A x \in DOMAIN d.assets :
           /\ g[x] \in DOMAIN e.assets /\ e.assets[g[x]].first <= d.assets[x].first
           /\ g[x] # x => /\ x[1] = "ip" /\ g[x][1] = "mac" /\ x \notin DOMAIN e.assets
                          /\ e.assets[g[x]].scope = d.assets[x].scope /\ S \subseteq {d.assets[x].scope}
           /\ g[x] = x => \/ e.assets[x].scope = d.assets[x].scope
                          \/ x[1] = "mac" /\ e.assets[x].scope \in S
    /\ g[Internet] = Internet /\ g[Lan] = Lan
    /\ \A l \in d.links : g[l.src] # g[l.dst] =>
           \E m \in e.links : /\ m.scope = l.scope /\ m.kind = l.kind
                              /\ m.src = g[l.src] /\ m.dst = g[l.dst]

\* Sightings are times.
LEMMA FirstIsTime ==
    ASSUME NEW d, NEW t, NEW ok \in BOOLEAN, Sound(d, t, ok), NEW x \in DOMAIN d.assets
    PROVE  d.assets[x].first \in Int
<1>1. RowFiled(x, d.assets[x])
  BY DEF Sound, Filed
<1> QED
  BY <1>1 DEF RowFiled

\* What holds of a database whatever the times of its entries.
Tidy(d) == ReferencesExist(d) /\ Filed(d)

\* A sound database is.
LEMMA SoundIsTidy == ASSUME NEW d, NEW t, NEW ok \in BOOLEAN, Sound(d, t, ok) PROVE Tidy(d)
  BY DEF Sound, Tidy

\* Its sightings are times.
LEMMA TidyTimes == ASSUME NEW d, Tidy(d), NEW x \in DOMAIN d.assets PROVE d.assets[x].first \in Int
<1>1. RowFiled(x, d.assets[x])
  BY DEF Tidy, Filed
<1> QED
  BY <1>1 DEF RowFiled

\* A database in which nothing moved follows itself.
LEMMA NobodyMoves ==
    ASSUME NEW d, NEW t, NEW ok \in BOOLEAN, Sound(d, t, ok), NEW S
    PROVE  \E g : Follows(d, d, g, S)
<1> DEFINE g == [x \in DOMAIN d.assets \cup {Internet, Lan} |-> x]
<1>1. ReferencesExist(d) /\ \A x \in DOMAIN d.assets : d.assets[x].first \in Int
  BY FirstIsTime DEF Sound
<1>2. \A l \in d.links : {l.src, l.dst} \subseteq DOMAIN d.assets \cup {Internet, Lan}
  BY <1>1 DEF ReferencesExist
<1>3. \A x \in DOMAIN d.assets \cup {Internet, Lan} : g[x] = x
  OBVIOUS
<1> HIDE DEF g
<1>4. Follows(d, d, g, S)
  BY <1>1, <1>2, <1>3 DEF Follows
<1> QED
  BY <1>4

\* One after the other, two changes follow the assets where both lead.
LEMMA FollowsOn ==
    ASSUME NEW c, NEW d, NEW e, Tidy(c), Tidy(d), Tidy(e), NEW S, NEW g, NEW h, Follows(c, d, g, S), Follows(d, e, h, S),
           \A x \in DOMAIN c.assets \ DOMAIN d.assets : x \notin DOMAIN e.assets
    PROVE  \E k : Follows(c, e, k, S)
<1> DEFINE N == DOMAIN c.assets \cup {Internet, Lan}
           k == [x \in N |-> h[g[x]]]
<1>1. /\ g[Internet] = Internet /\ g[Lan] = Lan
      /\ h[Internet] = Internet /\ h[Lan] = Lan
  BY DEF Follows
<1>2. k[Internet] = Internet /\ k[Lan] = Lan /\ \A x \in N : k[x] = h[g[x]]
  BY <1>1
<1>3. \A l \in c.links : l.src \in N /\ l.dst \in N
  BY DEF Tidy, ReferencesExist
<1> HIDE DEF k
<1>4. ASSUME NEW x \in DOMAIN c.assets
      PROVE  /\ k[x] \in DOMAIN e.assets /\ e.assets[k[x]].first <= c.assets[x].first
             /\ k[x] # x => /\ x[1] = "ip" /\ k[x][1] = "mac" /\ x \notin DOMAIN e.assets
                            /\ e.assets[k[x]].scope = c.assets[x].scope /\ S \subseteq {c.assets[x].scope}
             /\ k[x] = x => \/ e.assets[x].scope = c.assets[x].scope
                            \/ x[1] = "mac" /\ e.assets[x].scope \in S
  <2> DEFINE y == g[x]
  <2>1. k[x] = h[y]
    BY <1>2
  <2>2. /\ y \in DOMAIN d.assets /\ d.assets[y].first <= c.assets[x].first
        /\ y # x => /\ x[1] = "ip" /\ y[1] = "mac" /\ x \notin DOMAIN d.assets
                    /\ d.assets[y].scope = c.assets[x].scope /\ S \subseteq {c.assets[x].scope}
        /\ y = x => \/ d.assets[x].scope = c.assets[x].scope
                    \/ x[1] = "mac" /\ d.assets[x].scope \in S
    BY DEF Follows
  <2> HIDE DEF y
  <2>3. /\ h[y] \in DOMAIN e.assets /\ e.assets[h[y]].first <= d.assets[y].first
        /\ h[y] # y => /\ y[1] = "ip" /\ h[y][1] = "mac" /\ y \notin DOMAIN e.assets
                       /\ e.assets[h[y]].scope = d.assets[y].scope /\ S \subseteq {d.assets[y].scope}
        /\ h[y] = y => \/ e.assets[y].scope = d.assets[y].scope
                       \/ y[1] = "mac" /\ e.assets[y].scope \in S
    BY <2>2 DEF Follows
  <2>4. /\ c.assets[x].first \in Int /\ d.assets[y].first \in Int /\ e.assets[h[y]].first \in Int
    BY <2>2, <2>3, TidyTimes
  <2>5. e.assets[k[x]].first <= c.assets[x].first
    BY <2>1, <2>2, <2>3, <2>4
  <2>6. CASE y # x
    <3>1. h[y] = y
      BY <2>2, <2>3, <2>6
    <3>2. x \notin DOMAIN e.assets
      BY <2>2, <2>6
    <3> QED
      BY <2>1, <2>2, <2>3, <2>5, <2>6, <3>1, <3>2
  <2>7. CASE y = x
    BY <2>1, <2>2, <2>3, <2>5, <2>7
  <2> QED
    BY <2>6, <2>7
<1>5. ASSUME NEW l \in c.links, k[l.src] # k[l.dst]
      PROVE  \E m \in e.links : /\ m.scope = l.scope /\ m.kind = l.kind
                                /\ m.src = k[l.src] /\ m.dst = k[l.dst]
  <2>1. k[l.src] = h[g[l.src]] /\ k[l.dst] = h[g[l.dst]]
    BY <1>2, <1>3
  <2>2. g[l.src] # g[l.dst]
    BY <1>5, <2>1
  <2>3. PICK p \in d.links : p.scope = l.scope /\ p.kind = l.kind /\ p.src = g[l.src] /\ p.dst = g[l.dst]
    BY <2>2 DEF Follows
  <2>4. h[p.src] # h[p.dst]
    BY <1>5, <2>1, <2>3
  <2>5. PICK m \in e.links : m.scope = p.scope /\ m.kind = p.kind /\ m.src = h[p.src] /\ m.dst = h[p.dst]
    BY <2>4 DEF Follows
  <2> QED
    BY <2>1, <2>3, <2>5
<1>6. Follows(c, e, k, S)
  BY <1>2, <1>4, <1>5 DEF Follows
<1> QED
  BY <1>6

\* One observation is followed.
LEMMA UpsertFollows ==
    ASSUME Apart, NEW d, NEW t, NEW ok \in BOOLEAN, Sound(d, t, ok), NEW e, NEW u, Sound(e, u, ok), NEW s \in Scopes, NEW o, o.ip \in InScope[s],
           WroteRows(d, e, s, o), WroteLinks(d, e, o)
    PROVE  \E g : Follows(d, e, g, {s})
<1> DEFINE id == asset_identity(o)
           old == <<"ip", o.ip>>
           N == DOMAIN d.assets \cup {Internet, Lan}
           g == [x \in N |-> IF x \in DOMAIN d.assets \ DOMAIN e.assets THEN id ELSE x]
<1>1. /\ id \in DOMAIN e.assets /\ e.assets[id].scope = s
      /\ \A x \in DOMAIN e.assets : x # id => e.assets[x] = d.assets[x]
      /\ \A x \in DOMAIN d.assets \ DOMAIN e.assets :
             x = old /\ id[1] = "mac" /\ d.assets[x].scope = s /\ e.assets[id].first <= d.assets[x].first
      /\ id \in DOMAIN d.assets => e.assets[id].first <= d.assets[id].first
  BY DEF WroteRows
<1>2. /\ \A l \in d.links : old \notin {l.src, l.dst} \/ old \in DOMAIN e.assets => l \in e.links
      /\ old \in DOMAIN d.assets \ DOMAIN e.assets =>
             \A l \in d.links : old \in {l.src, l.dst} /\ id \notin {l.src, l.dst} =>
                 \E m \in e.links : SameKey(m, Moved(l, old, id))
  BY DEF WroteLinks
<1>3. ReferencesExist(d) /\ Filed(d)
  BY DEF Sound
<1>4. \A l \in d.links : /\ l.src \in N /\ l.dst \in N /\ l.src # l.dst
                         /\ l = Link(l.scope, l.src, l.dst, l.kind, l.confidence)
  BY <1>3 DEF ReferencesExist, Filed
<1>5. /\ old[1] = "ip" /\ (id[1] = "ip" => id = old) /\ (id[1] = "ip" \/ id[1] = "mac")
  BY DEF asset_identity
<1>6. \A x \in DOMAIN d.assets : x = asset_identity(d.assets[x]) /\ RowFiled(x, d.assets[x])
  BY <1>3 DEF Filed, RowFiled
<1>7. \A x \in DOMAIN d.assets : x[1] \in {"ip", "mac"}
  BY <1>6 DEF asset_identity
<1>8. Internet \notin DOMAIN d.assets /\ Lan \notin DOMAIN d.assets
  BY <1>7 DEF Internet, Lan
<1>9. id[1] = "ip" /\ id \in DOMAIN d.assets => d.assets[id].scope = s
  <2> SUFFICES ASSUME id[1] = "ip", id \in DOMAIN d.assets PROVE d.assets[id].scope = s
    OBVIOUS
  <2> DEFINE r == d.assets[id]
  <2>1. id = asset_identity(r) /\ r.scope \in Scopes /\ r.ip \in InScope[r.scope]
    BY <1>6 DEF RowFiled
  <2> HIDE DEF r
  <2>2. r.ip = o.ip
    BY <1>5, <2>1 DEF asset_identity
  <2> QED
    BY <2>1, <2>2 DEF Apart, r
<1> HIDE DEF id
<1>10. g[Internet] = Internet /\ g[Lan] = Lan
  BY <1>8
<1>11. \A x \in DOMAIN d.assets : g[x] = IF x \in DOMAIN e.assets THEN x ELSE id
  OBVIOUS
<1> HIDE DEF g
<1>12. ASSUME NEW x \in DOMAIN d.assets
       PROVE  /\ g[x] \in DOMAIN e.assets /\ e.assets[g[x]].first <= d.assets[x].first
              /\ g[x] # x => /\ x[1] = "ip" /\ g[x][1] = "mac" /\ x \notin DOMAIN e.assets
                             /\ e.assets[g[x]].scope = d.assets[x].scope /\ {s} \subseteq {d.assets[x].scope}
              /\ g[x] = x => \/ e.assets[x].scope = d.assets[x].scope
                             \/ x[1] = "mac" /\ e.assets[x].scope \in {s}
  <2>1. CASE x \notin DOMAIN e.assets
    <3>1. g[x] = id
      BY <1>11, <2>1
    <3>2. x = old /\ id[1] = "mac" /\ d.assets[x].scope = s /\ e.assets[id].first <= d.assets[x].first
      BY <1>1, <2>1
    <3> QED
      BY <1>1, <1>5, <2>1, <3>1, <3>2
  <2>2. CASE x \in DOMAIN e.assets /\ x # id
    <3>1. g[x] = x /\ e.assets[x] = d.assets[x]
      BY <1>1, <1>11, <2>2
    <3>2. d.assets[x].first \in Int
      BY FirstIsTime
    <3> QED
      BY <2>2, <3>1, <3>2
  <2>3. CASE x = id
    <3>1. g[x] = x
      BY <1>1, <1>11, <2>3
    <3> QED
      BY <1>1, <1>5, <1>9, <2>3, <3>1
  <2> QED
    BY <2>1, <2>2, <2>3
<1>13. ASSUME NEW l \in d.links, g[l.src] # g[l.dst]
       PROVE  \E m \in e.links : /\ m.scope = l.scope /\ m.kind = l.kind
                                 /\ m.src = g[l.src] /\ m.dst = g[l.dst]
  <2>1. \A x \in N : g[x] # x => x = old /\ g[x] = id /\ old \in DOMAIN d.assets \ DOMAIN e.assets
    BY <1>1, <1>10, <1>11
  <2>2. CASE g[l.src] = l.src /\ g[l.dst] = l.dst
    <3>1. old \in {l.src, l.dst} => old \in DOMAIN e.assets
      <4>1. ASSUME old \in {l.src, l.dst} PROVE old \in DOMAIN e.assets
        <5>1. old \in N /\ g[old] = old
          BY <1>4, <2>2, <4>1
        <5>2. old \in DOMAIN d.assets
          BY <5>1 DEF Internet, Lan
        <5>3. CASE old \notin DOMAIN e.assets
          <6>1. g[old] = id /\ id[1] = "mac"
            BY <1>1, <1>11, <5>2, <5>3
          <6> QED
            BY <1>5, <5>1, <6>1
        <5> QED
          BY <5>3
      <4> QED
        BY <4>1
    <3>2. l \in e.links
      BY <1>2, <3>1
    <3> QED
      BY <2>2, <3>2
  <2>3. CASE ~(g[l.src] = l.src /\ g[l.dst] = l.dst)
    <3>1. old \in {l.src, l.dst} /\ old \in DOMAIN d.assets \ DOMAIN e.assets /\ id # old
      BY <1>1, <1>4, <2>1, <2>3
    <3>2. g[old] = id
      BY <1>11, <3>1
    <3>3. /\ l.src = old => g[l.dst] = l.dst
          /\ l.dst = old => g[l.src] = l.src
      BY <1>4, <2>1
    <3>4. id \notin {l.src, l.dst}
      BY <1>13, <3>1, <3>2, <3>3
    <3>5. PICK m \in e.links : SameKey(m, Moved(l, old, id))
      BY <1>2, <3>1, <3>4
    <3>6. Moved(l, old, id) = Link(l.scope, Substitute(l.src, old, id), Substitute(l.dst, old, id), l.kind, l.confidence)
      BY <1>4, MovedIs
    <3>7. /\ m.scope = l.scope /\ m.kind = l.kind
          /\ m.src = Substitute(l.src, old, id) /\ m.dst = Substitute(l.dst, old, id)
      BY <3>5, <3>6 DEF SameKey, Link
    <3>8. Substitute(l.src, old, id) = g[l.src] /\ Substitute(l.dst, old, id) = g[l.dst]
      BY <1>4, <3>1, <3>2, <3>3 DEF Substitute
    <3> QED
      BY <3>7, <3>8
  <2> QED
    BY <2>2, <2>3
<1>14. Follows(d, e, g, {s})
  BY <1>10, <1>12, <1>13 DEF Follows
<1> QED
  BY <1>14

-----------------------------------------------------------------------------
(* A scan. *)

\* What the window may hand over: hosts of the scope, one for each address.
Hostly(s, found) ==
    /\ s \in Scopes
    /\ \A o \in found : o.ip \in InScope[s]
    /\ \A o, p \in found : o.ip = p.ip => o = p

\* The hosts of a scan are finitely many, and their addresses put them in order.
LEMMA FewHosts ==
    ASSUME NEW s, NEW found, Hostly(s, found)
    PROVE  IsFiniteSet(found) /\ StrictOrder({p \in found \X found : p[1].ip < p[2].ip}, found)
<1> DEFINE f == [o \in found |-> o.ip]
<1>1. f \in [found -> InScope[s]] /\ \A o, p \in found : f[o] = f[p] => o = p
  BY DEF Hostly
<1>2. IsFiniteSet(InScope[s]) /\ InScope[s] \subseteq Nat
  BY InventoryAssumption DEF Hostly
<1> HIDE DEF f
<1>3. f \in Injection(found, InScope[s])
  BY <1>1 DEF Injection, IsInjective
<1>4. IsFiniteSet(found)
  BY <1>2, <1>3, FS_Injection
<1>5. \A o \in found : o.ip \in Int
  BY <1>2 DEF Hostly
<1> DEFINE R == {p \in found \X found : p[1].ip < p[2].ip}
<1>6. \A x, y \in found : <<x, y>> \in R <=> x.ip < y.ip
  OBVIOUS
<1> HIDE DEF R
<1>7. \A x, y \in found : x # y => x.ip # y.ip
  BY DEF Hostly
<1>8. StrictOrder(R, found)
  <2>1. \A x, y \in found : x # y => <<x, y>> \in R \/ <<y, x>> \in R
    BY <1>5, <1>6, <1>7
  <2>2. \A x \in found : <<x, x>> \notin R
    BY <1>5, <1>6
  <2>3. \A x, y, z \in found : <<x, y>> \in R /\ <<y, z>> \in R => <<x, z>> \in R
    BY <1>5, <1>6
  <2> QED
    BY <2>1, <2>2, <2>3 DEF StrictOrder
<1> QED
  BY <1>4, <1>8 DEF R

\* The asset x of d is as the scan finds it, if it does.
Steady(d, s, found, x) ==
    /\ x \in DOMAIN d.assets
    /\ \A o \in found : asset_identity(o) = x => Steadily(d.assets[x], o) /\ d.assets[x].scope = s

\* The identities of the hosts P.
Known(P) == {asset_identity(p) : p \in P}

\* The database a once the hosts P of the scan were recorded.
Recorded(d, a, s, found, at, P) ==
    /\ \A x \in Known(P) : x \in DOMAIN a.assets /\ a.assets[x].scope = s
    /\ \A x \in DOMAIN a.assets : x \in Known(P) \/ (x \in DOMAIN d.assets /\ a.assets[x] = d.assets[x])
    /\ \A x \in DOMAIN d.assets \ DOMAIN a.assets : \E p \in P : x = <<"ip", p.ip>>
    /\ \A v \in a.events : v \in d.events \/ v.asset \in Known(P)
    /\ \A v \in a.events : v.at = at /\ Steady(d, s, found, v.asset) => v.type = "reconciled"
    /\ \E g : Follows(d, a, g, {s})

\* The assets S of a are online.  (A fact apart: the other clauses say nothing of presence.)
Online(a, S) == \A x \in S : a.assets[x].online

\* One more host of the scan is recorded (the loop of record_scan).
LEMMA OneRecorded ==
    ASSUME Apart, NEW d, NEW t \in Nat, NEW at \in Nat, t < at, NEW ok \in BOOLEAN, Sound(d, t, ok),
           NEW s, NEW found, Hostly(s, found), NEW P \in SUBSET found, NEW o \in found \ P,
           NEW a, Sound(a, at, ok), Calm(a, at, ok), Recorded(d, a, s, found, at, P), Online(a, Known(P))
    PROVE  LET e == _upsert_device(a, s, o, {}, at)
           IN  /\ Sound(e, at, ok) /\ Calm(e, at, ok)
               /\ Recorded(d, e, s, found, at, P \cup {o}) /\ Online(e, Known(P \cup {o}))
<1> DEFINE e == _upsert_device(a, s, o, {}, at)
           id == asset_identity(o)
           old == <<"ip", o.ip>>
           done == Known(P)
<1>0. /\ s \in Scopes /\ o.ip \in InScope[s]
      /\ \A p, q \in found : p.ip = q.ip => p = q
  BY DEF Hostly
<1>1. Sound(e, at, ok) /\ Calm(e, at, ok)
  BY <1>0, UpsertKeeps
<1>2. WroteRows(a, e, s, o) /\ WroteEvents(a, e, o) /\ WroteLinks(a, e, o)
  BY <1>0, UpsertWrites
<1>3. e.assets[id].online
  BY <1>0, UpsertWrites
<1>4. old[1] = "ip" /\ (id[1] = "ip" => id = old) /\ id[1] \in {"ip", "mac"}
  BY DEF asset_identity
<1>5. Known(P \cup {o}) = done \cup {id}
  BY DEF Known
<1>6. \A p \in P : <<"ip", p.ip>> # old
  BY <1>0
<1>7. \A x \in done : \E p \in P : x = asset_identity(p)
  BY DEF Known
<1>8. old \notin done
  <2> SUFFICES ASSUME old \in done PROVE FALSE
    OBVIOUS
  <2>1. PICK p \in P : old = asset_identity(p)
    BY <1>7
  <2>2. old = <<"ip", p.ip>>
    BY <1>4, <2>1 DEF asset_identity
  <2> QED
    BY <1>6, <2>2
<1> HIDE DEF e, old, done, id
<1>9. /\ id \in DOMAIN e.assets /\ e.assets[id].scope = s
      /\ DOMAIN e.assets \subseteq DOMAIN a.assets \cup {id}
      /\ \A x \in DOMAIN e.assets : x # id => e.assets[x] = a.assets[x]
      /\ \A x \in DOMAIN a.assets \ DOMAIN e.assets : x = old /\ id[1] = "mac"
  BY <1>2 DEF WroteRows, old, id
<1>10. /\ \A v \in e.events : v \in a.events \/ v.asset = id
       /\ id \in DOMAIN a.assets /\ Steadily(a.assets[id], o) =>
              \A v \in e.events : \/ v \in a.events \/ v.type = "reconciled"
                                  \/ Event(old, v.scope, v.at, v.type) \in a.events
  BY <1>2 DEF WroteEvents, old, id
<1>11. /\ \A x \in done : x \in DOMAIN a.assets /\ a.assets[x].scope = s
       /\ \A x \in DOMAIN a.assets : x \in done \/ (x \in DOMAIN d.assets /\ a.assets[x] = d.assets[x])
       /\ \A x \in DOMAIN d.assets \ DOMAIN a.assets : \E p \in P : x = <<"ip", p.ip>>
       /\ \A v \in a.events : v \in d.events \/ v.asset \in done
       /\ \A v \in a.events : v.at = at /\ Steady(d, s, found, v.asset) => v.type = "reconciled"
  BY DEF Recorded, done
<1>12. \A x \in done : x \in DOMAIN e.assets
  BY <1>8, <1>9, <1>11
<1>13. Online(e, done \cup {id})
  <2>1. ASSUME NEW x \in done, x # id PROVE e.assets[x].online
    <3>1. e.assets[x] = a.assets[x] /\ a.assets[x].online
      BY <1>9, <1>12, <2>1 DEF Online, done
    <3> QED
      BY <3>1
  <2> QED
    BY <1>3, <2>1 DEF Online
<1>14. \A x \in done \cup {id} : x \in DOMAIN e.assets /\ e.assets[x].scope = s
  BY <1>9, <1>11, <1>12
<1>15. \A x \in DOMAIN e.assets : x \in done \cup {id} \/ (x \in DOMAIN d.assets /\ e.assets[x] = d.assets[x])
  BY <1>9, <1>11
<1>16. \A x \in DOMAIN d.assets \ DOMAIN e.assets : \E p \in P \cup {o} : x = <<"ip", p.ip>>
  BY <1>9, <1>11 DEF old
<1>17. \A v \in e.events : v \in d.events \/ v.asset \in done \cup {id}
  BY <1>10, <1>11
<1>18. \A v \in d.events : v.at \in 0..t
  BY DEF Sound, Filed
<1>19. id \in DOMAIN d.assets => id \in DOMAIN a.assets
  <2>1. ASSUME id \in DOMAIN d.assets, id \notin DOMAIN a.assets PROVE FALSE
    <3>1. PICK p \in P : id = <<"ip", p.ip>>
      BY <1>11, <2>1
    <3> QED
      BY <1>4, <1>6, <3>1
  <2> QED
    BY <2>1
<1>20. ASSUME NEW v \in e.events, v.at = at, Steady(d, s, found, v.asset) PROVE v.type = "reconciled"
  <2>1. CASE v \in a.events
    BY <1>11, <1>20, <2>1
  <2>2. CASE v \notin a.events
    <3>1. v.asset = id
      BY <1>10, <2>2
    <3>2. id \in DOMAIN d.assets /\ \A p \in found : asset_identity(p) = id => Steadily(d.assets[id], p)
      BY <1>20, <3>1 DEF Steady
    <3>3. Event(old, v.scope, v.at, v.type) \notin a.events
      <4>1. PICK w : w = Event(old, v.scope, v.at, v.type)
        OBVIOUS
      <4>2. w.asset = old /\ w.at = at
        BY <1>20, <4>1 DEF Event
      <4>3. w \notin a.events
        BY <1>8, <1>11, <1>18, <4>2
      <4> QED
        BY <4>1, <4>3
    <3>4. Steadily(d.assets[id], o)
      BY <3>2 DEF id
    <3>5. id \notin done
      <4> SUFFICES ASSUME id \in done PROVE FALSE
        OBVIOUS
      <4>1. PICK p \in P : id = asset_identity(p)
        BY <1>7
      <4>2. Steadily(d.assets[id], p)
        BY <3>2, <4>1
      <4>3. p.ip = o.ip
        BY <3>4, <4>2, Zenon DEF Steadily
      <4> QED
        BY <1>0, <4>3
    <3>6. a.assets[id] = d.assets[id]
      BY <1>11, <1>19, <3>2, <3>5
    <3>7. Steadily(a.assets[id], o)
      BY <3>4, <3>6
    <3> QED
      BY <1>10, <1>19, <2>2, <3>2, <3>3, <3>7
  <2> QED
    BY <2>1, <2>2
<1>21. \E g : Follows(d, e, g, {s})
  <2>1. PICK g : Follows(d, a, g, {s})
    BY DEF Recorded
  <2>2. PICK h : Follows(a, e, h, {s})
    BY <1>0, <1>1, <1>2, UpsertFollows
  <2>3. \A x \in DOMAIN d.assets \ DOMAIN a.assets : x \notin DOMAIN e.assets
    <3> TAKE x \in DOMAIN d.assets \ DOMAIN a.assets
    <3>1. PICK p \in P : x = <<"ip", p.ip>>
      BY <1>11
    <3>2. x # id
      BY <1>4, <1>6, <3>1
    <3> QED
      BY <1>9, <3>2
  <2>4. Tidy(d) /\ Tidy(a) /\ Tidy(e)
    BY <1>1, SoundIsTidy
  <2> QED
    BY <2>1, <2>2, <2>3, <2>4, FollowsOn
<1>22. Recorded(d, e, s, found, at, P \cup {o})
  BY <1>5, <1>14, <1>15, <1>16, <1>17, <1>20, <1>21 DEF Recorded
<1> QED
  BY <1>1, <1>5, <1>13, <1>22 DEF e

\* All of them.
LEMMA AllRecorded ==
    ASSUME Apart, NEW d, NEW t \in Nat, NEW at \in Nat, t < at, NEW ok \in BOOLEAN, Sound(d, t, ok),
           NEW s, NEW found, Hostly(s, found)
    PROVE  LET r == Upserted(d, s, found, at)
           IN  /\ Sound(r, at, ok) /\ Calm(r, at, ok)
               /\ Recorded(d, r, s, found, at, found) /\ Online(r, Known(found))
<1> DEFINE n == Cardinality(found)
           f == ByAddress(found)
           P(k) == {f[j] : j \in 1..k}
<1>1. IsFiniteSet(found)
  BY FewHosts
<1>2. /\ n \in Nat
      /\ \A i \in 1..n : f[i] \in found
      /\ \A x \in found : \E i \in 1..n : f[i] = x
      /\ \A i, j \in 1..n : f[i] = f[j] => i = j
  <2> DEFINE R == {p \in found \X found : p[1].ip < p[2].ip}
  <2>1. StrictOrder(R, found) /\ f = Ranked(found, R)
    BY FewHosts DEF ByAddress
  <2> HIDE DEF R, f
  <2>2. LET g == Ranked(found, R)
        IN  /\ Cardinality(found) \in Nat
            /\ \A i \in 1..Cardinality(found) : g[i] \in found
            /\ \A x \in found : \E i \in 1..Cardinality(found) : g[i] = x
            /\ \A i, j \in 1..Cardinality(found) : g[i] = g[j] => i = j
    BY <1>1, <2>1, RankedOnce
  <2> QED
    BY <2>1, <2>2
<1>3. PICK after : /\ \A i \in 1..n : after[i] = _upsert_device(after[i - 1], s, f[i], {}, at)
                   /\ after[0] = d
                   /\ Upserted(d, s, found, at) = after[n]
  BY <1>1, UpsertsOneByOne
<1> DEFINE Holds(k) == /\ Sound(after[k], at, ok) /\ Calm(after[k], at, ok)
                       /\ Recorded(d, after[k], s, found, at, P(k)) /\ Online(after[k], Known(P(k)))
           Fails == {k \in 0..n : ~Holds(k)}
<1> HIDE DEF f, n
<1>4. Holds(0)
  <2>1. \A v \in d.events : v.at \in 0..t
    BY DEF Sound, Filed
  <2>2. Calm(d, at, ok)
    BY <2>1 DEF Calm
  <2>3. Sound(d, at, ok)
    BY SoundLater
  <2>4. P(0) = {}
    OBVIOUS
  <2>5. \E g : Follows(d, d, g, {s})
    BY NobodyMoves
  <2>6. Recorded(d, d, s, found, at, {})
    BY <2>1, <2>5 DEF Recorded, Known
  <2>7. Online(d, Known({}))
    BY DEF Online, Known
  <2> HIDE DEF P
  <2> QED
    BY <1>3, <2>2, <2>3, <2>4, <2>6, <2>7
<1>5. ASSUME NEW k \in Nat, k < n, Holds(k) PROVE Holds(k + 1)
  <2> DEFINE o == f[k + 1]
  <2>1. k + 1 \in 1..n /\ (k + 1) - 1 = k
    BY <1>2, <1>5
  <2>2. P(k) \in SUBSET found /\ o \in found \ P(k)
    <3>1. \A j \in 1..k : j \in 1..n /\ j # k + 1
      BY <1>2, <1>5
    <3> QED
      BY <1>2, <2>1, <3>1
  <2>3. P(k + 1) = P(k) \cup {o}
    <3>1. 1..(k + 1) = (1..k) \cup {k + 1}
      OBVIOUS
    <3> QED
      BY <3>1
  <2>4. after[k + 1] = _upsert_device(after[k], s, o, {}, at)
    BY <1>3, <2>1
  <2> HIDE DEF P, o
  <2>5. LET e == _upsert_device(after[k], s, o, {}, at)
        IN  /\ Sound(e, at, ok) /\ Calm(e, at, ok)
            /\ Recorded(d, e, s, found, at, P(k) \cup {o}) /\ Online(e, Known(P(k) \cup {o}))
    BY <1>5, <2>2, OneRecorded
  <2> QED
    BY <2>3, <2>4, <2>5
<1>6. Fails = {}
  <2> SUFFICES ASSUME Fails # {} PROVE FALSE
    OBVIOUS
  <2> HIDE DEF Holds
  <2>1. Fails \in SUBSET Nat
    BY <1>2
  <2>2. PICK k \in Fails : \A j \in Fails : k <= j
    <3> HIDE DEF Fails
    <3> QED
      BY <2>1, Smallest
  <2>3. k \in Nat /\ k <= n /\ ~Holds(k)
    BY <1>2
  <2>4. k # 0
    BY <1>4, <2>3
  <2>5. k - 1 \in Nat /\ k - 1 < n /\ k - 1 \in 0..n /\ (k - 1) + 1 = k
    BY <1>2, <2>3, <2>4
  <2>6. k - 1 \notin Fails
    <3> HIDE DEF Fails
    <3> QED
      BY <2>2, <2>3, <2>5
  <2>7. Holds(k - 1)
    BY <2>5, <2>6
  <2>8. Holds((k - 1) + 1)
    BY <1>5, <2>5, <2>7
  <2> QED
    BY <2>3, <2>5, <2>8
<1>7. Holds(n)
  <2> HIDE DEF Holds
  <2> QED
    BY <1>2, <1>6
<1>8. P(n) = found
  BY <1>2
<1> HIDE DEF P
<1> QED
  BY <1>3, <1>7, <1>8

\* The database d once the assets in gone were marked offline.
Marked(d, gone, s, at) ==
    [assets |-> [x \in DOMAIN d.assets |-> IF x \in gone THEN Gone(d.assets[x], FALSE, at) ELSE d.assets[x]],
     events |-> d.events \cup {Event(x, s, at, "device_disappeared") : x \in gone},
     links |-> d.links]

\* Marking the assets that a scan did not find, with their disappearance, leaves a sound database
\* in which nothing else changed (the end of record_scan).
LEMMA MarkedKeeps ==
    ASSUME NEW d, NEW at \in Nat, NEW ok \in BOOLEAN, Sound(d, at, ok), NEW s, NEW gone \in SUBSET DOMAIN d.assets,
           \A x \in gone : d.assets[x].scope = s /\ \A v \in Arrived(d, x) : v.at < at
    PROVE  LET e == Marked(d, gone, s, at)
           IN  /\ Sound(e, at, ok) /\ DOMAIN e.assets = DOMAIN d.assets /\ e.links = d.links
               /\ \A x \in DOMAIN d.assets : /\ e.assets[x].first = d.assets[x].first
                                             /\ e.assets[x].scope = d.assets[x].scope
               /\ \A x \in gone : ~e.assets[x].online
               /\ \A x \in DOMAIN d.assets \ gone : e.assets[x] = d.assets[x]
               /\ \A v \in e.events : v \in d.events \/ (v.asset \in gone /\ v.type = "device_disappeared")
<1> DEFINE e == Marked(d, gone, s, at)
           N == {Event(x, s, at, "device_disappeared") : x \in gone}
<1>1. /\ e = [assets |-> e.assets, events |-> e.events, links |-> e.links]
      /\ e.events = d.events \cup N /\ e.links = d.links
      /\ e.assets = [x \in DOMAIN d.assets |-> IF x \in gone THEN Gone(d.assets[x], FALSE, at) ELSE d.assets[x]]
  BY DEF Marked
<1>2. /\ DOMAIN e.assets = DOMAIN d.assets
      /\ e.assets = [x \in DOMAIN e.assets |-> e.assets[x]]
      /\ \A x \in DOMAIN d.assets : x \notin gone => e.assets[x] = d.assets[x]
      /\ \A x \in gone : e.assets[x] = Gone(d.assets[x], FALSE, at)
  BY <1>1
<1>3. /\ \A v \in N : v.asset \in gone /\ v.at = at /\ v.type = "device_disappeared" /\ v.scope = s
      /\ \A v \in N : v = Event(v.asset, v.scope, v.at, v.type)
      /\ \A x \in gone : \E v \in N : v.asset = x
  <2>1. ASSUME NEW v \in N
        PROVE  /\ v.asset \in gone /\ v.at = at /\ v.type = "device_disappeared" /\ v.scope = s
               /\ v = Event(v.asset, v.scope, v.at, v.type)
    <3>1. PICK x \in gone : v = Event(x, s, at, "device_disappeared")
      OBVIOUS
    <3> QED
      BY <3>1 DEF Event
  <2>2. ASSUME NEW x \in gone PROVE \E v \in N : v.asset = x
    <3>1. Event(x, s, at, "device_disappeared") \in N
      OBVIOUS
    <3> QED
      BY <3>1 DEF Event
  <2> HIDE DEF N
  <2> QED
    BY <2>1, <2>2
<1>4. ReferencesExist(d) /\ Filed(d) /\ \A v \in d.events : v.at <= at
  BY DEF Sound
<1>0. ok => TimelineExplainsPresence(d) /\ \A x \in DOMAIN d.assets : \A a \in Arrived(d, x) : a.at <= d.assets[x].change
  BY DEF Sound, Explains
<1>5. \A x \in DOMAIN d.assets : RowFiled(x, d.assets[x])
  BY <1>4 DEF Filed
<1> HIDE DEF e, N
<1>6. ASSUME NEW x \in gone
      PROVE  /\ IsRow(e.assets[x]) /\ SameHost(e.assets[x], d.assets[x]) /\ e.assets[x].mac = d.assets[x].mac
             /\ e.assets[x].first = d.assets[x].first /\ e.assets[x].last = d.assets[x].last
             /\ e.assets[x].change = at /\ e.assets[x].online = FALSE
  <2>1. IsRow(d.assets[x])
    BY <1>5 DEF RowFiled, IsRow
  <2>2. PICK r : r = d.assets[x]
    OBVIOUS
  <2> DEFINE o == FALSE
  <2>3. e.assets[x] = Gone(r, o, at)
    BY <1>2, <2>2
  <2> HIDE DEF o
  <2>4. PICK q : q = Gone(r, o, at)
    OBVIOUS
  <2>5. /\ IsRow(q) /\ SameHost(q, r) /\ q.mac = r.mac
        /\ q.first = r.first /\ q.last = r.last /\ q.change = at /\ q.online = o
    BY <2>1, <2>2, <2>4, RowGone
  <2> QED
    BY <2>2, <2>3, <2>4, <2>5 DEF o
<1>7. \A x \in gone : ~e.assets[x].online
  BY <1>6
<1>8. ASSUME NEW x \in DOMAIN d.assets
      PROVE  e.assets[x].first = d.assets[x].first /\ e.assets[x].scope = d.assets[x].scope
  <2>1. CASE x \in gone
    BY <1>6, <2>1 DEF SameHost
  <2>2. CASE x \notin gone
    BY <1>2, <2>2
  <2> QED
    BY <2>1, <2>2
<1>9. ASSUME NEW x PROVE Arrived(e, x) = Arrived(d, x) /\ (x \notin gone => Told(e, x) = Told(d, x))
  BY <1>1, <1>3 DEF Arrived, Told
<1>10. ReferencesExist(e)
  BY <1>1, <1>2, <1>3, <1>4 DEF ReferencesExist
<1>11. Filed(e)
  <2>1. e = [assets |-> [x \in DOMAIN e.assets |-> e.assets[x]], events |-> e.events, links |-> e.links]
    BY <1>1, <1>2
  <2>2. IsFiniteSet(DOMAIN e.assets)
    BY <1>2, <1>4 DEF Filed
  <2>3. ASSUME NEW x \in DOMAIN e.assets PROVE RowFiled(x, e.assets[x])
    <3>1. CASE x \in gone
      <4>1. RowFiled(x, d.assets[x])
        BY <1>2, <1>5
      <4>2. RowFiled(x, e.assets[x])
        <5>1. PICK r : r = d.assets[x]
          OBVIOUS
        <5>2. PICK q : q = e.assets[x]
          OBVIOUS
        <5>3. /\ IsRow(q) /\ SameHost(q, r) /\ q.mac = r.mac
              /\ q.first = r.first /\ q.last = r.last /\ q.change = at /\ q.online = FALSE
          BY <1>6, <3>1, <5>1, <5>2
        <5>4. RowFiled(x, r)
          BY <4>1, <5>1
        <5>5. x = asset_identity(q)
          BY <5>3, <5>4 DEF RowFiled, asset_identity, SameHost
        <5>6. q.scope \in Scopes /\ q.ip \in InScope[q.scope] /\ {q.first, q.last, q.change} \subseteq Nat
          BY <5>3, <5>4 DEF RowFiled, SameHost
        <5> QED
          BY <5>2, <5>3, <5>5, <5>6 DEF RowFiled, IsRow
      <4> QED
        BY <4>2
    <3>2. CASE x \notin gone
      BY <1>2, <1>5, <3>2
    <3> QED
      BY <3>1, <3>2
  <2>4. ASSUME NEW v \in e.events
        PROVE  /\ v = Event(v.asset, v.scope, v.at, v.type) /\ v.at \in Nat
               /\ v.asset[1] = "ip" => v.scope = e.assets[v.asset].scope
    <3>1. CASE v \in N
      BY <1>3, <1>8, <3>1
    <3>2. CASE v \in d.events
      <4>1. v.asset \in DOMAIN d.assets
        BY <1>4, <3>2 DEF ReferencesExist
      <4> QED
        BY <1>4, <1>8, <3>2, <4>1 DEF Filed
    <3> QED
      BY <1>1, <3>1, <3>2
  <2>5. ASSUME NEW l \in e.links, NEW x \in {l.src, l.dst}, x[1] = "ip"
        PROVE  e.assets[x].scope = l.scope
    <3>1. l \in d.links /\ d.assets[x].scope = l.scope
      BY <1>1, <1>4, <2>5 DEF Filed
    <3>2. x \in DOMAIN d.assets
      BY <1>4, <2>5, <3>1 DEF ReferencesExist, Internet, Lan
    <3> QED
      BY <1>8, <3>1, <3>2
  <2>6. \A l \in e.links : l = Link(l.scope, l.src, l.dst, l.kind, l.confidence)
    BY <1>1, <1>4 DEF Filed
  <2> QED
    BY <2>1, <2>2, <2>3, <2>4, <2>5, <2>6 DEF Filed
<1>12. ASSUME ok PROVE Explains(e)
  <2>1. ASSUME NEW x \in DOMAIN d.assets PROVE Explained(e, x)
    <3>1. Explained(d, x)
      BY <1>0, <1>12, ExplainsEach
    <3>2. CASE x \in gone
      <4>1. \E a \in Arrived(e, x) : a.at = e.assets[x].first
        BY <1>8, <1>9, <3>1 DEF Explained
      <4>2. PICK v \in N : v.asset = x
        BY <1>3, <3>2
      <4>3. v \in Left(e, x)
        BY <1>1, <1>3, <4>2 DEF Left, Told
      <4>4. \A a \in Arrived(e, x) : a.at < v.at
        BY <1>3, <1>9, <3>2
      <4>5. e.assets[x].first <= e.assets[x].last
        BY <1>6, <3>1, <3>2 DEF Explained
      <4> QED
        BY <1>7, <3>2, <4>1, <4>3, <4>4, <4>5 DEF Explained
    <3>3. CASE x \notin gone
      <4>1. e.assets[x] = d.assets[x] /\ Told(e, x) = Told(d, x) /\ Arrived(e, x) = Arrived(d, x) /\ Left(e, x) = Left(d, x)
        BY <1>2, <1>9, <3>3 DEF Left
      <4> QED
        BY <3>1, <4>1 DEF Explained
    <3> QED
      BY <3>2, <3>3
  <2>2. ASSUME NEW x \in DOMAIN d.assets, NEW a \in Arrived(e, x) PROVE a.at <= e.assets[x].change
    <3>1. a \in Arrived(d, x) /\ a.at <= d.assets[x].change
      BY <1>0, <1>9, <1>12
    <3>2. a.at <= at
      BY <1>4, <3>1 DEF Arrived, Told
    <3> QED
      BY <1>2, <1>6, <3>1, <3>2
  <2> QED
    BY <1>2, <2>1, <2>2, ExplainsEach DEF Explains
<1>13. Sound(e, at, ok)
  BY <1>1, <1>3, <1>4, <1>10, <1>11, <1>12 DEF Sound
<1>14. \A v \in e.events : v \in d.events \/ (v.asset \in gone /\ v.type = "device_disappeared")
  BY <1>1, <1>3
<1> QED
  BY <1>1, <1>2, <1>7, <1>8, <1>13, <1>14 DEF e

\* A complete scan: the hosts, and then the assets that were not seen.
LEMMA ScanRecorded ==
    ASSUME Apart, NEW d, NEW t \in Nat, NEW at \in Nat, t < at, NEW ok \in BOOLEAN, Sound(d, t, ok),
           NEW s, NEW found, Hostly(s, found)
    PROVE  LET r == Upserted(d, s, found, at)
               e == record_scan(d, s, found, at)
           IN  /\ Sound(r, at, ok) /\ Sound(e, at, ok) /\ \E g : Follows(d, r, g, {s})
               /\ DOMAIN e.assets = DOMAIN r.assets /\ e.links = r.links
               /\ \A x \in DOMAIN r.assets : /\ e.assets[x].first = r.assets[x].first
                                             /\ e.assets[x].scope = r.assets[x].scope
               /\ {x \in DOMAIN e.assets : e.assets[x].scope = s /\ e.assets[x].online} = Known(found)
               /\ \A v \in e.events : v.at = at /\ Steady(d, s, found, v.asset) =>
                      v.type \in {"device_disappeared", "reconciled"}
<1> DEFINE r == Upserted(d, s, found, at)
           gone == {x \in DOMAIN r.assets : r.assets[x].scope = s /\ r.assets[x].online /\ x \notin Known(found)}
           e == Marked(r, gone, s, at)
<1>1. Sound(r, at, ok) /\ Recorded(d, r, s, found, at, found)
  BY AllRecorded
<1>2. \A x \in Known(found) : r.assets[x].online
  BY AllRecorded DEF Online
<1>3. e = record_scan(d, s, found, at)
  <2>1. IsDb(r)
    BY <1>1 DEF Sound, Filed, IsDb
  <2> DEFINE a == [x \in DOMAIN r.assets |-> IF x \in gone THEN Gone(r.assets[x], FALSE, at) ELSE r.assets[x]]
             w == r.events \cup {Event(x, s, at, "device_disappeared") : x \in gone}
  <2>2. record_scan(d, s, found, at) = Stored(r, a, w)
    BY Zenon DEF record_scan, Stored, Gone, Known
  <2>3. e = [assets |-> a, events |-> w, links |-> r.links]
    BY Zenon DEF Marked
  <2> HIDE DEF r, a, w, e
  <2> QED
    BY <2>1, <2>2, <2>3, StoredIs
<1>4. /\ \A x \in Known(found) : x \in DOMAIN r.assets /\ r.assets[x].scope = s
      /\ \A v \in r.events : v \in d.events \/ v.asset \in Known(found)
      /\ \A v \in r.events : v.at = at /\ Steady(d, s, found, v.asset) => v.type = "reconciled"
      /\ \E g : Follows(d, r, g, {s})
  BY <1>1 DEF Recorded
<1>5. \A v \in d.events : v.at \in 0..t
  BY DEF Sound, Filed
<1>6. gone \in SUBSET DOMAIN r.assets /\ \A x \in gone : r.assets[x].scope = s /\ x \notin Known(found)
  OBVIOUS
<1>7. \A x \in DOMAIN r.assets : r.assets[x].scope = s /\ r.assets[x].online => x \in gone \/ x \in Known(found)
  OBVIOUS
<1> HIDE DEF r, gone
<1>8. \A x \in gone : r.assets[x].scope = s /\ \A v \in Arrived(r, x) : v.at < at
  <2> TAKE x \in gone
  <2>1. \A v \in Arrived(r, x) : v \in r.events /\ v.asset = x
    BY DEF Arrived, Told
  <2> QED
    BY <1>4, <1>5, <1>6, <2>1
<1>9. /\ Sound(e, at, ok) /\ DOMAIN e.assets = DOMAIN r.assets /\ e.links = r.links
      /\ \A x \in DOMAIN r.assets : /\ e.assets[x].first = r.assets[x].first
                                    /\ e.assets[x].scope = r.assets[x].scope
      /\ \A x \in gone : ~e.assets[x].online
      /\ \A x \in DOMAIN r.assets \ gone : e.assets[x] = r.assets[x]
      /\ \A v \in e.events : v \in r.events \/ (v.asset \in gone /\ v.type = "device_disappeared")
  BY <1>1, <1>6, <1>8, MarkedKeeps
<1> HIDE DEF e
<1>10. \A v \in e.events : v.at = at /\ Steady(d, s, found, v.asset) => v.type \in {"device_disappeared", "reconciled"}
  BY <1>4, <1>9
<1>11. ASSUME NEW x \in DOMAIN e.assets
       PROVE  e.assets[x].scope = s /\ e.assets[x].online <=> x \in Known(found)
  <2>1. CASE x \in gone
    BY <1>6, <1>9, <2>1
  <2>2. CASE x \notin gone
    <3>1. x \in DOMAIN r.assets /\ e.assets[x] = r.assets[x]
      BY <1>9, <2>2
    <3>2. CASE x \in Known(found)
      <4>1. r.assets[x].online /\ r.assets[x].scope = s
        BY <1>2, <1>4, <3>2
      <4> QED
        BY <3>1, <3>2, <4>1
    <3>3. CASE x \notin Known(found)
      <4>1. ~(r.assets[x].scope = s /\ r.assets[x].online)
        BY <1>7, <2>2, <3>1, <3>3
      <4> QED
        BY <3>1, <3>3, <4>1
    <3> QED
      BY <3>2, <3>3
  <2> QED
    BY <2>1, <2>2
<1>12. {x \in DOMAIN e.assets : e.assets[x].scope = s /\ e.assets[x].online} = Known(found)
  <2>1. Known(found) \subseteq DOMAIN e.assets
    BY <1>4, <1>9
  <2> QED
    BY <1>11, <2>1
<1> QED
  BY <1>1, <1>3, <1>4, <1>9, <1>10, <1>12 DEF r

-----------------------------------------------------------------------------
(* Relationships that are built or imported. *)

\* A database with other relationships.
Linked(d, links) == [d EXCEPT !.links = links]

\* Replacing the relationships leaves the assets and the timeline.
LEMMA LinkedIs ==
    ASSUME NEW d, IsDb(d), NEW links
    PROVE  Linked(d, links) = [assets |-> d.assets, events |-> d.events, links |-> links]
<1>1. PICK q : q = Linked(d, links)
  OBVIOUS
<1>2. d = [assets |-> d.assets, events |-> d.events, links |-> d.links]
  BY DEF IsDb
<1>3. q = [assets |-> d.assets, events |-> d.events, links |-> links]
  BY <1>1, <1>2 DEF Linked
<1> QED
  BY <1>1, <1>3

\* The ends of a link of the scope s.
Ends(d, s) == list_assets(d, s) \cup {Internet, Lan}

\* Relationships that a builder or an import may store: between ends of the scope, one of a key.
WellMade(d, s, links) ==
    /\ \A l \in links : /\ l = Link(s, l.src, l.dst, l.kind, l.confidence)
                        /\ l.src \in Ends(d, s) /\ l.dst \in Ends(d, s) /\ l.src # l.dst
    /\ \A l, m \in links : SameKey(l, m) => l = m

\* Relationships that take the place of others leave a sound database.
LEMMA LinkedKeeps ==
    ASSUME NEW d, NEW t, NEW ok \in BOOLEAN, Sound(d, t, ok), NEW s, NEW kept \in SUBSET d.links, NEW links, WellMade(d, s, links),
           \A l \in kept, m \in links : ~SameKey(l, m)
    PROVE  LET e == [assets |-> d.assets, events |-> d.events, links |-> kept \cup links]
           IN  Sound(e, t, ok)
<1>1. PICK e : e = [assets |-> d.assets, events |-> d.events, links |-> kept \cup links]
  OBVIOUS
<1>2. e.assets = d.assets /\ e.events = d.events /\ e.links = kept \cup links
      /\ e = [assets |-> e.assets, events |-> e.events, links |-> e.links]
  BY <1>1
<1>3. ReferencesExist(d) /\ Filed(d) /\ \A v \in d.events : v.at <= t
  BY DEF Sound
<1>4. ASSUME ok PROVE Explains(e)
  <2>1. \A x \in DOMAIN d.assets : Explained(d, x) /\ \A a \in Arrived(d, x) : a.at <= d.assets[x].change
    BY <1>4, ExplainsEach DEF Sound, Explains
  <2>2. \A x : Told(e, x) = Told(d, x) /\ Arrived(e, x) = Arrived(d, x) /\ Left(e, x) = Left(d, x)
    BY <1>2 DEF Arrived, Left, Told
  <2>3. \A x \in DOMAIN e.assets : Explained(e, x)
    BY <1>2, <2>1, <2>2 DEF Explained
  <2>4. \A x \in DOMAIN e.assets : \A a \in Arrived(e, x) : a.at <= e.assets[x].change
    BY <1>2, <2>1, <2>2
  <2> QED
    BY <2>3, <2>4, ExplainsEach DEF Explains
<1>5. \A l \in links : /\ l = Link(l.scope, l.src, l.dst, l.kind, l.confidence) /\ l.scope = s
                       /\ l.src \in Ends(d, s) /\ l.dst \in Ends(d, s) /\ l.src # l.dst
  <2> TAKE l \in links
  <2>1. l = Link(s, l.src, l.dst, l.kind, l.confidence)
    BY DEF WellMade
  <2>2. l.scope = s
    BY <2>1 DEF Link
  <2> QED
    BY <2>1, <2>2 DEF WellMade
<1>6. ReferencesExist(e)
  <2>1. \A v \in e.events : v.asset \in DOMAIN e.assets
    BY <1>2, <1>3 DEF ReferencesExist
  <2>2. \A l \in e.links : {l.src, l.dst} \subseteq DOMAIN e.assets \cup {Internet, Lan} /\ l.src # l.dst
    BY <1>2, <1>3, <1>5 DEF ReferencesExist, Ends, list_assets
  <2>3. \A l, m \in d.links : SameKey(l, m) => l = m
    BY <1>3 DEF ReferencesExist
  <2>4. \A l, m \in links : SameKey(l, m) => l = m
    BY DEF WellMade
  <2>5. \A l, m : SameKey(l, m) => SameKey(m, l)
    BY DEF SameKey
  <2>6. \A l, m \in e.links : SameKey(l, m) => l = m
    BY <1>2, <2>3, <2>4, <2>5
  <2> QED
    BY <2>1, <2>2, <2>6 DEF ReferencesExist
<1>7. Filed(e)
  <2>1. e = [assets |-> [x \in DOMAIN e.assets |-> e.assets[x]], events |-> e.events, links |-> e.links]
    <3>1. PICK b : b = [x \in DOMAIN d.assets |-> d.assets[x]]
      OBVIOUS
    <3>2. d = [assets |-> b, events |-> d.events, links |-> d.links]
      BY <1>3, <3>1 DEF Filed
    <3>3. d.assets = b
      BY <3>2
    <3> QED
      BY <1>2, <3>1, <3>3
  <2>3. ASSUME NEW l \in e.links, NEW x \in {l.src, l.dst}, x[1] = "ip" PROVE e.assets[x].scope = l.scope
    <3>1. CASE l \in d.links
      BY <1>2, <1>3, <2>3, <3>1 DEF Filed
    <3>2. CASE l \in links
      <4>1. x \in list_assets(d, s)
        BY <1>5, <2>3, <3>2 DEF Ends, Internet, Lan
      <4> QED
        BY <1>2, <1>5, <3>2, <4>1 DEF list_assets
    <3> QED
      BY <1>2, <3>1, <3>2
  <2>4. \A l \in e.links : l = Link(l.scope, l.src, l.dst, l.kind, l.confidence)
    BY <1>2, <1>3, <1>5 DEF Filed
  <2>5. IsFiniteSet(DOMAIN e.assets)
    BY <1>2, <1>3 DEF Filed
  <2>6. \A x \in DOMAIN e.assets : RowFiled(x, e.assets[x])
    BY <1>2, <1>3 DEF Filed
  <2>7. \A v \in e.events : /\ v = Event(v.asset, v.scope, v.at, v.type) /\ v.at \in Nat
                            /\ v.asset[1] = "ip" => v.scope = e.assets[v.asset].scope
    BY <1>2, <1>3 DEF Filed
  <2> QED
    BY <2>1, <2>3, <2>4, <2>5, <2>6, <2>7 DEF Filed
<1> QED
  BY <1>1, <1>2, <1>3, <1>4, <1>6, <1>7 DEF Sound

\* An asset of a sound database is known by an address or by a MAC: it is no synthetic node.
LEMMA AssetsAreKnown ==
    ASSUME NEW d, NEW t, NEW ok \in BOOLEAN, Sound(d, t, ok)
    PROVE  /\ IsDb(d) /\ IsFiniteSet(DOMAIN d.assets)
           /\ \A x \in DOMAIN d.assets : x[1] \in {"ip", "mac"}
           /\ Internet \notin DOMAIN d.assets /\ Lan \notin DOMAIN d.assets
<1>1. Filed(d)
  BY DEF Sound
<1>2. \A x \in DOMAIN d.assets : x = asset_identity(d.assets[x])
  BY <1>1 DEF Filed, RowFiled
<1>3. \A x \in DOMAIN d.assets : x[1] \in {"ip", "mac"}
  BY <1>2 DEF asset_identity
<1>4. Internet \notin DOMAIN d.assets /\ Lan \notin DOMAIN d.assets
  BY <1>3 DEF Internet, Lan
<1>5. IsDb(d) /\ IsFiniteSet(DOMAIN d.assets)
  BY <1>1, Zenon DEF Filed, IsDb
<1> QED
  BY <1>3, <1>4, <1>5

\* The logical view of a scan.
LEMMA LogicalKeeps ==
    ASSUME NEW d, NEW t, NEW ok \in BOOLEAN, Sound(d, t, ok), NEW s, NEW gateway, NEW links \in build_relationships(d, s, gateway)
    PROVE  LET e == replace_logical(d, s, links)
           IN  /\ Sound(e, t, ok) /\ e.assets = d.assets /\ e.events = d.events
               /\ \A l \in d.links : Physical(l) => l \in e.links
<1> DEFINE scoped == {x \in list_assets(d, s) : d.assets[x].ip \in InScope[s]}
           gateways == {x \in scoped : d.assets[x].online /\ d.assets[x].ip = gateway}
           Confidence(x) == CASE ~d.assets[x].online -> "UNKNOWN"
                              [] _normalize_mac(d.assets[x].mac) # NoMac -> "CONFIRMED"
                              [] OTHER -> "INFERRED"
           members(others) == {Link(s, Lan, x, "lan", Confidence(x)) : x \in others}
           kept == {l \in d.links : l.scope # s \/ Physical(l)}
<1>1. \/ links = members(scoped) \cup {Link(s, Internet, Lan, "gateway", "UNKNOWN")}
      \/ \E g \in scoped : links = members(scoped \ {g}) \cup {Link(s, Internet, g, "gateway", "CONFIRMED"),
                                                               Link(s, g, Lan, "lan", "CONFIRMED")}
  BY Zenon DEF build_relationships
<1>2. scoped \subseteq list_assets(d, s) /\ list_assets(d, s) \subseteq DOMAIN d.assets
  BY DEF list_assets
<1>3. IsDb(d) /\ Internet \notin DOMAIN d.assets /\ Lan \notin DOMAIN d.assets /\ Internet # Lan
  BY AssetsAreKnown DEF Internet, Lan
<1>4. \A l \in links : \/ \E x \in scoped : l = Link(s, Lan, x, "lan", Confidence(x))
                       \/ l = Link(s, Internet, Lan, "gateway", "UNKNOWN")
                       \/ \E g \in scoped : \/ l = Link(s, Internet, g, "gateway", "CONFIRMED")
                                            \/ l = Link(s, g, Lan, "lan", "CONFIRMED")
  <2> HIDE DEF scoped, Confidence
  <2> QED
    BY <1>1
<1> HIDE DEF scoped, gateways, Confidence
<1>5. ASSUME NEW l \in links
      PROVE  /\ l = Link(s, l.src, l.dst, l.kind, l.confidence)
             /\ l.src \in Ends(d, s) /\ l.dst \in Ends(d, s) /\ l.src # l.dst
             /\ l.kind \in {"lan", "gateway"}
  <2>1. \A a, b, k, c : LET m == Link(s, a, b, k, c)
                        IN  m = Link(s, m.src, m.dst, m.kind, m.confidence) /\ m.src = a /\ m.dst = b /\ m.kind = k
    BY DEF Link
  <2> QED
    BY <1>2, <1>3, <1>4, <2>1 DEF Ends
<1>6. \A l, m \in links : SameKey(l, m) => l = m
  <2>1. \A a, b, k, c : LET m == Link(s, a, b, k, c) IN m.src = a /\ m.dst = b /\ m.kind = k
    BY DEF Link
  <2>2. ASSUME links = members(scoped) \cup {Link(s, Internet, Lan, "gateway", "UNKNOWN")},
               NEW l \in links, NEW m \in links, SameKey(l, m)
        PROVE  l = m
    <3>1. \A q \in links : \/ \E x \in scoped : q = Link(s, Lan, x, "lan", Confidence(x))
                           \/ q = Link(s, Internet, Lan, "gateway", "UNKNOWN")
      BY <2>2
    <3>2. l.src = m.src /\ l.dst = m.dst /\ l.kind = m.kind
      BY <2>2 DEF SameKey
    <3> QED
      BY <2>1, <3>1, <3>2
  <2>3. ASSUME NEW g \in scoped,
               links = members(scoped \ {g}) \cup {Link(s, Internet, g, "gateway", "CONFIRMED"),
                                                   Link(s, g, Lan, "lan", "CONFIRMED")},
               NEW l \in links, NEW m \in links, SameKey(l, m)
        PROVE  l = m
    <3>1. \A q \in links : \/ \E x \in scoped : q = Link(s, Lan, x, "lan", Confidence(x))
                           \/ q = Link(s, Internet, g, "gateway", "CONFIRMED")
                           \/ q = Link(s, g, Lan, "lan", "CONFIRMED")
      BY <2>3
    <3>2. l.src = m.src /\ l.dst = m.dst /\ l.kind = m.kind
      BY <2>3 DEF SameKey
    <3>3. g # Lan
      BY <1>2, <1>3
    <3> QED
      BY <2>1, <3>1, <3>2, <3>3
  <2> QED
    BY <1>1, <2>2, <2>3
<1>7. WellMade(d, s, links)
  BY <1>5, <1>6 DEF WellMade
<1>8. \A l \in kept, m \in links : ~SameKey(l, m)
  <2> TAKE l \in kept, m \in links
  <2>1. m.scope = s /\ m.kind # "physical"
    <3>1. m = Link(s, m.src, m.dst, m.kind, m.confidence)
      BY <1>5
    <3> QED
      BY <1>5, <3>1 DEF Link
  <2> QED
    BY <2>1 DEF SameKey, Physical
<1>9. replace_logical(d, s, links) = [assets |-> d.assets, events |-> d.events, links |-> kept \cup links]
  <2>1. replace_logical(d, s, links) = Linked(d, kept \cup links)
    BY Zenon DEF replace_logical, Linked
  <2> QED
    BY <1>3, <2>1, LinkedIs
<1>10. kept \in SUBSET d.links /\ \A l \in d.links : Physical(l) => l \in kept
  OBVIOUS
<1> HIDE DEF kept
<1>11. PICK e : e = [assets |-> d.assets, events |-> d.events, links |-> kept \cup links]
  OBVIOUS
<1>12. Sound(e, t, ok)
  BY <1>7, <1>8, <1>10, <1>11, LinkedKeeps
<1>13. e.assets = d.assets /\ e.events = d.events /\ e.links = kept \cup links
  BY <1>11
<1> QED
  BY <1>9, <1>10, <1>11, <1>12, <1>13

\* A snapshot that is imported names every relationship once.
LEMMA ImportedOnce ==
    ASSUME NEW d, NEW t, NEW ok \in BOOLEAN, Sound(d, t, ok), NEW s, NEW file \in LinkFiles, NEW links \in import_physical_snapshot(d, s, file)
    PROVE  /\ WellMade(d, s, links)
           /\ \A l \in links : l.kind = "physical"
<1> DEFINE Sources(l) == _resolve_endpoint(d, s, l.src)
           Targets(l) == _resolve_endpoint(d, s, l.dst)
           How(l) == IF l.strong THEN "CONFIRMED" ELSE "INFERRED"
<1>1. /\ links \subseteq UNION {Resolved(d, s, l) : l \in file}
      /\ \A l \in file : Cardinality(links \cap Resolved(d, s, l)) = 1
      /\ \A l \in links : l.src # l.dst
      /\ Cardinality({<<l.src, l.dst>> : l \in links}) = Cardinality(file)
  BY DEF import_physical_snapshot
<1>2. \A l : Sources(l) \subseteq list_assets(d, s) /\ Targets(l) \subseteq list_assets(d, s)
  BY DEF _resolve_endpoint
<1>3. list_assets(d, s) \subseteq DOMAIN d.assets /\ IsFiniteSet(DOMAIN d.assets)
  BY AssetsAreKnown DEF list_assets
<1>4. IsFiniteSet(file)
  BY InventoryAssumption
<1>made. \A l : Resolved(d, s, l) = {Link(s, a, b, "physical", How(l)) : a \in Sources(l), b \in Targets(l)}
  BY DEF Resolved
<1> HIDE DEF Sources, Targets, How
<1>5. ASSUME NEW l \in file PROVE IsFiniteSet(Resolved(d, s, l))
  <2> DEFINE ends == list_assets(d, s) \X list_assets(d, s)
             Made(p) == Link(s, p[1], p[2], "physical", How(l))
             all == {Made(p) : p \in ends}
  <2>1. IsFiniteSet(list_assets(d, s))
    BY <1>3, FS_Subset
  <2>2. IsFiniteSet(ends)
    BY <2>1, FS_Product
  <2>3. IsFiniteSet(all)
    <3> DEFINE m == [p \in ends |-> Made(p)]
    <3> HIDE DEF ends, Made
    <3>1. m \in Surjection(ends, all)
      BY DEF Surjection
    <3> QED
      BY <2>2, <3>1, FS_Surjection
  <2>4. Resolved(d, s, l) \subseteq all
    <3> SUFFICES ASSUME NEW a \in Sources(l), NEW b \in Targets(l)
                 PROVE  Link(s, a, b, "physical", How(l)) \in all
      BY <1>made
    <3>1. <<a, b>> \in ends
      BY <1>2
    <3>2. Made(<<a, b>>) = Link(s, a, b, "physical", How(l))
      OBVIOUS
    <3> HIDE DEF Made, ends
    <3> QED
      BY <3>1, <3>2
  <2> HIDE DEF all
  <2> QED
    BY <2>3, <2>4, FS_Subset
<1>6. ASSUME NEW l \in links
      PROVE  /\ l = Link(s, l.src, l.dst, l.kind, l.confidence) /\ l.scope = s /\ l.kind = "physical"
             /\ l.src \in Ends(d, s) /\ l.dst \in Ends(d, s) /\ l.src # l.dst
             /\ \E q \in file : l \in Resolved(d, s, q)
  <2>1. PICK q \in file : l \in Resolved(d, s, q)
    BY <1>1
  <2>2. PICK a \in Sources(q), b \in Targets(q) : l = Link(s, a, b, "physical", How(q))
    BY <1>made, <2>1
  <2>3. /\ l = Link(s, l.src, l.dst, l.kind, l.confidence) /\ l.scope = s /\ l.kind = "physical"
        /\ l.src = a /\ l.dst = b
    BY <2>2 DEF Link
  <2>4. a \in Ends(d, s) /\ b \in Ends(d, s)
    BY <1>2 DEF Ends
  <2> QED
    BY <1>1, <2>1, <2>3, <2>4
<1>7. ASSUME NEW q \in file PROVE \E l : links \cap Resolved(d, s, q) = {l}
  <2>1. IsFiniteSet(links \cap Resolved(d, s, q))
    BY <1>5, FS_Subset
  <2> QED
    BY <1>1, <2>1, FS_Singleton
<1> DEFINE The(q) == CHOOSE l \in links : l \in Resolved(d, s, q)
           Key(l) == <<l.src, l.dst>>
           keys == {Key(l) : l \in links}
           f == [q \in file |-> Key(The(q))]
<1>8. ASSUME NEW q \in file PROVE The(q) \in links /\ \A l \in links : l \in Resolved(d, s, q) => l = The(q)
  <2>1. PICK l : links \cap Resolved(d, s, q) = {l}
    BY <1>7
  <2>2. l \in links /\ l \in Resolved(d, s, q) /\ \A m \in links : m \in Resolved(d, s, q) => m = l
    BY <2>1
  <2> QED
    BY <2>2
<1>9. \A l \in links : \E q \in file : l = The(q)
  BY <1>6, <1>8
<1> HIDE DEF The
<1>10. \A q \in file : f[q] = Key(The(q))
  OBVIOUS
<1>11. f \in Surjection(file, keys)
  <2>1. f \in [file -> keys]
    BY <1>8
  <2>2. \A k \in keys : \E q \in file : f[q] = k
    BY <1>9, <1>10
  <2> HIDE DEF f, keys
  <2> QED
    BY <2>1, <2>2 DEF Surjection
<1>12. Cardinality(keys) = Cardinality(file)
  BY <1>1
<1> HIDE DEF f, keys
<1>13. f \in Injection(file, keys)
  BY <1>4, <1>11, <1>12, FS_Surjection
<1>14. \A p, q \in file : f[p] = f[q] => p = q
  BY <1>13 DEF Injection, IsInjective
<1>15. \A l, m \in links : SameKey(l, m) => l = m
  <2> SUFFICES ASSUME NEW l \in links, NEW m \in links, SameKey(l, m) PROVE l = m
    OBVIOUS
  <2>1. Key(l) = Key(m)
    BY DEF SameKey
  <2>2. PICK p \in file : l = The(p)
    BY <1>9
  <2>3. PICK q \in file : m = The(q)
    BY <1>9
  <2> HIDE DEF Key
  <2>4. p = q
    BY <1>10, <1>14, <2>1, <2>2, <2>3
  <2> QED
    BY <2>2, <2>3, <2>4
<1>16. WellMade(d, s, links)
  BY <1>6, <1>15 DEF WellMade
<1> QED
  BY <1>6, <1>16

\* Importing a snapshot leaves a sound database and the same assets (import_physical_evidence).
LEMMA ImportKeeps ==
    ASSUME NEW d, NEW t, NEW ok \in BOOLEAN, Sound(d, t, ok), NEW s, NEW file \in LinkFiles, NEW links \in import_physical_snapshot(d, s, file)
    PROVE  LET e == replace_physical(d, s, links)
           IN  Sound(e, t, ok) /\ e.assets = d.assets
<1> DEFINE kept == {l \in d.links : l.scope # s \/ ~Physical(l)}
<1>1. WellMade(d, s, links) /\ \A l \in links : l.kind = "physical"
  BY ImportedOnce
<1>2. replace_physical(d, s, links) = [assets |-> d.assets, events |-> d.events, links |-> kept \cup links]
  <2>1. replace_physical(d, s, links) = Linked(d, kept \cup links)
    BY Zenon DEF replace_physical, Linked
  <2>2. IsDb(d)
    BY AssetsAreKnown
  <2> QED
    BY <2>1, <2>2, LinkedIs
<1>3. \A l \in kept, m \in links : ~SameKey(l, m)
  <2> TAKE l \in kept, m \in links
  <2>1. m = Link(s, m.src, m.dst, m.kind, m.confidence)
    BY <1>1 DEF WellMade
  <2>2. m.scope = s
    BY <2>1 DEF Link
  <2> QED
    BY <1>1, <2>2 DEF SameKey, Physical
<1>4. kept \in SUBSET d.links
  OBVIOUS
<1> HIDE DEF kept
<1>5. PICK e : e = [assets |-> d.assets, events |-> d.events, links |-> kept \cup links]
  OBVIOUS
<1>6. Sound(e, t, ok)
  BY <1>1, <1>3, <1>4, <1>5, LinkedKeeps
<1> QED
  BY <1>2, <1>5, <1>6

-----------------------------------------------------------------------------
(* What NothingForgotten asks of a transaction that takes d to e. *)

\* What NothingForgotten says of the assets of d that are no longer in e, and of those that are.
Kept(d, e) ==
    /\ \A x \in DOMAIN d.assets \ DOMAIN e.assets :
           /\ x[1] = "ip"
           /\ \E y \in DOMAIN e.assets :
                 /\ y[1] = "mac" /\ e.assets[y].scope = d.assets[x].scope
                 /\ e.assets[y].first <= d.assets[x].first
                 /\ \A l \in d.links : Physical(l) /\ x \in {l.src, l.dst}
                       /\ {l.src, l.dst} \ {x} \subseteq DOMAIN e.assets \ {y} =>
                       \E m \in e.links : SameKey(m, Moved(l, x, y))
    /\ \A x \in DOMAIN d.assets \cap DOMAIN e.assets : e.assets[x].first <= d.assets[x].first

\* It holds of a change that follows the assets, when the physical links stay.
LEMMA KeptBy ==
    ASSUME NEW d, NEW t, NEW ok \in BOOLEAN, Sound(d, t, ok), NEW r, NEW g, NEW S, Follows(d, r, g, S),
           NEW e, DOMAIN e.assets = DOMAIN r.assets,
           \A x \in DOMAIN r.assets : e.assets[x].first = r.assets[x].first /\ e.assets[x].scope = r.assets[x].scope,
           \A l \in r.links : Physical(l) => l \in e.links
    PROVE  Kept(d, e)
<1>1. ReferencesExist(d) /\ Filed(d)
  BY DEF Sound
<1>2. \A x \in DOMAIN d.assets :
          /\ g[x] \in DOMAIN r.assets /\ r.assets[g[x]].first <= d.assets[x].first
          /\ g[x] # x => /\ x[1] = "ip" /\ g[x][1] = "mac" /\ x \notin DOMAIN r.assets
                         /\ r.assets[g[x]].scope = d.assets[x].scope
  BY DEF Follows
<1>3. ASSUME NEW x \in DOMAIN d.assets \ DOMAIN e.assets
      PROVE  /\ x[1] = "ip"
             /\ \E y \in DOMAIN e.assets :
                   /\ y[1] = "mac" /\ e.assets[y].scope = d.assets[x].scope
                   /\ e.assets[y].first <= d.assets[x].first
                   /\ \A l \in d.links : Physical(l) /\ x \in {l.src, l.dst}
                         /\ {l.src, l.dst} \ {x} \subseteq DOMAIN e.assets \ {y} =>
                         \E m \in e.links : SameKey(m, Moved(l, x, y))
  <2> DEFINE y == g[x]
  <2>1. /\ x[1] = "ip" /\ y \in DOMAIN e.assets /\ y[1] = "mac" /\ y # x
        /\ e.assets[y].scope = d.assets[x].scope /\ e.assets[y].first <= d.assets[x].first
    BY <1>2
  <2>2. ASSUME NEW l \in d.links, Physical(l), x \in {l.src, l.dst},
               {l.src, l.dst} \ {x} \subseteq DOMAIN e.assets \ {y}
        PROVE  \E m \in e.links : SameKey(m, Moved(l, x, y))
    <3>1. l = Link(l.scope, l.src, l.dst, l.kind, l.confidence) /\ l.src # l.dst
          /\ {l.src, l.dst} \subseteq DOMAIN d.assets \cup {Internet, Lan}
      BY <1>1 DEF ReferencesExist, Filed
    <3>2. \A z \in {l.src, l.dst} \ {x} : g[z] = z /\ z # y
      <4> TAKE z \in {l.src, l.dst} \ {x}
      <4>1. z \in DOMAIN e.assets /\ z # y
        BY <2>2
      <4>2. CASE z \in DOMAIN d.assets
        BY <1>2, <4>1, <4>2
      <4>3. CASE z \in {Internet, Lan}
        BY <4>1, <4>3 DEF Follows
      <4> QED
        BY <3>1, <4>2, <4>3
    <3>3. g[l.src] = Substitute(l.src, x, y) /\ g[l.dst] = Substitute(l.dst, x, y) /\ g[l.src] # g[l.dst]
      BY <2>2, <3>1, <3>2 DEF Substitute
    <3>4. PICK m \in r.links : m.scope = l.scope /\ m.kind = l.kind /\ m.src = g[l.src] /\ m.dst = g[l.dst]
      BY <3>3 DEF Follows
    <3>5. m \in e.links
      BY <2>2, <3>4 DEF Physical
    <3>6. Moved(l, x, y) = Link(l.scope, Substitute(l.src, x, y), Substitute(l.dst, x, y), l.kind, l.confidence)
      BY <3>1, MovedIs
    <3>7. SameKey(m, Moved(l, x, y))
      BY <3>3, <3>4, <3>6 DEF SameKey, Link
    <3> QED
      BY <3>5, <3>7
  <2> HIDE DEF y
  <2> QED
    BY <2>1, <2>2
<1>4. ASSUME NEW x \in DOMAIN d.assets \cap DOMAIN e.assets PROVE e.assets[x].first <= d.assets[x].first
  <2>1. g[x] = x
    BY <1>2
  <2> QED
    BY <1>2, <2>1
<1> QED
  BY <1>3, <1>4 DEF Kept

\* It holds when the assets do not change.
LEMMA SameIsKept ==
    ASSUME NEW d, NEW t, NEW ok \in BOOLEAN, Sound(d, t, ok), NEW e, e.assets = d.assets
    PROVE  Kept(d, e)
<1>1. \A x \in DOMAIN d.assets : d.assets[x].first \in Int
  BY FirstIsTime
<1> QED
  BY <1>1 DEF Kept

-----------------------------------------------------------------------------
(* Fingerprints. *)

\* A row that was read is that of its asset, in a scope that has its address.
HeldRow(h) == h.id = asset_identity(h.row) /\ h.row.scope \in Scopes /\ h.row.ip \in InScope[h.row.scope]

\* The row that is written with the identified services leaves a sound database, whatever became of
\* its asset since it was read; of the other assets it adds none (persist_asset_fingerprints).
LEMMA PrintsKeep ==
    ASSUME Apart, NEW d, NEW t \in Nat, NEW at \in Nat, at <= t, NEW ok \in BOOLEAN, Sound(d, t, ok), Calm(d, at, ok),
           NEW h, HeldRow(h)
    PROVE  LET e == persist_asset_fingerprints(d, h, at)
           IN  Sound(e, t, ok) /\ Kept(d, e) /\ DOMAIN e.assets \subseteq DOMAIN d.assets \cup {h.id}
<1> DEFINE row == h.row
           id == h.id
           rich == enrich_asset_with_fingerprints(row, h.prints)
           o == [ip |-> row.ip, mac |-> row.mac, kind |-> row.kind, name |-> row.name, ports |-> rich.ports]
           changed == h.prints \ row.prints
           types == {IF p.tcp THEN "service_changed" ELSE "service_observed" : p \in
                        {q \in changed : ~q.tcp \/ q.port \in row.ports}}
           r == _upsert_device(d, row.scope, o, rich.prints, at)
           N == {Event(id, row.scope, at, u) : u \in types}
           c == IF types # {} THEN at ELSE r.assets[id].change
           e == persist_asset_fingerprints(d, h, at)
<1>0. e = Changed(r, r.events \cup N, id, c)
  BY Zenon DEF persist_asset_fingerprints, Changed
<1>2. row.scope \in Scopes /\ o.ip \in InScope[row.scope] /\ id = asset_identity(o)
  BY DEF HeldRow, asset_identity
<1>3. \A u \in types : u \in {"service_changed", "service_observed"}
  OBVIOUS
<1> HIDE DEF types, r, o, row, id, e
<1>4. Sound(r, t, ok) /\ Calm(r, at, ok)
  BY <1>2, UpsertKeeps DEF r
<1>5. WroteRows(d, r, row.scope, o) /\ WroteLinks(d, r, o)
  BY <1>2, UpsertWrites DEF r
<1>6. r.assets[id].online
  BY <1>2, UpsertWrites DEF r
<1>7. /\ id \in DOMAIN r.assets /\ r.assets[id].scope = row.scope
      /\ DOMAIN r.assets \subseteq DOMAIN d.assets \cup {id}
  BY <1>2, <1>5 DEF WroteRows
<1>8. IsDb(r) /\ RowFiled(id, r.assets[id])
  BY <1>4, <1>7, AssetsAreKnown DEF Sound, Filed
<1>9. IsRow(r.assets[id])
  BY <1>8 DEF RowFiled, IsRow
<1> DEFINE w == r.events \cup N
<1> HIDE DEF c
<1>10. PICK q : /\ e = [assets |-> With(r.assets, id, q), events |-> w, links |-> r.links]
                /\ IsRow(q) /\ SameHost(q, r.assets[id]) /\ q.mac = r.assets[id].mac
                /\ q.first = r.assets[id].first /\ q.last = r.assets[id].last /\ q.change = c
                /\ q.online = r.assets[id].online
  <2>1. e = Changed(r, w, id, c)
    BY <1>0
  <2> HIDE DEF w
  <2> QED
    BY <1>7, <1>8, <1>9, <2>1, ChangedIs
<1>11. c \in {at, r.assets[id].change}
  BY DEF c
<1>12. q.online /\ (ok => q.first <= q.last) /\ q.scope = row.scope
  <2>1. ok => Explained(r, id)
    BY <1>4, <1>7, ExplainsEach DEF Sound, Explains
  <2>2. q.online
    BY <1>6, <1>10
  <2>3. ok => q.first <= q.last
    BY <1>10, <2>1 DEF Explained
  <2> QED
    BY <1>7, <1>10, <2>2, <2>3 DEF SameHost
<1>13. RowFiled(id, q)
  <2>1. PICK p : p = r.assets[id]
    OBVIOUS
  <2>2. RowFiled(id, p) /\ IsRow(q) /\ SameHost(q, p) /\ q.mac = p.mac
        /\ q.first = p.first /\ q.last = p.last /\ q.change \in {at, p.change}
    BY <1>8, <1>10, <1>11, <2>1
  <2>3. id = asset_identity(q)
    BY <2>2 DEF RowFiled, asset_identity, SameHost
  <2>4. q.scope \in Scopes /\ q.ip \in InScope[q.scope] /\ {q.first, q.last, q.change} \subseteq Nat
    BY <2>2 DEF RowFiled, SameHost
  <2>5. q.online \in BOOLEAN
    <3>1. p.online \in BOOLEAN
      BY <2>2 DEF RowFiled
    <3> QED
      BY <1>10, <2>1, <3>1
  <2> QED
    BY <2>2, <2>3, <2>4, <2>5 DEF RowFiled, IsRow
<1>14. \A v \in N : /\ v = Event(id, v.scope, at, v.type) /\ v.scope = row.scope
                    /\ v.type \in {"service_changed", "service_observed"}
  <2> TAKE v \in N
  <2>1. PICK u \in types : v = Event(id, row.scope, at, u)
    OBVIOUS
  <2> QED
    BY <1>3, <2>1 DEF Event
<1>15. Writes(r, id, q, N, at, ok)
  <2> HIDE DEF N
  <2>1. id[1] = "ip" => q.scope = r.assets[id].scope
    BY <1>7, <1>12
  <2>2. q.first = r.assets[id].first /\ q.change \in {at, r.assets[id].change}
    BY <1>10, <1>11
  <2> QED
    BY <1>6, <1>7, <1>12, <1>13, <1>14, <2>1, <2>2 DEF Writes
<1>16. id[1] \in {"ip", "mac"}
  BY <1>7, <1>4, AssetsAreKnown
<1> HIDE DEF N
<1>17. Sound(e, t, ok)
  BY <1>4, <1>10, <1>15, <1>16, RowWritten
<1>18. PICK g : Follows(d, r, g, {row.scope})
  BY <1>2, <1>4, <1>5, UpsertFollows
<1>19. /\ DOMAIN e.assets = DOMAIN r.assets /\ e.links = r.links
       /\ \A x \in DOMAIN r.assets : e.assets[x].first = r.assets[x].first /\ e.assets[x].scope = r.assets[x].scope
  <2>1. e.assets = With(r.assets, id, q) /\ e.links = r.links
    BY <1>10
  <2>2. DOMAIN e.assets = DOMAIN r.assets /\ e.assets[id] = q /\ \A x \in DOMAIN r.assets : x # id => e.assets[x] = r.assets[x]
    BY <1>7, <2>1 DEF With
  <2>3. q.first = r.assets[id].first /\ q.scope = r.assets[id].scope
    BY <1>10 DEF SameHost
  <2> QED
    BY <2>1, <2>2, <2>3
<1>20. Kept(d, e)
  BY <1>18, <1>19, KeptBy
<1> QED
  BY <1>7, <1>17, <1>19, <1>20 DEF e, id

-----------------------------------------------------------------------------
(* The repair on opening the store. *)

\* A merge of two assets of one scope follows them (_merge_identity).
LEMMA MergeFollows ==
    ASSUME NEW d, NEW t, NEW at \in Nat, NEW ok \in BOOLEAN, Sound(d, t, ok),
           NEW old, NEW id, NEW remove \in BOOLEAN, Mergeable(d, old, id, remove),
           id \in DOMAIN d.assets, d.assets[id].scope = d.assets[old].scope
    PROVE  LET e == _merge_identity(d, old, id, at, remove)
           IN  \E g : Follows(d, e, g, {})
<1> DEFINE e == _merge_identity(d, old, id, at, remove)
           F == d.assets[old]
           N == DOMAIN d.assets \cup {Internet, Lan}
           g == [x \in N |-> IF x = old THEN id ELSE x]
<1>1. Filed(d) /\ ReferencesExist(d)
  BY DEF Sound
<1>2. /\ e = [assets |-> e.assets, events |-> e.events, links |-> e.links]
      /\ e.assets = [x \in DOMAIN e.assets |-> e.assets[x]]
      /\ DOMAIN e.assets = (DOMAIN d.assets \ {old}) \cup {id}
      /\ old # id
      /\ \A x \in DOMAIN d.assets \ {old, id} : e.assets[x] = d.assets[x]
  BY <1>1, MergedRows
<1>3. MergedRow(d, e.assets[id], old, id, at)
  BY <1>1, MergedRows
<1>4. old \in DOMAIN d.assets /\ old[1] = "ip" /\ id[1] = "mac"
  BY DEF Mergeable
<1>5. id \in DOMAIN d.assets /\ d.assets[id].scope = F.scope
  OBVIOUS
<1>6. /\ e.assets[id].scope = F.scope /\ e.assets[id].first <= F.first
      /\ e.assets[id].first <= d.assets[id].first
  BY <1>3, <1>5 DEF MergedRow
<1>7. e.links = _repoint_relationships(d.links, F.scope, old, id)
  BY DEF _merge_identity
<1> HIDE DEF e
<1>8. /\ \A l \in d.links : old \notin {l.src, l.dst} => l \in e.links
      /\ \A l \in d.links : old \in {l.src, l.dst} /\ id \notin {l.src, l.dst} =>
             \E m \in e.links : SameKey(m, Moved(l, old, id))
  <2>1. /\ \A l \in d.links : /\ l = Link(l.scope, l.src, l.dst, l.kind, l.confidence) /\ l.src # l.dst
                              /\ old \in {l.src, l.dst} => l.scope = F.scope
        /\ \A l, m \in d.links : SameKey(l, m) => l = m
    BY <1>1, <1>4, SoundLinks
  <2> QED
    BY <1>2, <1>7, <2>1, MergedLinks
<1>9. Internet \notin DOMAIN d.assets /\ Lan \notin DOMAIN d.assets
  BY AssetsAreKnown
<1>10. \A x \in N : g[x] = IF x = old THEN id ELSE x
  OBVIOUS
<1> HIDE DEF g
<1>11. g[Internet] = Internet /\ g[Lan] = Lan
  BY <1>4, <1>9, <1>10
<1>12. ASSUME NEW x \in DOMAIN d.assets
       PROVE  /\ g[x] \in DOMAIN e.assets /\ e.assets[g[x]].first <= d.assets[x].first
              /\ g[x] # x => /\ x[1] = "ip" /\ g[x][1] = "mac" /\ x \notin DOMAIN e.assets
                             /\ e.assets[g[x]].scope = d.assets[x].scope
              /\ g[x] = x => e.assets[x].scope = d.assets[x].scope
  <2>1. CASE x = old
    BY <1>2, <1>4, <1>6, <1>10, <2>1
  <2>2. CASE x = id
    BY <1>2, <1>5, <1>6, <1>10, <2>2
  <2>3. CASE x \notin {old, id}
    <3>1. d.assets[x].first \in Int
      BY FirstIsTime
    <3> QED
      BY <1>2, <1>10, <2>3, <3>1
  <2> QED
    BY <2>1, <2>2, <2>3
<1>13. ASSUME NEW l \in d.links, g[l.src] # g[l.dst]
       PROVE  \E m \in e.links : m.scope = l.scope /\ m.kind = l.kind /\ m.src = g[l.src] /\ m.dst = g[l.dst]
  <2>1. /\ l.src \in N /\ l.dst \in N /\ l.src # l.dst
        /\ l = Link(l.scope, l.src, l.dst, l.kind, l.confidence)
    BY <1>1 DEF ReferencesExist, Filed
  <2>2. g[l.src] = Substitute(l.src, old, id) /\ g[l.dst] = Substitute(l.dst, old, id)
    BY <1>10, <2>1 DEF Substitute
  <2>3. CASE old \notin {l.src, l.dst}
    BY <1>8, <2>2, <2>3 DEF Substitute
  <2>4. CASE old \in {l.src, l.dst}
    <3>1. id \notin {l.src, l.dst}
      BY <1>2, <1>13, <2>1, <2>2, <2>4 DEF Substitute
    <3>2. PICK m \in e.links : SameKey(m, Moved(l, old, id))
      BY <1>8, <2>4, <3>1
    <3>3. Moved(l, old, id) = Link(l.scope, Substitute(l.src, old, id), Substitute(l.dst, old, id), l.kind, l.confidence)
      BY <2>1, MovedIs
    <3> QED
      BY <2>2, <3>2, <3>3 DEF SameKey, Link
  <2> QED
    BY <2>3, <2>4
<1>14. Follows(d, e, g, {})
  BY <1>11, <1>12, <1>13 DEF Follows
<1> QED
  BY <1>14 DEF e

\* The fallbacks have an order.
LEMMA FallbacksOrdered ==
    ASSUME NEW d, NEW t, NEW ok \in BOOLEAN, Sound(d, t, ok)
    PROVE  /\ IsFiniteSet(Fallbacks(d))
           /\ StrictOrder({p \in Fallbacks(d) \X Fallbacks(d) :
                              \/ d.assets[p[1]].first < d.assets[p[2]].first
                              \/ d.assets[p[1]].first = d.assets[p[2]].first /\ p[1][2] < p[2][2]}, Fallbacks(d))
<1> DEFINE S == Fallbacks(d)
           R == {p \in S \X S : \/ d.assets[p[1]].first < d.assets[p[2]].first
                                \/ d.assets[p[1]].first = d.assets[p[2]].first /\ p[1][2] < p[2][2]}
<1>1. S \subseteq DOMAIN d.assets /\ \A x \in S : x[1] = "ip"
  BY DEF Fallbacks
<1>2. IsFiniteSet(S)
  BY <1>1, AssetsAreKnown, FS_Subset
<1>3. ASSUME NEW x \in S PROVE d.assets[x].first \in Int /\ x[2] \in Int /\ x = <<"ip", x[2]>>
  <2>1. d.assets[x].first \in Int
    BY <1>1, FirstIsTime
  <2>2. RowFiled(x, d.assets[x])
    BY <1>1 DEF Sound, Filed
  <2> DEFINE r == d.assets[x]
  <2>3. x = asset_identity(r) /\ r.scope \in Scopes /\ r.ip \in InScope[r.scope]
    BY <2>2 DEF RowFiled
  <2> HIDE DEF r
  <2>4. r.ip \in Int
    BY <2>3, InventoryAssumption
  <2>5. x = <<"ip", r.ip>>
    BY <1>1, <2>3 DEF asset_identity
  <2> QED
    BY <2>1, <2>4, <2>5
<1>4. \A x, y \in S :
          <<x, y>> \in R <=> \/ d.assets[x].first < d.assets[y].first
                            \/ (d.assets[x].first = d.assets[y].first /\ x[2] < y[2])
  OBVIOUS
<1> HIDE DEF R, S
<1>5. \A x, y \in S : x # y => x[2] # y[2]
  <2> SUFFICES ASSUME NEW x \in S, NEW y \in S, x[2] = y[2] PROVE x = y
    OBVIOUS
  <2>1. x = <<"ip", x[2]>> /\ y = <<"ip", y[2]>>
    BY <1>3
  <2> QED
    BY <2>1
<1>6. \A x, y \in S : x # y => <<x, y>> \in R \/ <<y, x>> \in R
  BY <1>3, <1>4, <1>5
<1>7. \A x \in S : <<x, x>> \notin R
  BY <1>3, <1>4
<1>8. \A x, y, z \in S : <<x, y>> \in R /\ <<y, z>> \in R => <<x, z>> \in R
  BY <1>3, <1>4
<1> QED
  BY <1>2, <1>6, <1>7, <1>8 DEF StrictOrder, R, S

\* The database a once the fallbacks in done were repaired.
Mended(d, a, at, ok, done) ==
    /\ Sound(a, at, ok) /\ Calm(a, at, ok)
    /\ DOMAIN a.assets \subseteq DOMAIN d.assets
    /\ \A x \in Fallbacks(d) \ done : x \in DOMAIN a.assets /\ a.assets[x] = d.assets[x]
    /\ \E g : Follows(d, a, g, {})

\* One more fallback is repaired (the loop of repair_legacy_identity_duplicates).
LEMMA OneMended ==
    ASSUME NEW d, NEW t \in Nat, NEW at \in Nat, t < at, NEW ok \in BOOLEAN, Sound(d, t, ok), NEW a, NEW done, Mended(d, a, at, ok, done),
           NEW old \in Fallbacks(d) \ done
    PROVE  Mended(d, Repaired(a, old, d.assets[old], at), at, ok, done \cup {old})
<1> DEFINE row == d.assets[old]
           matches == {x \in DOMAIN a.assets : x[1] = "mac" /\ _legacy_fingerprint_matches(row, a.assets[x])}
           id == CHOOSE x \in matches : TRUE
           e == Repaired(a, old, row, at)
<1>1. e = IF Cardinality(matches) = 1 THEN _merge_identity(a, old, id, at, TRUE) ELSE a
  BY Zenon DEF Repaired
<1>2. /\ Sound(a, at, ok) /\ Calm(a, at, ok)
      /\ DOMAIN a.assets \subseteq DOMAIN d.assets
      /\ \A x \in Fallbacks(d) \ done : x \in DOMAIN a.assets /\ a.assets[x] = d.assets[x]
      /\ \E g : Follows(d, a, g, {})
  BY DEF Mended
<1>3. old \in DOMAIN a.assets /\ a.assets[old] = row /\ old[1] = "ip"
  BY <1>2 DEF Fallbacks
<1>4. matches \subseteq DOMAIN a.assets
  OBVIOUS
<1>5. \A x \in matches : x[1] = "mac" /\ _legacy_fingerprint_matches(row, a.assets[x])
  OBVIOUS
<1> HIDE DEF matches, e, row
<1>6. CASE e = a
  BY <1>2, <1>6 DEF Mended, e, row
<1>7. CASE Cardinality(matches) = 1 /\ e = _merge_identity(a, old, id, at, TRUE)
  <2>1. id \in matches
    <3>1. IsFiniteSet(matches)
      BY <1>2, <1>4, AssetsAreKnown, FS_Subset
    <3>2. PICK x : matches = {x}
      BY <1>7, <3>1, FS_Singleton
    <3> QED
      BY <3>2
  <2> HIDE DEF id
  <2>2. id \in DOMAIN a.assets /\ id[1] = "mac" /\ _legacy_fingerprint_matches(a.assets[old], a.assets[id])
    BY <1>3, <1>4, <1>5, <2>1
  <2>3. a.assets[id].scope = a.assets[old].scope
    BY <2>2, Zenon DEF _legacy_fingerprint_matches
  <2>4. id = <<"mac", id[2]>> /\ id[2] \in Colon
    <3>1. RowFiled(id, a.assets[id])
      BY <1>2, <2>2 DEF Sound, Filed
    <3>2. id = asset_identity(a.assets[id])
      BY <3>1 DEF RowFiled
    <3> QED
      BY <2>2, <3>2, InventoryAssumption DEF asset_identity, _normalize_mac
  <2>5. Mergeable(a, old, id, TRUE)
    BY <1>3, <2>2, <2>4 DEF Mergeable
  <2>6. PICK remove \in BOOLEAN : remove = TRUE
    OBVIOUS
  <2>7. Mergeable(a, old, id, remove) /\ e = _merge_identity(a, old, id, at, remove)
    BY <1>7, <2>5, <2>6
  <2>8. Sound(e, at, ok) /\ Calm(e, at, ok)
    <3>1. Sound(_merge_identity(a, old, id, at, remove), at, ok) /\ Calm(_merge_identity(a, old, id, at, remove), at, ok)
      BY <1>2, <2>7, MergeKeeps
    <3> QED
      BY <2>7, <3>1, Zenon
  <2>9. /\ DOMAIN e.assets = (DOMAIN a.assets \ {old}) \cup {id} /\ old # id
        /\ \A x \in DOMAIN a.assets \ {old, id} : e.assets[x] = a.assets[x]
    <3> DEFINE m == _merge_identity(a, old, id, at, remove)
    <3>0. Filed(a) /\ Mergeable(a, old, id, remove)
      BY <1>2, <2>7 DEF Sound
    <3>1. /\ m = [assets |-> m.assets, events |-> m.events, links |-> m.links]
          /\ m.assets = [x \in DOMAIN m.assets |-> m.assets[x]]
          /\ DOMAIN m.assets = (DOMAIN a.assets \ {old}) \cup {id}
          /\ old # id
          /\ \A x \in DOMAIN a.assets \ {old, id} : m.assets[x] = a.assets[x]
      BY <3>0, MergedRows
    <3>2. m = e
      BY <2>7
    <3> HIDE DEF m
    <3> QED
      BY <3>1, <3>2
  <2>10. \E h : Follows(a, e, h, {})
    <3>1. \E h : Follows(a, _merge_identity(a, old, id, at, remove), h, {})
      BY <1>2, <2>2, <2>3, <2>7, MergeFollows
    <3> QED
      BY <2>7, <3>1
  <2>11. \E g : Follows(d, e, g, {})
    <3>1. PICK g : Follows(d, a, g, {})
      BY <1>2
    <3>2. PICK h : Follows(a, e, h, {})
      BY <2>10
    <3>3. \A x \in DOMAIN d.assets \ DOMAIN a.assets : x \notin DOMAIN e.assets
      BY <2>2, <2>9
    <3>4. Tidy(d) /\ Tidy(a) /\ Tidy(e)
      BY <1>2, <2>8, SoundIsTidy
    <3> QED
      BY <3>1, <3>2, <3>3, <3>4, FollowsOn
  <2>12. \A x \in Fallbacks(d) \ (done \cup {old}) : x \in DOMAIN e.assets /\ e.assets[x] = d.assets[x]
    <3> TAKE x \in Fallbacks(d) \ (done \cup {old})
    <3>1. x[1] = "ip" /\ x \in DOMAIN a.assets /\ a.assets[x] = d.assets[x]
      BY <1>2 DEF Fallbacks
    <3>2. x # id
      BY <2>2, <3>1
    <3> QED
      BY <2>9, <3>1, <3>2
  <2>13. DOMAIN e.assets \subseteq DOMAIN d.assets
    BY <1>2, <2>2, <2>9
  <2> QED
    BY <2>8, <2>11, <2>12, <2>13 DEF Mended, e, row
<1> QED
  BY <1>1, <1>6, <1>7

\* Opening the store leaves a sound database.
LEMMA RepairKeeps ==
    ASSUME NEW d, NEW t \in Nat, NEW at \in Nat, t < at, NEW ok \in BOOLEAN, Sound(d, t, ok)
    PROVE  LET e == repair_legacy_identity_duplicates(d, at)
           IN  Sound(e, at, ok) /\ Kept(d, e) /\ DOMAIN e.assets \subseteq DOMAIN d.assets
<1> DEFINE S == Fallbacks(d)
           n == Cardinality(S)
           f == BySighting(d)
           P(k) == {f[j] : j \in 1..k}
<1>1. IsFiniteSet(S)
  BY FallbacksOrdered
<1>2. /\ n \in Nat
      /\ \A i \in 1..n : f[i] \in S
      /\ \A i, j \in 1..n : f[i] = f[j] => i = j
  <2> DEFINE R == {p \in S \X S : \/ d.assets[p[1]].first < d.assets[p[2]].first
                                  \/ d.assets[p[1]].first = d.assets[p[2]].first /\ p[1][2] < p[2][2]}
  <2>1. StrictOrder(R, S)
    BY FallbacksOrdered
  <2>2. f = Ranked(S, R)
    BY Zenon DEF BySighting
  <2> HIDE DEF R, f, S
  <2>3. LET g == Ranked(S, R)
        IN  /\ Cardinality(S) \in Nat
            /\ \A i \in 1..Cardinality(S) : g[i] \in S
            /\ \A x \in S : \E i \in 1..Cardinality(S) : g[i] = x
            /\ \A i, j \in 1..Cardinality(S) : g[i] = g[j] => i = j
    BY <1>1, <2>1, RankedOnce
  <2> QED
    BY <2>2, <2>3
<1>3. PICK after : /\ \A i \in 1..n : after[i] = Repaired(after[i - 1], f[i], d.assets[f[i]], at)
                   /\ after[0] = d
                   /\ repair_legacy_identity_duplicates(d, at) = after[n]
  BY <1>1, RepairsOneByOne
<1> DEFINE Holds(k) == Mended(d, after[k], at, ok, P(k))
           Fails == {k \in 0..n : ~Holds(k)}
<1> HIDE DEF f, n, S
<1>4. Holds(0)
  <2>1. \A v \in d.events : v.at \in 0..t
    BY DEF Sound, Filed
  <2>2. Calm(d, at, ok)
    BY <2>1 DEF Calm
  <2>3. Sound(d, at, ok)
    BY SoundLater
  <2>4. \E g : Follows(d, d, g, {})
    BY NobodyMoves
  <2>5. Fallbacks(d) \subseteq DOMAIN d.assets
    BY DEF Fallbacks
  <2> HIDE DEF P
  <2> QED
    BY <1>3, <2>2, <2>3, <2>4, <2>5 DEF Mended
<1>5. ASSUME NEW k \in Nat, k < n, Holds(k) PROVE Holds(k + 1)
  <2> DEFINE old == f[k + 1]
  <2>1. k + 1 \in 1..n /\ (k + 1) - 1 = k
    BY <1>2, <1>5
  <2>2. old \in S \ P(k)
    <3>1. \A j \in 1..k : j \in 1..n /\ j # k + 1
      BY <1>2, <1>5
    <3> QED
      BY <1>2, <2>1, <3>1
  <2>3. P(k + 1) = P(k) \cup {old}
    <3>1. 1..(k + 1) = (1..k) \cup {k + 1}
      OBVIOUS
    <3> QED
      BY <3>1
  <2>4. after[k + 1] = Repaired(after[k], old, d.assets[old], at)
    BY <1>3, <2>1
  <2> HIDE DEF P, old
  <2>5. Mended(d, Repaired(after[k], old, d.assets[old], at), at, ok, P(k) \cup {old})
    BY <1>5, <2>2, OneMended DEF S
  <2> QED
    BY <2>3, <2>4, <2>5
<1>6. Fails = {}
  <2> SUFFICES ASSUME Fails # {} PROVE FALSE
    OBVIOUS
  <2> HIDE DEF Holds
  <2>1. Fails \in SUBSET Nat
    BY <1>2
  <2>2. PICK k \in Fails : \A j \in Fails : k <= j
    <3> HIDE DEF Fails
    <3> QED
      BY <2>1, Smallest
  <2>3. k \in Nat /\ k <= n /\ ~Holds(k)
    BY <1>2
  <2>4. k # 0
    BY <1>4, <2>3
  <2>5. k - 1 \in Nat /\ k - 1 < n /\ k - 1 \in 0..n /\ (k - 1) + 1 = k
    BY <1>2, <2>3, <2>4
  <2>6. k - 1 \notin Fails
    <3> HIDE DEF Fails
    <3> QED
      BY <2>2, <2>3, <2>5
  <2>7. Holds(k - 1)
    BY <2>5, <2>6
  <2>8. Holds((k - 1) + 1)
    BY <1>5, <2>5, <2>7
  <2> QED
    BY <2>3, <2>5, <2>8
<1>7. Holds(n)
  <2> HIDE DEF Holds
  <2> QED
    BY <1>2, <1>6
<1> DEFINE e == after[n]
<1> HIDE DEF P, e
<1>8. Mended(d, e, at, ok, P(n))
  BY <1>7 DEF e
<1>9. Sound(e, at, ok) /\ DOMAIN e.assets \subseteq DOMAIN d.assets /\ \E g : Follows(d, e, g, {})
  BY <1>8 DEF Mended
<1>10. Kept(d, e)
  <2>1. PICK g : Follows(d, e, g, {})
    BY <1>9
  <2> QED
    BY <2>1, KeptBy
<1> QED
  BY <1>3, <1>9, <1>10 DEF e

-----------------------------------------------------------------------------
(* The windows keep what the inventory says. *)

\* The database is sound at every moment, a scan is one of hosts of its scope, and a row that was read and
\* not yet written is that of its asset.
IInv ==
    /\ Sound(db, now, timely) /\ now \in Nat /\ timely \in BOOLEAN
    /\ scan # NoScan => Hostly(scan.scope, scan.found) /\ scan.todo \subseteq scan.found
    /\ \A h \in held : HeldRow(h) /\ (h.at = NoTime \/ h.at \in 0..now)

\* How an asset that was not there may have come into the database.
Entered(x) ==
    \/ scan # NoScan /\ \E o \in scan.found : x = asset_identity(o)
    \/ \E h \in held \ held' : x = h.id

\* What a step does to the database.
Keeps ==
    /\ Sound(db', now', timely') /\ Kept(db, db')
    /\ \A x \in DOMAIN db'.assets \ DOMAIN db.assets : Entered(x)

\* What a complete scan does to it.
Exact(d, e, s, found, at) ==
    /\ {x \in DOMAIN e.assets : e.assets[x].scope = s /\ e.assets[x].online} = Known(found)
    /\ \A v \in e.events : v.at = at /\ Steady(d, s, found, v.asset) => v.type \in {"device_disappeared", "reconciled"}

\* A scan that is recorded, with the relationships built from it or without them.
LEMMA FinishedKeeps ==
    ASSUME Apart, NEW d, NEW t \in Nat, NEW at \in Nat, t < at, NEW ok \in BOOLEAN, Sound(d, t, ok),
           NEW s, NEW found, Hostly(s, found),
           NEW e, LET r == record_scan(d, s, found, at)
                  IN  e \in {r} \cup {replace_logical(r, s, links) :
                                links \in UNION {build_relationships(r, s, gateway) : gateway \in InScope[s] \cup {0}}}
    PROVE  /\ Sound(e, at, ok) /\ Kept(d, e) /\ Exact(d, e, s, found, at)
           /\ DOMAIN e.assets \subseteq DOMAIN d.assets \cup Known(found)
<1> DEFINE r == record_scan(d, s, found, at)
           u == Upserted(d, s, found, at)
<1>0. /\ Sound(u, at, ok) /\ Sound(r, at, ok) /\ \E g : Follows(d, u, g, {s})
      /\ DOMAIN r.assets = DOMAIN u.assets /\ r.links = u.links
      /\ \A x \in DOMAIN u.assets : /\ r.assets[x].first = u.assets[x].first
                                    /\ r.assets[x].scope = u.assets[x].scope
      /\ {x \in DOMAIN r.assets : r.assets[x].scope = s /\ r.assets[x].online} = Known(found)
      /\ \A v \in r.events : v.at = at /\ Steady(d, s, found, v.asset) =>
             v.type \in {"device_disappeared", "reconciled"}
  BY ScanRecorded
<1>1. /\ Sound(r, at, ok) /\ \E g : Follows(d, u, g, {s})
      /\ DOMAIN r.assets = DOMAIN u.assets /\ r.links = u.links
      /\ \A x \in DOMAIN u.assets : r.assets[x].first = u.assets[x].first /\ r.assets[x].scope = u.assets[x].scope
  BY <1>0
<1>2. Exact(d, r, s, found, at)
  BY <1>0 DEF Exact
<1>3. e = r \/ \E gateway : \E links \in build_relationships(r, s, gateway) : e = replace_logical(r, s, links)
  OBVIOUS
<1>8. DOMAIN r.assets \subseteq DOMAIN d.assets \cup Known(found)
  <2>1. Recorded(d, u, s, found, at, found)
    BY AllRecorded
  <2> HIDE DEF r, u
  <2> QED
    BY <1>1, <2>1 DEF Recorded
<1> HIDE DEF r, u
<1>4. PICK g : Follows(d, u, g, {s})
  BY <1>1
<1>5. Sound(e, at, ok) /\ e.assets = r.assets /\ e.events = r.events /\ \A l \in r.links : Physical(l) => l \in e.links
  <2>1. CASE e = r
    BY <1>1, <2>1
  <2>2. ASSUME NEW gateway, NEW links \in build_relationships(r, s, gateway), e = replace_logical(r, s, links)
        PROVE  Sound(e, at, ok) /\ e.assets = r.assets /\ e.events = r.events /\ \A l \in r.links : Physical(l) => l \in e.links
    BY <1>1, <2>2, LogicalKeeps
  <2> QED
    BY <1>3, <2>1, <2>2
<1>6. Kept(d, e)
  BY <1>1, <1>4, <1>5, KeptBy
<1>7. Exact(d, e, s, found, at)
  BY <1>2, <1>5 DEF Exact
<1> QED
  BY <1>5, <1>6, <1>7, <1>8

\* One host that the worker tells of.
LEMMA ToldKeeps ==
    ASSUME Apart, NEW d, NEW t \in Nat, NEW at \in Nat, t < at, NEW ok \in BOOLEAN, Sound(d, t, ok),
           NEW s \in Scopes, NEW o, o.ip \in InScope[s]
    PROVE  LET e == _upsert_device(d, s, o, {}, at)
           IN  Sound(e, at, ok) /\ Kept(d, e) /\ DOMAIN e.assets \subseteq DOMAIN d.assets \cup {asset_identity(o)}
<1> DEFINE e == _upsert_device(d, s, o, {}, at)
<1>1. Sound(d, at, ok) /\ Calm(d, at, ok)
  <2>1. \A v \in d.events : v.at \in 0..t
    BY DEF Sound, Filed
  <2>2. Calm(d, at, ok)
    BY <2>1 DEF Calm
  <2> QED
    BY <2>2, SoundLater
<1>3. Sound(e, at, ok)
  BY <1>1, UpsertKeeps
<1>4. WroteRows(d, e, s, o) /\ WroteLinks(d, e, o)
  BY <1>1, UpsertWrites
<1> HIDE DEF e
<1>5. PICK g : Follows(d, e, g, {s})
  BY <1>3, <1>4, UpsertFollows
<1>6. Kept(d, e)
  BY <1>5, KeptBy
<1>7. DOMAIN e.assets \subseteq DOMAIN d.assets \cup {asset_identity(o)}
  BY <1>4 DEF WroteRows
<1> QED
  BY <1>3, <1>6, <1>7 DEF e

\* Time passes.
LEMMA Ticks == ASSUME IInv, Tick PROVE now' \in Nat /\ now < now' /\ now <= now'
  BY DEF IInv, Tick

\* The rows that are held stay what they are while time passes.
LEMMA HeldLater ==
    ASSUME IInv, NEW t \in Nat, now <= t, NEW h \in held
    PROVE  HeldRow(h) /\ (h.at = NoTime \/ h.at \in 0..t)
  BY DEF IInv

\* A step that leaves the database and the time keeps what the inventory says.
LEMMA IdleKeeps ==
    ASSUME IInv, db' = db, now' = now, timely' = timely
    PROVE  Keeps
<1>1. Sound(db, now, timely) /\ timely \in BOOLEAN
  BY DEF IInv
<1>2. Kept(db, db)
  BY <1>1, SameIsKept
<1> QED
  BY <1>1, <1>2 DEF Keeps

\* The asset that is read for its fingerprints is held as it was read.
LEMMA ReadKeeps ==
    ASSUME IInv, NEW by, NEW id \in DOMAIN db.assets, NEW prints, Read(by, id, prints)
    PROVE  IInv' /\ Keeps
<1>1. Sound(db, now, timely) /\ now \in Nat /\ timely \in BOOLEAN /\ db' = db /\ scan' = scan /\ timely' = timely
      /\ (scan # NoScan => Hostly(scan.scope, scan.found) /\ scan.todo \subseteq scan.found)
  BY DEF IInv, Read
<1>2. now' \in Nat /\ now <= now'
  BY <1>1, Ticks DEF Read
<1>3. PICK at : held' = held \cup Reading(by, id, db.assets[id], prints, at) /\ at \in {now', NoTime}
  BY DEF Read
<1>4. ASSUME NEW h \in Reading(by, id, db.assets[id], prints, at) PROVE h.id = id /\ h.row = db.assets[id] /\ h.at = at
  BY <1>4 DEF Reading
<1>5. HeldRow([id |-> id, row |-> db.assets[id]])
  <2>1. RowFiled(id, db.assets[id])
    BY <1>1 DEF Sound, Filed
  <2> QED
    BY <2>1 DEF RowFiled, HeldRow
<1>6. ASSUME NEW h \in held' PROVE HeldRow(h) /\ (h.at = NoTime \/ h.at \in 0..now')
  <2>1. CASE h \in held
    BY <1>2, <2>1, HeldLater
  <2>2. CASE h \notin held
    BY <1>2, <1>3, <1>4, <1>5, <2>2 DEF HeldRow
  <2> QED
    BY <2>1, <2>2
<1>7. Sound(db', now', timely')
  <2>1. Sound(db, now', timely)
    BY <1>1, <1>2, SoundLater
  <2> QED
    BY <1>1, <2>1
<1>8. Kept(db, db')
  BY <1>1, SameIsKept
<1>9. IInv'
  BY <1>1, <1>2, <1>6, <1>7 DEF IInv
<1> QED
  BY <1>1, <1>7, <1>8, <1>9 DEF Keeps

\* The write leaves the database sound, and its timeline as much of an explanation as its time is late.
LEMMA WriteKeeps ==
    ASSUME Apart, IInv, NEW h \in held, WritePrints(h)
    PROVE  IInv' /\ Keeps
<1>1. Sound(db, now, timely) /\ now \in Nat /\ timely \in BOOLEAN
      /\ (scan # NoScan => Hostly(scan.scope, scan.found) /\ scan.todo \subseteq scan.found)
  BY DEF IInv
<1>2. held' = held \ {h} /\ scan' = scan
  BY DEF WritePrints
<1>3. now' \in Nat /\ now <= now'
  BY <1>1, Ticks DEF WritePrints
<1>4. \A k \in held' : HeldRow(k) /\ (k.at = NoTime \/ k.at \in 0..now')
  BY <1>2, <1>3, HeldLater
<1>5. CASE UNCHANGED <<db, now, timely>>
  <2>1. Keeps
    BY <1>5, IdleKeeps
  <2> QED
    BY <1>1, <1>2, <1>4, <1>5, <2>1 DEF IInv
<1>6. CASE ~UNCHANGED <<db, now, timely>>
  <2> DEFINE at == IF h.at = NoTime THEN now' ELSE h.at
  <2>1. /\ h.at = NoTime => Tick
        /\ h.at # NoTime => now' = now
        /\ db' = persist_asset_fingerprints(db, h, at)
        /\ IF \A e \in db.events : e.at < at THEN timely' = timely ELSE timely' = FALSE
    BY <1>6, Zenon DEF WritePrints
  <2>2. at \in Nat /\ at <= now'
    BY <1>3, <2>1, <1>1, HeldLater
  <2>3. timely' \in BOOLEAN /\ Sound(db, now', timely') /\ Calm(db, at, timely')
    <3> HIDE DEF at
    <3>1. CASE \A e \in db.events : e.at < at
      <4>1. timely' = timely
        BY <2>1, <3>1
      <4>2. \A e \in db.events : e.at \in Nat
        BY <1>1 DEF Sound, Filed
      <4>3. Calm(db, at, timely)
        BY <2>2, <3>1, <4>2 DEF Calm
      <4>4. Sound(db, now', timely)
        BY <1>1, <1>3, SoundLater
      <4> QED
        BY <1>1, <4>1, <4>3, <4>4
    <3>2. CASE ~\A e \in db.events : e.at < at
      <4>1. timely' = FALSE
        BY <2>1, <3>2
      <4>2. Sound(db, now', timely)
        BY <1>1, <1>3, SoundLater
      <4>3. Sound(db, now', FALSE) /\ Calm(db, at, FALSE)
        BY <1>1, <4>2, SoundAnyway DEF Calm
      <4> QED
        BY <4>1, <4>3
    <3> QED
      BY <3>1, <3>2
  <2>4. HeldRow(h)
    BY <1>1, HeldLater
  <2> HIDE DEF at
  <2>5. Sound(db', now', timely') /\ Kept(db, db') /\ DOMAIN db'.assets \subseteq DOMAIN db.assets \cup {h.id}
    <3>1. PICK ok \in BOOLEAN : ok = timely'
      BY <2>3
    <3>2. PICK e : e = persist_asset_fingerprints(db, h, at)
      OBVIOUS
    <3>3. Sound(e, now', ok) /\ Kept(db, e) /\ DOMAIN e.assets \subseteq DOMAIN db.assets \cup {h.id}
      BY <1>3, <2>2, <2>3, <2>4, <3>1, <3>2, PrintsKeep
    <3> QED
      BY <2>1, <3>1, <3>2, <3>3
  <2>6. Keeps
    BY <1>2, <2>5 DEF Keeps, Entered
  <2> QED
    BY <1>1, <1>2, <1>3, <1>4, <2>3, <2>5, <2>6 DEF IInv
<1> QED
  BY <1>5, <1>6

\* Every action of the windows keeps the invariant, and loses no asset.
LEMMA StepKeeps ==
    ASSUME Apart, IInv, Next
    PROVE  IInv' /\ Keeps
<1>1. /\ Sound(db, now, timely) /\ now \in Nat /\ timely \in BOOLEAN
      /\ scan # NoScan => Hostly(scan.scope, scan.found) /\ scan.todo \subseteq scan.found
  BY DEF IInv
<1>2. \A h \in held : HeldRow(h) /\ (h.at = NoTime \/ h.at \in 0..now)
  BY DEF IInv
<1>3. ASSUME db' = db, now' = now, timely' = timely PROVE Keeps
  BY <1>3, IdleKeeps
<1>4. ASSUME NEW s \in Scopes, NEW found \in SUBSET Hosts(s), start_scan(s, found)
      PROVE  IInv' /\ Keeps
  <2>1. db' = db /\ now' = now /\ held' = held /\ timely' = timely /\ scan' = [scope |-> s, found |-> found, todo |-> found]
    BY <1>4 DEF start_scan
  <2>2. Hostly(s, found)
    BY <1>4 DEF start_scan, Hostly
  <2>3. scan'.scope = s /\ scan'.found = found /\ scan'.todo = found
    BY <2>1
  <2>4. Keeps
    BY <1>3, <2>1
  <2> QED
    BY <1>1, <1>2, <2>1, <2>2, <2>3, <2>4 DEF IInv
<1>5. ASSUME NEW o \in Observations, _handle_progress(o) PROVE IInv' /\ Keeps
  <2>1. scan # NoScan /\ o \in scan.todo /\ scan' = [scan EXCEPT !.todo = @ \ {o}] /\ held' = held /\ timely' = timely
    BY <1>5 DEF _handle_progress
  <2>2. Hostly(scan'.scope, scan'.found) /\ scan'.todo \subseteq scan'.found
    BY <1>1, <2>1
  <2>3. CASE Tick /\ db' = _upsert_device(db, scan.scope, o, {}, now')
    <3>1. now' \in Nat /\ now < now' /\ now <= now'
      BY <2>3, Ticks
    <3>2. scan.scope \in Scopes /\ o.ip \in InScope[scan.scope] /\ o \in scan.found
      BY <1>1, <2>1 DEF Hostly
    <3>3. Sound(db', now', timely) /\ Kept(db, db') /\ DOMAIN db'.assets \subseteq DOMAIN db.assets \cup {asset_identity(o)}
      BY <1>1, <2>3, <3>1, <3>2, ToldKeeps
    <3>4. Keeps
      BY <2>1, <3>2, <3>3 DEF Keeps, Entered
    <3>5. \A h \in held : HeldRow(h) /\ (h.at = NoTime \/ h.at \in 0..now')
      BY <3>1, HeldLater
    <3> QED
      BY <1>1, <2>1, <2>2, <3>1, <3>3, <3>4, <3>5 DEF IInv
  <2>4. CASE UNCHANGED <<db, now>>
    BY <1>1, <1>2, <1>3, <2>1, <2>2, <2>4 DEF IInv
  <2> QED
    BY <1>5, <2>3, <2>4 DEF _handle_progress
<1>6. ASSUME _scan_finished PROVE IInv' /\ Keeps
  <2>1. scan # NoScan /\ scan' = NoScan /\ held' = held /\ timely' = timely
    BY <1>6 DEF _scan_finished
  <2>2. CASE Tick /\ LET d == record_scan(db, scan.scope, scan.found, now')
                     IN  db' \in {d} \cup {replace_logical(d, scan.scope, links) :
                                    links \in UNION {build_relationships(d, scan.scope, gateway) :
                                                        gateway \in InScope[scan.scope] \cup {0}}}
    <3>1. now' \in Nat /\ now < now' /\ now <= now'
      BY <2>2, Ticks
    <3>2. Sound(db', now', timely) /\ Kept(db, db') /\ DOMAIN db'.assets \subseteq DOMAIN db.assets \cup Known(scan.found)
      BY <1>1, <2>1, <2>2, <3>1, FinishedKeeps
    <3>3. Keeps
      BY <2>1, <3>2 DEF Keeps, Entered, Known
    <3>4. \A h \in held : HeldRow(h) /\ (h.at = NoTime \/ h.at \in 0..now')
      BY <3>1, HeldLater
    <3> QED
      BY <1>1, <2>1, <3>1, <3>2, <3>3, <3>4 DEF IInv
  <2>3. CASE UNCHANGED <<db, now>>
    BY <1>1, <1>2, <1>3, <2>1, <2>3 DEF IInv
  <2> QED
    BY <1>6, <2>2, <2>3 DEF _scan_finished
<1>7. ASSUME _scan_cancelled PROVE IInv' /\ Keeps
  <2>1. scan' = NoScan /\ db' = db /\ now' = now /\ held' = held /\ timely' = timely
    BY <1>7 DEF _scan_cancelled
  <2> QED
    BY <1>1, <1>2, <1>3, <2>1 DEF IInv
<1>8. ASSUME NEW s \in Scopes, NEW file \in LinkFiles, import_physical_evidence(s, file) PROVE IInv' /\ Keeps
  <2>1. now' = now /\ scan' = scan /\ held' = held /\ timely' = timely
    BY <1>8 DEF import_physical_evidence
  <2>2. PICK links \in import_physical_snapshot(db, s, file) : db' = replace_physical(db, s, links)
    BY <1>8 DEF import_physical_evidence
  <2>3. Sound(db', now, timely) /\ db'.assets = db.assets
    BY <1>1, <2>2, ImportKeeps
  <2>4. Kept(db, db')
    BY <1>1, <2>3, SameIsKept
  <2> QED
    BY <1>1, <1>2, <2>1, <2>3, <2>4 DEF IInv, Keeps
<1>9. ASSUME NEW s \in Scopes, NEW c \in {0, now}, run_scheduled_fingerprinting(s, c) PROVE IInv' /\ Keeps
  <2>1. db' = db /\ now' = now /\ scan' = scan /\ held' = held /\ timely' = timely
    BY <1>9 DEF run_scheduled_fingerprinting
  <2> QED
    BY <1>1, <1>2, <1>3, <2>1 DEF IInv
<1>10. ASSUME NEW pick \in picked, NEW p \in Prints, ApplyPrints(pick, {p}) PROVE IInv' /\ Keeps
  <2>1. pick.id \in DOMAIN db.assets /\ Read("run", pick.id, {p})
    BY <1>10 DEF ApplyPrints
  <2> QED
    BY <2>1, ReadKeeps
<1>11. ASSUME FailRun PROVE IInv' /\ Keeps
  <2>1. db' = db /\ now' = now /\ scan' = scan /\ held' = held /\ timely' = timely
    BY <1>11 DEF FailRun
  <2> QED
    BY <1>1, <1>2, <1>3, <2>1 DEF IInv
<1>12. ASSUME NEW p \in Prints, apply_fingerprints_to_inventory(p) PROVE IInv' /\ Keeps
  <2>1. PICK x \in DOMAIN db.assets : Read("windows", x, {p})
    BY <1>12 DEF apply_fingerprints_to_inventory
  <2> QED
    BY <2>1, ReadKeeps
<1>13. ASSUME NEW h \in held, WritePrints(h) PROVE IInv' /\ Keeps
  BY <1>13, WriteKeeps
<1>14. ASSUME Restart PROVE IInv' /\ Keeps
  <2>1. Tick /\ db' = repair_legacy_identity_duplicates(db, now') /\ scan' = NoScan /\ held' = {} /\ timely' = timely
    BY <1>14 DEF Restart
  <2>2. now' \in Nat /\ now < now'
    BY <2>1, Ticks
  <2>3. timely \in BOOLEAN /\ Sound(db, now, timely) /\ now \in Nat
    BY <1>1 DEF IInv
  <2>4. LET e == repair_legacy_identity_duplicates(db, now')
        IN  Sound(e, now', timely) /\ Kept(db, e) /\ DOMAIN e.assets \subseteq DOMAIN db.assets
    BY <2>2, <2>3, RepairKeeps
  <2>5. Sound(db', now', timely) /\ Kept(db, db') /\ DOMAIN db'.assets \subseteq DOMAIN db.assets
    BY <2>1, <2>4
  <2> QED
    BY <1>1, <2>1, <2>2, <2>5 DEF IInv, Keeps
<1> QED
  BY <1>4, <1>5, <1>6, <1>7, <1>8, <1>9, <1>10, <1>11, <1>12, <1>13, <1>14 DEF Next

-----------------------------------------------------------------------------
(* The theorems. *)

\* The store is empty, or one that an older version left.
LEMMA InitSound ==
    ASSUME Init
    PROVE  IInv
<1>1. now = 2 /\ now \in Nat /\ scan = NoScan /\ held = {} /\ timely = TRUE /\ (db = Empty \/ db \in Legacy)
  BY DEF Init
<1>2. CASE db = Empty
  <2>1. db = [assets |-> <<>>, events |-> {}, links |-> {}]
    BY <1>2 DEF Empty
  <2>2. DOMAIN db.assets = {} /\ db.events = {} /\ db.links = {}
    BY <2>1
  <2>3. IsFiniteSet(DOMAIN db.assets)
    BY <2>2, FS_EmptySet
  <2>4. db = [assets |-> [x \in DOMAIN db.assets |-> db.assets[x]], events |-> db.events, links |-> db.links]
    BY <2>1
  <2>5. Filed(db)
    BY <2>2, <2>3, <2>4 DEF Filed
  <2>6. Explains(db) /\ ReferencesExist(db)
    BY <2>2 DEF Explains, TimelineExplainsPresence, ReferencesExist
  <2> QED
    BY <1>1, <2>2, <2>5, <2>6 DEF IInv, Sound
<1>3. CASE db \in Legacy
  BY <1>1, <1>3, LegacyAssumption DEF IInv
<1> QED
  BY <1>1, <1>2, <1>3

\* A step that changes nothing does too.
LEMMA StutterKeeps ==
    ASSUME IInv, UNCHANGED vars
    PROVE  IInv' /\ Keeps
<1>1. db' = db /\ now' = now /\ scan' = scan /\ held' = held /\ timely' = timely
  BY DEF vars
<1>2. Keeps
  BY <1>1, IdleKeeps
<1> QED
  BY <1>1, <1>2 DEF IInv

\* A step that records a scan does what ScanIsExact says.
LEMMA ScanStep ==
    ASSUME Apart, IInv, _scan_finished, now' # now
    PROVE  Exact(db, db', scan.scope, scan.found, now')
<1>1. scan # NoScan
  BY DEF _scan_finished
<1>2. Tick /\ LET d == record_scan(db, scan.scope, scan.found, now')
              IN  db' \in {d} \cup {replace_logical(d, scan.scope, links) :
                             links \in UNION {build_relationships(d, scan.scope, gateway) :
                                                 gateway \in InScope[scan.scope] \cup {0}}}
  BY DEF _scan_finished
<1>3. now' \in Nat /\ now < now'
  BY <1>2, Ticks
<1>4. Sound(db, now, timely) /\ timely \in BOOLEAN /\ now \in Nat /\ Hostly(scan.scope, scan.found)
  BY <1>1 DEF IInv
<1>5. PICK ok \in BOOLEAN : Sound(db, now, ok)
  BY <1>4
<1>6. LET r == record_scan(db, scan.scope, scan.found, now')
      IN  db' \in {r} \cup {replace_logical(r, scan.scope, links) :
                             links \in UNION {build_relationships(r, scan.scope, gateway) :
                                                 gateway \in InScope[scan.scope] \cup {0}}}
  BY <1>2
<1> QED
  BY <1>3, <1>4, <1>5, <1>6, FinishedKeeps

\* The invariant holds at every moment of the program (window.py, inventory.py, identity.py).
THEOREM InventoryInvariant ==
    ASSUME Apart
    PROVE  Spec => []IInv
<1>1. Init => IInv
  BY InitSound
<1>2. IInv /\ [Next]_vars => IInv'
  BY StepKeeps, StutterKeeps
<1> QED
  BY <1>1, <1>2, PTL DEF Spec

\* At every moment entries and relationships are about assets that exist, and the timeline explains the
\* presence of every asset, as long as no fingerprints were written with a time that other entries had
\* already passed (inventory.py, identity.py, relationship_store.py, fingerprints.py).
THEOREM InventoryIsConsistent ==
    ASSUME Apart
    PROVE  Spec => []Consistent
<1>1. IInv => Consistent
  BY DEF IInv, Sound, Explains, Consistent
<1> QED
  BY <1>1, InventoryInvariant, PTL

\* No step loses an asset, its earliest sighting or the physical links between assets that stay, and an
\* asset enters only as a host of the scan, or with fingerprints that were read before it was
\* merged into another (identity.py, fingerprints.py, relationship_store.py).
THEOREM NothingIsForgotten ==
    ASSUME Apart
    PROVE  Spec => NothingForgotten
<1>1. IInv /\ [Next]_vars => Keeps
  BY StepKeeps, StutterKeeps
<1>2. Keeps =>
       /\ \A x \in DOMAIN db.assets \ DOMAIN db'.assets :
            /\ x[1] = "ip"
            /\ \E y \in DOMAIN db'.assets :
                  /\ y[1] = "mac" /\ db'.assets[y].scope = db.assets[x].scope
                  /\ db'.assets[y].first <= db.assets[x].first
                  /\ \A l \in db.links : Physical(l) /\ x \in {l.src, l.dst}
                        /\ {l.src, l.dst} \ {x} \subseteq DOMAIN db'.assets \ {y} =>
                        \E m \in db'.links : SameKey(m, Moved(l, x, y))
       /\ \A x \in DOMAIN db.assets \cap DOMAIN db'.assets : db'.assets[x].first <= db.assets[x].first
       /\ \A x \in DOMAIN db'.assets \ DOMAIN db.assets :
            \/ scan # NoScan /\ \E o \in scan.found : x = asset_identity(o)
            \/ \E h \in held \ held' : x = h.id
  BY DEF Keeps, Kept, Entered
<1> QED
  BY <1>1, <1>2, InventoryInvariant, PTL DEF Spec, NothingForgotten

\* A scan that is recorded leaves online, of its scope, exactly the hosts it found, and tells nothing
\* new of a device that was already as it was found (record_scan in inventory.py).
THEOREM ScansAreExact ==
    ASSUME Apart
    PROVE  Spec => ScanIsExact
<1> DEFINE Steady1(x) == x \in DOMAIN db.assets /\ \A o \in scan.found :
                            asset_identity(o) = x => /\ db.assets[x].online /\ db.assets[x].scope = scan.scope
                                                     /\ db.assets[x].ip = o.ip /\ db.assets[x].kind = o.kind
                                                     /\ db.assets[x].ports = o.ports
<1>1. ASSUME IInv, _scan_finished, now' # now
      PROVE  /\ {x \in DOMAIN db'.assets : db'.assets[x].scope = scan.scope /\ db'.assets[x].online}
                = {asset_identity(o) : o \in scan.found}
             /\ \A e \in {e \in db'.events : e.at = now'} :
                   Steady1(e.asset) => e.type \in {"device_disappeared", "reconciled"}
  <2>1. Exact(db, db', scan.scope, scan.found, now')
    BY <1>1, ScanStep
  <2>2. ASSUME NEW x, Steady1(x) PROVE Steady(db, scan.scope, scan.found, x)
    BY <2>2 DEF Steady, Steadily
  <2> QED
    BY <2>1, <2>2 DEF Exact, Known
<1>2. IInv /\ [Next]_vars =>
        (_scan_finished /\ now' # now =>
        LET s == scan.scope
            added == {e \in db'.events : e.at = now'}
            Steadied(x) == x \in DOMAIN db.assets /\ \A o \in scan.found :
                            asset_identity(o) = x => /\ db.assets[x].online /\ db.assets[x].scope = s
                                                     /\ db.assets[x].ip = o.ip /\ db.assets[x].kind = o.kind
                                                     /\ db.assets[x].ports = o.ports
        IN  /\ {x \in DOMAIN db'.assets : db'.assets[x].scope = s /\ db'.assets[x].online}
               = {asset_identity(o) : o \in scan.found}
            /\ \A e \in added : Steadied(e.asset) => e.type \in {"device_disappeared", "reconciled"})
  BY <1>1
<1> QED
  BY <1>2, InventoryInvariant, PTL DEF Spec, ScanIsExact

=============================================================================
