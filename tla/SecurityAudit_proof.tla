------------------------- MODULE SecurityAudit_proof -------------------------
(***************************************************************************)
(* Proofs about SecurityAudit, for any contents of the menus, any sets of  *)
(* menus a device may have, whatever requests are lost, and any log: it is *)
(* type-correct, an audit that returns has asked for every menu, what it   *)
(* reports is what the rows it was given warrant, the worst first, and the *)
(* security events are the latest ones.                                    *)
(***************************************************************************)
EXTENDS SecurityAudit, FiniteSetTheorems, SequenceTheorems, TLAPS

-----------------------------------------------------------------------------
(* What a list comprehension keeps.                                         *)

\* The places kept are counted off in their order: a place is the one of its
\* rank, because ranks grow with the places and there are as many.
LEMMA PlacesInOrder ==
    ASSUME NEW n \in Nat, NEW S \in SUBSET (1..n)
    PROVE  /\ IsFiniteSet(S) /\ Cardinality(S) \in Nat
           /\ \A k \in 1..Cardinality(S) : Place(S, k) \in S
           /\ \A i \in S : /\ Cardinality({j \in S : j <= i}) \in 1..Cardinality(S)
                           /\ Place(S, Cardinality({j \in S : j <= i})) = i
           /\ \A k, l \in 1..Cardinality(S) : k < l => Place(S, k) < Place(S, l)
<1> DEFINE UpTo(i) == {j \in S : j <= i}
           Rank == [i \in S |-> Cardinality(UpTo(i))]
           N == Cardinality(S)
<1>1. IsFiniteSet(S) /\ N \in Nat /\ \A i \in S : i \in Int
  <2>1. IsFiniteSet(1..n)
    BY FS_Interval
  <2>2. IsFiniteSet(S)
    BY <2>1, FS_Subset
  <2> QED
    BY <2>2, FS_CardinalityType
<1>2. \A i \in S : /\ UpTo(i) \in SUBSET S /\ i \in UpTo(i)
                   /\ IsFiniteSet(UpTo(i)) /\ Rank[i] \in Nat /\ Rank[i] <= N
  <2> TAKE i \in S
  <2>1. UpTo(i) \in SUBSET S /\ i \in UpTo(i)
    BY <1>1
  <2>2. IsFiniteSet(UpTo(i)) /\ Cardinality(UpTo(i)) <= N
    BY <1>1, <2>1, FS_Subset
  <2> QED
    BY <2>1, <2>2, FS_CardinalityType
<1>3. \A i \in S : Rank[i] \in 1..N
  <2> TAKE i \in S
  <2>1. Cardinality(UpTo(i)) # 0
    BY <1>2, FS_EmptySet
  <2> QED
    BY <1>1, <1>2, <2>1
<1>4. \A i, j \in S : i < j => Rank[i] < Rank[j]
  <2> SUFFICES ASSUME NEW i \in S, NEW j \in S, i < j PROVE Rank[i] < Rank[j]
    OBVIOUS
  <2>0. j <= j /\ ~(j <= i) /\ \A k \in S : k <= i => k <= j
    BY <1>1
  <2>1. UpTo(i) \subseteq UpTo(j) /\ j \in UpTo(j) /\ j \notin UpTo(i)
    BY <2>0, Zenon
  <2>2. Cardinality(UpTo(i)) <= Cardinality(UpTo(j)) /\ Cardinality(UpTo(i)) # Cardinality(UpTo(j))
    BY <1>2, <2>1, FS_Subset
  <2> QED
    BY <1>2, <2>2
<1> HIDE DEF UpTo
<1>5. Rank \in [S -> 1..N]
  BY <1>3
<1>6. \A i, j \in S : Rank[i] = Rank[j] => i = j
  BY <1>1, <1>2, <1>4
<1>7. Rank \in Injection(S, 1..N)
  BY <1>5, <1>6 DEF Injection, IsInjective
<1>8. IsFiniteSet(1..N) /\ Cardinality(1..N) = N
  BY <1>1, FS_Interval
<1>9. \A k \in 1..N : \E i \in S : Rank[i] = k
  <2>1. Rank \in Surjection(S, 1..N)
    BY <1>7, <1>8, FS_Injection
  <2> QED
    BY <2>1 DEF Surjection
<1>10. \A k \in 1..N : Place(S, k) \in S /\ Rank[Place(S, k)] = k
  BY <1>9 DEF Place, UpTo
<1>11. \A i \in S : Place(S, Rank[i]) = i
  BY <1>3, <1>6, <1>10
<1>12. \A k, l \in 1..N : k < l => Place(S, k) < Place(S, l)
  <2> SUFFICES ASSUME NEW k \in 1..N, NEW l \in 1..N, k < l PROVE Place(S, k) < Place(S, l)
    OBVIOUS
  <2>1. Place(S, k) \in S /\ Place(S, l) \in S
    BY <1>10
  <2>2. Rank[Place(S, k)] = k /\ Rank[Place(S, l)] = l
    BY <1>10
  <2> HIDE DEF Rank
  <2>3. /\ k \in Int /\ l \in Int
        /\ Place(S, k) \in Int /\ Place(S, l) \in Int
    <3> HIDE DEF N
    <3>1. k \in Int /\ l \in Int
      BY <1>1
    <3> QED
      BY <1>1, <2>1, <3>1
  <2>4. ~(Rank[Place(S, l)] < Rank[Place(S, k)])
    BY <2>2, <2>3
  <2>5. ~(Place(S, l) < Place(S, k)) /\ Place(S, l) # Place(S, k)
    BY <1>4, <2>1, <2>2, <2>3, <2>4
  <2> QED
    BY <2>3, <2>5
<1> QED
  BY <1>1, <1>3, <1>10, <1>11, <1>12 DEF UpTo

LEMMA FilteredIs ==
    ASSUME NEW n \in Nat, NEW S \in SUBSET (1..n), NEW s, NEW T, \A i \in S : s[i] \in T
    PROVE  /\ Filtered(s, S) \in Seq(T) /\ Len(Filtered(s, S)) = Cardinality(S)
           /\ DOMAIN Filtered(s, S) = 1..Cardinality(S)
           /\ \A k \in 1..Cardinality(S) : Filtered(s, S)[k] = s[Place(S, k)]
           /\ Range(Filtered(s, S)) = {s[i] : i \in S}
<1>1. /\ Cardinality(S) \in Nat
      /\ \A k \in 1..Cardinality(S) : Place(S, k) \in S
      /\ \A i \in S : \E k \in 1..Cardinality(S) : Place(S, k) = i
  BY PlacesInOrder
<1>2. Filtered(s, S) = [k \in 1..Cardinality(S) |-> s[Place(S, k)]]
  BY DEF Filtered
<1>3. Filtered(s, S) \in [1..Cardinality(S) -> T]
  BY <1>1, <1>2
<1>4. Filtered(s, S) \in Seq(T) /\ Len(Filtered(s, S)) = Cardinality(S)
  BY <1>1, <1>3, SeqDef, LenProperties
<1>5. Range(Filtered(s, S)) = {s[i] : i \in S}
  <2>1. Range(Filtered(s, S)) = {s[Place(S, k)] : k \in 1..Cardinality(S)}
    BY <1>2 DEF Range
  <2> QED
    BY <1>1, <2>1
<1> QED
  BY <1>2, <1>4, <1>5

\* Whatever holds of every two members of s in their order.
Pairwise(s, R) == \A i, j \in DOMAIN s : i < j => <<s[i], s[j]>> \in R

LEMMA FilteredPairwise ==
    ASSUME NEW n \in Nat, NEW S \in SUBSET (1..n), NEW s, NEW R,
           \A i, j \in S : i < j => <<s[i], s[j]>> \in R
    PROVE  Pairwise(Filtered(s, S), R)
<1>1. /\ \A k \in 1..Cardinality(S) : Place(S, k) \in S
      /\ \A k, l \in 1..Cardinality(S) : k < l => Place(S, k) < Place(S, l)
  BY PlacesInOrder
<1> QED
  BY <1>1 DEF Filtered, Pairwise

LEMMA JoinedPairwise ==
    ASSUME NEW T, NEW f \in Seq(T), NEW g \in Seq(T), NEW R,
           Pairwise(f, R), Pairwise(g, R),
           \A x \in Range(f), y \in Range(g) : <<x, y>> \in R
    PROVE  /\ f \o g \in Seq(T)
           /\ Range(f \o g) = Range(f) \cup Range(g)
           /\ Pairwise(f \o g, R)
<1>1. /\ Len(f) \in Nat /\ DOMAIN f = 1..Len(f)
      /\ Len(g) \in Nat /\ DOMAIN g = 1..Len(g)
  BY LenProperties
<1>2. /\ f \o g \in Seq(T) /\ Len(f \o g) = Len(f) + Len(g)
      /\ \A i \in 1..(Len(f) + Len(g)) :
           (f \o g)[i] = IF i <= Len(f) THEN f[i] ELSE g[i - Len(f)]
  BY ConcatProperties
<1>3. DOMAIN (f \o g) = 1..(Len(f) + Len(g))
  BY <1>2, LenProperties
<1>4. Range(f \o g) = Range(f) \cup Range(g)
  <2>1. \A i \in 1..(Len(f) + Len(g)) : (f \o g)[i] \in Range(f) \cup Range(g)
    BY <1>1, <1>2 DEF Range
  <2>2. \A i \in 1..Len(f) : f[i] \in Range(f \o g)
    <3> TAKE i \in 1..Len(f)
    <3>1. i \in 1..(Len(f) + Len(g)) /\ (f \o g)[i] = f[i]
      BY <1>1, <1>2
    <3> QED
      BY <1>3, <3>1 DEF Range
  <2>3. \A i \in 1..Len(g) : g[i] \in Range(f \o g)
    <3> TAKE i \in 1..Len(g)
    <3>1. /\ i + Len(f) \in 1..(Len(f) + Len(g)) /\ ~(i + Len(f) <= Len(f))
          /\ (i + Len(f)) - Len(f) = i
      BY <1>1
    <3>2. (f \o g)[i + Len(f)] = g[i]
      BY <1>2, <3>1
    <3> QED
      BY <1>3, <3>1, <3>2 DEF Range
  <2> QED
    BY <1>1, <1>3, <2>1, <2>2, <2>3 DEF Range
<1>5. Pairwise(f \o g, R)
  <2> SUFFICES ASSUME NEW i \in 1..(Len(f) + Len(g)), NEW j \in 1..(Len(f) + Len(g)), i < j
               PROVE  <<(f \o g)[i], (f \o g)[j]>> \in R
    BY <1>3 DEF Pairwise
  <2>1. CASE j <= Len(f)
    BY <1>1, <1>2, <2>1 DEF Pairwise
  <2>2. CASE ~(j <= Len(f)) /\ i <= Len(f)
    <3>1. i \in DOMAIN f /\ j - Len(f) \in DOMAIN g
      BY <1>1, <2>2
    <3>2. f[i] \in Range(f) /\ g[j - Len(f)] \in Range(g)
      BY <3>1 DEF Range
    <3> QED
      BY <1>2, <2>2, <3>2
  <2>3. CASE ~(i <= Len(f))
    <3>1. /\ i - Len(f) \in DOMAIN g /\ j - Len(f) \in DOMAIN g
          /\ i - Len(f) < j - Len(f) /\ ~(j <= Len(f))
      BY <1>1, <2>3
    <3> QED
      BY <1>2, <2>3, <3>1 DEF Pairwise
  <2> QED
    BY <2>1, <2>2, <2>3
<1> QED
  BY <1>2, <1>4, <1>5

-----------------------------------------------------------------------------
(* The checks.                                                              *)

\* How many places MenuOrder has.
LEMMA NinePlaces == Len(MenuOrder) = 9
BY DEF MenuOrder

\* At each is a menu, and each menu is at one.
LEMMA Places ==
    /\ \A k \in 1..9 : MenuOrder[k] \in Menus
    /\ \A m \in Menus : \E k \in 1..9 : MenuOrder[k] = m
<1>1. DOMAIN MenuOrder = 1..9
  BY DEF MenuOrder
<1>2. Menus = {MenuOrder[k] : k \in 1..9}
  BY <1>1 DEF Menus, Range
<1> QED BY <1>2

LEMMA OrderIs ==
    /\ DOMAIN MenuOrder = 1..9 /\ 1..9 = {1, 2, 3, 4, 5, 6, 7, 8, 9}
    /\ MenuOrder[1] = "service" /\ MenuOrder[2] = "filter" /\ MenuOrder[3] = "community"
    /\ MenuOrder[4] = "dns" /\ MenuOrder[5] = "update"
    /\ MenuOrder[6] = "security-profiles" /\ MenuOrder[7] = "wifi security"
    /\ MenuOrder[8] = "user" /\ MenuOrder[9] = "certificate"
<1>1. \A k \in 1..9 : k \in {1, 2, 3, 4, 5, 6, 7, 8, 9}
  OBVIOUS
<1> QED
  BY <1>1 DEF MenuOrder

LEMMA MenusAre ==
    Menus = {"service", "filter", "community", "dns", "update",
             "security-profiles", "wifi security", "user", "certificate"}
<1>1. Menus = {MenuOrder[k] : k \in {1, 2, 3, 4, 5, 6, 7, 8, 9}}
  BY OrderIs DEF Menus, Range
<1>2. Menus = {MenuOrder[1], MenuOrder[2], MenuOrder[3], MenuOrder[4], MenuOrder[5],
               MenuOrder[6], MenuOrder[7], MenuOrder[8], MenuOrder[9]}
  BY <1>1
<1> QED
  BY <1>2, OrderIs

\* The place of a menu is where MenuOrder has it.
LEMMA PositionIs ==
    /\ \A k \in 1..9 : Position(MenuOrder[k]) = k
    /\ \A m \in Menus : Position(m) \in 1..9 /\ MenuOrder[Position(m)] = m
<1> DEFINE PlaceOf == [m \in Menus |->
      IF m = "service" THEN 1 ELSE IF m = "filter" THEN 2 ELSE IF m = "community" THEN 3
      ELSE IF m = "dns" THEN 4 ELSE IF m = "update" THEN 5
      ELSE IF m = "security-profiles" THEN 6 ELSE IF m = "wifi security" THEN 7
      ELSE IF m = "user" THEN 8 ELSE 9]
<1>1. /\ PlaceOf["service"] = 1 /\ PlaceOf["filter"] = 2 /\ PlaceOf["community"] = 3
      /\ PlaceOf["dns"] = 4 /\ PlaceOf["update"] = 5
      /\ PlaceOf["security-profiles"] = 6 /\ PlaceOf["wifi security"] = 7
      /\ PlaceOf["user"] = 8 /\ PlaceOf["certificate"] = 9
  BY MenusAre
<1> HIDE DEF PlaceOf
<1>2. \A k \in 1..9 : PlaceOf[MenuOrder[k]] = k
  BY <1>1, OrderIs
<1>3. \A k, l \in 1..9 : MenuOrder[k] = MenuOrder[l] => k = l
  BY <1>2
<1>4. \A m : Position(m) = CHOOSE k \in 1..9 : MenuOrder[k] = m
  BY OrderIs DEF Position
<1>5. ASSUME NEW m \in Menus
      PROVE  Position(m) \in 1..9 /\ MenuOrder[Position(m)] = m
  BY <1>4, Places
<1>6. ASSUME NEW k \in 1..9 PROVE Position(MenuOrder[k]) = k
  BY <1>3, <1>5, Places
<1> QED
  BY <1>5, <1>6

LEMMA SeveritiesAre == Range(Severities) = {"high", "medium", "low", "info"}
<1>1. /\ Severities[1] = "high" /\ Severities[2] = "medium"
      /\ Severities[3] = "low" /\ Severities[4] = "info" /\ DOMAIN Severities = 1..4
  BY DEF Severities
<1>2. \A k \in 1..4 : k \in {1, 2, 3, 4}
  OBVIOUS
<1> QED
  BY <1>1, <1>2 DEF Range

LEMMA FindingIs ==
    ASSUME NEW m \in Menus, NEW i \in Nat, NEW s \in Range(Severities)
    PROVE  /\ Finding(m, i, s) \in Findings
           /\ Finding(m, i, s).menu = m /\ Finding(m, i, s).row = i
           /\ Finding(m, i, s).severity = s
BY DEF Finding, Findings

\* The order of the checks and of the rows of one check.
Earlier ==
    {p \in Findings \X Findings :
        \/ Position(p[1].menu) < Position(p[2].menu)
        \/ p[1].menu = p[2].menu /\ p[1].row < p[2].row}

LEMMA PerRowIs ==
    ASSUME NEW m \in Menus, NEW n \in Nat, NEW severity, DOMAIN severity = 1..n,
           \A i \in 1..n : severity[i] \in Range(Severities) \cup {"none"}
    PROVE  /\ PerRow(m, severity) \in Seq(Findings)
           /\ Range(PerRow(m, severity)) =
                {Finding(m, i, severity[i]) : i \in {j \in 1..n : severity[j] # "none"}}
           /\ Pairwise(PerRow(m, severity), Earlier)
<1> DEFINE S == {i \in 1..n : severity[i] # "none"}
           s == [i \in 1..n |-> Finding(m, i, severity[i])]
<1>1. PerRow(m, severity) = Filtered(s, S)
  BY DEF PerRow
<1>2. \A i \in S : /\ i \in Nat /\ i \in 1..n /\ severity[i] \in Range(Severities)
                   /\ s[i] = Finding(m, i, severity[i])
  OBVIOUS
<1>3. \A i \in S : s[i] \in Findings /\ s[i].menu = m /\ s[i].row = i
  BY <1>2, FindingIs
<1>4. \A i, j \in S : i < j => <<s[i], s[j]>> \in Earlier
  <2> HIDE DEF s, S
  <2> QED
    BY <1>3 DEF Earlier
<1>5. S \in SUBSET (1..n) /\ {s[i] : i \in S} = {Finding(m, i, severity[i]) : i \in S}
  BY <1>2
<1> HIDE DEF s, S
<1>6. Filtered(s, S) \in Seq(Findings) /\ Range(Filtered(s, S)) = {s[i] : i \in S}
  BY <1>3, <1>5, FilteredIs
<1>7. Pairwise(Filtered(s, S), Earlier)
  BY <1>4, <1>5, FilteredPairwise
<1> QED
  BY <1>1, <1>5, <1>6, <1>7 DEF S

LEMMA WholeMenuIs ==
    ASSUME NEW m \in Menus, NEW wrong, NEW s \in Range(Severities)
    PROVE  /\ WholeMenu(m, wrong, s) \in Seq(Findings)
           /\ Range(WholeMenu(m, wrong, s)) = IF wrong THEN {Finding(m, 0, s)} ELSE {}
           /\ Pairwise(WholeMenu(m, wrong, s), Earlier)
<1>1. Finding(m, 0, s) \in Findings
  BY FindingIs
<1>2. CASE wrong
  <2>1. WholeMenu(m, wrong, s) = <<Finding(m, 0, s)>>
    BY <1>2 DEF WholeMenu
  <2>2. DOMAIN WholeMenu(m, wrong, s) = {1} /\ WholeMenu(m, wrong, s)[1] = Finding(m, 0, s)
    BY <2>1
  <2>3. /\ Range(WholeMenu(m, wrong, s)) = {Finding(m, 0, s)}
        /\ Pairwise(WholeMenu(m, wrong, s), Earlier)
    BY <2>2 DEF Range, Pairwise
  <2>4. WholeMenu(m, wrong, s) \in Seq(Findings)
    BY <1>1, <2>1
  <2> QED
    BY <1>2, <2>3, <2>4
<1>3. CASE ~wrong
  <2>1. WholeMenu(m, wrong, s) = <<>>
    BY <1>3 DEF WholeMenu
  <2>2. DOMAIN WholeMenu(m, wrong, s) = {}
    BY <2>1
  <2> QED
    BY <1>3, <2>1, <2>2 DEF Range, Pairwise
<1> QED
  BY <1>2, <1>3

\* Findings sorted into severities.
LEMMA BySeverity ==
    ASSUME NEW m, NEW D, NEW severity,
           \A i \in D : severity[i] \in {"high", "medium", "low", "none"}
    PROVE  {Finding(m, i, severity[i]) : i \in {j \in D : severity[j] # "none"}} =
             {Finding(m, i, "high") : i \in {j \in D : severity[j] = "high"}}
             \cup {Finding(m, i, "medium") : i \in {j \in D : severity[j] = "medium"}}
             \cup {Finding(m, i, "low") : i \in {j \in D : severity[j] = "low"}}
<1> DEFINE F(i, s) == Finding(m, i, s)
<1> HIDE DEF F
<1>1. {F(i, severity[i]) : i \in {j \in D : severity[j] # "none"}} =
        {F(i, "high") : i \in {j \in D : severity[j] = "high"}}
        \cup {F(i, "medium") : i \in {j \in D : severity[j] = "medium"}}
        \cup {F(i, "low") : i \in {j \in D : severity[j] = "low"}}
  OBVIOUS
<1> QED
  BY <1>1 DEF F

LEMMA ContentIs ==
    ASSUME NEW m \in Menus, NEW rows \in Contents[m]
    PROVE  /\ rows \in Seq(Row(m)) /\ Len(rows) \in Nat /\ DOMAIN rows = 1..Len(rows)
           /\ \A i \in 1..Len(rows) : rows[i] \in Row(m)
           /\ m \in Settings => Len(rows) <= 1
<1>1. rows \in Seq(Row(m)) /\ (m \in Settings => Len(rows) <= 1)
  BY SecurityAuditConstants DEF IsContent
<1> QED
  BY <1>1, LenProperties, ElementOfSeq

\* What a check of rows finds is what README says they warrant.
Right(m, rows) ==
    /\ Check(m, rows) \in Seq(Findings)
    /\ Range(Check(m, rows)) = Warrants(m, rows)
    /\ \A f \in Warrants(m, rows) : f.menu = m
    /\ Pairwise(Check(m, rows), Earlier)

LEMMA RowsRight ==
    ASSUME NEW m \in Menus, NEW rows \in Contents[m], NEW severity,
           DOMAIN severity = DOMAIN rows,
           \A i \in DOMAIN rows : severity[i] \in {"high", "medium", "low", "none"},
           Check(m, rows) = PerRow(m, severity),
           Warrants(m, rows) =
             {Finding(m, i, "high") : i \in {j \in DOMAIN rows : severity[j] = "high"}}
             \cup {Finding(m, i, "medium") : i \in {j \in DOMAIN rows : severity[j] = "medium"}}
             \cup {Finding(m, i, "low") : i \in {j \in DOMAIN rows : severity[j] = "low"}}
    PROVE  Right(m, rows)
<1>1. Len(rows) \in Nat /\ DOMAIN rows = 1..Len(rows)
  BY ContentIs
<1>2. \A i \in 1..Len(rows) : severity[i] \in Range(Severities) \cup {"none"}
  BY <1>1, SeveritiesAre
<1>3. /\ PerRow(m, severity) \in Seq(Findings) /\ Pairwise(PerRow(m, severity), Earlier)
      /\ Range(PerRow(m, severity)) =
           {Finding(m, i, severity[i]) : i \in {j \in 1..Len(rows) : severity[j] # "none"}}
  BY <1>1, <1>2, PerRowIs
<1>4. {Finding(m, i, severity[i]) : i \in {j \in DOMAIN rows : severity[j] # "none"}} =
        Warrants(m, rows)
  BY BySeverity
<1>5. \A i, s : Finding(m, i, s).menu = m
  BY DEF Finding
<1>6. \A f \in Warrants(m, rows) : f.menu = m
  BY <1>4, <1>5
<1> QED
  BY <1>1, <1>3, <1>4, <1>6 DEF Right

LEMMA WholeMenuRight ==
    ASSUME NEW m \in Menus, NEW rows, NEW wrong,
           NEW s \in {"high", "medium", "low", "info"},
           Check(m, rows) = WholeMenu(m, wrong, s),
           Warrants(m, rows) = IF wrong THEN {Finding(m, 0, s)} ELSE {}
    PROVE  Right(m, rows)
<1>1. s \in Range(Severities)
  BY SeveritiesAre
<1>2. Finding(m, 0, s).menu = m
  BY DEF Finding
<1> QED
  BY <1>1, <1>2, WholeMenuIs DEF Right

LEMMA OnlyRow ==
    ASSUME NEW T, NEW rows \in Seq(T), Len(rows) = 1
    PROVE  rows # <<>> /\ Head(rows) = rows[1] /\ DOMAIN rows = {1}
<1>1. rows # <<>>
  BY EmptySeq
<1>2. DOMAIN rows = 1..1
  BY LenProperties
<1> QED
  BY <1>1, <1>2, HeadTailProperties

LEMMA ServiceIsRight ==
    ASSUME NEW rows \in Contents["service"]
    PROVE  Right("service", rows)
<1> DEFINE severity == [i \in DOMAIN rows |-> ServiceSeverity(rows[i])]
<1>1. "service" \in Menus
  BY MenusAre
<1>2. \A i \in DOMAIN rows :
        /\ severity[i] \in {"high", "medium", "low", "none"}
        /\ severity[i] = "high" <=>
             /\ Enabled(rows[i]) /\ rows[i].address \in {"", "0.0.0.0/0"}
             /\ rows[i].name \in {"telnet", "ftp"}
        /\ severity[i] = "medium" <=>
             /\ Enabled(rows[i]) /\ rows[i].address \in {"", "0.0.0.0/0"}
             /\ rows[i].name \in {"www", "api", "winbox"}
        /\ severity[i] = "low" <=>
             /\ Enabled(rows[i]) /\ rows[i].address \notin {"", "0.0.0.0/0"}
             /\ rows[i].name \in {"telnet", "ftp", "www", "api"}
  BY DEF ServiceSeverity, RosBool, OpenToAny, Enabled, Absent
<1>3. Check("service", rows) = PerRow("service", severity) /\ DOMAIN severity = DOMAIN rows
  BY DEF Check
<1> HIDE DEF severity
<1>4. Warrants("service", rows) =
        {Finding("service", i, "high") : i \in {j \in DOMAIN rows : severity[j] = "high"}}
        \cup {Finding("service", i, "medium") : i \in {j \in DOMAIN rows : severity[j] = "medium"}}
        \cup {Finding("service", i, "low") : i \in {j \in DOMAIN rows : severity[j] = "low"}}
  BY <1>2 DEF Warrants, On
<1> QED
  BY <1>1, <1>2, <1>3, <1>4, RowsRight

LEMMA CommunityIsRight ==
    ASSUME NEW rows \in Contents["community"]
    PROVE  Right("community", rows)
<1> DEFINE severity == [i \in DOMAIN rows |-> CommunitySeverity(rows[i])]
<1>1. "community" \in Menus
  BY MenusAre
<1>2. \A i \in DOMAIN rows :
        /\ severity[i] \in {"medium", "none"}
        /\ severity[i] = "medium" <=>
             rows[i].name = "public" \/ rows[i].addresses \in {"", "0.0.0.0/0"}
  BY DEF CommunitySeverity, OpenToAny, Absent
<1>3. Check("community", rows) = PerRow("community", severity) /\ DOMAIN severity = DOMAIN rows
  BY DEF Check
<1> HIDE DEF severity
<1>4. Warrants("community", rows) =
        {Finding("community", i, "medium") : i \in {j \in DOMAIN rows : severity[j] = "medium"}}
  BY <1>2 DEF Warrants, On
<1>5. \A i \in DOMAIN rows : severity[i] # "high" /\ severity[i] # "low"
  BY <1>2
<1>6. Warrants("community", rows) =
        {Finding("community", i, "high") : i \in {j \in DOMAIN rows : severity[j] = "high"}}
        \cup {Finding("community", i, "medium") : i \in {j \in DOMAIN rows : severity[j] = "medium"}}
        \cup {Finding("community", i, "low") : i \in {j \in DOMAIN rows : severity[j] = "low"}}
  BY <1>4, <1>5
<1> QED
  BY <1>1, <1>2, <1>3, <1>6, RowsRight

LEMMA ProfilesAreRight ==
    ASSUME NEW rows \in Contents["security-profiles"]
    PROVE  Right("security-profiles", rows)
<1> DEFINE severity == [i \in DOMAIN rows |-> ProfileSeverity(rows[i])]
           m == "security-profiles"
<1>1. "security-profiles" \in Menus
  BY MenusAre
<1>2. \A i \in DOMAIN rows :
        /\ severity[i] \in {"high", "none"}
        /\ severity[i] = "high" <=> rows[i].mode = "none"
  BY DEF ProfileSeverity
<1>3. Check(m, rows) = PerRow(m, severity) /\ DOMAIN severity = DOMAIN rows
  BY DEF Check
<1> HIDE DEF severity
<1>4. Warrants(m, rows) =
        {Finding(m, i, "high") : i \in {j \in DOMAIN rows : severity[j] = "high"}}
  BY <1>2 DEF Warrants, On
<1>5. \A i \in DOMAIN rows : severity[i] # "medium" /\ severity[i] # "low"
  BY <1>2
<1>6. Warrants(m, rows) =
        {Finding(m, i, "high") : i \in {j \in DOMAIN rows : severity[j] = "high"}}
        \cup {Finding(m, i, "medium") : i \in {j \in DOMAIN rows : severity[j] = "medium"}}
        \cup {Finding(m, i, "low") : i \in {j \in DOMAIN rows : severity[j] = "low"}}
  BY <1>4, <1>5
<1> QED
  BY <1>1, <1>2, <1>3, <1>6, RowsRight

LEMMA WifiIsRight ==
    ASSUME NEW rows \in Contents["wifi security"]
    PROVE  Right("wifi security", rows)
<1> DEFINE severity == [i \in DOMAIN rows |-> WifiSeverity(rows[i])]
           m == "wifi security"
<1>1. "wifi security" \in Menus
  BY MenusAre
<1>2. \A i \in DOMAIN rows :
        /\ severity[i] \in {"high", "none"}
        /\ severity[i] = "high" <=> rows[i].passphrase = "" /\ rows[i].authentication = ""
  BY DEF WifiSeverity, Absent
<1>3. Check(m, rows) = PerRow(m, severity) /\ DOMAIN severity = DOMAIN rows
  BY DEF Check
<1> HIDE DEF severity
<1>4. Warrants(m, rows) =
        {Finding(m, i, "high") : i \in {j \in DOMAIN rows : severity[j] = "high"}}
  BY <1>2 DEF Warrants, On
<1>5. \A i \in DOMAIN rows : severity[i] # "medium" /\ severity[i] # "low"
  BY <1>2
<1>6. Warrants(m, rows) =
        {Finding(m, i, "high") : i \in {j \in DOMAIN rows : severity[j] = "high"}}
        \cup {Finding(m, i, "medium") : i \in {j \in DOMAIN rows : severity[j] = "medium"}}
        \cup {Finding(m, i, "low") : i \in {j \in DOMAIN rows : severity[j] = "low"}}
  BY <1>4, <1>5
<1> QED
  BY <1>1, <1>2, <1>3, <1>6, RowsRight

\* Days rounded down: the day counts that matter begin at their first minute.
LEMMA DaysRoundDown ==
    ASSUME NEW minutes \in Int
    PROVE  /\ DaysUntil(minutes) < 0 <=> minutes < 0
           /\ DaysUntil(minutes) <= CERT_EXPIRY_WARNING_DAYS <=> minutes < 31 * 24 * 60
BY SMT DEF DaysUntil, CERT_EXPIRY_WARNING_DAYS

\* README's two lines about certificates.
ExpiredOnes(row) ==
    \/ row.expired \in {"yes", "true"}
    \/ row.left # <<>> /\ row.left[1] < 0
SoonOnes(row) == ~ExpiredOnes(row) /\ row.left # <<>> /\ row.left[1] < 31 * 24 * 60

LEMMA CertificateIs ==
    ASSUME NEW row, row.expired \in Flag, row.left \in Seq(Int)
    PROVE  /\ CertificateSeverity(row) \in {"high", "medium", "none"}
           /\ CertificateSeverity(row) = "high" <=> ExpiredOnes(row)
           /\ CertificateSeverity(row) = "medium" <=> SoonOnes(row)
<1> DEFINE left == row.left
<1>1. RosBool(row.expired) <=> row.expired \in {"yes", "true"}
  BY DEF RosBool, Flag, Absent
<1>2. CASE left = <<>>
  <2>1. CertificateSeverity(row) = IF RosBool(row.expired) THEN "high" ELSE "none"
    BY <1>2 DEF CertificateSeverity
  <2>2. ExpiredOnes(row) <=> row.expired \in {"yes", "true"}
    BY <1>2 DEF ExpiredOnes
  <2>3. ~SoonOnes(row)
    BY <1>2 DEF SoonOnes
  <2> QED
    BY <1>1, <2>1, <2>2, <2>3
<1>3. CASE left # <<>>
  <2> DEFINE n == left[1]
  <2>1. n \in Int
    BY <1>3, EmptySeq, ElementOfSeq, LenProperties
  <2>2. CertificateSeverity(row) =
          IF RosBool(row.expired) THEN "high"
          ELSE IF DaysUntil(n) < 0 THEN "high"
          ELSE IF DaysUntil(n) <= CERT_EXPIRY_WARNING_DAYS THEN "medium"
          ELSE "none"
    BY <1>3 DEF CertificateSeverity
  <2>3. ExpiredOnes(row) <=> row.expired \in {"yes", "true"} \/ n < 0
    BY <1>3 DEF ExpiredOnes
  <2>4. SoonOnes(row) <=> ~ExpiredOnes(row) /\ n < 31 * 24 * 60
    BY <1>3 DEF SoonOnes
  <2> HIDE DEF n
  <2> QED
    BY <1>1, <2>1, <2>2, <2>3, <2>4, DaysRoundDown
<1> QED
  BY <1>2, <1>3

LEMMA CertificatesAreRight ==
    ASSUME NEW rows \in Contents["certificate"]
    PROVE  Right("certificate", rows)
<1> DEFINE severity == [i \in DOMAIN rows |-> CertificateSeverity(rows[i])]
           m == "certificate"
<1>1. "certificate" \in Menus
  BY MenusAre
<1>2. \A i \in DOMAIN rows : rows[i].expired \in Flag /\ rows[i].left \in Seq(Int)
  <2>1. Row("certificate") = [expired : Flag, left : Seq(Int)]
    BY DEF Row
  <2>2. \A i \in DOMAIN rows : rows[i] \in Row("certificate")
    BY <1>1, ContentIs
  <2>3. \A row \in Row("certificate") : row.expired \in Flag /\ row.left \in Seq(Int)
    <3>1. \A L : \A row \in [expired : Flag, left : L] : row.expired \in Flag /\ row.left \in L
      OBVIOUS
    <3> QED
      BY <2>1, <3>1
  <2> QED
    BY <2>2, <2>3
<1>3. \A i \in DOMAIN rows :
        /\ severity[i] \in {"high", "medium", "none"}
        /\ severity[i] = "high" <=> ExpiredOnes(rows[i])
        /\ severity[i] = "medium" <=> SoonOnes(rows[i])
  BY <1>2, CertificateIs
<1>4. Check(m, rows) = PerRow(m, severity) /\ DOMAIN severity = DOMAIN rows
  BY DEF Check
<1>5. Warrants(m, rows) =
        {Finding(m, i, "high") : i \in {j \in DOMAIN rows : ExpiredOnes(rows[j])}}
        \cup {Finding(m, i, "medium") : i \in {j \in DOMAIN rows : SoonOnes(rows[j])}}
  BY DEF Warrants, On, ExpiredOnes, SoonOnes
<1> HIDE DEF severity
<1>6. \A i \in DOMAIN rows : severity[i] # "low"
  BY <1>3
<1>7. Warrants(m, rows) =
        {Finding(m, i, "high") : i \in {j \in DOMAIN rows : severity[j] = "high"}}
        \cup {Finding(m, i, "medium") : i \in {j \in DOMAIN rows : severity[j] = "medium"}}
        \cup {Finding(m, i, "low") : i \in {j \in DOMAIN rows : severity[j] = "low"}}
  BY <1>3, <1>5, <1>6
<1> QED
  BY <1>1, <1>3, <1>4, <1>7, RowsRight

LEMMA DnsIsRight ==
    ASSUME NEW rows \in Contents["dns"]
    PROVE  Right("dns", rows)
<1>1. /\ "dns" \in Menus /\ "dns" \in Settings
      /\ rows \in Seq(Row("dns")) /\ Len(rows) \in Nat /\ DOMAIN rows = 1..Len(rows)
      /\ Len(rows) <= 1 /\ \A i \in 1..Len(rows) : rows[i] \in Row("dns")
  BY MenusAre, ContentIs DEF Settings
<1>2. \A i \in DOMAIN rows : rows[i].remote \in Flag
  BY <1>1 DEF Row
<1>3. \A i \in DOMAIN rows : RosBool(rows[i].remote) <=> rows[i].remote \in {"yes", "true"}
  BY <1>2 DEF RosBool, Flag, Absent
<1>4. OpenResolver(rows) <=> \E i \in DOMAIN rows : rows[i].remote \in {"yes", "true"}
  <2>1. CASE Len(rows) = 0
    BY <1>1, <2>1, EmptySeq DEF OpenResolver
  <2>2. CASE Len(rows) = 1
    <3>1. rows # <<>> /\ Head(rows) = rows[1] /\ DOMAIN rows = {1}
      BY <1>1, <2>2, OnlyRow
    <3> QED
      BY <1>3, <3>1 DEF OpenResolver
  <2> QED
    BY <1>1, <2>1, <2>2
<1>5. Check("dns", rows) = WholeMenu("dns", OpenResolver(rows), "medium")
  BY DEF Check
<1>6. Warrants("dns", rows) =
        IF \E i \in DOMAIN rows : rows[i].remote \in {"yes", "true"}
        THEN {Finding("dns", 0, "medium")} ELSE {}
  BY DEF Warrants
<1> QED
  BY <1>1, <1>4, <1>5, <1>6, WholeMenuRight

LEMMA TwoValues ==
    ASSUME NEW a, NEW b
    PROVE  Cardinality({a, b}) = 2 <=> a # b
<1> DEFINE A == {a}
<1>0. IsFiniteSet(A) /\ Cardinality(A) = 1
  BY FS_Singleton
<1>1. Cardinality(A \cup {b}) = IF b \in A THEN Cardinality(A) ELSE Cardinality(A) + 1
  <2> HIDE DEF A
  <2> QED
    BY <1>0, FS_AddElement
<1>2. {a, b} = {a} \cup {b}
  OBVIOUS
<1> QED
  BY <1>0, <1>1, <1>2

LEMMA UpdateIsRight ==
    ASSUME NEW rows \in Contents["update"]
    PROVE  Right("update", rows)
<1> DEFINE Differ(row) == /\ Cardinality({row.installed, row.latest}) = 2
                          /\ Absent \notin {row.installed, row.latest}
<1>1. /\ "update" \in Menus /\ "update" \in Settings
      /\ rows \in Seq(Row("update")) /\ Len(rows) \in Nat /\ DOMAIN rows = 1..Len(rows)
      /\ Len(rows) <= 1 
  BY MenusAre, ContentIs DEF Settings
<1>2. \A row : Differ(row) <=> /\ row.installed # row.latest
                               /\ Absent \notin {row.installed, row.latest}
  BY TwoValues
<1>3. Warrants("update", rows) =
        IF \E i \in DOMAIN rows : Differ(rows[i]) THEN {Finding("update", 0, "low")} ELSE {}
  BY DEF Warrants
<1> HIDE DEF Differ
<1>4. Outdated(rows) <=> \E i \in DOMAIN rows : Differ(rows[i])
  <2>1. CASE Len(rows) = 0
    BY <1>1, <2>1, EmptySeq DEF Outdated
  <2>2. CASE Len(rows) = 1
    <3>1. rows # <<>> /\ Head(rows) = rows[1] /\ DOMAIN rows = {1}
      BY <1>1, <2>2, OnlyRow
    <3> QED
      BY <1>2, <3>1 DEF Outdated
  <2> QED
    BY <1>1, <2>1, <2>2
<1>5. Check("update", rows) = WholeMenu("update", Outdated(rows), "low")
  BY DEF Check
<1> QED
  BY <1>1, <1>3, <1>4, <1>5, WholeMenuRight

LEMMA UsersAreRight ==
    ASSUME NEW rows \in Contents["user"]
    PROVE  Right("user", rows)
<1>1. "user" \in Menus
  BY MenusAre
<1>2. Check("user", rows) = WholeMenu("user", Sensitive(rows), "info")
  BY DEF Check
<1>3. Warrants("user", rows) = IF Sensitive(rows) THEN {Finding("user", 0, "info")} ELSE {}
  BY DEF Warrants, Sensitive
<1> QED
  BY <1>1, <1>2, <1>3, WholeMenuRight

\* The last of the enabled rules of the input chain is the one with no other
\* after it.
LEMMA FilterIsRight ==
    ASSUME NEW rows \in Contents["filter"]
    PROVE  Right("filter", rows)
<1> DEFINE Rule(i) == rows[i].chain = "input" /\ Enabled(rows[i])
           S == {i \in DOMAIN rows : Rule(i)}
           c == Cardinality(S)
           Closed == \E i \in DOMAIN rows :
                       /\ Rule(i) /\ rows[i].action \in {"drop", "reject"}
                       /\ \A j \in DOMAIN rows : j > i => ~Rule(j)
<1>1. /\ "filter" \in Menus /\ Len(rows) \in Nat /\ DOMAIN rows = 1..Len(rows)
      /\ \A i \in 1..Len(rows) : rows[i] \in Row("filter")
  BY MenusAre, ContentIs
<1>2. InputRules(rows) = Filtered(rows, S)
  BY DEF InputRules, RosBool, Enabled, Absent
<1>3. Check("filter", rows) = WholeMenu("filter", NoFinalDrop(rows), "medium")
  BY DEF Check
<1>4. Warrants("filter", rows) = IF Closed THEN {} ELSE {Finding("filter", 0, "medium")}
  BY DEF Warrants
<1>5. S \in SUBSET (1..Len(rows))
  BY <1>1
<1> HIDE DEF Rule
<1>6. /\ IsFiniteSet(S) /\ c \in Nat
      /\ \A k \in 1..c : Place(S, k) \in S
      /\ \A i \in S : \E k \in 1..c : Place(S, k) = i
      /\ \A k, l \in 1..c : k < l => Place(S, k) < Place(S, l)
  <2> HIDE DEF S
  <2> QED
    BY <1>1, <1>5, PlacesInOrder
<1>7. /\ Filtered(rows, S) \in Seq(Row("filter")) /\ Len(Filtered(rows, S)) = c
      /\ \A k \in 1..c : Filtered(rows, S)[k] = rows[Place(S, k)]
  <2>1. \A i \in S : rows[i] \in Row("filter")
    BY <1>1
  <2> HIDE DEF S
  <2> QED
    BY <1>1, <1>5, <2>1, FilteredIs
<1>8. NoFinalDrop(rows) <=> ~Closed
  <2>1. CASE c = 0
    <3>1. S = {} /\ InputRules(rows) = <<>>
      BY <1>2, <1>6, <1>7, <2>1, FS_EmptySet, EmptySeq
    <3>2. ~Closed
      BY <3>1
    <3> QED
      BY <3>1, <3>2 DEF NoFinalDrop
  <2>2. CASE c # 0
    <3> DEFINE last == Place(S, c)
    <3>1. c \in 1..c /\ InputRules(rows) # <<>> /\ Last(InputRules(rows)) = rows[last]
      BY <1>2, <1>6, <1>7, <2>2, EmptySeq DEF Last
    <3>2. last \in S /\ \A i \in S : i <= last
      <4>1. last \in S
        BY <1>6, <3>1
      <4>2. ASSUME NEW i \in S PROVE i <= last
        <5>1. PICK k \in 1..c : Place(S, k) = i
          BY <1>6
        <5>2. i \in Int /\ last \in Int /\ (k = c \/ k < c)
          BY <1>1, <1>6, <4>1
        <5> QED
          BY <1>6, <3>1, <5>1, <5>2
      <4> QED
        BY <4>1, <4>2
    <3>3. Closed <=> rows[last].action \in {"drop", "reject"}
      <4> HIDE DEF last
      <4>1. \A j \in DOMAIN rows : j > last => ~Rule(j)
        BY <1>1, <3>2
      <4>2. \A i \in DOMAIN rows : Rule(i) /\ (\A j \in DOMAIN rows : j > i => ~Rule(j)) => i = last
        BY <1>1, <3>2
      <4> QED
        BY <3>2, <4>1, <4>2
    <3> QED
      BY <3>1, <3>3 DEF NoFinalDrop
  <2> QED
    BY <2>1, <2>2
<1> HIDE DEF Closed
<1>9. Warrants("filter", rows) =
        IF NoFinalDrop(rows) THEN {Finding("filter", 0, "medium")} ELSE {}
  BY <1>4, <1>8
<1> QED
  BY <1>1, <1>3, <1>9, WholeMenuRight

LEMMA ChecksAreRight ==
    ASSUME NEW m \in Menus, NEW rows \in Contents[m]
    PROVE  Right(m, rows)
BY MenusAre, ServiceIsRight, FilterIsRight, CommunityIsRight, DnsIsRight, UpdateIsRight,
   ProfilesAreRight, WifiIsRight, UsersAreRight, CertificatesAreRight

-----------------------------------------------------------------------------
(* The report.                                                              *)

SeverityRank(s) == CHOOSE k \in DOMAIN Severities : Severities[k] = s

LEMMA RankIs ==
    /\ SeverityRank("high") = 1 /\ SeverityRank("medium") = 2
    /\ SeverityRank("low") = 3 /\ SeverityRank("info") = 4
<1> DEFINE RankOf == [s \in {"high", "medium", "low", "info"} |->
      IF s = "high" THEN 1 ELSE IF s = "medium" THEN 2 ELSE IF s = "low" THEN 3 ELSE 4]
<1>1. /\ Severities[1] = "high" /\ Severities[2] = "medium"
      /\ Severities[3] = "low" /\ Severities[4] = "info" /\ DOMAIN Severities = {1, 2, 3, 4}
  <2>1. DOMAIN Severities = 1..4
    BY DEF Severities
  <2>2. \A k \in 1..4 : k \in {1, 2, 3, 4}
    OBVIOUS
  <2> QED
    BY <2>1, <2>2 DEF Severities
<1>2. RankOf["high"] = 1 /\ RankOf["medium"] = 2 /\ RankOf["low"] = 3 /\ RankOf["info"] = 4
  OBVIOUS
<1> HIDE DEF RankOf
<1>3. \A k \in {1, 2, 3, 4} : RankOf[Severities[k]] = k
  BY <1>1, <1>2
<1>4. \A s : SeverityRank(s) = CHOOSE k \in {1, 2, 3, 4} : Severities[k] = s
  BY <1>1 DEF SeverityRank
<1>5. ASSUME NEW k \in {1, 2, 3, 4} PROVE SeverityRank(Severities[k]) = k
  <2>1. \A j \in {1, 2, 3, 4} : Severities[j] = Severities[k] => j = k
    BY <1>3
  <2> QED
    BY <1>4, <2>1
<1> QED
  BY <1>1, <1>5

\* The order of the report: the worst first, and those of one severity in the
\* order of the checks and of the rows.
Ranking ==
    {p \in Findings \X Findings :
        \/ SeverityRank(p[1].severity) < SeverityRank(p[2].severity)
        \/ p[1].severity = p[2].severity /\ p \in Earlier}

\* No finding is in these orders before itself, so none is there twice.
LEMMA Strict ==
    ASSUME NEW f \in Findings
    PROVE  <<f, f>> \notin Earlier /\ <<f, f>> \notin Ranking
<1>1. f.menu \in Menus /\ f.row \in Nat /\ f.severity \in {"high", "medium", "low", "info"}
  BY SeveritiesAre DEF Findings
<1>2. Position(f.menu) \in Int /\ SeverityRank(f.severity) \in Int
  BY <1>1, PositionIs, RankIs
<1> QED
  BY <1>1, <1>2 DEF Earlier, Ranking

LEMMA OfSeverityIs ==
    ASSUME NEW f \in Seq(Findings), Pairwise(f, Earlier), NEW s
    PROVE  /\ OfSeverity(f, s) \in Seq(Findings)
           /\ Range(OfSeverity(f, s)) = {x \in Range(f) : x.severity = s}
           /\ Len(OfSeverity(f, s)) = Cardinality({x \in Range(f) : x.severity = s})
           /\ Len(OfSeverity(f, s)) \in Nat
           /\ Pairwise(OfSeverity(f, s), Ranking)
<1> DEFINE S == {i \in DOMAIN f : f[i].severity = s}
           X == {x \in Range(f) : x.severity = s}
<1>1. /\ OfSeverity(f, s) = Filtered(f, S)
      /\ Len(f) \in Nat /\ DOMAIN f = 1..Len(f)
      /\ \A i \in DOMAIN f : i \in Int /\ f[i] \in Findings
  BY LenProperties, ElementOfSeq DEF OfSeverity
<1>2. S \in SUBSET (1..Len(f)) /\ \A i \in S : i \in Int /\ f[i] \in Findings /\ f[i].severity = s
  BY <1>1
<1>3. {f[i] : i \in S} = X
  BY DEF Range
<1>4. \A i, j \in S : i < j => <<f[i], f[j]>> \in Earlier
  BY DEF Pairwise
<1> HIDE DEF S, X
<1>5. \A i, j \in S : i < j => <<f[i], f[j]>> \in Ranking
  BY <1>2, <1>4 DEF Ranking
<1>6. /\ Filtered(f, S) \in Seq(Findings) /\ Range(Filtered(f, S)) = X
      /\ Len(Filtered(f, S)) = Cardinality(S)
  BY <1>1, <1>2, <1>3, FilteredIs
<1>7. Pairwise(Filtered(f, S), Ranking)
  BY <1>1, <1>2, <1>5, FilteredPairwise
<1>8. IsFiniteSet(S) /\ Cardinality(S) \in Nat
  BY <1>1, <1>2, PlacesInOrder
<1>9. Cardinality(X) = Cardinality(S)
  <2> DEFINE g == [i \in S |-> f[i]]
  <2>1. \A i, j \in S : i < j => f[i] # f[j]
    BY <1>2, <1>4, Strict
  <2>2. \A i, j \in S : f[i] = f[j] => i = j
    BY <1>2, <2>1
  <2>3. g \in Surjection(S, X)
    BY <1>3 DEF Surjection
  <2>4. g \in Injection(S, X)
    BY <1>3, <2>2 DEF Injection, IsInjective
  <2> QED
    BY <1>8, <2>3, <2>4, FS_Surjection
<1> QED
  BY <1>1, <1>6, <1>7, <1>8, <1>9 DEF X

\* Sorting keeps every finding.
LEMMA SortedIs ==
    ASSUME NEW f \in Seq(Findings), Pairwise(f, Earlier)
    PROVE  /\ Sorted(f) \in Seq(Findings)
           /\ Range(Sorted(f)) = Range(f)
           /\ Pairwise(Sorted(f), Ranking)
<1> DEFINE Of(s) == OfSeverity(f, s)
           two == Of("high") \o Of("medium")
           three == two \o Of("low")
<1>1. \A s : /\ Of(s) \in Seq(Findings) /\ Pairwise(Of(s), Ranking)
             /\ Range(Of(s)) = {x \in Range(f) : x.severity = s}
  BY OfSeverityIs
<1>2. \A x \in Range(f) : x \in Findings /\ x.severity \in {"high", "medium", "low", "info"}
  <2>1. \A x \in Range(f) : x \in Findings
    BY LenProperties, ElementOfSeq DEF Range
  <2> QED
    BY <2>1, SeveritiesAre DEF Findings
<1>3. Sorted(f) = three \o Of("info")
  BY DEF Sorted
<1>4. ASSUME NEW s, NEW t, SeverityRank(s) < SeverityRank(t),
             NEW x \in Range(Of(s)), NEW y \in Range(Of(t))
      PROVE  <<x, y>> \in Ranking
  <2>1. x \in Findings /\ y \in Findings /\ x.severity = s /\ y.severity = t
    BY <1>1, <1>2
  <2> QED
    BY <1>4, <2>1 DEF Ranking
<1>5. /\ SeverityRank("high") < SeverityRank("medium")
      /\ SeverityRank("high") < SeverityRank("low")
      /\ SeverityRank("medium") < SeverityRank("low")
      /\ SeverityRank("high") < SeverityRank("info")
      /\ SeverityRank("medium") < SeverityRank("info")
      /\ SeverityRank("low") < SeverityRank("info")
  BY RankIs
<1> HIDE DEF Of
<1>6. /\ two \in Seq(Findings) /\ Range(two) = Range(Of("high")) \cup Range(Of("medium"))
      /\ Pairwise(two, Ranking)
  <2>1. \A x \in Range(Of("high")), y \in Range(Of("medium")) : <<x, y>> \in Ranking
    BY <1>4, <1>5
  <2> QED
    BY <1>1, <2>1, JoinedPairwise
<1>7. /\ three \in Seq(Findings) /\ Range(three) = Range(two) \cup Range(Of("low"))
      /\ Pairwise(three, Ranking)
  <2>1. \A x \in Range(two), y \in Range(Of("low")) : <<x, y>> \in Ranking
    BY <1>4, <1>5, <1>6
  <2> HIDE DEF two
  <2> QED
    BY <1>1, <1>6, <2>1, JoinedPairwise
<1>8. /\ Sorted(f) \in Seq(Findings) /\ Range(Sorted(f)) = Range(three) \cup Range(Of("info"))
      /\ Pairwise(Sorted(f), Ranking)
  <2> HIDE DEF two
  <2>1. \A x \in Range(three), y \in Range(Of("info")) : <<x, y>> \in Ranking
    BY <1>4, <1>5, <1>6, <1>7
  <2>2. Of("info") \in Seq(Findings) /\ Pairwise(Of("info"), Ranking)
    BY <1>1
  <2> HIDE DEF three
  <2>3. LET g == three \o Of("info")
        IN  /\ g \in Seq(Findings) /\ Range(g) = Range(three) \cup Range(Of("info"))
            /\ Pairwise(g, Ranking)
    BY <1>7, <2>1, <2>2, JoinedPairwise
  <2> QED
    BY <1>3, <2>3
<1> HIDE DEF two, three
<1>9. Range(Sorted(f)) = Range(f)
  <2>1. Range(Sorted(f)) = Range(Of("high")) \cup Range(Of("medium"))
                              \cup Range(Of("low")) \cup Range(Of("info"))
    BY <1>6, <1>7, <1>8
  <2>2. /\ Range(Of("high")) = {x \in Range(f) : x.severity = "high"}
        /\ Range(Of("medium")) = {x \in Range(f) : x.severity = "medium"}
        /\ Range(Of("low")) = {x \in Range(f) : x.severity = "low"}
        /\ Range(Of("info")) = {x \in Range(f) : x.severity = "info"}
    BY <1>1
  <2> QED
    BY <1>2, <2>1, <2>2
<1> QED
  BY <1>8, <1>9

LEMMA SummaryIs ==
    ASSUME NEW f \in Seq(Findings), Pairwise(f, Earlier)
    PROVE  /\ Summary(f) \in [Range(Severities) -> Nat]
           /\ \A s \in Range(Severities) :
                Summary(f)[s] = Cardinality({x \in Range(f) : x.severity = s})
<1>1. \A s : /\ Len(OfSeverity(f, s)) \in Nat
             /\ Len(OfSeverity(f, s)) = Cardinality({x \in Range(f) : x.severity = s})
  BY OfSeverityIs
<1> QED
  BY <1>1 DEF Summary

-----------------------------------------------------------------------------
(* The security events.                                                     *)

\* The last places of M are those with fewer than limit places after them: a
\* place of rank k has as many after it as there are ranks above k.
LEMMA LastPlaces ==
    ASSUME NEW n \in Nat, NEW M \in SUBSET (1..n), NEW max \in Nat \ {0}
    PROVE  LET c == Cardinality(M)
               first == IF c > max THEN c - max + 1 ELSE 1
               After(i) == {j \in M : j > i}
               Kept == {i \in M : Cardinality(After(i)) < max}
           IN  /\ c \in Nat /\ first \in 1..(c + 1)
               /\ Cardinality(Kept) = c - first + 1
               /\ \A i \in Kept : /\ c - Cardinality(After(i)) \in first..c
                                  /\ Place(M, c - Cardinality(After(i))) = i
<1> DEFINE c == Cardinality(M)
           first == IF c > max THEN c - max + 1 ELSE 1
           After(i) == {j \in M : j > i}
           Rank(i) == Cardinality({j \in M : j <= i})
           Kept == {i \in M : Cardinality(After(i)) < max}
<1>0. \A i \in M : i \in Int
  OBVIOUS
<1>1. /\ IsFiniteSet(M) /\ c \in Nat
      /\ \A k \in 1..c : Place(M, k) \in M
      /\ \A i \in M : Rank(i) \in 1..c /\ Place(M, Rank(i)) = i
  BY PlacesInOrder
<1>2. \A k \in 1..c : Rank(Place(M, k)) = k
  <2> SUFFICES ASSUME NEW k \in 1..c PROVE Rank(Place(M, k)) = k
    OBVIOUS
  <2>1. \A l, k2 \in 1..c : l < k2 => Place(M, l) < Place(M, k2)
    BY PlacesInOrder
  <2>2. /\ Place(M, k) \in M /\ Rank(Place(M, k)) \in 1..c
        /\ Place(M, Rank(Place(M, k))) = Place(M, k)
    BY <1>1
  <2> DEFINE r == Rank(Place(M, k))
             p == Place(M, k)
  <2>3. p \in Int /\ r \in 1..c /\ Place(M, r) = p
    BY <1>0, <2>2
  <2>4. (r < k => p < p) /\ (k < r => p < p)
    BY <2>1, <2>3
  <2> HIDE DEF r, p
  <2>5. r = k
    BY <1>1, <2>3, <2>4
  <2> QED
    BY <2>5 DEF r
<1>3. ASSUME NEW i \in M PROVE Cardinality(After(i)) = c - Rank(i)
  <2> DEFINE U == {j \in M : j <= i}
  <2>1. U \subseteq M /\ After(i) = M \ U /\ M \cap U = U
    <3>1. \A j \in M : j > i <=> ~(j <= i)
      BY <1>0
    <3> QED
      BY <3>1
  <2> HIDE DEF U
  <2>2. Cardinality(M \ U) = c - Cardinality(M \cap U)
    BY <1>1, FS_Difference
  <2> QED
    BY <2>1, <2>2 DEF U
<1>4. first \in 1..(c + 1) /\ first \in Int
  BY <1>1
<1>5. \A i \in M : Rank(i) \in Int /\ (Cardinality(After(i)) < max <=> Rank(i) \in first..c)
  <2> TAKE i \in M
  <2>1. Rank(i) \in 1..c /\ Cardinality(After(i)) = c - Rank(i)
    BY <1>1, <1>3
  <2> DEFINE r == Rank(i)
             a == Cardinality(After(i))
  <2> HIDE DEF r, a
  <2>2. r \in 1..c /\ a = c - r
    BY <2>1 DEF r, a
  <2> HIDE DEF c
  <2>3. r \in Int /\ (a < max <=> r \in first..c)
    BY <1>1, <2>2 DEF first
  <2> QED
    BY <2>3 DEF r, a
<1>6. Cardinality(Kept) = c - first + 1
  <2> DEFINE R == [i \in Kept |-> Rank(i)]
  <2>1. Kept = {i \in M : Rank(i) \in first..c}
    BY <1>5
  <2>2. R \in [Kept -> first..c]
    BY <2>1
  <2>3. \A i, j \in Kept : R[i] = R[j] => i = j
    BY <1>1
  <2>4. \A k \in first..c : \E i \in Kept : R[i] = k
    <3> SUFFICES ASSUME NEW k \in first..c PROVE \E i \in Kept : R[i] = k
      OBVIOUS
    <3>1. k \in 1..c
      BY <1>1, <1>4
    <3>2. Place(M, k) \in M /\ Rank(Place(M, k)) = k
      BY <1>1, <1>2, <3>1
    <3>3. Place(M, k) \in Kept
      BY <2>1, <3>2
    <3> QED
      BY <3>2, <3>3
  <2> HIDE DEF Kept, R
  <2>5. R \in Bijection(Kept, first..c)
    BY <2>2, <2>3, <2>4 DEF Bijection, Injection, Surjection, IsInjective
  <2>6. IsFiniteSet(first..c) /\ Cardinality(first..c) = IF first > c THEN 0 ELSE c - first + 1
    <3>1. first \in Int /\ c \in Int
      BY <1>1, <1>4
    <3> HIDE DEF first, c
    <3> QED
      BY <3>1, FS_Interval
  <2>7. IsFiniteSet(Kept) /\ Cardinality(Kept) = Cardinality(first..c)
    BY <2>5, <2>6, FS_Injection DEF Bijection
  <2> HIDE DEF c, first
  <2> QED
    BY <1>1, <1>4, <2>6, <2>7
<1>7. ASSUME NEW i \in Kept
      PROVE  c - Cardinality(After(i)) \in first..c /\ Place(M, c - Cardinality(After(i))) = i
  <2>1. i \in M /\ Rank(i) \in first..c
    BY <1>5
  <2>2. c - Cardinality(After(i)) = Rank(i)
    BY <1>1, <1>3, <1>5, <2>1
  <2> QED
    BY <1>1, <2>1, <2>2
<1> QED
  BY <1>1, <1>4, <1>6, <1>7

\* What LatestMatches says of the events kept of a log.
Latest(rows, max, kept) ==
    LET Match(i) == IsSecurityEvent(rows[i])
        Later(i) == {j \in DOMAIN rows : j > i /\ Match(j)}
        Kept == {i \in DOMAIN rows : Match(i) /\ Cardinality(Later(i)) < max}
    IN  /\ Len(kept) = Cardinality(Kept)
        /\ \A i \in Kept : kept[Len(kept) - Cardinality(Later(i))] = rows[i]

LEMMA EventsAre ==
    ASSUME NEW rows \in Seq(LogRow), NEW max \in Nat \ {0},
           NEW kept, kept = FilterSecurityEvents(rows, max)
    PROVE  kept \in Seq(LogRow) /\ Latest(rows, max, kept)
<1> DEFINE M == {i \in DOMAIN rows : IsSecurityEvent(rows[i])}
           c == Cardinality(M)
           first == IF c > max THEN c - max + 1 ELSE 1
           After(i) == {j \in M : j > i}
           Kept == {i \in M : Cardinality(After(i)) < max}
<1>1. Len(rows) \in Nat /\ DOMAIN rows = 1..Len(rows) /\ \A i \in DOMAIN rows : rows[i] \in LogRow
  BY LenProperties, ElementOfSeq
<1>2. M \in SUBSET (1..Len(rows)) /\ \A i \in M : rows[i] \in LogRow
  BY <1>1
<1> HIDE DEF M
<1>3. /\ c \in Nat /\ first \in 1..(c + 1)
      /\ Cardinality(Kept) = c - first + 1
      /\ \A i \in Kept : /\ c - Cardinality(After(i)) \in first..c
                         /\ Place(M, c - Cardinality(After(i))) = i
  BY <1>1, <1>2, LastPlaces
<1> DEFINE F == Filtered(rows, M)
<1>4. /\ F \in Seq(LogRow) /\ Len(F) = c
      /\ \A k \in 1..c : F[k] \in LogRow /\ F[k] = rows[Place(M, k)]
  <2>1. F \in Seq(LogRow) /\ Len(F) = c /\ \A k \in 1..c : F[k] = rows[Place(M, k)]
    BY <1>1, <1>2, FilteredIs
  <2> QED
    BY <2>1, ElementOfSeq
<1>5. kept = SubSeq(F, first, c)
  <2>1. SecurityRows(rows) = F
    BY DEF SecurityRows, M
  <2> HIDE DEF F
  <2> QED
    BY <1>4, <2>1 DEF FilterSecurityEvents, LastRows
<1> HIDE DEF F
<1>6. /\ kept \in Seq(LogRow) /\ Len(kept) = c - first + 1
      /\ \A k \in 1..(c - first + 1) : kept[k] = F[first + k - 1]
  <2>1. first \in Int /\ c \in Int /\ \A k \in first..c : F[k] \in LogRow
    BY <1>3, <1>4
  <2> HIDE DEF first, c
  <2>2. /\ SubSeq(F, first, c) \in Seq(LogRow)
        /\ Len(SubSeq(F, first, c)) = IF first <= c THEN c - first + 1 ELSE 0
        /\ \A k \in 1..(c - first + 1) : SubSeq(F, first, c)[k] = F[first + k - 1]
    BY <2>1, SubSeqProperties
  <2> QED
    BY <1>3, <1>5, <2>2
<1>7. Len(kept) = Cardinality(Kept)
  BY <1>3, <1>6
<1>8. ASSUME NEW i \in Kept
      PROVE  kept[Len(kept) - Cardinality(After(i))] = rows[i]
  <2> DEFINE a == Cardinality(After(i))
  <2>1. c - a \in first..c /\ Place(M, c - a) = i
    BY <1>3
  <2> HIDE DEF a
  <2>2. a \in Int
    <3>1. IsFiniteSet(1..Len(rows))
      BY <1>1, FS_Interval
    <3>2. After(i) \in SUBSET (1..Len(rows))
      BY <1>2
    <3> HIDE DEF After
    <3>3. IsFiniteSet(After(i))
      BY <3>1, <3>2, FS_Subset
    <3> QED
      BY <3>3, FS_CardinalityType DEF a
  <2> HIDE DEF first, c
  <2>3. /\ c - a \in 1..c /\ Len(kept) - a \in 1..(c - first + 1)
        /\ first + (Len(kept) - a) - 1 = c - a
    BY <1>3, <1>6, <2>1, <2>2
  <2>4. kept[Len(kept) - a] = F[c - a]
    BY <1>6, <2>3
  <2>5. F[c - a] = rows[i]
    BY <1>4, <2>1, <2>3
  <2> QED
    BY <2>4, <2>5 DEF a
<1>9. /\ \A i : After(i) = {j \in DOMAIN rows : j > i /\ IsSecurityEvent(rows[j])}
      /\ Kept = {i \in DOMAIN rows : /\ IsSecurityEvent(rows[i])
                                    /\ Cardinality(After(i)) < max}
  BY DEF M
<1> HIDE DEF Kept, After
<1> QED
  BY <1>6, <1>7, <1>8, <1>9 DEF Latest

-----------------------------------------------------------------------------
(* The invariant.                                                           *)

\* What the audit has heard by the time it has made asked reads: an answer of
\* some kind for each menu up to that one, none for those after it, and nothing
\* without a connection.  It lets an error through only while it has none, or
\* when a check raised on the rows it was given.
AskedInOrder ==
    /\ DOMAIN rowsOf = Menus
    /\ \A m \in Menus : Position(m) <= asked <=> heard[m] # "not asked"
    /\ conn = "none" => asked = 0
    /\ pc = "raised" =>
         \/ conn = "none"
         \/ \E m \in Menus : heard[m] = "rows" /\ CheckRaises(m, rowsOf[m])

\* What it has found is what the rows it was given warrant, in the order of the
\* checks and of the rows, and what it reports is that.
FoundSoFar ==
    /\ pc # "raised" =>
         Range(found) = UNION {Warrants(m, rowsOf[m]) : m \in {n \in Menus : heard[n] = "rows"}}
    /\ Pairwise(found, Earlier)
    /\ report = IF pc = "done"
                THEN [findings |-> Sorted(found), summary |-> Summary(found)] ELSE NoReport

AuditInv == TypeOK /\ AskedInOrder /\ FoundSoFar /\ LatestMatches

\* An audit that has asked for nothing yet.
LEMMA AskedNone ==
    ASSUME NEW a, a = 0
    PROVE  a \in 0..Len(MenuOrder) /\ \A m \in Menus : ~(Position(m) <= a)
<1>1. a \in 0..Len(MenuOrder)
  BY NinePlaces
<1>2. \A m \in Menus : Position(m) \in 1..9
  BY PositionIs
<1> QED
  BY <1>1, <1>2

LEMMA HeardNothing ==
    ASSUME NEW h, h = [m \in Menus |-> "not asked"]
    PROVE  /\ h \in [Menus -> Answers] /\ \A m \in Menus : h[m] = "not asked"
           /\ {n \in Menus : h[n] = "rows"} = {}
BY DEF Answers

LEMMA FoundNothing ==
    /\ <<>> \in Seq(Findings) /\ Range(<<>>) = {} /\ Pairwise(<<>>, Earlier)
    /\ <<>> \in Seq(LogRow)
<1>1. <<>> \in Seq(Findings) /\ Len(<<>>) = 0 /\ <<>> \in Seq(LogRow)
  BY EmptySeq
<1>2. DOMAIN <<>> = 1..0
  BY <1>1, LenProperties
<1> QED
  BY <1>1, <1>2 DEF Range, Pairwise

LEMMA NoReportIs ==
    NoReport \in [findings : Seq(Findings), summary : [Range(Severities) -> Nat]]
BY DEF NoReport

LEMMA AuditInit == Init => AuditInv
<1> SUFFICES ASSUME Init PROVE AuditInv
  OBVIOUS
<1>1. /\ asked = 0 /\ found = <<>> /\ heard = [m \in Menus |-> "not asked"]
      /\ limit = 0 /\ log = <<>> /\ events = <<>> /\ pc = "idle" /\ report = NoReport
      /\ DOMAIN rowsOf = Menus
  BY DEF Init
<1>2. /\ asked \in 0..Len(MenuOrder) /\ heard \in [Menus -> Answers]
      /\ \A m \in Menus : heard[m] = "not asked" /\ ~(Position(m) <= asked)
      /\ {n \in Menus : heard[n] = "rows"} = {}
  <2>1. asked \in 0..Len(MenuOrder) /\ \A m \in Menus : ~(Position(m) <= asked)
    BY AskedNone DEF Init
  <2>2. /\ heard \in [Menus -> Answers] /\ \A m \in Menus : heard[m] = "not asked"
        /\ {n \in Menus : heard[n] = "rows"} = {}
    BY HeardNothing DEF Init
  <2> QED
    BY <2>1, <2>2
<1>3. TypeOK
  <2>1. found \in Seq(Findings) /\ log \in Seq(LogRow) /\ events \in Seq(LogRow)
    BY <1>1, FoundNothing
  <2>2. limit \in Limits \cup {0}
    BY <1>1
  <2> QED
    BY <1>1, <1>2, <2>1, <2>2, NoReportIs DEF Init, TypeOK
<1>4. AskedInOrder
  BY <1>1, <1>2 DEF AskedInOrder
<1>5. FoundSoFar
  BY <1>1, <1>2, FoundNothing DEF FoundSoFar
<1>6. LatestMatches
  <2>1. limit = 0
    BY DEF Init
  <2>2. ~(limit > 0)
    BY <2>1
  <2> QED
    BY <2>2 DEF LatestMatches
<1> QED
  BY <1>3, <1>4, <1>5, <1>6 DEF AuditInv

\* A new audit starts with nothing asked and nothing heard, and forgets the
\* last report and the events.
LEMMA BeginKeeps == AuditInv /\ Begin => AuditInv'
<1> SUFFICES ASSUME AuditInv, Begin PROVE AuditInv'
  OBVIOUS
<1>1. /\ asked' = 0 /\ found' = <<>> /\ heard' = [m \in Menus |-> "not asked"]
      /\ limit' = 0 /\ log' = <<>> /\ events' = <<>> /\ pc' = "auditing" /\ report' = NoReport
      /\ DOMAIN rowsOf' = Menus /\ UNCHANGED <<menus, conn>>
  BY DEF Begin
<1>2. /\ asked' \in 0..Len(MenuOrder) /\ heard' \in [Menus -> Answers]
      /\ \A m \in Menus : heard'[m] = "not asked" /\ ~(Position(m) <= asked')
      /\ {n \in Menus : heard'[n] = "rows"} = {}
  <2>1. asked' \in 0..Len(MenuOrder) /\ \A m \in Menus : ~(Position(m) <= asked')
    BY AskedNone DEF Begin
  <2>2. /\ heard' \in [Menus -> Answers] /\ \A m \in Menus : heard'[m] = "not asked"
        /\ {n \in Menus : heard'[n] = "rows"} = {}
    BY HeardNothing DEF Begin
  <2> QED
    BY <2>1, <2>2
<1>3. TypeOK'
  <2>1. found' \in Seq(Findings) /\ log' \in Seq(LogRow) /\ events' \in Seq(LogRow)
    BY <1>1, FoundNothing
  <2>2. limit' \in Limits \cup {0}
    BY <1>1
  <2> QED
    BY <1>1, <1>2, <2>1, <2>2, NoReportIs DEF AuditInv, TypeOK
<1>4. AskedInOrder'
  BY <1>1, <1>2 DEF AskedInOrder
<1>5. FoundSoFar'
  BY <1>1, <1>2, FoundNothing DEF FoundSoFar
<1>6. LatestMatches'
  <2>1. limit' = 0
    BY DEF Begin
  <2>2. ~(limit' > 0)
    BY <2>1
  <2> QED
    BY <2>2 DEF LatestMatches
<1> QED
  BY <1>3, <1>4, <1>5, <1>6 DEF AuditInv

\* The menu that is read next has not been heard, and is counted off.
LEMMA NextIs ==
    ASSUME AuditInv, Asking
    PROVE  /\ asked \in 0..8 /\ asked \in Int /\ pc = "auditing" /\ conn # "none"
           /\ NextMenu \in Menus /\ heard[NextMenu] = "not asked"
           /\ Position(NextMenu) = asked + 1
           /\ asked + 1 \in 0..Len(MenuOrder)
           /\ \A m \in Menus : Position(m) <= asked + 1 <=> m = NextMenu \/ heard[m] # "not asked"
<1>1. asked \in 0..8 /\ pc = "auditing" /\ conn # "none" /\ asked + 1 \in 0..Len(MenuOrder)
  BY NinePlaces DEF Asking, AuditInv, TypeOK
<1>2. NextMenu \in Menus /\ Position(NextMenu) = asked + 1 /\ NextMenu = MenuOrder[asked + 1]
  <2>1. asked + 1 \in 1..9
    BY <1>1
  <2> QED
    BY <2>1, Places, PositionIs DEF NextMenu
<1>3. ASSUME NEW m \in Menus
      PROVE  Position(m) <= asked + 1 <=> m = NextMenu \/ heard[m] # "not asked"
  <2>1. Position(m) \in Int /\ MenuOrder[Position(m)] = m
    BY PositionIs
  <2>2. Position(m) <= asked + 1 <=> Position(m) = asked + 1 \/ Position(m) <= asked
    BY <1>1, <2>1
  <2> QED
    BY <1>2, <2>1, <2>2 DEF AuditInv, AskedInOrder
<1>4. heard[NextMenu] = "not asked"
  <2>1. ~(Position(NextMenu) <= asked)
    BY <1>1, <1>2
  <2> QED
    BY <1>2, <2>1 DEF AuditInv, AskedInOrder
<1>5. asked \in Int
  BY <1>1
<1> QED
  BY <1>1, <1>2, <1>3, <1>4, <1>5

\* The findings of a menu that is read come after those of the menus before it.
LEMMA ReadMenuKeeps == AuditInv /\ ReadMenu => AuditInv'
<1> SUFFICES ASSUME AuditInv, ReadMenu PROVE AuditInv'
  OBVIOUS
<1> USE DEF AuditInv
<1>1. /\ asked \in 0..8 /\ asked \in Int /\ pc = "auditing" /\ conn # "none"
      /\ NextMenu \in Menus /\ heard[NextMenu] = "not asked"
      /\ Position(NextMenu) = asked + 1 /\ asked + 1 \in 0..Len(MenuOrder)
      /\ \A m \in Menus : Position(m) <= asked + 1 <=> m = NextMenu \/ heard[m] # "not asked"
  BY NextIs DEF ReadMenu
<1>2. PICK rows \in Contents[NextMenu] :
        /\ rowsOf' = [rowsOf EXCEPT ![NextMenu] = rows]
        /\ \/ found' = found \o Check(NextMenu, rows) /\ pc' = pc
           \/ found' = found /\ pc' = "raised" /\ CheckRaises(NextMenu, rows)
  BY DEF ReadMenu
<1>3. /\ heard' = [heard EXCEPT ![NextMenu] = "rows"]
      /\ asked' = asked + 1 /\ NextMenu \in menus
      /\ UNCHANGED <<menus, conn, report, log, limit, events>>
  BY DEF ReadMenu, seen
<1> DEFINE next == NextMenu
           Heard == {n \in Menus : heard[n] = "rows"}
<1> HIDE DEF next
<1>4. /\ next \in Menus /\ rows \in Contents[next] /\ next \notin Heard /\ next \in menus
      /\ heard' \in [Menus -> Answers] /\ heard'[next] = "rows"
      /\ \A m \in Menus : m # next => heard'[m] = heard[m] /\ rowsOf'[m] = rowsOf[m]
      /\ DOMAIN rowsOf' = Menus /\ rowsOf'[next] = rows
      /\ {n \in Menus : heard'[n] = "rows"} = Heard \cup {next}
  BY <1>1, <1>2, <1>3 DEF TypeOK, AskedInOrder, Answers, next
<1>5. /\ found' \in Seq(Findings) /\ Pairwise(found', Earlier)
      /\ pc' # "raised" => Range(found') = Range(found) \cup Warrants(next, rows)
  <2>0. CASE found' = found /\ pc' = "raised"
    BY <2>0 DEF TypeOK, FoundSoFar
  <2> SUFFICES ASSUME found' = found \o Check(next, rows)
               PROVE  /\ found' \in Seq(Findings) /\ Pairwise(found', Earlier)
                      /\ Range(found') = Range(found) \cup Warrants(next, rows)
    BY <1>2, <2>0 DEF next
  <2> DEFINE new == Check(next, rows)
  <2>1. /\ new \in Seq(Findings) /\ Range(new) = Warrants(next, rows)
        /\ \A f \in Warrants(next, rows) : f.menu = next
        /\ Pairwise(new, Earlier)
    BY <1>4, ChecksAreRight DEF Right
  <2>2. found \in Seq(Findings) /\ Pairwise(found, Earlier) /\ found' = found \o new
    BY <1>2 DEF TypeOK, FoundSoFar, next
  <2> HIDE DEF new
  <2>3. ASSUME NEW x \in Range(found), NEW y \in Range(new) PROVE <<x, y>> \in Earlier
    <3>1. PICK m \in Heard : x \in Warrants(m, rowsOf[m])
      BY <1>1 DEF FoundSoFar
    <3>2. m \in Menus /\ rowsOf[m] \in Contents[m] /\ Position(m) <= asked
      BY <3>1 DEF TypeOK, AskedInOrder
    <3>3. x.menu = m
      BY <3>1, <3>2, ChecksAreRight DEF Right
    <3>4. y.menu = next /\ Position(next) = asked + 1
      BY <1>1, <2>1 DEF next
    <3>5. x \in Findings /\ y \in Findings
      BY <2>1, <2>2, LenProperties, ElementOfSeq DEF Range
    <3>6. Position(m) < Position(next)
      <4>1. Position(m) \in Int
        BY <3>2, PositionIs
      <4>2. asked \in Int
        BY <1>1
      <4> QED
        BY <3>2, <3>4, <4>1, <4>2
    <3> QED
      BY <3>3, <3>4, <3>5, <3>6 DEF Earlier
  <2> QED
    BY <2>1, <2>2, <2>3, JoinedPairwise
<1>6. TypeOK'
  <2>1. ASSUME NEW m \in Menus, heard'[m] = "rows"
        PROVE  m \in menus' /\ rowsOf'[m] \in Contents[m]
    BY <1>3, <1>4, <2>1 DEF TypeOK
  <2>2. pc' \in {"auditing", "raised"}
    BY <1>1, <1>2
  <2> QED
    BY <1>1, <1>3, <1>4, <1>5, <2>1, <2>2 DEF TypeOK
<1>7. AskedInOrder'
  <2>1. ASSUME NEW m \in Menus PROVE Position(m) <= asked' <=> heard'[m] # "not asked"
    BY <1>1, <1>3, <1>4 DEF next
  <2>2. pc' = "raised" => \E m \in Menus : heard'[m] = "rows" /\ CheckRaises(m, rowsOf'[m])
    BY <1>1, <1>2, <1>4 DEF next
  <2> QED
    BY <1>1, <1>3, <1>4, <2>1, <2>2 DEF AskedInOrder
<1>8. FoundSoFar'
  <2>1. pc' # "raised" => Range(found') =
          UNION {Warrants(m, rowsOf'[m]) : m \in {n \in Menus : heard'[n] = "rows"}}
    <3>1. \A m \in Heard : m \in Menus /\ m # next /\ rowsOf'[m] = rowsOf[m]
      BY <1>4
    <3>2. Range(found) = UNION {Warrants(m, rowsOf'[m]) : m \in Heard}
      BY <1>1, <3>1 DEF FoundSoFar
    <3>3. UNION {Warrants(m, rowsOf'[m]) : m \in Heard \cup {next}} =
            (UNION {Warrants(m, rowsOf'[m]) : m \in Heard}) \cup Warrants(next, rowsOf'[next])
      <4> DEFINE W(m) == Warrants(m, rowsOf'[m])
      <4> HIDE DEF W, Heard
      <4>1. UNION {W(m) : m \in Heard \cup {next}} = (UNION {W(m) : m \in Heard}) \cup W(next)
        OBVIOUS
      <4> QED
        BY <4>1 DEF W
    <3> QED
      BY <1>4, <1>5, <3>2, <3>3
  <2>2. pc' # "done" /\ pc # "done"
    BY <1>1, <1>2
  <2> QED
    BY <1>1, <1>3, <1>5, <2>1, <2>2 DEF FoundSoFar
<1>9. LatestMatches'
  BY <1>3 DEF LatestMatches
<1> QED
  BY <1>6, <1>7, <1>8, <1>9

\* A read that fails is heard all the same, and finds nothing.
LEMMA ReadFailsKeeps == AuditInv /\ ReadFails => AuditInv'
<1> SUFFICES ASSUME AuditInv, ReadFails PROVE AuditInv'
  OBVIOUS
<1> USE DEF AuditInv
<1>1. /\ asked \in 0..8 /\ asked \in Int /\ pc = "auditing" /\ conn # "none"
      /\ NextMenu \in Menus /\ heard[NextMenu] = "not asked"
      /\ Position(NextMenu) = asked + 1 /\ asked + 1 \in 0..Len(MenuOrder)
      /\ \A m \in Menus : Position(m) <= asked + 1 <=> m = NextMenu \/ heard[m] # "not asked"
  BY NextIs DEF ReadFails
<1>2. PICK how \in {"no such menu", "lost"} : heard' = [heard EXCEPT ![NextMenu] = how]
  BY DEF ReadFails
<1>3. /\ asked' = asked + 1
      /\ UNCHANGED <<menus, pc, found, report, rowsOf, log, limit, events>>
  BY DEF ReadFails, AfterFailure, seen
<1>4. conn' \in {"none", "live", "dead"} /\ conn' # "none"
  BY <1>1 DEF ReadFails, TypeOK
<1>5. /\ heard' \in [Menus -> Answers] /\ heard'[NextMenu] = how
      /\ \A m \in Menus : m # NextMenu => heard'[m] = heard[m]
      /\ {n \in Menus : heard'[n] = "rows"} = {n \in Menus : heard[n] = "rows"}
  BY <1>1, <1>2 DEF TypeOK, Answers
<1>6. TypeOK'
  BY <1>1, <1>3, <1>4, <1>5 DEF TypeOK
<1>7. AskedInOrder'
  BY <1>1, <1>3, <1>4, <1>5 DEF AskedInOrder
<1>8. FoundSoFar'
  BY <1>1, <1>3, <1>5 DEF FoundSoFar
<1>9. LatestMatches'
  BY <1>3 DEF LatestMatches
<1> QED
  BY <1>6, <1>7, <1>8, <1>9

LEMMA AuditStep == AuditInv /\ [Next]_vars => AuditInv'
<1> SUFFICES ASSUME AuditInv, [Next]_vars PROVE AuditInv'
  OBVIOUS
<1> USE DEF AuditInv
<1>1. CASE Connects
  <2>1. TypeOK'
    BY <1>1 DEF Connects, TypeOK, audit, seen
  <2>2. AskedInOrder'
    BY <1>1 DEF Connects, AskedInOrder, audit
  <2>3. FoundSoFar' /\ LatestMatches'
    BY <1>1 DEF Connects, FoundSoFar, LatestMatches, audit, seen
  <2> QED
    BY <2>1, <2>2, <2>3
<1>2. CASE ConnectFails
  <2>1. TypeOK'
    BY <1>2 DEF ConnectFails, TypeOK, audit, seen
  <2>2. AskedInOrder'
    BY <1>2 DEF ConnectFails, AskedInOrder, audit
  <2>3. FoundSoFar' /\ LatestMatches'
    BY <1>2 DEF ConnectFails, FoundSoFar, LatestMatches, audit, seen
  <2> QED
    BY <2>1, <2>2, <2>3
<1>3. CASE Finish
  <2>1. /\ report' = [findings |-> Sorted(found), summary |-> Summary(found)]
        /\ pc' = "done" /\ pc = "auditing" /\ asked = Len(MenuOrder)
        /\ UNCHANGED <<menus, conn, asked, found, heard, rowsOf, log, limit, events>>
    BY <1>3 DEF Finish, seen
  <2>2. report' \in [findings : Seq(Findings), summary : [Range(Severities) -> Nat]]
    BY <2>1, SortedIs, SummaryIs DEF TypeOK, FoundSoFar
  <2>3. TypeOK'
    BY <2>1, <2>2 DEF TypeOK
  <2>4. AskedInOrder'
    BY <2>1 DEF AskedInOrder
  <2>5. FoundSoFar' /\ LatestMatches'
    BY <2>1 DEF FoundSoFar, LatestMatches
  <2> QED
    BY <2>3, <2>4, <2>5
<1>4. ASSUME NEW rows \in Logs, NEW n \in Limits, SecurityEvents(rows, n) PROVE AuditInv'
  <2>1. /\ log' = rows /\ limit' = n /\ events' = FilterSecurityEvents(rows, n)
        /\ UNCHANGED <<menus, conn, pc, asked, found, report, heard, rowsOf>>
    BY <1>4 DEF SecurityEvents, audit
  <2>2. rows \in Seq(LogRow) /\ n \in Nat \ {0}
    BY SecurityAuditConstants
  <2>3. events' \in Seq(LogRow) /\ Latest(rows, n, events')
    BY <2>1, <2>2, EventsAre
  <2>4. TypeOK'
    BY <2>1, <2>2, <2>3 DEF TypeOK
  <2>5. AskedInOrder'
    BY <2>1 DEF AskedInOrder
  <2>6. FoundSoFar'
    BY <2>1 DEF FoundSoFar
  <2>7. LatestMatches'
    BY <2>1, <2>3 DEF LatestMatches, Latest
  <2> QED
    BY <2>4, <2>5, <2>6, <2>7
<1>5. CASE UNCHANGED vars
  <2>1. TypeOK'
    BY <1>5 DEF vars, audit, seen, TypeOK
  <2>2. AskedInOrder'
    BY <1>5 DEF vars, audit, AskedInOrder
  <2>3. FoundSoFar' /\ LatestMatches'
    BY <1>5 DEF vars, audit, seen, FoundSoFar, LatestMatches
  <2> QED
    BY <2>1, <2>2, <2>3
<1> QED
  BY BeginKeeps, ReadMenuKeeps, ReadFailsKeeps, <1>1, <1>2, <1>3, <1>4, <1>5 DEF Next

-----------------------------------------------------------------------------
(* The theorems.                                                            *)

\* Every state of the audit is type-correct; above all, what it takes for a
\* menu's rows are rows that a menu of this device held, and an audit that is
\* done has been through the whole list of menus.
THEOREM TypeCorrect == Spec => []TypeOK
<1>1. AuditInv => TypeOK
  BY DEF AuditInv
<1> QED
  BY AuditInit, AuditStep, <1>1, PTL DEF Spec

\* One check being unavailable never stops the rest of the audit, on any device
\* and whatever is lost: an audit that returns has asked for every menu, and
\* one that raises has asked for none, or was given a name that is not text
\* (run_security_audit).
THEOREM AsksForEverythingAlways == Spec => []AsksForEverything
<1>1. AuditInv => AsksForEverything
  <2> SUFFICES ASSUME AuditInv PROVE AsksForEverything
    OBVIOUS
  <2>1. ASSUME pc = "done", NEW m \in Menus PROVE heard[m] # "not asked"
    <3>1. asked = 9
      BY <2>1, NinePlaces DEF AuditInv, TypeOK
    <3>2. Position(m) <= asked
      BY <3>1, PositionIs
    <3> QED
      BY <3>2 DEF AuditInv, AskedInOrder
  <2>2. ASSUME pc = "raised", conn = "none", NEW m \in Menus PROVE heard[m] = "not asked"
    <3>1. asked = 0
      BY <2>2 DEF AuditInv, AskedInOrder
    <3>2. ~(Position(m) <= asked)
      BY <3>1, PositionIs
    <3> QED
      BY <3>2 DEF AuditInv, AskedInOrder
  <2>3. ASSUME NEW m \in Menus, heard[m] = "rows", CheckRaises(m, rowsOf[m])
        PROVE  /\ m \in {"community", "user"}
               /\ \E i \in DOMAIN rowsOf[m] : Range(rowsOf[m][i]) \cap NotText # {}
    <3>1. m \in {"community", "user"} /\ rowsOf[m] \in Contents[m]
      BY <2>3 DEF CheckRaises, AuditInv, TypeOK
    <3>2. PICK i \in DOMAIN rowsOf[m] :
            \/ rowsOf[m][i].name \in NotText
            \/ m = "user" /\ rowsOf[m][i].group \in NotText
      BY <2>3 DEF CheckRaises
    <3>3. rowsOf[m][i] \in Row(m)
      BY <2>3, <3>1, <3>2, ContentIs
    <3>4. "name" \in DOMAIN rowsOf[m][i] /\ (m = "user" => "group" \in DOMAIN rowsOf[m][i])
      BY <3>1, <3>3 DEF Row
    <3> QED
      BY <3>1, <3>2, <3>4 DEF Range
  <2> QED
    BY <2>1, <2>2, <2>3 DEF AsksForEverything, AuditInv, AskedInOrder
<1> QED
  BY AuditInit, AuditStep, <1>1, PTL DEF Spec

\* Whatever menus a device lacks, whatever they hold and whatever requests are
\* lost, the audit reports exactly what README promises for each menu it could
\* read, each finding once, and counts them right (run_security_audit).
THEOREM WarrantedAlways == Spec => []Warranted
<1>1. AuditInv => Warranted
  <2> SUFFICES ASSUME AuditInv, pc = "done" PROVE Warranted
    BY DEF Warranted
  <2>1. found \in Seq(Findings) /\ Pairwise(found, Earlier)
    BY DEF AuditInv, TypeOK, FoundSoFar
  <2>2. report.findings = Sorted(found) /\ report.summary = Summary(found)
    BY DEF AuditInv, FoundSoFar
  <2>3. /\ Sorted(found) \in Seq(Findings) /\ Range(Sorted(found)) = Range(found)
        /\ Pairwise(Sorted(found), Ranking)
    BY <2>1, SortedIs
  <2>4. IsInjective(report.findings)
    <3> DEFINE f == report.findings
    <3>1. /\ \A i \in DOMAIN f : i \in Int /\ f[i] \in Findings
          /\ \A i, j \in DOMAIN f : i < j => <<f[i], f[j]>> \in Ranking
      BY <2>2, <2>3, LenProperties, ElementOfSeq DEF Pairwise
    <3> HIDE DEF f
    <3>2. \A i, j \in DOMAIN f : i < j => f[i] # f[j]
      BY <3>1, Strict
    <3>3. \A i, j \in DOMAIN f : f[i] = f[j] => i = j
      BY <3>1, <3>2
    <3> QED
      BY <3>3 DEF IsInjective, f
  <2>5. Range(report.findings) =
          UNION {Warrants(m, rowsOf[m]) : m \in {n \in Menus : heard[n] = "rows"}}
    BY <2>2, <2>3 DEF AuditInv, FoundSoFar
  <2>6. \A s \in Range(Severities) :
          report.summary[s] = Cardinality({f \in Range(report.findings) : f.severity = s})
    BY <2>1, <2>2, <2>3, SummaryIs
  <2> QED
    BY <2>4, <2>5, <2>6 DEF Warranted
<1> QED
  BY AuditInit, AuditStep, <1>1, PTL DEF Spec

\* In every report the worst comes first, and findings of one severity keep the
\* order of the checks and of the rows (the stable sort of run_security_audit).
THEOREM RankedAlways == Spec => []Ranked
<1>1. AuditInv => Ranked
  <2> SUFFICES ASSUME AuditInv PROVE Ranked
    OBVIOUS
  <2>1. found \in Seq(Findings) /\ Pairwise(found, Earlier)
    BY DEF AuditInv, TypeOK, FoundSoFar
  <2>2. Pairwise(report.findings, Ranking)
    <3>1. CASE pc = "done"
      <4>1. report.findings = Sorted(found)
        BY <3>1 DEF AuditInv, FoundSoFar
      <4> QED
        BY <2>1, <4>1, SortedIs
    <3>2. CASE pc # "done"
      <4>1. DOMAIN report.findings = {}
        BY <3>2 DEF AuditInv, FoundSoFar, NoReport
      <4> QED
        BY <4>1 DEF Pairwise
    <3> QED
      BY <3>1, <3>2
  <2> QED
    BY <2>2 DEF Ranked, Pairwise, Ranking, Earlier, SeverityRank
<1> QED
  BY AuditInit, AuditStep, <1>1, PTL DEF Spec

\* Of any log, security_events returns the most recent matching rows, and leaves
\* a match out only when there are limit later ones (filter_security_events).
THEOREM LatestMatchesAlways == Spec => []LatestMatches
<1>1. AuditInv => LatestMatches
  BY DEF AuditInv
<1> QED
  BY AuditInit, AuditStep, <1>1, PTL DEF Spec
=============================================================================
