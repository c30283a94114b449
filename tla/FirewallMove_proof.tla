-------------------------- MODULE FirewallMove_proof --------------------------
(***************************************************************************)
(* Proofs about FirewallMove: what taking a rule out of an order and       *)
(* putting it back does to the order, what the indexes of                  *)
(* move_firewall_rule mean, and from that the properties of its moves.     *)
(***************************************************************************)
EXTENDS FirewallMove, FiniteSetTheorems, SequenceTheorems, TLAPS

-----------------------------------------------------------------------------
(* Orders of rules.                                                         *)

LEMMA OrderType ==
    ASSUME NEW rs \in Menus
    PROVE  /\ rs \in Seq(Rule) /\ Len(rs) \in Nat /\ DOMAIN rs = 1..Len(rs)
           /\ \A i \in 1..Len(rs) : rs[i] \in Rule
           /\ \A i, j \in 1..Len(rs) : rs[i] = rs[j] => i = j
BY LenProperties, ElementOfSeq DEF Menus, IsInjective

LEMMA IsOrder ==
    ASSUME NEW rs \in Seq(Rule), \A i, j \in 1..Len(rs) : rs[i] = rs[j] => i = j
    PROVE  rs \in Menus
BY LenProperties DEF Menus, IsInjective

LEMMA Elements ==
    ASSUME NEW rs \in Menus
    PROVE  /\ \A i \in 1..Len(rs) : rs[i] \in ToSet(rs)
           /\ \A r \in ToSet(rs) : r \in Rule /\ \E i \in 1..Len(rs) : rs[i] = r
BY OrderType DEF ToSet

\* A rule is at one place.
LEMMA PlaceIs ==
    ASSUME NEW rs \in Menus, NEW i \in 1..Len(rs)
    PROVE  PlaceOf(rs, rs[i]) = i - 1
<1> DEFINE I == {j \in 1..Len(rs) : rs[j] = rs[i]}
<1>1. I = {i}
  BY OrderType
<1>2. PlaceOf(rs, rs[i]) = (IF I # {} THEN Min(I) ELSE 0) - 1
  BY DEF PlaceOf, SelectInSeq
<1>3. Min({i}) = i
  BY DEF Min
<1> QED
  BY <1>1, <1>2, <1>3

LEMMA RemoveIs ==
    ASSUME NEW rs \in Menus, NEW i \in 1..Len(rs)
    PROVE  RemoveFirst(rs, rs[i]) = RemoveAt(rs, i)
<1> DEFINE I == {j \in 1..Len(rs) : rs[j] = rs[i]}
<1>1. I = {i}
  BY OrderType
<1>2. RemoveFirst(rs, rs[i]) = RemoveAt(rs, IF I # {} THEN Min(I) ELSE 0)
  BY DEF RemoveFirst, SelectInSeq
<1>3. Min({i}) = i
  BY DEF Min
<1> QED
  BY <1>1, <1>2, <1>3

\* What RemoveAt and InsertAt do to the places.
LEMMA RemoveAtPlaces ==
    ASSUME NEW rs \in Menus, NEW i \in 1..Len(rs)
    PROVE  /\ RemoveAt(rs, i) \in Seq(Rule)
           /\ Len(RemoveAt(rs, i)) = Len(rs) - 1
           /\ \A j \in 1..(Len(rs) - 1) :
                RemoveAt(rs, i)[j] = IF j < i THEN rs[j] ELSE rs[j + 1]
<1> DEFINE a == SubSeq(rs, 1, i - 1)  b == SubSeq(rs, i + 1, Len(rs))
<1>0. Len(rs) \in Nat /\ rs \in Seq(Rule)
  BY OrderType
<1>1. a \in Seq(Rule) /\ Len(a) = i - 1 /\ \A j \in 1..(i - 1) : a[j] = rs[j]
  BY <1>0, ElementOfSeq, SubSeqProperties
<1>2. b \in Seq(Rule) /\ Len(b) = Len(rs) - i /\ \A j \in 1..(Len(rs) - i) : b[j] = rs[i + j]
  BY <1>0, ElementOfSeq, SubSeqProperties
<1>3. RemoveAt(rs, i) = a \o b
  BY DEF RemoveAt
<1> HIDE DEF a, b
<1>4. a \o b \in Seq(Rule) /\ Len(a \o b) = Len(rs) - 1
  <2>1. a \o b \in Seq(Rule) /\ Len(a \o b) = Len(a) + Len(b)
    BY <1>1, <1>2, ConcatProperties
  <2> QED  BY <1>0, <1>1, <1>2, <2>1
<1>5. ASSUME NEW j \in 1..(Len(rs) - 1)
      PROVE  (a \o b)[j] = IF j < i THEN rs[j] ELSE rs[j + 1]
  <2>1. (a \o b)[j] = IF j <= Len(a) THEN a[j] ELSE b[j - Len(a)]
    BY <1>0, <1>1, <1>2, ConcatProperties
  <2>2. CASE j < i
    BY <1>0, <1>1, <2>1, <2>2
  <2>3. CASE ~(j < i)
    <3>1. j - (i - 1) \in 1..(Len(rs) - i)
      BY <1>0, <2>3
    <3>2. b[j - (i - 1)] = rs[i + (j - (i - 1))]
      BY <1>2, <3>1
    <3>3. i + (j - (i - 1)) = j + 1
      BY <1>0
    <3> QED  BY <1>0, <1>1, <2>1, <2>3, <3>2, <3>3
  <2> QED  BY <2>2, <2>3
<1> QED
  BY <1>3, <1>4, <1>5

LEMMA InsertAtPlaces ==
    ASSUME NEW rs \in Menus, NEW i \in 1..(Len(rs) + 1), NEW r \in Rule
    PROVE  /\ InsertAt(rs, i, r) \in Seq(Rule)
           /\ Len(InsertAt(rs, i, r)) = Len(rs) + 1
           /\ \A j \in 1..(Len(rs) + 1) :
                InsertAt(rs, i, r)[j] = IF j < i THEN rs[j] ELSE IF j = i THEN r ELSE rs[j - 1]
<1> DEFINE a == SubSeq(rs, 1, i - 1)  b == SubSeq(rs, i, Len(rs))  c == a \o <<r>>
<1>0. Len(rs) \in Nat /\ rs \in Seq(Rule)
  BY OrderType
<1>1. a \in Seq(Rule) /\ Len(a) = i - 1 /\ \A j \in 1..(i - 1) : a[j] = rs[j]
  BY <1>0, ElementOfSeq, SubSeqProperties
<1>2. b \in Seq(Rule) /\ Len(b) = Len(rs) - i + 1
        /\ \A j \in 1..(Len(rs) - i + 1) : b[j] = rs[i + j - 1]
  BY <1>0, ElementOfSeq, SubSeqProperties
<1>3. InsertAt(rs, i, r) = c \o b
  BY DEF InsertAt
<1>4. <<r>> \in Seq(Rule) /\ Len(<<r>>) = 1 /\ <<r>>[1] = r
  OBVIOUS
<1>5. c \in Seq(Rule) /\ Len(c) = i /\ c[i] = r /\ \A j \in 1..(i - 1) : c[j] = rs[j]
  <2> HIDE DEF a
  <2>1. c \in Seq(Rule) /\ Len(c) = Len(a) + Len(<<r>>)
          /\ \A j \in 1..(Len(a) + Len(<<r>>)) :
               c[j] = IF j <= Len(a) THEN a[j] ELSE <<r>>[j - Len(a)]
    BY <1>1, <1>4, ConcatProperties
  <2>2. Len(c) = i
    BY <1>1, <1>4, <2>1
  <2>3. c[i] = r
    <3>1. c[i] = <<r>>[i - Len(a)]
      BY <1>1, <1>4, <2>1
    <3>2. i - Len(a) = 1
      BY <1>1
    <3> QED  BY <1>4, <3>1, <3>2
  <2>4. \A j \in 1..(i - 1) : c[j] = rs[j]
    BY <1>1, <1>4, <2>1
  <2> QED  BY <2>1, <2>2, <2>3, <2>4
<1> HIDE DEF a, b, c
<1>6. c \o b \in Seq(Rule) /\ Len(c \o b) = Len(rs) + 1
  <2>1. c \o b \in Seq(Rule) /\ Len(c \o b) = Len(c) + Len(b)
    BY <1>2, <1>5, ConcatProperties
  <2> QED  BY <1>0, <1>2, <1>5, <2>1
<1>7. ASSUME NEW j \in 1..(Len(rs) + 1)
      PROVE  (c \o b)[j] = IF j < i THEN rs[j] ELSE IF j = i THEN r ELSE rs[j - 1]
  <2>1. (c \o b)[j] = IF j <= Len(c) THEN c[j] ELSE b[j - Len(c)]
    BY <1>0, <1>2, <1>5, ConcatProperties
  <2>2. CASE j < i
    BY <1>0, <1>5, <2>1, <2>2
  <2>3. CASE j = i
    BY <1>0, <1>5, <2>1, <2>3
  <2>4. CASE ~(j < i) /\ j # i
    <3>1. j > i /\ j - i \in 1..(Len(rs) - i + 1)
      BY <1>0, <2>4
    <3>2. b[j - i] = rs[i + (j - i) - 1]
      BY <1>2, <3>1
    <3>3. i + (j - i) - 1 = j - 1
      BY <1>0
    <3> QED  BY <1>0, <1>5, <2>1, <2>4, <3>1, <3>2, <3>3
  <2> QED  BY <2>2, <2>3, <2>4
<1> QED
  BY <1>3, <1>6, <1>7

\* Without a rule, the others are what they were, in their order.
LEMMA RestIs ==
    ASSUME NEW rs \in Menus, NEW r \in ToSet(rs)
    PROVE  /\ RemoveFirst(rs, r) \in Menus
           /\ Len(RemoveFirst(rs, r)) = Len(rs) - 1
           /\ ToSet(RemoveFirst(rs, r)) = ToSet(rs) \ {r}
<1>1. PICK i \in 1..Len(rs) : rs[i] = r
  BY Elements
<1> DEFINE rest == RemoveFirst(rs, r)
<1>2. rest = RemoveAt(rs, i)
  BY <1>1, RemoveIs
<1>3. /\ rest \in Seq(Rule) /\ Len(rest) = Len(rs) - 1
      /\ \A j \in 1..(Len(rs) - 1) : rest[j] = IF j < i THEN rs[j] ELSE rs[j + 1]
  BY <1>2, RemoveAtPlaces
<1> HIDE DEF rest
<1>4. /\ Len(rs) \in Nat /\ DOMAIN rs = 1..Len(rs) /\ DOMAIN rest = 1..Len(rest)
      /\ \A j, k \in 1..Len(rs) : rs[j] = rs[k] => j = k
  BY <1>3, OrderType, LenProperties
<1>5. rest \in Menus
  <2>1. ASSUME NEW j \in 1..Len(rest), NEW k \in 1..Len(rest), rest[j] = rest[k]
        PROVE  j = k
    BY <1>3, <1>4, <2>1
  <2> QED  BY <1>3, <2>1, IsOrder
<1>6. ToSet(rest) \subseteq ToSet(rs) \ {r}
  <2>1. ASSUME NEW j \in 1..Len(rest)
        PROVE  \E k \in 1..Len(rs) : rs[k] = rest[j] /\ k # i
    <3>1. CASE j < i
      BY <1>3, <1>4, <3>1
    <3>2. CASE ~(j < i)
      <4>1. j + 1 \in 1..Len(rs) /\ j + 1 # i
        BY <1>3, <1>4, <3>2
      <4> QED  BY <1>3, <1>4, <3>2, <4>1
    <3> QED  BY <3>1, <3>2
  <2>2. \A k \in 1..Len(rs) : k # i => rs[k] # r
    BY <1>1, <1>4
  <2> QED  BY <1>4, <2>1, <2>2 DEF ToSet
<1>7. ToSet(rs) \ {r} \subseteq ToSet(rest)
  <2>1. ASSUME NEW k \in 1..Len(rs), k # i
        PROVE  \E j \in 1..Len(rest) : rest[j] = rs[k]
    <3>1. CASE k < i
      <4>1. k \in 1..(Len(rs) - 1)
        BY <1>4, <3>1
      <4> QED  BY <1>3, <3>1, <4>1
    <3>2. CASE ~(k < i)
      <4>1. k - 1 \in 1..(Len(rs) - 1) /\ ~(k - 1 < i) /\ (k - 1) + 1 = k
        BY <1>4, <2>1, <3>2
      <4> QED  BY <1>3, <4>1
    <3> QED  BY <3>1, <3>2
  <2> QED  BY <1>1, <1>4, <2>1 DEF ToSet
<1> QED
  BY <1>3, <1>5, <1>6, <1>7 DEF rest

\* A rule put among others is where it was put, and they are where they were:
\* without it, they are as before.
LEMMA InsertedIs ==
    ASSUME NEW rs \in Menus, NEW i \in 1..(Len(rs) + 1), NEW r \in Rule, r \notin ToSet(rs),
           NEW s, s = InsertAt(rs, i, r)
    PROVE  /\ s \in Menus /\ Len(s) = Len(rs) + 1
           /\ ToSet(s) = ToSet(rs) \cup {r}
           /\ s[i] = r /\ PlaceOf(s, r) = i - 1
           /\ i <= Len(rs) => s[i + 1] = rs[i]
           /\ RemoveFirst(s, r) = rs
<1>1. /\ s \in Seq(Rule) /\ Len(s) = Len(rs) + 1
      /\ \A j \in 1..(Len(rs) + 1) : s[j] = IF j < i THEN rs[j] ELSE IF j = i THEN r ELSE rs[j - 1]
  BY InsertAtPlaces
<1>2. /\ Len(rs) \in Nat /\ DOMAIN rs = 1..Len(rs) /\ DOMAIN s = 1..Len(s) /\ rs \in Seq(Rule)
      /\ \A j, k \in 1..Len(rs) : rs[j] = rs[k] => j = k
      /\ \A j \in 1..Len(rs) : rs[j] # r
  BY <1>1, OrderType, LenProperties, Elements
<1>3. s[i] = r
  BY <1>1, <1>2
<1>4. \A j \in 1..(Len(rs) + 1) : j # i => s[j] # r
  <2>1. ASSUME NEW j \in 1..(Len(rs) + 1), j # i
        PROVE  s[j] # r
    <3>1. CASE j < i
      <4>1. j \in 1..Len(rs)
        BY <1>2, <3>1
      <4> QED  BY <1>1, <1>2, <3>1, <4>1
    <3>2. CASE ~(j < i)
      <4>1. j - 1 \in 1..Len(rs)
        BY <1>2, <2>1, <3>2
      <4>2. s[j] = rs[j - 1]
        BY <1>1, <2>1, <3>2
      <4> QED  BY <1>2, <4>1, <4>2
    <3> QED  BY <3>1, <3>2
  <2> QED  BY <2>1
<1>5. s \in Menus
  <2>1. ASSUME NEW j \in 1..Len(s), NEW k \in 1..Len(s), s[j] = s[k]
        PROVE  j = k
    <3>1. CASE j = i \/ k = i
      BY <1>1, <1>3, <1>4, <2>1, <3>1
    <3>2. CASE j # i /\ k # i
      <4> DEFINE f(n) == IF n < i THEN n ELSE n - 1
      <4>1. f(j) \in 1..Len(rs) /\ f(k) \in 1..Len(rs)
        BY <1>1, <1>2, <3>2
      <4>2. s[j] = rs[f(j)] /\ s[k] = rs[f(k)]
        BY <1>1, <3>2
      <4>3. f(j) = f(k)
        <5> HIDE DEF f
        <5> QED  BY <1>2, <2>1, <4>1, <4>2
      <4> QED  BY <1>1, <1>2, <3>2, <4>3
    <3> QED  BY <3>1, <3>2
  <2> QED  BY <1>1, <2>1, IsOrder
<1>6. PlaceOf(s, r) = i - 1 /\ RemoveFirst(s, r) = RemoveAt(s, i)
  <2>1. i \in 1..Len(s)
    BY <1>1, <1>2
  <2> QED  BY <1>3, <1>5, <2>1, PlaceIs, RemoveIs
<1>7. i <= Len(rs) => s[i + 1] = rs[i]
  <2> SUFFICES ASSUME i <= Len(rs) PROVE s[i + 1] = rs[i]
    OBVIOUS
  <2>1. i + 1 \in 1..(Len(rs) + 1) /\ ~(i + 1 < i) /\ i + 1 # i /\ (i + 1) - 1 = i
    BY <1>2
  <2> QED  BY <1>1, <2>1
<1>8. RemoveAt(s, i) = rs
  <2>1. i \in 1..Len(s)
    BY <1>1, <1>2
  <2> DEFINE t == RemoveAt(s, i)
  <2>2. /\ t \in Seq(Rule) /\ Len(t) = Len(s) - 1
        /\ \A j \in 1..(Len(s) - 1) : t[j] = IF j < i THEN s[j] ELSE s[j + 1]
    BY <1>5, <2>1, RemoveAtPlaces
  <2> HIDE DEF t
  <2>3. Len(t) = Len(rs) /\ Len(s) - 1 = Len(rs)
    BY <1>1, <1>2, <2>2
  <2>4. ASSUME NEW j \in 1..Len(rs)
        PROVE  t[j] = rs[j]
    <3>1. CASE j < i
      <4>1. j \in 1..(Len(rs) + 1)
        BY <1>2
      <4> QED  BY <1>1, <2>2, <2>3, <3>1, <4>1
    <3>2. CASE ~(j < i)
      <4>1. j + 1 \in 1..(Len(rs) + 1) /\ ~(j + 1 < i) /\ j + 1 # i /\ (j + 1) - 1 = j
        BY <1>2, <3>2
      <4>2. s[j + 1] = rs[j]
        BY <1>1, <4>1
      <4> QED  BY <2>2, <2>3, <3>2, <4>2
    <3> QED  BY <3>1, <3>2
  <2>5. t = rs
    BY <1>2, <2>2, <2>3, <2>4, SeqEqual
  <2> QED  BY <2>5 DEF t
<1>9. ToSet(s) = ToSet(rs) \cup {r}
  <2>1. i \in 1..Len(s) /\ r \in ToSet(s)
    BY <1>1, <1>2, <1>3, <1>5, Elements
  <2>2. ToSet(rs) = ToSet(s) \ {r}
    BY <1>5, <1>6, <1>8, <2>1, RestIs
  <2> QED  BY <2>1, <2>2
<1> QED
  BY <1>1, <1>3, <1>5, <1>6, <1>7, <1>8, <1>9

\* Appending is inserting behind the last.
LEMMA AppendIsInsert ==
    ASSUME NEW rs \in Menus, NEW r \in Rule
    PROVE  Append(rs, r) = InsertAt(rs, Len(rs) + 1, r)
<1> DEFINE s == InsertAt(rs, Len(rs) + 1, r)  t == Append(rs, r)
<1>0. rs \in Seq(Rule) /\ Len(rs) \in Nat /\ Len(rs) + 1 \in 1..(Len(rs) + 1)
  BY OrderType
<1>1. /\ s \in Seq(Rule) /\ Len(s) = Len(rs) + 1
      /\ \A j \in 1..(Len(rs) + 1) :
           s[j] = IF j < Len(rs) + 1 THEN rs[j] ELSE IF j = Len(rs) + 1 THEN r ELSE rs[j - 1]
  BY <1>0, InsertAtPlaces
<1>2. /\ t \in Seq(Rule) /\ Len(t) = Len(rs) + 1
      /\ \A j \in 1..Len(rs) : t[j] = rs[j]
      /\ t[Len(rs) + 1] = r
  BY <1>0, AppendProperties
<1> HIDE DEF s, t
<1>3. \A j \in 1..(Len(rs) + 1) : t[j] = s[j]
  <2>1. ASSUME NEW j \in 1..(Len(rs) + 1)
        PROVE  t[j] = s[j]
    <3>1. CASE j = Len(rs) + 1
      BY <1>0, <1>1, <1>2, <3>1
    <3>2. CASE j # Len(rs) + 1
      <4>1. j \in 1..Len(rs) /\ j < Len(rs) + 1
        BY <1>0, <3>2
      <4> QED  BY <1>1, <1>2, <4>1
    <3> QED  BY <3>1, <3>2
  <2> QED  BY <2>1
<1>4. t = s
  BY <1>1, <1>2, <1>3, SeqEqual
<1> QED
  BY <1>4 DEF s, t

-----------------------------------------------------------------------------
(* Where a rule goes.                                                       *)

\* RouterOS puts a rule right in front of the destination, or behind all.
LEMMA MovedIs ==
    ASSUME NEW rs \in Menus, NEW r \in ToSet(rs), NEW k \in 1..Len(rs),
           NEW b, b = IF k <= Len(rs) - 1 THEN RemoveFirst(rs, r)[k] ELSE End
    PROVE  Moved(rs, r, b) = InsertAt(RemoveFirst(rs, r), k, r)
<1> DEFINE rest == RemoveFirst(rs, r)
<1>1. rest \in Menus /\ Len(rest) = Len(rs) - 1 /\ Len(rs) \in Nat /\ r \in Rule
  BY RestIs, OrderType, Elements
<1> HIDE DEF rest
<1>2. CASE k <= Len(rs) - 1
  <2>1. k \in 1..Len(rest)
    BY <1>1, <1>2
  <2>2. b = rest[k] /\ b # End
    BY <1>1, <1>2, <2>1, OrderType, FirewallMoveConstants DEF rest
  <2>3. PlaceOf(rest, b) = k - 1
    BY <1>1, <2>1, <2>2, PlaceIs
  <2>4. Moved(rs, r, b) = InsertAt(rest, (k - 1) + 1, r)
    BY <2>2, <2>3 DEF Moved, rest
  <2>5. (k - 1) + 1 = k
    OBVIOUS
  <2> QED  BY <2>4, <2>5 DEF rest
<1>3. CASE ~(k <= Len(rs) - 1)
  <2>1. b = End /\ k = Len(rest) + 1
    BY <1>1, <1>3
  <2>2. Moved(rs, r, b) = Append(rest, r)
    BY <2>1 DEF Moved, rest
  <2>3. Append(rest, r) = InsertAt(rest, Len(rest) + 1, r)
    BY <1>1, AppendIsInsert
  <2> QED  BY <2>1, <2>2, <2>3 DEF rest
<1> QED
  BY <1>2, <1>3

\* There is such a place for every destination in the menu.
LEMMA SomePlace ==
    ASSUME NEW rs \in Menus, NEW r \in ToSet(rs),
           NEW b, b # r, b \in ToSet(rs) \cup {End}
    PROVE  \E k \in 1..Len(rs) :
              /\ b = IF k <= Len(rs) - 1 THEN RemoveFirst(rs, r)[k] ELSE End
              /\ b # End => k <= Len(rs) - 1
<1> DEFINE rest == RemoveFirst(rs, r)
<1>1. /\ rest \in Menus /\ Len(rest) = Len(rs) - 1 /\ ToSet(rest) = ToSet(rs) \ {r}
      /\ Len(rs) \in Nat /\ Len(rs) >= 1
  <2>1. PICK i \in 1..Len(rs) : rs[i] = r
    BY Elements
  <2>2. Len(rs) \in Nat
    BY OrderType
  <2> QED  BY <2>1, <2>2, RestIs
<1> HIDE DEF rest
<1>2. CASE b = End
  <2>1. Len(rs) \in 1..Len(rs) /\ ~(Len(rs) <= Len(rs) - 1)
    BY <1>1
  <2> QED  BY <1>2, <2>1
<1>3. CASE b # End
  <2>1. PICK k \in 1..Len(rest) : rest[k] = b
    BY <1>1, <1>3, Elements
  <2>2. k \in 1..Len(rs) /\ k <= Len(rs) - 1
    BY <1>1
  <2> QED  BY <2>1, <2>2 DEF rest
<1> QED
  BY <1>2, <1>3

\* What a move leaves: an order of the same rules, the others in their order.
LEMMA MoveKeeps ==
    ASSUME NEW rs \in Menus, NEW r \in ToSet(rs),
           NEW b, b # r, b \in ToSet(rs) \cup {End}
    PROVE  LET s == Moved(rs, r, b)
           IN  /\ s \in Menus /\ ToSet(s) = ToSet(rs) /\ Len(s) = Len(rs)
               /\ RemoveFirst(s, r) = RemoveFirst(rs, r)
               /\ b # End => PlaceOf(s, r) + 1 < Len(s) /\ s[PlaceOf(s, r) + 2] = b
<1> DEFINE rest == RemoveFirst(rs, r)  s == Moved(rs, r, b)
<1>1. PICK k \in 1..Len(rs) :
        /\ b = IF k <= Len(rs) - 1 THEN rest[k] ELSE End
        /\ b # End => k <= Len(rs) - 1
  BY SomePlace
<1>2. s = InsertAt(rest, k, r)
  BY <1>1, MovedIs
<1>3. /\ rest \in Menus /\ Len(rest) = Len(rs) - 1 /\ ToSet(rest) = ToSet(rs) \ {r}
      /\ Len(rs) \in Nat /\ r \in Rule
  BY RestIs, OrderType, Elements
<1> HIDE DEF rest, s
<1>4. k \in 1..(Len(rest) + 1) /\ r \notin ToSet(rest)
  BY <1>3
<1>5. /\ s \in Menus /\ Len(s) = Len(rest) + 1 /\ ToSet(s) = ToSet(rest) \cup {r}
      /\ PlaceOf(s, r) = k - 1
      /\ k <= Len(rest) => s[k + 1] = rest[k]
      /\ RemoveFirst(s, r) = rest
  <2> DEFINE t == InsertAt(rest, k, r)
  <2>1. /\ t \in Menus /\ Len(t) = Len(rest) + 1 /\ ToSet(t) = ToSet(rest) \cup {r}
        /\ PlaceOf(t, r) = k - 1
        /\ k <= Len(rest) => t[k + 1] = rest[k]
        /\ RemoveFirst(t, r) = rest
    BY <1>3, <1>4, InsertedIs
  <2>2. s = t
    BY <1>2
  <2> HIDE DEF t
  <2> QED  BY <2>1, <2>2
<1>6. b # End => PlaceOf(s, r) + 1 < Len(s) /\ s[PlaceOf(s, r) + 2] = b
  <2> SUFFICES ASSUME b # End PROVE PlaceOf(s, r) + 1 < Len(s) /\ s[PlaceOf(s, r) + 2] = b
    OBVIOUS
  <2>1. k <= Len(rest) /\ b = rest[k]
    BY <1>1, <1>3
  <2>2. (k - 1) + 2 = k + 1 /\ (k - 1) + 1 < Len(s)
    BY <1>3, <1>5, <2>1
  <2> QED  BY <1>5, <2>1, <2>2
<1>7. Len(s) = Len(rs) /\ ToSet(s) = ToSet(rs)
  BY <1>3, <1>5
<1> QED
  BY <1>5, <1>6, <1>7 DEF rest, s

-----------------------------------------------------------------------------
(* What a call resolves.                                                    *)

\* The only match is a match.
LEMMA TheMatch ==
    ASSUME NEW rs \in Menus, NEW comment, NEW chain,
           Cardinality(Matches(rs, comment, chain)) = 1
    PROVE  /\ The(Matches(rs, comment, chain)) \in ToSet(rs)
           /\ Carries(The(Matches(rs, comment, chain)), comment, chain)
<1> DEFINE S == Matches(rs, comment, chain)
<1>1. S \subseteq Rule
  BY Elements DEF Matches
<1>2. IsFiniteSet(S)
  BY <1>1, FirewallMoveConstants, FS_Subset
<1>3. PICK x : S = {x}
  <2> HIDE DEF S
  <2> QED  BY <1>2, FS_Singleton DEF S
<1>4. The(S) \in S
  <2> HIDE DEF S
  <2> QED  BY <1>3 DEF The
<1> QED
  BY <1>4 DEF Matches, Carries

\* A request that resolves names a rule, a place among the others and the rule
\* that is there, and the move brings the rule to that place.
LEMMA Resolved ==
    ASSUME NEW rs \in Menus, NEW q \in Requests, Resolves(rs, q)
    PROVE  LET t == Target(rs, q)
               n == NewIndex(rs, q)
               d == Destination(rs, q)
               rest == Remaining(rs, q)
           IN  /\ t \in ToSet(rs) /\ t \in Rule /\ Carries(t, q.comment, q.chain)
               /\ n \in Nat /\ n <= Len(rest)
               /\ d \in ToSet(rs) \cup {End} /\ d # t
               /\ d = IF n + 1 <= Len(rs) - 1 THEN rest[n + 1] ELSE End
               /\ n + 1 \in 1..Len(rs)
               /\ q.before # NotGiven => d # End /\ Carries(d, q.before, q.chain)
<1> DEFINE t == Target(rs, q)
           n == NewIndex(rs, q)
           d == Destination(rs, q)
           rest == Remaining(rs, q)
<1>1. t \in ToSet(rs) /\ t \in Rule /\ Carries(t, q.comment, q.chain) /\ t # End
  BY TheMatch, Elements, FirewallMoveConstants DEF Resolves, Target
<1>2. rest = RemoveFirst(rs, t)
  BY DEF Remaining
<1> HIDE DEF t
<1>3. /\ rest \in Menus /\ Len(rest) = Len(rs) - 1 /\ ToSet(rest) = ToSet(rs) \ {t}
      /\ Len(rs) \in Nat /\ Len(rest) \in Nat
  BY <1>1, <1>2, RestIs, OrderType
<1>4. d = IF n < Len(rest) THEN rest[n + 1] ELSE End
  BY DEF Destination
<1>5. CASE q.before # NotGiven
  <2> DEFINE x == The(Matches(rest, q.before, q.chain))
  <2>1. x \in ToSet(rest) /\ Carries(x, q.before, q.chain)
    BY <1>3, <1>5, TheMatch DEF Resolves
  <2>2. n = PlaceOf(rest, x)
    BY <1>5 DEF NewIndex
  <2> HIDE DEF x, n, d, rest
  <2>3. PICK k \in 1..Len(rest) : rest[k] = x
    BY <1>3, <2>1, Elements
  <2>4. n = k - 1
    BY <1>3, <2>2, <2>3, PlaceIs
  <2>5. n \in Nat /\ n < Len(rest) /\ n + 1 = k
    BY <1>3, <2>4
  <2>6. d = x /\ d # End /\ d # t
    BY <1>3, <1>4, <2>1, <2>3, <2>5, Elements, FirewallMoveConstants
  <2>7. n + 1 <= Len(rs) - 1 /\ n + 1 \in 1..Len(rs) /\ n <= Len(rest)
    BY <1>3, <2>5
  <2>8. d = IF n + 1 <= Len(rs) - 1 THEN rest[n + 1] ELSE End
    BY <1>4, <2>5, <2>7
  <2> QED
    BY <1>1, <1>3, <2>1, <2>5, <2>6, <2>7, <2>8 DEF t, n, d, rest
<1>6. CASE q.before = NotGiven
  <2>1. q.position \in Nat
    BY <1>6, FirewallMoveConstants DEF WellFormed
  <2>2. n = IF q.position < Len(rest) THEN q.position ELSE Len(rest)
    BY <1>6 DEF NewIndex
  <2> HIDE DEF n, d, rest
  <2>3. n \in Nat /\ n <= Len(rest)
    BY <1>3, <2>1, <2>2
  <2>4. d = IF n + 1 <= Len(rs) - 1 THEN rest[n + 1] ELSE End
    BY <1>3, <1>4, <2>3
  <2>5. d \in ToSet(rs) \cup {End} /\ d # t
    <3>1. CASE n < Len(rest)
      <4>1. n + 1 \in 1..Len(rest)
        BY <1>3, <2>3, <3>1
      <4> QED  BY <1>3, <1>4, <3>1, <4>1, Elements
    <3>2. CASE ~(n < Len(rest))
      BY <1>1, <1>4, <3>2
    <3> QED  BY <3>1, <3>2
  <2>6. Len(rs) >= 1 /\ n + 1 \in 1..Len(rs)
    BY <1>3, <2>3
  <2> QED
    BY <1>1, <1>6, <2>3, <2>4, <2>5, <2>6 DEF t, n, d, rest
<1> QED
  BY <1>5, <1>6

\* The move of a request lands where the request says, and leaves a menu in
\* which the request resolves to the same rule and the same place, and in which
\* the same move changes nothing.
LEMMA Settled ==
    ASSUME NEW rs \in Menus, NEW q \in Requests, Resolves(rs, q),
           NEW s, s = Moved(rs, Target(rs, q), Destination(rs, q))
    PROVE  /\ s \in Menus /\ Len(s) = Len(rs)
           /\ PlaceOf(s, Target(rs, q)) = NewIndex(rs, q)
           /\ Resolves(s, q)
           /\ Moved(s, Target(s, q), Destination(s, q)) = s
<1> DEFINE t == Target(rs, q)
           n == NewIndex(rs, q)
           d == Destination(rs, q)
           rest == Remaining(rs, q)
<1>1. /\ t \in ToSet(rs) /\ t \in Rule /\ n \in Nat
      /\ d \in ToSet(rs) \cup {End} /\ d # t
      /\ d = IF n + 1 <= Len(rs) - 1 THEN rest[n + 1] ELSE End
      /\ n + 1 \in 1..Len(rs)
  BY Resolved
<1>2. rest = RemoveFirst(rs, t)
  BY DEF Remaining
<1>3. /\ rest \in Menus /\ Len(rest) = Len(rs) - 1 /\ ToSet(rest) = ToSet(rs) \ {t}
      /\ Len(rs) \in Nat
  BY <1>1, <1>2, RestIs, OrderType
<1>4. s = Moved(rs, t, d)
  OBVIOUS
<1>5. s \in Menus /\ ToSet(s) = ToSet(rs) /\ Len(s) = Len(rs) /\ RemoveFirst(s, t) = rest
  <2> HIDE DEF t, d, rest
  <2> QED  BY <1>1, <1>2, <1>4, MoveKeeps
<1>6. PlaceOf(s, t) = n
  <2> HIDE DEF t, n, d, rest
  <2>1. s = InsertAt(rest, n + 1, t)
    BY <1>1, <1>2, <1>4, MovedIs
  <2>2. n + 1 \in 1..(Len(rest) + 1) /\ t \notin ToSet(rest)
    BY <1>1, <1>3
  <2>3. PlaceOf(s, t) = (n + 1) - 1
    BY <1>1, <1>3, <2>1, <2>2, InsertedIs
  <2> QED  BY <1>1, <2>3
<1>7. \A comment, chain : Matches(s, comment, chain) = Matches(rs, comment, chain)
  BY <1>5 DEF Matches
<1>8. Target(s, q) = t
  BY <1>7 DEF Target
<1>9. Remaining(s, q) = rest
  BY <1>5, <1>8 DEF Remaining
<1>10. Resolves(s, q)
  BY <1>7, <1>9 DEF Resolves
<1>11. NewIndex(s, q) = n
  BY <1>9 DEF NewIndex
<1>12. Destination(s, q) = d
  BY <1>9, <1>11 DEF Destination
<1>13. Moved(s, t, d) = s
  BY <1>2, <1>4, <1>5 DEF Moved
<1> QED
  BY <1>5, <1>6, <1>8, <1>10, <1>12, <1>13

-----------------------------------------------------------------------------
(* The invariant.                                                           *)

\* What the call in flight found, and what the last one left.
CallInv ==
    /\ edited => last = NoRequest
    /\ pc # "idle" => req \in Requests
    /\ pc = "move" =>
         /\ req.confirm
         /\ Carries(target, req.comment, req.chain)
         /\ req.before # NotGiven => dest # End /\ Carries(dest, req.before, req.chain)
    /\ pc = "move" /\ ~edited =>
         /\ Resolves(menu, req)
         /\ target = Target(menu, req)
         /\ dest = Destination(menu, req)
         /\ index = NewIndex(menu, req)
    /\ last # NoRequest =>
         /\ Resolves(menu, last)
         /\ Moved(menu, Target(menu, last), Destination(menu, last)) = menu

IInv == TypeOK /\ CallInv

LEMMA NoRequestIsNone == NoRequest \notin Requests
BY FirewallMoveConstants DEF WellFormed, NoRequest

LEMMA InitIInv == Init => IInv
<1> SUFFICES ASSUME Init PROVE IInv
  OBVIOUS
<1>1. TypeOK
  BY FirewallMoveConstants DEF Init, TypeOK
<1>2. CallInv
  BY DEF Init, CallInv
<1> QED
  BY <1>1, <1>2 DEF IInv

LEMMA BeginKeeps ==
    ASSUME IInv, NEW q \in Requests, Begin(q)
    PROVE  IInv'
<1>1. TypeOK'
  BY FirewallMoveConstants DEF IInv, TypeOK, Begin, found
<1>2. CallInv'
  BY DEF IInv, CallInv, Begin, found
<1> QED
  BY <1>1, <1>2 DEF IInv

LEMMA ReadKeeps ==
    ASSUME IInv, Read
    PROVE  IInv'
<1>1. pc = "read" /\ edited' = FALSE /\ menu' = menu /\ req' = req /\ last' = last
      /\ menu \in Menus /\ req \in Requests /\ last \in Requests \cup {NoRequest}
  BY DEF IInv, TypeOK, CallInv, Read
<1>2. CASE ~(Resolves(menu, req) /\ req.confirm) /\ Return
  <2>1. pc' = "idle" /\ target' = End /\ dest' = End /\ index' = 0
    BY <1>2 DEF Return
  <2>2. TypeOK'
    BY <1>1, <2>1 DEF TypeOK
  <2>3. CallInv'
    BY <1>1, <2>1 DEF IInv, CallInv
  <2> QED  BY <2>2, <2>3 DEF IInv
<1>3. CASE /\ Resolves(menu, req) /\ req.confirm
           /\ pc' = "move"
           /\ target' = Target(menu, req)
           /\ dest' = Destination(menu, req)
           /\ index' = NewIndex(menu, req)
  <2>1. /\ target' \in Rule /\ Carries(target', req.comment, req.chain)
        /\ index' \in Nat
        /\ dest' \in ToSet(menu) \cup {End} /\ dest' # target'
        /\ req.before # NotGiven => dest' # End /\ Carries(dest', req.before, req.chain)
    BY <1>1, <1>3, Resolved
  <2>2. dest' \in Rule \cup {End} /\ target' # End
    BY <1>1, <2>1, Elements, FirewallMoveConstants
  <2>3. TypeOK'
    BY <1>1, <1>3, <2>1, <2>2 DEF TypeOK
  <2>4. CallInv'
    BY <1>1, <1>3, <2>1 DEF IInv, CallInv, Carries
  <2> QED  BY <2>3, <2>4 DEF IInv
<1> QED
  BY <1>2, <1>3 DEF Read

\* What the move of a call finds: the rule it is to move, somewhere else than
\* the rule it is to go in front of.
LEMMA MoveFinds ==
    ASSUME IInv, Move
    PROVE  /\ menu \in Menus /\ req \in Requests
           /\ target \in ToSet(menu) /\ target \in Rule
           /\ dest \in ToSet(menu) \cup {End} /\ dest # target
           /\ menu' = Moved(menu, target, dest)
<1>1. pc = "move" /\ target # End /\ Present /\ menu' = Moved(menu, target, dest)
  BY DEF IInv, TypeOK, Move
<1> QED
  BY <1>1 DEF IInv, TypeOK, CallInv, Present

LEMMA MoveKeepsIInv ==
    ASSUME IInv, Move
    PROVE  IInv'
<1>1. /\ pc' = "idle" /\ target' = End /\ dest' = End /\ index' = 0
      /\ req' = req /\ edited' = edited
      /\ last' = IF edited THEN NoRequest ELSE req
  BY DEF Move, Return
<1>2. /\ menu \in Menus /\ req \in Requests
      /\ target \in ToSet(menu)
      /\ dest \in ToSet(menu) \cup {End} /\ dest # target
      /\ menu' = Moved(menu, target, dest)
  BY MoveFinds
<1>3. menu' \in Menus
  BY <1>2, MoveKeeps
<1>4. TypeOK'
  BY <1>1, <1>2, <1>3 DEF IInv, TypeOK
<1>5. CallInv'
  <2>1. CASE edited
    BY <1>1, <2>1 DEF CallInv
  <2>2. CASE ~edited
    <3>1. /\ Resolves(menu, req)
          /\ target = Target(menu, req) /\ dest = Destination(menu, req)
      BY <2>2 DEF IInv, CallInv, Move
    <3>2. /\ Resolves(menu', req)
          /\ Moved(menu', Target(menu', req), Destination(menu', req)) = menu'
      BY <1>2, <3>1, Settled
    <3>3. last' = req /\ ~edited'
      BY <1>1, <2>2
    <3> QED  BY <1>1, <3>2, <3>3 DEF CallInv
  <2> QED  BY <2>1, <2>2
<1> QED
  BY <1>4, <1>5 DEF IInv

LEMMA FailsKeeps ==
    ASSUME IInv, Fails
    PROVE  IInv'
<1>1. TypeOK'
  BY DEF IInv, TypeOK, Fails, Return
<1>2. CallInv'
  BY DEF IInv, CallInv, Fails, Return
<1> QED
  BY <1>1, <1>2 DEF IInv

\* What an administrator may do to the menu, as far as a call is concerned.
LEMMA EditsKeep ==
    ASSUME IInv, menu' \in Menus, Edits
    PROVE  IInv'
<1>1. TypeOK'
  BY DEF IInv, TypeOK, Edits, found
<1>2. CallInv'
  BY DEF IInv, CallInv, Edits, found, Carries
<1> QED
  BY <1>1, <1>2 DEF IInv

LEMMA NextIInv == IInv /\ [Next]_vars => IInv'
<1> SUFFICES ASSUME IInv, [Next]_vars PROVE IInv'
  OBVIOUS
<1>1. ASSUME NEW q \in Requests, Begin(q) PROVE IInv'
  BY <1>1, BeginKeeps
<1>2. CASE Read
  BY <1>2, ReadKeeps
<1>3. CASE Move
  BY <1>3, MoveKeepsIInv
<1>4. CASE Fails
  BY <1>4, FailsKeeps
<1>5. ASSUME NEW r \in Rule, NEW i \in 1..(Len(menu) + 1), AddRule(r, i) PROVE IInv'
  <2>1. menu \in Menus
    BY DEF IInv, TypeOK
  <2>2. menu' \in Menus
    BY <1>5, <2>1, InsertedIs DEF AddRule
  <2> QED  BY <1>5, <2>2, EditsKeep DEF AddRule
<1>6. ASSUME NEW r \in Rule, DeleteRule(r) PROVE IInv'
  <2>1. menu \in Menus
    BY DEF IInv, TypeOK
  <2>2. menu' \in Menus
    BY <1>6, <2>1, RestIs DEF DeleteRule
  <2> QED  BY <1>6, <2>2, EditsKeep DEF DeleteRule
<1>7. CASE UNCHANGED vars
  BY <1>7 DEF IInv, TypeOK, CallInv, vars, found
<1> QED
  BY <1>1, <1>2, <1>3, <1>4, <1>5, <1>6, <1>7 DEF Next

LEMMA Invariant == Spec => []IInv
BY InitIInv, NextIInv, PTL DEF Spec

-----------------------------------------------------------------------------
(* Theorems.                                                                *)

\* The variables keep their types: whatever is moved and edited, the menu is an
\* order of rules, none of them twice.
THEOREM TypeCorrect == Spec => []TypeOK
<1>1. IInv => TypeOK
  BY DEF IInv
<1> QED
  BY <1>1, Invariant, PTL

\* The one step that changes the menu and ends a call is its move.
LEMMA OnlyMoveMoves ==
    ASSUME [Next]_vars, pc = "move", pc' = "idle", menu' # menu \/ req = last
    PROVE  Move \/ menu' = menu
BY DEF Next, Begin, Read, Fails, AddRule, DeleteRule, Edits, vars

\* A call moves one rule, one that carries what the caller named, and leaves
\* the others in the order they were in.
THEOREM KeepsTheOthersAlways == Spec => KeepsTheOthers
<1>1. ASSUME IInv, [Next]_vars, pc = "move", pc' = "idle", menu' # menu
      PROVE  /\ req.confirm
             /\ \E r \in ToSet(menu) :
                  /\ Carries(r, req.comment, req.chain)
                  /\ RemoveFirst(menu', r) = RemoveFirst(menu, r)
  <2>1. Move
    BY <1>1, OnlyMoveMoves
  <2>2. /\ menu \in Menus
        /\ target \in ToSet(menu)
        /\ dest \in ToSet(menu) \cup {End} /\ dest # target
        /\ menu' = Moved(menu, target, dest)
    BY <1>1, <2>1, MoveFinds
  <2>3. RemoveFirst(menu', target) = RemoveFirst(menu, target)
    BY <2>2, MoveKeeps
  <2>4. req.confirm /\ Carries(target, req.comment, req.chain)
    BY <1>1 DEF IInv, CallInv
  <2> QED  BY <2>2, <2>3, <2>4
<1>2. IInv /\ [Next]_vars =>
        [(pc = "move" /\ pc' = "idle" /\ menu' # menu) =>
           /\ req.confirm
           /\ \E r \in ToSet(menu) :
                /\ Carries(r, req.comment, req.chain)
                /\ RemoveFirst(menu', r) = RemoveFirst(menu, r)]_vars
  BY <1>1
<1> QED
  BY <1>2, Invariant, PTL DEF Spec, KeepsTheOthers

LEMMA MinOfTwo ==
    ASSUME NEW a \in Nat, NEW b \in Nat
    PROVE  Min({a, b}) = IF a < b THEN a ELSE b
BY DEF Min

\* A rule put in front of another is right in front of it, and one put at a
\* position is at that position or, past the end, behind all others.
THEOREM LandsWhereAskedAlways == Spec => LandsWhereAsked
<1>1. ASSUME IInv, [Next]_vars, pc = "move", pc' = "idle", menu' # menu
      PROVE  LET place == PlaceOf(menu', target)
             IN  /\ req.before # NotGiven =>
                      /\ place + 1 < Len(menu')
                      /\ Carries(menu'[place + 2], req.before, req.chain)
                 /\ ~edited =>
                      /\ place = index
                      /\ req.position # NoPosition =>
                           place = Min({req.position, Len(menu') - 1})
  <2>1. Move
    BY <1>1, OnlyMoveMoves
  <2>2. /\ menu \in Menus /\ req \in Requests
        /\ target \in ToSet(menu)
        /\ dest \in ToSet(menu) \cup {End} /\ dest # target
        /\ menu' = Moved(menu, target, dest)
    BY <1>1, <2>1, MoveFinds
  <2>3. ASSUME req.before # NotGiven
        PROVE  /\ PlaceOf(menu', target) + 1 < Len(menu')
               /\ Carries(menu'[PlaceOf(menu', target) + 2], req.before, req.chain)
    <3>1. dest # End /\ Carries(dest, req.before, req.chain)
      BY <1>1, <2>3 DEF IInv, CallInv
    <3>2. PlaceOf(menu', target) + 1 < Len(menu') /\ menu'[PlaceOf(menu', target) + 2] = dest
      BY <2>2, <3>1, MoveKeeps
    <3> QED  BY <3>1, <3>2
  <2>4. ASSUME ~edited
        PROVE  /\ PlaceOf(menu', target) = index
               /\ req.position # NoPosition =>
                    PlaceOf(menu', target) = Min({req.position, Len(menu') - 1})
    <3>1. /\ Resolves(menu, req) /\ target = Target(menu, req)
          /\ dest = Destination(menu, req) /\ index = NewIndex(menu, req)
      BY <1>1, <2>4 DEF IInv, CallInv
    <3>2. PlaceOf(menu', target) = index /\ Len(menu') = Len(menu)
      BY <2>2, <3>1, Settled
    <3>3. ASSUME req.position # NoPosition
          PROVE  index = Min({req.position, Len(menu') - 1})
      <4>1. req.before = NotGiven /\ req.position \in Nat
        BY <2>2, <3>3, FirewallMoveConstants DEF WellFormed
      <4>2. Len(Remaining(menu, req)) = Len(menu) - 1 /\ Len(menu) - 1 \in Nat
        <5>1. Remaining(menu, req) = RemoveFirst(menu, target)
          BY <3>1 DEF Remaining
        <5>2. RemoveFirst(menu, target) \in Menus /\ Len(RemoveFirst(menu, target)) = Len(menu) - 1
          BY <2>2, RestIs
        <5>3. Len(RemoveFirst(menu, target)) \in Nat
          BY <5>2, OrderType
        <5> QED  BY <5>1, <5>2, <5>3
      <4>3. index = IF req.position < Len(menu) - 1 THEN req.position ELSE Len(menu) - 1
        BY <3>1, <4>1, <4>2 DEF NewIndex
      <4>4. Min({req.position, Len(menu) - 1})
              = IF req.position < Len(menu) - 1 THEN req.position ELSE Len(menu) - 1
        BY <4>1, <4>2, MinOfTwo
      <4> QED  BY <3>2, <4>3, <4>4
    <3> QED  BY <3>2, <3>3
  <2> QED  BY <2>3, <2>4
<1>2. IInv /\ [Next]_vars =>
        [(pc = "move" /\ pc' = "idle" /\ menu' # menu) =>
           LET place == PlaceOf(menu', target)
           IN  /\ req.before # NotGiven =>
                    /\ place + 1 < Len(menu')
                    /\ Carries(menu'[place + 2], req.before, req.chain)
               /\ ~edited =>
                    /\ place = index
                    /\ req.position # NoPosition =>
                         place = Min({req.position, Len(menu') - 1})]_vars
  BY <1>1
<1> QED
  BY <1>2, Invariant, PTL DEF Spec, LandsWhereAsked

\* A move carried out is a move that may be made again: with no edit in
\* between, it resolves to the same rule and the same place, and leaves the
\* menu as it is.
THEOREM RepeatableAlways == Spec => Repeatable
<1>1. ASSUME IInv, [Next]_vars, pc = "move", pc' = "idle", req = last
      PROVE  menu' = menu
  <2>1. CASE Move
    <3>1. /\ req \in Requests /\ menu' = Moved(menu, target, dest)
      BY <1>1, <2>1, MoveFinds
    <3>2. last # NoRequest /\ ~edited
      BY <1>1, <3>1, NoRequestIsNone DEF IInv, CallInv
    <3>3. /\ target = Target(menu, last) /\ dest = Destination(menu, last)
          /\ Moved(menu, Target(menu, last), Destination(menu, last)) = menu
      BY <1>1, <3>2 DEF IInv, CallInv
    <3> QED  BY <3>1, <3>3
  <2> QED  BY <1>1, <2>1, OnlyMoveMoves
<1>2. IInv /\ [Next]_vars =>
        [(pc = "move" /\ pc' = "idle" /\ req = last) => menu' = menu]_vars
  BY <1>1
<1> QED
  BY <1>2, Invariant, PTL DEF Spec, Repeatable
=============================================================================
