---------------------------- MODULE OutlineProofs ----------------------------
(* Theorems about the outline editor: whatever an operation does to the list   *)
(* of levels, a module that it does not remove keeps the modules it stands     *)
(* under, unless it is moved with what it stands under; for outlines of any    *)
(* length and depth.                                                           *)
EXTENDS OutlineEditor, SequenceTheorems, FiniteSetTheorems, WellFoundedInduction, TLAPS

-----------------------------------------------------------------------------
(* Positions in an outline.                                                    *)

Outline == Seq(Section)

\* Sets of positions have a least and a greatest element.
LEMMA LeastOf ==
    ASSUME NEW N \in SUBSET Nat, N # {}
    PROVE  \E k \in N : \A l \in N : k <= l
<1>1. PICK k \in N : \A l \in N : ~(<<l, k>> \in OpToRel(<, Nat))
  BY WFMin, NatLessThanWellFounded
<1>2. \A l \in N : k <= l
  <2> SUFFICES ASSUME NEW l \in N PROVE k <= l
    OBVIOUS
  <2>1. ~(l < k)
    BY <1>1 DEF OpToRel
  <2> QED
    BY <2>1
<1> QED
  BY <1>1, <1>2

LEMMA GreatestOf ==
    ASSUME NEW n \in Nat, NEW N \in SUBSET (0..n), N # {}
    PROVE  \E k \in N : \A l \in N : l <= k
<1> DEFINE Below == {n - k : k \in N}
<1>1. Below \in SUBSET Nat /\ Below # {}
  <2>1. \A k \in N : n - k \in Nat
    OBVIOUS
  <2>2. PICK k \in N : TRUE
    OBVIOUS
  <2>3. n - k \in Below
    BY <2>2
  <2> QED
    BY <2>1, <2>3
<1>2. PICK b \in Below : \A l \in Below : b <= l
  BY <1>1, LeastOf
<1>3. PICK k \in N : b = n - k
  OBVIOUS
<1>4. \A l \in N : n - l \in Below
  OBVIOUS
<1>5. \A l \in N : n - k <= n - l
  BY <1>2, <1>3, <1>4
<1> QED
  BY <1>5

\* What can be said of the elements of an outline.
LEMMA Elements ==
    ASSUME NEW s \in Outline
    PROVE  /\ Len(s) \in Nat /\ DOMAIN s = 1..Len(s)
           /\ \A i \in 1..Len(s) : /\ s[i] \in Section /\ s[i].id \in Nat /\ s[i].level \in Int
                                   /\ s[i].level >= 2 /\ s[i].level <= Deepest
<1>1. \A i \in 1..Len(s) : s[i] \in Section
  BY ElementOfSeq DEF Outline
<1>2. Len(s) \in Nat /\ DOMAIN s = 1..Len(s)
  BY LenProperties DEF Outline
<1> QED
  BY <1>1, <1>2, OutlineAssumption DEF Section

\* Heading p, or none (0), is the one that heading i stands under.
Under(s, p, i) ==
    /\ p \in 0..i-1
    /\ p # 0 => s[p].level < s[i].level
    /\ \A j \in p+1..i-1 : s[j].level >= s[i].level

\* A section stands under one heading: the one ParentOf chooses.
LEMMA UnderParent ==
    ASSUME NEW s \in Outline, NEW i \in 1..Len(s)
    PROVE  Under(s, ParentOf(s, i), i) /\ \A p : Under(s, p, i) => p = ParentOf(s, i)
<1> USE Elements
<1>1. CASE Above(s, i) = {}
  <2>1. ParentOf(s, i) = 0
    BY <1>1 DEF ParentOf
  <2>2. \A j \in 1..i-1 : s[j].level >= s[i].level
    BY <1>1 DEF Above
  <2> QED
    BY <2>1, <2>2 DEF Under
<1>2. CASE Above(s, i) # {}
  <2>1. Above(s, i) \in SUBSET (0..Len(s))
    BY DEF Above
  <2>2. \E k \in Above(s, i) : \A l \in Above(s, i) : l <= k
    BY <1>2, <2>1, GreatestOf
  <2> DEFINE q == CHOOSE j \in Above(s, i) : \A k \in Above(s, i) : k <= j
  <2>3. q \in Above(s, i) /\ \A k \in Above(s, i) : k <= q
    BY <2>2
  <2>4. ParentOf(s, i) = q
    BY <1>2 DEF ParentOf
  <2> HIDE DEF q
  <2>5. Under(s, q, i)
    BY <2>3 DEF Under, Above
  <2>6. ASSUME NEW p, Under(s, p, i) PROVE p = q
    <3>1. p # 0
      BY <2>3, <2>6 DEF Under, Above
    <3>2. p \in Above(s, i)
      BY <2>6, <3>1 DEF Under, Above
    <3>3. ~(p < q)
      BY <2>3, <2>6 DEF Under, Above
    <3> QED
      BY <2>1, <2>3, <3>2, <3>3
  <2> QED
    BY <2>4, <2>5, <2>6
<1> QED
  BY <1>1, <1>2

\* What moves together keeps its parent.
LEMMA MovedTogether ==
    ASSUME NEW s, NEW t, NEW i \in Nat, NEW p \in 1..i-1, Under(s, p, i), NEW d \in Int, p+d \in Nat \ {0},
           \A j \in p+d..i+d : t[j] = s[j-d]
    PROVE  Under(t, p+d, i+d)
<1>1. s[p].level < s[i].level /\ \A j \in p+1..i-1 : s[j].level >= s[i].level
  BY DEF Under
<1>2. t[p+d] = s[p] /\ t[i+d] = s[i]
  <2>1. p+d \in p+d..i+d /\ i+d \in p+d..i+d /\ (p+d)-d = p /\ (i+d)-d = i
    OBVIOUS
  <2>2. t[p+d] = s[(p+d)-d] /\ t[i+d] = s[(i+d)-d]
    BY <2>1
  <2> QED
    BY <2>1, <2>2
<1>3. ASSUME NEW j \in (p+d)+1..(i+d)-1 PROVE t[j].level >= t[i+d].level
  <2>1. j \in p+d..i+d /\ j-d \in p+1..i-1
    OBVIOUS
  <2>2. t[j] = s[j-d] /\ s[j-d].level >= s[i].level
    BY <1>1, <2>1
  <2> QED
    BY <1>2, <2>2
<1>4. p+d \in 0..(i+d)-1 /\ t[p+d].level < t[i+d].level
  BY <1>1, <1>2
<1> QED
  BY <1>3, <1>4 DEF Under

\* A subtree reaches to the first heading that is no deeper than its own.
LEMMA EndFacts ==
    ASSUME NEW s \in Outline, NEW i \in 1..Len(s)
    PROVE  /\ EndOf(s, i) \in i+1..Len(s)+1
           /\ \A j \in i+1..EndOf(s, i)-1 : s[j].level > s[i].level
           /\ EndOf(s, i) <= Len(s) => s[EndOf(s, i)].level <= s[i].level
<1> USE Elements
<1> DEFINE outside == {j \in i+1..Len(s) : s[j].level <= s[i].level}
<1>1. CASE outside = {}
  <2>1. EndOf(s, i) = Len(s) + 1
    BY <1>1 DEF EndOf
  <2>2. Len(s) \in Nat /\ \A j \in i+1..Len(s) : s[j].level > s[i].level
    BY <1>1
  <2> QED
    BY <2>1, <2>2
<1>2. CASE outside # {}
  <2>1. outside \in SUBSET Nat
    OBVIOUS
  <2>2. \E k \in outside : \A l \in outside : k <= l
    BY <1>2, <2>1, LeastOf
  <2>3. EndOf(s, i) = CHOOSE j \in outside : \A k \in outside : j <= k
    BY <1>2 DEF EndOf
  <2>4. EndOf(s, i) \in outside /\ \A k \in outside : EndOf(s, i) <= k
    BY <2>2, <2>3
  <2> QED
    BY <2>4
<1> QED
  BY <1>1, <1>2

\* A tree: every heading is one level below the one it stands under.
LEMMA TreeByUnder ==
    ASSUME NEW s \in Outline
    PROVE  ValidTree(s) <=> \A i \in 1..Len(s) : \A p : Under(s, p, i) =>
                                s[i].level = IF p = 0 THEN 2 ELSE s[p].level + 1
BY UnderParent DEF ValidTree

-----------------------------------------------------------------------------
(* Identifiers.                                                                *)

\* The n-th number that is not taken.
LEMMA SerialFresh ==
    ASSUME NEW taken \in SUBSET Nat, IsFiniteSet(taken), NEW n \in Nat \ {0}
    PROVE  /\ Serial(taken, n) \in Nat \ {0} /\ Serial(taken, n) \notin taken
           /\ Cardinality((1..Serial(taken, n)) \ taken) = n
<1> DEFINE Free(k) == (1..k) \ taken
           Enough == {k \in Nat : Cardinality(Free(k)) >= n}
           m == Cardinality(taken) + n
<1>1. m \in Nat
  BY FS_CardinalityType
<1>2. \A k \in Nat : IsFiniteSet(Free(k)) /\ Cardinality(Free(k)) \in Nat
  <2> SUFFICES ASSUME NEW k \in Nat PROVE IsFiniteSet(Free(k)) /\ Cardinality(Free(k)) \in Nat
    OBVIOUS
  <2>1. IsFiniteSet(1..k)
    BY FS_Interval
  <2>2. IsFiniteSet(Free(k))
    BY <2>1, FS_Difference
  <2> HIDE DEF Free
  <2> QED
    BY <2>2, FS_CardinalityType
<1>3. m \in Enough
  <2>1. Cardinality(1..m) = m /\ IsFiniteSet(1..m)
    BY <1>1, FS_Interval
  <2>2. Cardinality(Free(m)) = Cardinality(1..m) - Cardinality((1..m) \cap taken)
    BY <2>1, FS_Difference
  <2>3. Cardinality((1..m) \cap taken) <= Cardinality(taken) /\ Cardinality((1..m) \cap taken) \in Nat
    BY <2>1, FS_Intersection, FS_CardinalityType
  <2>4. Cardinality(taken) \in Nat
    BY FS_CardinalityType
  <2> HIDE DEF Free
  <2>5. Cardinality(Free(m)) >= n
    BY <2>1, <2>2, <2>3, <2>4
  <2> QED
    BY <1>1, <2>5
<1>4. PICK k \in Enough : \A l \in Enough : k <= l
  BY <1>3, LeastOf
<1>5. k \in Nat /\ k <= m /\ Cardinality(Free(k)) >= n
  BY <1>3, <1>4
<1>6. k # 0
  <2>1. Free(0) = {}
    OBVIOUS
  <2>2. Cardinality(Free(0)) = 0
    BY <2>1, FS_EmptySet
  <2> QED
    BY <1>5, <2>2
<1>7. k-1 \in Nat /\ Cardinality(Free(k-1)) < n
  <2>1. k-1 \in Nat /\ k-1 \notin Enough
    BY <1>4, <1>5, <1>6
  <2> HIDE DEF Free
  <2> QED
    BY <1>2, <2>1
<1>8. k \notin taken
  <2>1. k \in taken => Free(k) = Free(k-1)
    BY <1>5, <1>6
  <2> HIDE DEF Free
  <2> QED
    BY <1>2, <1>5, <1>7, <2>1
<1>9. Cardinality(Free(k)) = n
  <2>1. Free(k) = Free(k-1) \cup {k} /\ k \notin Free(k-1)
    BY <1>5, <1>6, <1>8
  <2>2. Cardinality(Free(k)) = Cardinality(Free(k-1)) + 1
    BY <1>2, <1>7, <2>1, FS_AddElement
  <2> HIDE DEF Free
  <2> QED
    BY <1>2, <1>5, <1>7, <2>2
<1>10. k \in 1..m
  BY <1>1, <1>5, <1>6
<1>11. Serial(taken, n) = CHOOSE l \in 1..m : l \notin taken /\ Cardinality(Free(l)) = n
  BY DEF Serial
<1> HIDE DEF m, Free
<1>12. Serial(taken, n) \in 1..m /\ Serial(taken, n) \notin taken /\ Cardinality(Free(Serial(taken, n))) = n
  BY <1>8, <1>9, <1>10, <1>11
<1> QED
  BY <1>1, <1>12 DEF Free

\* The identifiers of an outline are finitely many, so some are free.
LEMMA IdsFinite ==
    ASSUME NEW s \in Outline
    PROVE  Ids(s) \in SUBSET Nat /\ IsFiniteSet(Ids(s))
<1> DEFINE all == {s[i].id : i \in 1..Len(s)}
           number == [i \in 1..Len(s) |-> s[i].id]
<1>1. Len(s) \in Nat /\ all \subseteq Nat
  BY Elements
<1>2. number \in Surjection(1..Len(s), all)
  BY DEF Surjection
<1>3. IsFiniteSet(all)
  BY <1>1, <1>2, FS_Interval, FS_Surjection
<1>4. Ids(s) \in SUBSET all
  BY DEF Ids
<1> QED
  BY <1>1, <1>3, <1>4, FS_Subset

\* Sections without an identifier are counted.
LEMMA MissingCounts ==
    ASSUME NEW s \in Outline, NEW i \in 1..Len(s), s[i].id = 0
    PROVE  /\ Missing(s, i) \in Nat \ {0}
           /\ \A j \in 1..Len(s) : s[j].id = 0 /\ i # j => Missing(s, i) # Missing(s, j)
<1> DEFINE Without(k) == {j \in 1..k : s[j].id = 0}
<1>1. Len(s) \in Nat
  BY Elements
<1>2. \A k \in Nat : IsFiniteSet(Without(k)) /\ Cardinality(Without(k)) \in Nat
  <2> SUFFICES ASSUME NEW k \in Nat PROVE IsFiniteSet(Without(k)) /\ Cardinality(Without(k)) \in Nat
    OBVIOUS
  <2>1. IsFiniteSet(1..k) /\ Without(k) \in SUBSET (1..k)
    BY FS_Interval
  <2> HIDE DEF Without
  <2>2. IsFiniteSet(Without(k))
    BY <2>1, FS_Subset
  <2> QED
    BY <2>2, FS_CardinalityType
<1>3. i \in Without(i)
  BY <1>1
<1>4. Missing(s, i) \in Nat \ {0}
  <2>1. Missing(s, i) = Cardinality(Without(i)) /\ i \in Nat
    BY <1>1 DEF Missing
  <2> HIDE DEF Without
  <2> QED
    BY <1>2, <1>3, <2>1, FS_EmptySet
<1>5. ASSUME NEW j \in 1..Len(s), NEW k \in 1..Len(s), s[k].id = 0, j < k
      PROVE  Missing(s, j) # Missing(s, k)
  <2>1. Without(j) \in SUBSET Without(k) /\ k \in Without(k) /\ k \notin Without(j)
    BY <1>1, <1>5
  <2>2. Cardinality(Without(j)) # Cardinality(Without(k))
    <3>1. j \in Nat /\ k \in Nat
      BY <1>1
    <3> HIDE DEF Without
    <3>2. IsFiniteSet(Without(k))
      BY <1>2, <3>1
    <3>3. Cardinality(Without(k)) = Cardinality(Without(j)) => Without(k) = Without(j)
      BY <2>1, <3>2, FS_Subset
    <3> QED
      BY <2>1, <3>3
  <2> QED
    BY <2>2 DEF Missing
<1>6. ASSUME NEW j \in 1..Len(s), s[j].id = 0, i # j PROVE Missing(s, i) # Missing(s, j)
  <2>1. i < j \/ j < i
    BY <1>1, <1>6
  <2> QED
    BY <1>5, <1>6, <2>1
<1> QED
  BY <1>4, <1>6

\* Numbering gives every section an identifier that is free and its own.
LEMMA Numbered ==
    ASSUME NEW s \in Outline
    PROVE  /\ WithIds(s) \in Outline /\ Len(WithIds(s)) = Len(s)
           /\ \A i \in 1..Len(s) :
                 /\ WithIds(s)[i].level = s[i].level /\ WithIds(s)[i].id # 0
                 /\ s[i].id # 0 => WithIds(s)[i] = s[i]
                 /\ s[i].id = 0 => WithIds(s)[i].id \notin Ids(s)
           /\ \A i, j \in 1..Len(s) :
                 s[i].id = 0 /\ s[j].id = 0 /\ WithIds(s)[i].id = WithIds(s)[j].id => i = j
<1> DEFINE Own(i) == Serial(Ids(s), Missing(s, i))
           u == WithIds(s)
<1>1. Len(s) \in Nat
  BY Elements
<1>2. ASSUME NEW i \in 1..Len(s), s[i].id = 0
      PROVE  Own(i) \in Nat \ {0} /\ Own(i) \notin Ids(s) /\ Cardinality((1..Own(i)) \ Ids(s)) = Missing(s, i)
  BY <1>2, MissingCounts, IdsFinite, SerialFresh
<1>3. u = [i \in 1..Len(s) |-> IF s[i].id # 0 THEN s[i] ELSE [s[i] EXCEPT !.id = Own(i)]]
  BY DEF WithIds
<1>4. ASSUME NEW i \in 1..Len(s)
      PROVE  /\ u[i] \in Section /\ u[i].level = s[i].level /\ u[i].id # 0
             /\ s[i].id # 0 => u[i] = s[i]
             /\ s[i].id = 0 => u[i].id = Own(i)
  <2>1. CASE s[i].id # 0
    BY <1>3, <2>1, Elements
  <2>2. CASE s[i].id = 0
    <3>1. u[i] = [s[i] EXCEPT !.id = Own(i)]
      BY <1>3, <2>2
    <3>2. Own(i) \in Nat \ {0}
      BY <1>2, <2>2
    <3>3. s[i] \in Section
      BY Elements
    <3> HIDE DEF u, Own
    <3> QED
      BY <2>2, <3>1, <3>2, <3>3 DEF Section
  <2> QED
    BY <2>1, <2>2
<1> HIDE DEF Own
<1>5. u \in Seq(Section) /\ Len(u) = Len(s)
  <2>1. u \in [1..Len(s) -> Section]
    BY <1>3, <1>4
  <2> HIDE DEF u
  <2> QED
    BY <1>1, <2>1
<1>6. ASSUME NEW i \in 1..Len(s), NEW j \in 1..Len(s), s[i].id = 0, s[j].id = 0, u[i].id = u[j].id
      PROVE  i = j
  <2>1. Own(i) = Own(j)
    BY <1>4, <1>6
  <2>2. Missing(s, i) = Missing(s, j)
    BY <1>2, <1>6, <2>1
  <2> QED
    BY <1>6, <2>2, MissingCounts
<1> QED
  BY <1>2, <1>4, <1>5, <1>6 DEF Outline

\* Where no identifier is missing, numbering changes nothing.
LEMMA NumberedOnce ==
    ASSUME NEW s \in Outline, \A i \in 1..Len(s) : s[i].id # 0
    PROVE  WithIds(s) = s
<1>1. WithIds(s) \in Seq(Section) /\ s \in Seq(Section) /\ Len(WithIds(s)) = Len(s)
  BY Numbered DEF Outline
<1>2. \A i \in 1..Len(s) : WithIds(s)[i] = s[i]
  BY Numbered
<1> QED
  BY <1>1, <1>2, SeqEqual

\* Numbering, writing and reading again is numbering once.
LEMMA CommitNumbers ==
    ASSUME NEW s \in Outline
    PROVE  ParseOutline(WithIds(s)) = WithIds(s)
BY Numbered, NumberedOnce DEF ParseOutline

-----------------------------------------------------------------------------
(* What an operation carries over: to[i] is the new place of section i, for    *)
(* the sections that are kept; what is not carried over is new.                *)

Carried(s, t, kept, to) ==
    /\ kept \subseteq 1..Len(s)
    /\ \A i \in kept : to[i] \in 1..Len(t) /\ t[to[i]].id = s[i].id
    /\ \A k \in 1..Len(t) : \/ t[k].id = 0 /\ kept = 1..Len(s)
                            \/ \E i \in kept : k = to[i]

\* Section i stands under the section it stood under.
Follows(s, t, kept, to, i) ==
    \A p : Under(s, p, i) => IF p = 0 THEN Under(t, 0, to[i]) ELSE p \in kept /\ Under(t, to[p], to[i])

Known(s) == s \in Outline /\ \A i \in 1..Len(s) : s[i].id # 0

\* Numbering changes no level, so nothing that depends on levels only.
LEMMA UnderNumbered ==
    ASSUME NEW s \in Outline, NEW i \in 1..Len(s), NEW p
    PROVE  Under(WithIds(s), p, i) <=> Under(s, p, i)
<1>1. \A j \in 1..Len(s) : WithIds(s)[j].level = s[j].level
  BY Numbered
<1>2. Len(s) \in Nat
  BY Elements
<1> QED
  BY <1>1, <1>2 DEF Under

LEMMA TreeNumbered ==
    ASSUME NEW s \in Outline
    PROVE  ValidTree(WithIds(s)) <=> ValidTree(s)
<1>1. WithIds(s) \in Outline /\ Len(WithIds(s)) = Len(s)
      /\ \A j \in 1..Len(s) : WithIds(s)[j].level = s[j].level
  BY Numbered
<1>2. \A i \in 1..Len(s) : \A p : Under(s, p, i) => p \in 0..Len(s)
  BY Elements DEF Under
<1> DEFINE u == WithIds(s)
           Level(o, p) == IF p = 0 THEN 2 ELSE o[p].level + 1
<1>3. ASSUME NEW i \in 1..Len(s), NEW p, Under(s, p, i)
      PROVE  u[i].level = s[i].level /\ Level(u, p) = Level(s, p)
  BY <1>1, <1>2, <1>3
<1>4. ValidTree(s) <=> \A i \in 1..Len(s) : \A p : Under(s, p, i) => s[i].level = Level(s, p)
  BY TreeByUnder
<1>5. ValidTree(u) <=> \A i \in 1..Len(u) : \A p : Under(u, p, i) => u[i].level = Level(u, p)
  BY <1>1, TreeByUnder
<1>6. \A i \in 1..Len(s) : \A p : Under(u, p, i) <=> Under(s, p, i)
  BY UnderNumbered
<1>7. Len(u) = Len(s)
  BY <1>1
<1> HIDE DEF u, Level
<1>8. ValidTree(u) <=> ValidTree(s)
  BY <1>3, <1>4, <1>5, <1>6, <1>7
<1> QED
  BY <1>8 DEF u

\* Sections of one identifier are one section, and new ones have new identifiers.
LEMMA CarriedIds ==
    ASSUME NEW s, Known(s), UniqueIds(s), NEW t \in Outline, NEW kept, NEW to, Carried(s, t, kept, to)
    PROVE  /\ UniqueIds(WithIds(t))
           /\ \A i \in 1..Len(s), k \in 1..Len(t) : s[i].id = WithIds(t)[k].id => i \in kept /\ k = to[i]
           /\ kept = 1..Len(s) => Ids(s) \subseteq Ids(WithIds(t))
<1> DEFINE u == WithIds(t)
<1>1. \A i \in kept : to[i] \in 1..Len(t) /\ t[to[i]].id = s[i].id /\ s[i].id # 0 /\ i \in 1..Len(s)
  BY DEF Carried, Known
<1>2. /\ Len(u) = Len(t)
      /\ \A k \in 1..Len(t) : /\ t[k].id # 0 => u[k].id = t[k].id
                              /\ t[k].id = 0 => u[k].id \notin Ids(t)
      /\ \A k, l \in 1..Len(t) : t[k].id = 0 /\ t[l].id = 0 /\ u[k].id = u[l].id => k = l
  BY Numbered
<1>3. \A k \in 1..Len(t) : t[k].id # 0 => t[k].id \in Ids(t)
  BY DEF Ids
<1>4. \A k \in 1..Len(t) : t[k].id # 0 => \E i \in kept : k = to[i]
  BY DEF Carried
<1> HIDE DEF u
<1>5. ASSUME NEW k \in 1..Len(t), NEW l \in 1..Len(t), u[k].id = u[l].id PROVE k = l
  <2>1. CASE t[k].id = 0 /\ t[l].id = 0
    BY <1>2, <1>5, <2>1
  <2>2. CASE t[k].id # 0 /\ t[l].id # 0
    <3>1. PICK i \in kept : k = to[i]
      BY <1>4, <2>2
    <3>2. PICK j \in kept : l = to[j]
      BY <1>4, <2>2
    <3>3. s[i].id = s[j].id
      BY <1>1, <1>2, <1>5, <2>2, <3>1, <3>2
    <3> QED
      BY <1>1, <3>1, <3>2, <3>3 DEF UniqueIds
  <2>3. ~(t[k].id = 0 /\ t[l].id # 0) /\ ~(t[l].id = 0 /\ t[k].id # 0)
    BY <1>2, <1>3, <1>5
  <2> QED
    BY <2>1, <2>2, <2>3
<1>6. ASSUME NEW i \in 1..Len(s), NEW k \in 1..Len(t), s[i].id = u[k].id PROVE i \in kept /\ k = to[i]
  <2>1. CASE t[k].id # 0
    <3>1. PICK j \in kept : k = to[j]
      BY <1>4, <2>1
    <3>2. s[i].id = s[j].id
      BY <1>1, <1>2, <1>6, <2>1, <3>1
    <3> QED
      BY <1>1, <3>1, <3>2 DEF UniqueIds
  <2>2. CASE t[k].id = 0
    <3>1. i \in kept
      BY <1>1, <2>2 DEF Carried
    <3>2. s[i].id \in Ids(t)
      BY <1>1, <1>3, <3>1
    <3> QED
      BY <1>2, <1>6, <2>2, <3>2
  <2> QED
    BY <2>1, <2>2
<1>7. ASSUME kept = 1..Len(s) PROVE Ids(s) \subseteq Ids(u)
  <2> SUFFICES ASSUME NEW i \in 1..Len(s) PROVE s[i].id \in Ids(u)
    BY DEF Ids
  <2>1. u[to[i]].id = s[i].id /\ to[i] \in 1..Len(u) /\ s[i].id # 0
    BY <1>1, <1>2, <1>7
  <2> QED
    BY <2>1 DEF Ids
<1> QED
  BY <1>2, <1>5, <1>6, <1>7 DEF UniqueIds, u

\* A section that follows has the parent it had.
LEMMA CarriedParent ==
    ASSUME NEW s, Known(s), NEW t \in Outline, NEW kept, NEW to, Carried(s, t, kept, to),
           NEW i \in kept, Follows(s, t, kept, to, i)
    PROVE  ParentId(WithIds(t), to[i]) = ParentId(s, i)
<1> DEFINE p == ParentOf(s, i)
           u == WithIds(t)
<1>1. s \in Outline /\ i \in 1..Len(s) /\ to[i] \in 1..Len(t)
  BY DEF Known, Carried
<1>2. u \in Outline /\ Len(u) = Len(t) /\ \A k \in 1..Len(t) : t[k].id # 0 => u[k].id = t[k].id
  BY Numbered
<1>3. Under(s, p, i)
  BY <1>1, UnderParent
<1>4. CASE p = 0
  <2>1. ParentOf(u, to[i]) = 0
    BY <1>1, <1>2, <1>3, <1>4, UnderNumbered, UnderParent DEF Follows
  <2> QED
    BY <1>4, <2>1 DEF ParentId
<1>5. CASE p # 0
  <2>1. p \in kept /\ Under(t, to[p], to[i])
    BY <1>3, <1>5 DEF Follows
  <2>2. to[p] = ParentOf(u, to[i])
    BY <1>1, <1>2, <2>1, UnderNumbered, UnderParent
  <2>3. to[p] \in 1..Len(t) /\ t[to[p]].id = s[p].id /\ s[p].id # 0
    BY <2>1 DEF Carried, Known
  <2>4. u[to[p]].id = s[p].id /\ to[p] # 0
    BY <1>2, <2>3
  <2> QED
    BY <1>5, <2>2, <2>4 DEF ParentId
<1> QED
  BY <1>4, <1>5

\* Section k is one level below the one it stands under.
Fits(t, k) == \E p : Under(t, p, k) /\ t[k].level = IF p = 0 THEN 2 ELSE t[p].level + 1

\* Sections that stand where they stood, on the level they had, and new ones one
\* below the one they are put under make a tree again.
LEMMA CarriedTree ==
    ASSUME NEW s \in Outline, ValidTree(s), NEW t \in Outline, NEW kept, NEW to, Carried(s, t, kept, to),
           \A i \in kept : Follows(s, t, kept, to, i) /\ t[to[i]].level = s[i].level,
           \A k \in 1..Len(t) :
              \/ \E i \in kept : k = to[i]
              \/ Fits(t, k)
    PROVE  ValidTree(t)
<1> SUFFICES ASSUME NEW k \in 1..Len(t)
             PROVE  Fits(t, k)
  BY UnderParent DEF ValidTree, Fits
<1>1. CASE \E i \in kept : k = to[i]
  <2>1. PICK i \in kept : k = to[i]
    BY <1>1
  <2> DEFINE p == ParentOf(s, i)
  <2>2. i \in 1..Len(s)
    BY DEF Carried
  <2>3. Under(s, p, i) /\ s[i].level = IF p = 0 THEN 2 ELSE s[p].level + 1
    BY <2>2, UnderParent DEF ValidTree
  <2> HIDE DEF p
  <2>4. CASE p = 0
    BY <2>1, <2>3, <2>4 DEF Follows, Fits
  <2>5. CASE p # 0
    <3>0. p \in kept /\ Under(t, to[p], to[i])
      BY <2>3, <2>5 DEF Follows
    <3>1. p \in kept /\ Under(t, to[p], to[i]) /\ t[to[p]].level = s[p].level /\ to[p] # 0
      BY <3>0 DEF Carried
    <3> QED
      BY <2>1, <2>3, <2>5, <3>1 DEF Fits
  <2> QED
    BY <2>4, <2>5
<1> QED
  BY <1>1

\* What the property asks of an operation that carries s over to t; the section
\* with identifier moved may get another parent.
LEMMA CarriedOver ==
    ASSUME NEW s, Known(s), UniqueIds(s), NEW t \in Outline, ValidTree(t),
           NEW kept, NEW to, Carried(s, t, kept, to), NEW moved,
           \A i \in kept : s[i].id # moved => Follows(s, t, kept, to, i)
    PROVE  /\ ValidTree(WithIds(t)) /\ UniqueIds(WithIds(t))
           /\ \A i \in 1..Len(s), k \in 1..Len(WithIds(t)) :
                 s[i].id = WithIds(t)[k].id /\ s[i].id # moved => ParentId(WithIds(t), k) = ParentId(s, i)
           /\ kept = 1..Len(s) => Ids(s) \subseteq Ids(WithIds(t))
<1>1. Len(WithIds(t)) = Len(t)
  BY Numbered
<1>2. ASSUME NEW i \in 1..Len(s), NEW k \in 1..Len(t), s[i].id = WithIds(t)[k].id, s[i].id # moved
      PROVE  ParentId(WithIds(t), k) = ParentId(s, i)
  <2>1. i \in kept /\ k = to[i]
    BY <1>2, CarriedIds
  <2> QED
    BY <1>2, <2>1, CarriedParent
<1> QED
  BY <1>1, <1>2, CarriedIds, TreeNumbered

-----------------------------------------------------------------------------
(* Adding sections.                                                            *)

\* In t section x stands at the given place among those of s.
Placed(s, t, at, x) ==
    /\ t \in Outline /\ Len(t) = Len(s) + 1
    /\ \A k \in 1..at-1 : t[k] = s[k]
    /\ t[at] = x
    /\ \A k \in at+1..Len(s)+1 : t[k] = s[k-1]

\* Where the sections are after one is inserted.
LEMMA InsertPlaces ==
    ASSUME NEW s \in Outline, NEW at \in 1..Len(s)+1, NEW x \in Section
    PROVE  Placed(s, Insert(s, at, <<x>>), at, x)
<1> DEFINE a == SubSeq(s, 1, at - 1)
           b == <<x>>
           c == SubSeq(s, at, Len(s))
<1>1. Len(s) \in Nat /\ \A i \in 1..Len(s) : s[i] \in Section
  BY Elements
<1>2. a \in Seq(Section) /\ Len(a) = at - 1 /\ \A k \in 1..at-1 : a[k] = s[k]
  BY <1>1, SubSeqProperties
<1>3. c \in Seq(Section) /\ Len(c) = Len(s) - at + 1 /\ \A k \in 1..Len(s)-at+1 : c[k] = s[at+k-1]
  BY <1>1, SubSeqProperties
<1>4. b \in Seq(Section) /\ Len(b) = 1 /\ b[1] = x
  OBVIOUS
<1>5. Insert(s, at, <<x>>) = a \o b \o c
  BY DEF Insert
<1> HIDE DEF a, b, c
<1>6. a \o b \in Seq(Section) /\ Len(a \o b) = at /\ \A k \in 1..at : (a \o b)[k] = IF k < at THEN s[k] ELSE x
  <2>1. /\ a \o b \in Seq(Section) /\ Len(a \o b) = Len(a) + Len(b)
        /\ \A k \in 1..Len(a)+Len(b) : (a \o b)[k] = IF k <= Len(a) THEN a[k] ELSE b[k - Len(a)]
    BY <1>2, <1>4, ConcatProperties
  <2>2. Len(a) + Len(b) = at
    BY <1>1, <1>2, <1>4
  <2>3. ASSUME NEW k \in 1..at PROVE (a \o b)[k] = IF k < at THEN s[k] ELSE x
    BY <1>1, <1>2, <1>4, <2>1, <2>2, <2>3
  <2> QED
    BY <2>1, <2>2, <2>3
<1> DEFINE ab == a \o b
<1> HIDE DEF ab
<1>7. ab \in Seq(Section) /\ Len(ab) = at /\ \A k \in 1..at : ab[k] = IF k < at THEN s[k] ELSE x
  BY <1>6 DEF ab
<1>8. ab \o c \in Seq(Section) /\ Len(ab \o c) = Len(s) + 1
      /\ \A k \in 1..Len(s)+1 : (ab \o c)[k] = IF k <= at THEN ab[k] ELSE c[k - at]
  <2>1. /\ ab \o c \in Seq(Section) /\ Len(ab \o c) = Len(ab) + Len(c)
        /\ \A k \in 1..Len(ab)+Len(c) : (ab \o c)[k] = IF k <= Len(ab) THEN ab[k] ELSE c[k - Len(ab)]
    BY <1>3, <1>7, ConcatProperties
  <2>2. Len(ab) + Len(c) = Len(s) + 1
    BY <1>1, <1>3, <1>7
  <2> QED
    BY <1>7, <2>1, <2>2
<1>9. ASSUME NEW k \in 1..at-1 PROVE (ab \o c)[k] = s[k]
  <2>1. k \in 1..Len(s)+1 /\ k \in 1..at /\ k <= at /\ k < at
    BY <1>1
  <2> QED
    BY <1>7, <1>8, <2>1
<1>10. (ab \o c)[at] = x
  <2>1. at \in 1..Len(s)+1 /\ at \in 1..at /\ at <= at /\ ~(at < at)
    BY <1>1
  <2> QED
    BY <1>7, <1>8, <2>1
<1>11. ASSUME NEW k \in at+1..Len(s)+1 PROVE (ab \o c)[k] = s[k-1]
  <2>1. k \in 1..Len(s)+1 /\ ~(k <= at) /\ k - at \in 1..Len(s)-at+1 /\ at + (k-at) - 1 = k-1
    BY <1>1
  <2> QED
    BY <1>3, <1>8, <2>1
<1>12. ab \o c = Insert(s, at, <<x>>)
  BY <1>5 DEF ab
<1> QED
  BY <1>8, <1>9, <1>10, <1>11, <1>12 DEF Outline, Placed

\* In t there is one section more, at the given place; all others stand where they
\* stood.
Inserts(s, t, at, to) ==
    /\ Carried(s, t, 1..Len(s), to)
    /\ \A i \in 1..Len(s) : Follows(s, t, 1..Len(s), to, i) /\ t[to[i]].level = s[i].level
    /\ \A k \in 1..Len(t) : k = at \/ \E i \in 1..Len(s) : k = to[i]

\* Nothing comes under a section that is inserted where it is at least as deep as
\* what follows and stands under something before it.
LEMMA InsertCarries ==
    ASSUME NEW s \in Outline, NEW at \in 1..Len(s)+1, NEW x \in Section, x.id = 0,
           \A i \in at..Len(s) : \A p : Under(s, p, i) /\ p < at => s[i].level <= x.level
    PROVE  \E to : Inserts(s, Insert(s, at, <<x>>), at, to)
<1> DEFINE t == Insert(s, at, <<x>>)
           to == [i \in 1..Len(s) |-> IF i < at THEN i ELSE i + 1]
<1>1. /\ t \in Outline /\ Len(t) = Len(s) + 1
      /\ \A k \in 1..at-1 : t[k] = s[k]
      /\ t[at] = x
      /\ \A k \in at+1..Len(s)+1 : t[k] = s[k-1]
  <2>1. Placed(s, t, at, x)
    BY InsertPlaces
  <2> HIDE DEF t
  <2> QED
    BY <2>1 DEF Placed
<1>2. Len(s) \in Nat /\ \A i \in 1..Len(s) : s[i].level \in Int
  BY Elements
<1> HIDE DEF t
<1>3. \A i \in 1..Len(s) : to[i] \in 1..Len(t) /\ t[to[i]] = s[i]
  BY <1>1, <1>2
<1>4. \A k \in 1..Len(t) : k = at \/ \E i \in 1..Len(s) : k = to[i]
  <2> SUFFICES ASSUME NEW k \in 1..Len(t), k # at PROVE \E i \in 1..Len(s) : k = to[i]
    OBVIOUS
  <2>1. CASE k < at
    <3>1. k \in 1..Len(s) /\ k = to[k]
      BY <1>1, <1>2, <2>1
    <3> QED
      BY <3>1
  <2>2. CASE k > at
    <3>1. k-1 \in 1..Len(s) /\ k = to[k-1]
      BY <1>1, <1>2, <2>2
    <3> QED
      BY <3>1
  <2> QED
    BY <1>1, <1>2, <2>1, <2>2
<1>5. ASSUME NEW i \in 1..Len(s), NEW p, Under(s, p, i)
      PROVE  IF p = 0 THEN Under(t, 0, to[i]) ELSE p \in 1..Len(s) /\ Under(t, to[p], to[i])
  <2>1. /\ p \in 0..i-1
        /\ p # 0 => s[p].level < s[i].level
        /\ \A j \in p+1..i-1 : s[j].level >= s[i].level
    BY <1>5 DEF Under
  <2>2. CASE i < at
    <3>1. to[i] = i /\ t[i] = s[i] /\ (p # 0 => p \in 1..Len(s) /\ to[p] = p /\ t[p] = s[p])
      BY <1>1, <1>2, <2>1, <2>2
    <3>2. \A j \in p+1..i-1 : t[j] = s[j]
      BY <1>1, <1>2, <2>1, <2>2
    <3> HIDE DEF to
    <3> QED
      BY <2>1, <3>1, <3>2 DEF Under
  <2>3. CASE i >= at /\ p < at
    <3>1. s[i].level <= x.level /\ x.level \in Int
      BY <1>5, <2>3, OutlineAssumption DEF Section
    <3>2. to[i] = i + 1 /\ t[i+1] = s[i]
      BY <1>1, <1>2, <2>3
    <3>3. p # 0 => p \in 1..Len(s) /\ to[p] = p /\ t[p] = s[p]
      <4>1. p # 0 => p \in 1..Len(s) /\ p \in 1..at-1
        BY <1>2, <2>1, <2>3
      <4> QED
        BY <1>1, <2>3, <4>1
    <3>4. ASSUME NEW j \in p+1..i PROVE t[j].level >= s[i].level
      <4>1. CASE j < at
        <5>1. j \in p+1..i-1 /\ j \in 1..at-1
          BY <1>2, <2>1, <2>3, <4>1
        <5> QED
          BY <1>1, <2>1, <5>1
      <4>2. CASE j = at
        BY <1>1, <1>2, <2>1, <2>3, <3>1, <4>2
      <4>3. CASE j > at
        <5>0. j - 1 \in p+1..i-1 /\ j \in at+1..Len(s)+1
          BY <1>2, <2>1, <2>3, <4>3
        <5>1. j - 1 \in p+1..i-1 /\ t[j] = s[j-1]
          BY <1>1, <5>0
        <5> QED
          BY <2>1, <5>1
      <4> QED
        BY <1>2, <2>1, <4>1, <4>2, <4>3
    <3> HIDE DEF to
    <3> QED
      BY <1>2, <2>1, <3>2, <3>3, <3>4 DEF Under
  <2>4. CASE p >= at
    <3>1. p \in 1..Len(s) /\ i >= at
      BY <1>2, <2>1, <2>4
    <3>2. to[i] = i + 1 /\ to[p] = p + 1 /\ t[i+1] = s[i] /\ t[p+1] = s[p] /\ p # 0
      <4>1. to[i] = i + 1 /\ to[p] = p + 1 /\ p # 0
        BY <1>2, <2>4, <3>1
      <4> QED
        BY <1>3, <3>1, <4>1
    <3>3. ASSUME NEW j \in p+2..i PROVE t[j].level >= s[i].level
      <4>0. j - 1 \in p+1..i-1 /\ j \in at+1..Len(s)+1
        BY <1>2, <2>1, <2>4
      <4>1. j - 1 \in p+1..i-1 /\ t[j] = s[j-1]
        BY <1>1, <4>0
      <4> QED
        BY <2>1, <4>1
    <3> HIDE DEF to
    <3> QED
      BY <1>2, <2>1, <3>1, <3>2, <3>3 DEF Under
  <2> QED
    BY <1>2, <2>1, <2>2, <2>3, <2>4
<1>6. Carried(s, t, 1..Len(s), to)
  <2>1. \A k \in 1..Len(t) : t[k].id = 0 \/ \E i \in 1..Len(s) : k = to[i]
    BY <1>1, <1>2, <1>4
  <2> QED
    BY <1>3, <2>1 DEF Carried
<1>7. \A i \in 1..Len(s) : Follows(s, t, 1..Len(s), to, i)
  BY <1>5 DEF Follows
<1> HIDE DEF to
<1>8. Inserts(s, t, at, to)
  BY <1>3, <1>4, <1>6, <1>7 DEF Inserts
<1> QED
  BY <1>8 DEF t

\* Where the sections of three outlines in a row are.
LEMMA SurroundPlaces ==
    ASSUME NEW s \in Outline, NEW a \in Outline, NEW b \in Outline
    PROVE  /\ a \o s \o b \in Outline /\ Len(a \o s \o b) = Len(a) + Len(s) + Len(b)
           /\ \A k \in 1..Len(a) : (a \o s \o b)[k] = a[k]
           /\ \A i \in 1..Len(s) : (a \o s \o b)[i + Len(a)] = s[i]
           /\ \A k \in Len(a)+Len(s)+1..Len(a)+Len(s)+Len(b) : (a \o s \o b)[k] = b[k - Len(a) - Len(s)]
<1> DEFINE as == a \o s
<1>1. Len(a) \in Nat /\ Len(s) \in Nat /\ Len(b) \in Nat
  BY Elements
<1>2. /\ as \in Seq(Section) /\ Len(as) = Len(a) + Len(s)
      /\ \A k \in 1..Len(a)+Len(s) : as[k] = IF k <= Len(a) THEN a[k] ELSE s[k - Len(a)]
  BY ConcatProperties DEF Outline
<1> HIDE DEF as
<1>3. /\ as \o b \in Seq(Section) /\ Len(as \o b) = Len(as) + Len(b)
      /\ \A k \in 1..Len(as)+Len(b) : (as \o b)[k] = IF k <= Len(as) THEN as[k] ELSE b[k - Len(as)]
  <2>1. b \in Seq(Section)
    BY DEF Outline
  <2>2. as \in Seq(Section)
    BY <1>2
  <2> QED
    BY <2>1, <2>2, ConcatProperties
<1>4. ASSUME NEW k \in 1..Len(a) PROVE (as \o b)[k] = a[k]
  <2>1. k <= Len(as) /\ k \in 1..Len(as)+Len(b) /\ k \in 1..Len(a)+Len(s) /\ k <= Len(a)
    BY <1>1, <1>2
  <2> QED
    BY <1>2, <1>3, <2>1
<1>5. ASSUME NEW i \in 1..Len(s) PROVE (as \o b)[i + Len(a)] = s[i]
  <2>1. /\ i + Len(a) <= Len(as) /\ i + Len(a) \in 1..Len(as)+Len(b) /\ i + Len(a) \in 1..Len(a)+Len(s)
        /\ ~(i + Len(a) <= Len(a)) /\ (i + Len(a)) - Len(a) = i
    BY <1>1, <1>2
  <2> QED
    BY <1>2, <1>3, <2>1
<1>6. ASSUME NEW k \in Len(a)+Len(s)+1..Len(a)+Len(s)+Len(b) PROVE (as \o b)[k] = b[k - Len(a) - Len(s)]
  <2>1. ~(k <= Len(as)) /\ k \in 1..Len(as)+Len(b) /\ k - Len(as) = k - Len(a) - Len(s)
    BY <1>1, <1>2
  <2> QED
    BY <1>3, <2>1
<1> QED
  BY <1>2, <1>3, <1>4, <1>5, <1>6 DEF as, Outline

\* Main sections before and behind an outline leave every section where it was.
LEMMA SurroundCarries ==
    ASSUME NEW s \in Outline, ValidTree(s), NEW a \in Outline, NEW b \in Outline,
           \A k \in 1..Len(a) : a[k].level = 2 /\ a[k].id = 0,
           \A k \in 1..Len(b) : b[k].level = 2 /\ b[k].id = 0
    PROVE  /\ a \o s \o b \in Outline /\ ValidTree(a \o s \o b)
           /\ \E to : /\ Carried(s, a \o s \o b, 1..Len(s), to)
                      /\ \A i \in 1..Len(s) : Follows(s, a \o s \o b, 1..Len(s), to, i)
<1> DEFINE t == a \o s \o b
           to == [i \in 1..Len(s) |-> i + Len(a)]
<1>1. Len(a) \in Nat /\ Len(s) \in Nat /\ Len(b) \in Nat
  BY Elements
<1>2. /\ t \in Outline /\ Len(t) = Len(a) + Len(s) + Len(b)
      /\ \A k \in 1..Len(a) : t[k] = a[k]
      /\ \A i \in 1..Len(s) : t[i + Len(a)] = s[i]
      /\ \A k \in Len(a)+Len(s)+1..Len(a)+Len(s)+Len(b) : t[k] = b[k - Len(a) - Len(s)]
  <2>1. a \o s \o b \in Outline /\ Len(a \o s \o b) = Len(a) + Len(s) + Len(b)
    BY SurroundPlaces
  <2>2. \A k \in 1..Len(a) : (a \o s \o b)[k] = a[k]
    BY SurroundPlaces
  <2>3. \A i \in 1..Len(s) : (a \o s \o b)[i + Len(a)] = s[i]
    BY SurroundPlaces
  <2>4. \A k \in Len(a)+Len(s)+1..Len(a)+Len(s)+Len(b) : (a \o s \o b)[k] = b[k - Len(a) - Len(s)]
    BY SurroundPlaces
  <2> QED
    BY <2>1, <2>2, <2>3, <2>4
<1> HIDE DEF t
<1>3. ASSUME NEW k \in 1..Len(t)
      PROVE  (t[k].id = 0 /\ t[k].level = 2) \/ \E i \in 1..Len(s) : k = to[i]
  <2>1. CASE k <= Len(a)
    <3>1. k \in 1..Len(a)
      BY <1>1, <2>1
    <3> QED
      BY <1>2, <3>1
  <2>2. CASE k > Len(a) /\ k <= Len(a) + Len(s)
    <3>1. k - Len(a) \in 1..Len(s) /\ k = to[k - Len(a)]
      BY <1>1, <2>2
    <3> QED
      BY <3>1
  <2>3. CASE k > Len(a) + Len(s)
    <3> DEFINE l == k - Len(a) - Len(s)
    <3>1. l \in 1..Len(b) /\ t[k] = b[l]
      BY <1>1, <1>2, <2>3
    <3> HIDE DEF l
    <3> QED
      BY <1>2, <3>1
  <2> QED
    BY <1>1, <2>1, <2>2, <2>3
<1>4. \A k \in 1..Len(t) : t[k].level \in Int /\ t[k].level >= 2
  BY <1>2, Elements
<1>5. \A i \in 1..Len(s) : to[i] \in 1..Len(t) /\ t[to[i]] = s[i]
  BY <1>1, <1>2
<1>6. Carried(s, t, 1..Len(s), to)
  <2> HIDE DEF to
  <2> QED
    BY <1>3, <1>5 DEF Carried
<1>7. ASSUME NEW i \in 1..Len(s), NEW p, Under(s, p, i)
      PROVE  IF p = 0 THEN Under(t, 0, to[i]) ELSE p \in 1..Len(s) /\ Under(t, to[p], to[i])
  <2>1. to[i] = i + Len(a) /\ to[i] \in 1..Len(t) /\ t[i + Len(a)] = s[i]
    BY <1>2, <1>5
  <2>2. CASE p = 0
    <3>1. s[i].level = 2
      BY <1>7, <2>2, TreeByUnder
    <3>2. \A j \in 1..to[i]-1 : t[j].level >= 2
      BY <1>1, <1>2, <1>4, <2>1
    <3> HIDE DEF to
    <3> QED
      BY <1>1, <2>1, <2>2, <3>1, <3>2 DEF Under
  <2>3. CASE p # 0
    <3>1. p \in 1..Len(s) /\ p < i /\ s[p].level < s[i].level
      BY <1>1, <1>7, <2>3 DEF Under
    <3>2. to[p] = p + Len(a) /\ t[p + Len(a)] = s[p]
      BY <1>2, <3>1
    <3>3. ASSUME NEW j \in p+Len(a)+1..i+Len(a)-1 PROVE t[j].level >= s[i].level
      <4> DEFINE k == j - Len(a)
      <4>1. k \in 1..Len(s) /\ k \in p+1..i-1 /\ k + Len(a) = j
        BY <1>1, <3>1
      <4> HIDE DEF k
      <4> QED
        BY <1>2, <1>7, <4>1 DEF Under
    <3> HIDE DEF to
    <3> QED
      BY <1>1, <2>1, <2>3, <3>1, <3>2, <3>3 DEF Under
  <2> QED
    BY <2>2, <2>3
<1> HIDE DEF to
<1>8. \A i \in 1..Len(s) : Follows(s, t, 1..Len(s), to, i) /\ t[to[i]].level = s[i].level
  BY <1>5, <1>7 DEF Follows
<1>9. \A k \in 1..Len(t) : t[k].level = 2 => Under(t, 0, k)
  BY <1>1, <1>2, <1>4 DEF Under
<1>9a. \A k \in 1..Len(t) : t[k].level = 2 => Fits(t, k)
  BY <1>9 DEF Fits
<1>10. \A k \in 1..Len(t) : \/ \E i \in 1..Len(s) : k = to[i]
                            \/ Fits(t, k)
  BY <1>3, <1>9a
<1>11. ValidTree(t)
  <2> DEFINE all == 1..Len(s)
  <2>1. \A i \in all : Follows(s, t, all, to, i) /\ t[to[i]].level = s[i].level
    BY <1>8
  <2>2. \A k \in 1..Len(t) : \/ \E i \in all : k = to[i]
                             \/ Fits(t, k)
    BY <1>10
  <2>3. Carried(s, t, all, to)
    BY <1>6
  <2> HIDE DEF all
  <2> QED
    BY <1>2, <2>1, <2>2, <2>3, CarriedTree
<1> QED
  BY <1>2, <1>6, <1>8, <1>11 DEF t

\* A child is put behind the subtree of its parent.
LEMMA AddCarries ==
    ASSUME NEW s \in Outline, ValidTree(s), NEW parent \in 0..Len(s), NEW x \in Section, x.id = 0,
           x.level = IF parent = 0 THEN 2 ELSE s[parent].level + 1
    PROVE  LET at == IF parent = 0 THEN Len(s) + 1 ELSE EndOf(s, parent)
               t == Insert(s, at, <<x>>)
           IN  t \in Outline /\ ValidTree(t)
               /\ \E to : /\ Carried(s, t, 1..Len(s), to)
                          /\ \A i \in 1..Len(s) : Follows(s, t, 1..Len(s), to, i)
<1> DEFINE at == IF parent = 0 THEN Len(s) + 1 ELSE EndOf(s, parent)
           t == Insert(s, at, <<x>>)
<1>1. Len(s) \in Nat /\ \A i \in 1..Len(s) : s[i].level \in Int /\ s[i].level >= 2
  BY Elements
<1>2. at \in 1..Len(s)+1 /\ parent < at
  BY <1>1, EndFacts
<1>3. \A j \in parent+1..at-1 : s[j].level >= x.level
  <2>1. CASE parent = 0
    BY <1>1, <2>1
  <2>2. CASE parent # 0
    <3>1. parent \in 1..Len(s) /\ at = EndOf(s, parent) /\ x.level = s[parent].level + 1
      BY <1>1, <2>2
    <3>2. \A j \in parent+1..at-1 : s[j].level > s[parent].level
      BY <3>1, EndFacts
    <3> HIDE DEF at
    <3>3. \A j \in parent+1..at-1 : j \in 1..Len(s)
      BY <1>1, <1>2
    <3> QED
      BY <1>1, <3>1, <3>2, <3>3
  <2> QED
    BY <2>1, <2>2
<1>4. at <= Len(s) => s[at].level < x.level
  <2>1. CASE parent = 0
    BY <1>1, <2>1
  <2>2. CASE parent # 0
    <3>1. parent \in 1..Len(s) /\ at = EndOf(s, parent) /\ x.level = s[parent].level + 1
      BY <1>1, <2>2
    <3>2. at <= Len(s) => s[at].level <= s[parent].level
      BY <3>1, EndFacts
    <3> HIDE DEF at
    <3> QED
      BY <1>1, <1>2, <3>1, <3>2
  <2> QED
    BY <2>1, <2>2
<1> HIDE DEF at
<1>5. ASSUME NEW i \in at..Len(s), NEW p, Under(s, p, i), p < at PROVE s[i].level <= x.level
  <2>1. i \in 1..Len(s) /\ at \in 1..Len(s) /\ at <= i
    BY <1>1, <1>2
  <2>2. at = i \/ at \in p+1..i-1
    BY <1>1, <1>5, <2>1 DEF Under
  <2>3. s[at].level >= s[i].level
    BY <1>1, <1>5, <2>1, <2>2 DEF Under
  <2>4. x.level \in Int
    BY OutlineAssumption DEF Section
  <2> QED
    BY <1>1, <1>4, <2>1, <2>3, <2>4
<1>6. PICK to : Inserts(s, t, at, to)
  BY <1>2, <1>5, InsertCarries
<1>6a. /\ Carried(s, t, 1..Len(s), to)
       /\ \A i \in 1..Len(s) : Follows(s, t, 1..Len(s), to, i) /\ t[to[i]].level = s[i].level
       /\ \A k \in 1..Len(t) : k = at \/ \E i \in 1..Len(s) : k = to[i]
  <2> HIDE DEF t
  <2> QED
    BY <1>6 DEF Inserts
<1>7. /\ t \in Outline /\ Len(t) = Len(s) + 1
      /\ \A k \in 1..at-1 : t[k] = s[k]
      /\ t[at] = x
      /\ \A k \in at+1..Len(s)+1 : t[k] = s[k-1]
  <2>1. Placed(s, t, at, x)
    BY <1>2, InsertPlaces
  <2> HIDE DEF t
  <2> QED
    BY <2>1 DEF Placed
<1> HIDE DEF t
<1>8. Fits(t, at)
  <2>0. Under(t, parent, at) /\ t[at].level = IF parent = 0 THEN 2 ELSE t[parent].level + 1
    <3>1. /\ parent # 0 => parent \in 1..at-1 /\ parent \in 1..Len(s)
          /\ \A j \in parent+1..at-1 : j \in 1..at-1
          /\ parent \in 0..at-1
      BY <1>1, <1>2
    <3>2. t[at] = x /\ (parent # 0 => t[parent] = s[parent]) /\ \A j \in parent+1..at-1 : t[j] = s[j]
      BY <1>7, <3>1
    <3>3. t[at].level = IF parent = 0 THEN 2 ELSE t[parent].level + 1
      BY <3>2
    <3>4. \A j \in parent+1..at-1 : t[j].level >= t[at].level
      BY <1>3, <3>2
    <3>5. parent # 0 => t[parent].level < t[at].level
      BY <1>1, <3>1, <3>2, <3>3
    <3> QED
      BY <3>1, <3>3, <3>4, <3>5 DEF Under
  <2> QED
    BY <2>0 DEF Fits
<1>9. \A k \in 1..Len(t) : \/ \E i \in 1..Len(s) : k = to[i]
                           \/ Fits(t, k)
  BY <1>6a, <1>8
<1>10. ValidTree(t)
  <2> DEFINE all == 1..Len(s)
  <2>1. \A i \in all : Follows(s, t, all, to, i) /\ t[to[i]].level = s[i].level
    BY <1>6a
  <2>2. \A k \in 1..Len(t) : \/ \E i \in all : k = to[i]
                             \/ Fits(t, k)
    BY <1>9
  <2>3. Carried(s, t, all, to)
    BY <1>6a
  <2> HIDE DEF all
  <2> QED
    BY <1>7, <2>1, <2>2, <2>3, CarriedTree
<1> QED
  BY <1>6a, <1>7, <1>10 DEF t, at

-----------------------------------------------------------------------------
(* Moving sections.                                                            *)

\* Where the sections of two subtrees in a row are.
LEMMA Joined ==
    ASSUME NEW r \in Seq(Section), NEW s \in Outline, NEW i \in 1..Len(s)+1, NEW j \in i-1..Len(s)
    PROVE  /\ r \o SubSeq(s, i, j) \in Seq(Section) /\ Len(r \o SubSeq(s, i, j)) = Len(r) + j - i + 1
           /\ \A k \in 1..Len(r) : (r \o SubSeq(s, i, j))[k] = r[k]
           /\ \A k \in Len(r)+1..Len(r)+j-i+1 : (r \o SubSeq(s, i, j))[k] = s[k - Len(r) + i - 1]
<1> DEFINE c == SubSeq(s, i, j)
<1>1. Len(s) \in Nat /\ Len(r) \in Nat /\ \A k \in 1..Len(s) : s[k] \in Section
  BY Elements, LenProperties
<1>2. c \in Seq(Section) /\ Len(c) = j - i + 1 /\ \A k \in 1..j-i+1 : c[k] = s[i+k-1]
  BY <1>1, SubSeqProperties
<1> HIDE DEF c
<1>3. c \in Seq(Section)
  BY <1>2
<1>4. /\ r \o c \in Seq(Section) /\ Len(r \o c) = Len(r) + Len(c)
      /\ \A k \in 1..Len(r)+Len(c) : (r \o c)[k] = IF k <= Len(r) THEN r[k] ELSE c[k - Len(r)]
  BY <1>3, ConcatProperties
<1>5. ASSUME NEW k \in 1..Len(r) PROVE (r \o c)[k] = r[k]
  <2>1. k \in 1..Len(r)+Len(c) /\ k <= Len(r)
    BY <1>1, <1>2
  <2> QED
    BY <1>4, <2>1
<1>6. ASSUME NEW k \in Len(r)+1..Len(r)+j-i+1 PROVE (r \o c)[k] = s[k - Len(r) + i - 1]
  <2>1. k \in 1..Len(r)+Len(c) /\ ~(k <= Len(r)) /\ k - Len(r) \in 1..j-i+1 /\ i+(k - Len(r))-1 = k - Len(r) + i - 1
    BY <1>1, <1>2
  <2> QED
    BY <1>2, <1>4, <2>1
<1>7. Len(r \o c) = Len(r) + j - i + 1
  BY <1>1, <1>2, <1>4
<1> QED
  BY <1>4, <1>5, <1>6, <1>7 DEF c

\* The next sibling begins where the subtree ends.
LEMMA NextBegins ==
    ASSUME NEW s \in Outline, ValidTree(s), NEW a \in 1..Len(s), NEW b \in 1..Len(s), NextSibling(s, a, b)
    PROVE  /\ EndOf(s, a) = b /\ a < b /\ s[b].level = s[a].level
           /\ \E p : Under(s, p, a) /\ Under(s, p, b)
<1> DEFINE p == ParentOf(s, a)
           e == EndOf(s, a)
<1>1. Len(s) \in Nat /\ \A i \in 1..Len(s) : s[i].level \in Int
  BY Elements
<1>2. a < b /\ ParentOf(s, b) = p /\ \A k \in a+1..b-1 : k \in 1..Len(s) => ParentOf(s, k) # p
  BY DEF NextSibling, Siblings
<1>3. Under(s, p, a) /\ Under(s, p, b)
  BY <1>2, UnderParent
<1>4. s[b].level = s[a].level
  BY <1>2 DEF ValidTree
<1>5. /\ e \in a+1..Len(s)+1
      /\ \A j \in a+1..e-1 : s[j].level > s[a].level
      /\ e <= Len(s) => s[e].level <= s[a].level
  BY EndFacts
<1> HIDE DEF p, e
<1>6. e <= b
  BY <1>1, <1>2, <1>4, <1>5
<1>7. ~(e < b)
  <2> SUFFICES ASSUME e < b PROVE FALSE
    OBVIOUS
  <2>1. e \in 1..Len(s) /\ e \in a+1..b-1
    BY <1>1, <1>5
  <2>2. p \in 0..a-1
    BY <1>3 DEF Under
  <2>3. s[e].level = s[b].level
    BY <1>1, <1>3, <1>4, <1>5, <2>1, <2>2 DEF Under
  <2>4. Under(s, p, e)
    BY <1>1, <1>3, <2>1, <2>2, <2>3 DEF Under
  <2>5. ParentOf(s, e) = p
    BY <2>1, <2>4, UnderParent
  <2> QED
    BY <1>2, <2>1, <2>5
<1>8. e = b
  BY <1>1, <1>5, <1>6, <1>7
<1> QED
  BY <1>2, <1>3, <1>4, <1>8 DEF e

\* Where they are when the two change places.
LEMMA SwapPlaces ==
    ASSUME NEW s \in Outline, NEW a \in 1..Len(s), NEW b \in 1..Len(s), NEW c \in 1..Len(s)+1,
           a < b, b < c, EndOf(s, a) = b, EndOf(s, b) = c
    PROVE  /\ SwapSubtrees(s, a, b) \in Outline /\ Len(SwapSubtrees(s, a, b)) = Len(s)
           /\ \A k \in 1..a-1 : SwapSubtrees(s, a, b)[k] = s[k]
           /\ \A k \in a..a+c-b-1 : SwapSubtrees(s, a, b)[k] = s[k+b-a]
           /\ \A k \in a+c-b..c-1 : SwapSubtrees(s, a, b)[k] = s[k-c+b]
           /\ \A k \in c..Len(s) : SwapSubtrees(s, a, b)[k] = s[k]
<1> DEFINE r1 == SubSeq(s, 1, a - 1)
           r2 == r1 \o SubSeq(s, b, c - 1)
           r3 == r2 \o SubSeq(s, b, b - 1)
           r4 == r3 \o SubSeq(s, a, b - 1)
           r5 == r4 \o SubSeq(s, c, Len(s))
<1>1. Len(s) \in Nat /\ \A k \in 1..Len(s) : s[k] \in Section
  BY Elements
<1>2. r1 \in Seq(Section) /\ Len(r1) = a-1 /\ \A k \in 1..a-1 : r1[k] = s[k]
  BY <1>1, SubSeqProperties
<1>3. SwapSubtrees(s, a, b) = r5
  BY DEF SwapSubtrees
<1> HIDE DEF r1
<1>4. /\ r2 \in Seq(Section) /\ Len(r2) = Len(r1) + (c-1) - b + 1
      /\ \A k \in 1..Len(r1) : r2[k] = r1[k]
      /\ \A k \in Len(r1)+1..Len(r1)+(c-1)-b+1 : r2[k] = s[k - Len(r1) + b - 1]
  <2>1. r1 \in Seq(Section) /\ b \in 1..Len(s)+1 /\ c-1 \in b-1..Len(s)
    BY <1>1, <1>2
  <2> QED
    BY <2>1, Joined
<1> HIDE DEF r2
<1>5. /\ r3 \in Seq(Section) /\ Len(r3) = Len(r2) + (b-1) - b + 1
      /\ \A k \in 1..Len(r2) : r3[k] = r2[k]
  <2>1. r2 \in Seq(Section) /\ b \in 1..Len(s)+1 /\ b-1 \in b-1..Len(s)
    BY <1>1, <1>4
  <2> QED
    BY <2>1, Joined
<1> HIDE DEF r3
<1>6. /\ r4 \in Seq(Section) /\ Len(r4) = Len(r3) + (b-1) - a + 1
      /\ \A k \in 1..Len(r3) : r4[k] = r3[k]
      /\ \A k \in Len(r3)+1..Len(r3)+(b-1)-a+1 : r4[k] = s[k - Len(r3) + a - 1]
  <2>1. r3 \in Seq(Section) /\ a \in 1..Len(s)+1 /\ b-1 \in a-1..Len(s)
    BY <1>1, <1>5
  <2> QED
    BY <2>1, Joined
<1> HIDE DEF r4
<1>7. /\ r5 \in Seq(Section) /\ Len(r5) = Len(r4) + Len(s) - c + 1
      /\ \A k \in 1..Len(r4) : r5[k] = r4[k]
      /\ \A k \in Len(r4)+1..Len(r4)+Len(s)-c+1 : r5[k] = s[k - Len(r4) + c - 1]
  <2>1. r4 \in Seq(Section) /\ c \in 1..Len(s)+1 /\ Len(s) \in c-1..Len(s)
    BY <1>1, <1>6
  <2> QED
    BY <2>1, Joined
<1> HIDE DEF r5
<1>8. Len(r1) = a-1 /\ Len(r2) = a-1+c-b /\ Len(r3) = a-1+c-b /\ Len(r4) = c-1 /\ Len(r5) = Len(s)
  BY <1>1, <1>2, <1>4, <1>5, <1>6, <1>7
<1>9. ASSUME NEW k \in 1..a-1 PROVE r5[k] = s[k]
  <2>1. k \in 1..Len(r1) /\ k \in 1..Len(r2) /\ k \in 1..Len(r3) /\ k \in 1..Len(r4)
    BY <1>1, <1>8
  <2>2. r5[k] = r4[k] /\ r4[k] = r3[k] /\ r3[k] = r2[k] /\ r2[k] = r1[k]
    BY <1>4, <1>5, <1>6, <1>7, <2>1
  <2> QED
    BY <1>2, <2>2
<1>10. ASSUME NEW k \in a..a+c-b-1 PROVE r5[k] = s[k+b-a]
  <2>0. k \in 1..Len(r2) /\ k \in 1..Len(r3) /\ k \in 1..Len(r4)
    BY <1>1, <1>8
  <2>1. k \in Len(r1)+1..Len(r1)+(c-1)-b+1 /\ k - Len(r1) + b - 1 = k+b-a
    BY <1>1, <1>8
  <2>2. r2[k] = s[k - Len(r1) + b - 1]
    BY <1>4, <2>1
  <2>3. r5[k] = r2[k]
    BY <1>5, <1>6, <1>7, <2>0
  <2> QED
    BY <2>1, <2>2, <2>3
<1>11. ASSUME NEW k \in a+c-b..c-1 PROVE r5[k] = s[k-c+b]
  <2>1. k \in Len(r3)+1..Len(r3)+(b-1)-a+1 /\ k \in 1..Len(r4) /\ k - Len(r3) + a - 1 = k-c+b
    BY <1>1, <1>8
  <2> QED
    BY <1>6, <1>7, <2>1
<1>12. ASSUME NEW k \in c..Len(s) PROVE r5[k] = s[k]
  <2>1. k \in Len(r4)+1..Len(r4)+Len(s)-c+1 /\ k - Len(r4) + c - 1 = k
    BY <1>1, <1>8
  <2> QED
    BY <1>7, <2>1
<1> QED
  BY <1>3, <1>7, <1>8, <1>9, <1>10, <1>11, <1>12 DEF Outline

\* Two neighbouring subtrees of one level, from a and from b up to c, under heading q.
Neighbours(s, n, a, b, c, q, L) ==
    /\ a \in 1..n /\ b \in a+1..n /\ c \in b+1..n+1
    /\ L \in Int /\ s[a].level = L /\ s[b].level = L
    /\ \A i \in a+1..b-1 : s[i].level > L
    /\ \A i \in b+1..c-1 : s[i].level > L
    /\ c <= n => s[c].level <= L
    /\ Under(s, q, a) /\ Under(s, q, b)

\* In t the two have changed places; to says where each section is.
Swapped(s, t, n, a, b, c, to) ==
    /\ \A k \in 1..a-1 : t[k] = s[k] /\ to[k] = k
    /\ \A k \in a..a+c-b-1 : t[k] = s[k+b-a]
    /\ \A k \in a+c-b..c-1 : t[k] = s[k-c+b]
    /\ \A k \in c..n : t[k] = s[k] /\ to[k] = k
    /\ \A i \in a..b-1 : to[i] = i+c-b
    /\ \A i \in b..c-1 : to[i] = i-b+a

\* Every section is in t, and still stands under the heading it stood under.
Relocates(s, t, n, to) ==
    /\ \A i \in 1..n : to[i] \in 1..n /\ t[to[i]] = s[i] /\ Follows(s, t, 1..n, to, i)
    /\ \A k \in 1..n : \E i \in 1..n : k = to[i]

\* Every section still stands under what it stood under.
LEMMA SwapFollows ==
    ASSUME NEW s \in Outline, NEW t \in Outline, NEW n \in Nat, Len(s) = n, Len(t) = n,
           NEW a, NEW b, NEW c, NEW q, NEW L, Neighbours(s, n, a, b, c, q, L),
           NEW to, Swapped(s, t, n, a, b, c, to)
    PROVE  Relocates(s, t, n, to)
<1>1. a \in 1..n /\ b \in a+1..n /\ c \in b+1..n+1 /\ L \in Int /\ a \in Int /\ b \in Int /\ c \in Int
  BY DEF Neighbours
<1>2. /\ s[a].level = L /\ s[b].level = L
      /\ \A i \in a+1..b-1 : s[i].level > L
      /\ \A i \in b+1..c-1 : s[i].level > L
      /\ c <= n => s[c].level <= L
  BY DEF Neighbours
<1>3. Under(s, q, a) /\ Under(s, q, b)
  BY DEF Neighbours
<1>4. \A k \in 1..a-1 : t[k] = s[k] /\ to[k] = k
  BY DEF Swapped
<1>5. /\ \A k \in a..a+c-b-1 : t[k] = s[k+b-a]
      /\ \A i \in b..c-1 : to[i] = i-b+a
  BY DEF Swapped
<1>6. /\ \A k \in a+c-b..c-1 : t[k] = s[k-c+b]
      /\ \A i \in a..b-1 : to[i] = i+c-b
  BY DEF Swapped
<1>7. \A k \in c..n : t[k] = s[k] /\ to[k] = k
  BY DEF Swapped
<1>8. \A i \in 1..n : s[i].level \in Int /\ t[i].level \in Int
  BY Elements
<1>9. ASSUME NEW j \in a..c-1 PROVE s[j].level >= L
  <2>1. j = a \/ j = b \/ j \in a+1..b-1 \/ j \in b+1..c-1
    BY <1>1
  <2>2. j \in 1..n
    BY <1>1
  <2>3. s[j].level \in Int
    BY <1>8, <2>2
  <2> QED
    BY <1>1, <1>2, <2>1, <2>3
<1>10. ASSUME NEW j \in a..c-1 PROVE t[j].level >= L
  <2>1. CASE j < a+c-b
    <3>1. j \in a..a+c-b-1 /\ j+b-a \in a..c-1
      BY <1>1, <2>1
    <3>2. t[j] = s[j+b-a] /\ s[j+b-a].level >= L
      BY <1>5, <1>9, <3>1
    <3> QED
      BY <3>2
  <2>2. CASE j >= a+c-b
    <3>1. j \in a+c-b..c-1 /\ j-c+b \in a..c-1
      BY <1>1, <2>2
    <3>2. t[j] = s[j-c+b] /\ s[j-c+b].level >= L
      BY <1>6, <1>9, <3>1
    <3> QED
      BY <3>2
  <2> QED
    BY <1>1, <2>1, <2>2
<1>11. ASSUME NEW i \in 1..n PROVE to[i] \in 1..n /\ t[to[i]] = s[i]
  <2>1. CASE i < a \/ i >= c
    <3>1. i \in 1..a-1 \/ i \in c..n
      BY <1>1, <2>1
    <3> QED
      BY <1>4, <1>7, <3>1
  <2>2. CASE a <= i /\ i < b
    <3>1. i \in a..b-1 /\ i+c-b \in a+c-b..c-1 /\ (i+c-b)-c+b = i /\ i+c-b \in 1..n
      BY <1>1, <2>2
    <3>2. to[i] = i+c-b /\ t[i+c-b] = s[(i+c-b)-c+b]
      BY <1>6, <3>1
    <3> QED
      BY <3>1, <3>2
  <2>3. CASE b <= i /\ i < c
    <3>1. i \in b..c-1 /\ i-b+a \in a..a+c-b-1 /\ (i-b+a)+b-a = i /\ i-b+a \in 1..n
      BY <1>1, <2>3
    <3>2. to[i] = i-b+a /\ t[i-b+a] = s[(i-b+a)+b-a]
      BY <1>5, <3>1
    <3> QED
      BY <3>1, <3>2
  <2> QED
    BY <1>1, <2>1, <2>2, <2>3
<1>12. ASSUME NEW k \in 1..n PROVE \E i \in 1..n : k = to[i]
  <2>1. CASE k < a \/ k >= c
    <3>1. k \in 1..a-1 \/ k \in c..n
      BY <1>1, <2>1
    <3> QED
      BY <1>4, <1>7, <3>1
  <2>2. CASE a <= k /\ k < a+c-b
    <3>1. k+b-a \in 1..n /\ k+b-a \in b..c-1 /\ (k+b-a)-b+a = k
      BY <1>1, <2>2
    <3>2. to[k+b-a] = (k+b-a)-b+a
      BY <1>5, <3>1
    <3> QED
      BY <3>1, <3>2
  <2>3. CASE a+c-b <= k /\ k < c
    <3>1. k-c+b \in 1..n /\ k-c+b \in a..b-1 /\ (k-c+b)+c-b = k
      BY <1>1, <2>3
    <3>2. to[k-c+b] = (k-c+b)+c-b
      BY <1>6, <3>1
    <3> QED
      BY <3>1, <3>2
  <2> QED
    BY <1>1, <2>1, <2>2, <2>3
<1>13. ASSUME NEW i \in 1..n, NEW p, Under(s, p, i)
       PROVE  IF p = 0 THEN Under(t, 0, to[i]) ELSE p \in 1..n /\ Under(t, to[p], to[i])
  <2>1. /\ p \in 0..i-1 /\ p \in Int /\ i \in Int /\ i <= n
        /\ p # 0 => p \in 1..n
    BY <1>13 DEF Under
  <2>2. /\ p # 0 => s[p].level < s[i].level
        /\ \A j \in p+1..i-1 : s[j].level >= s[i].level
    BY <1>13 DEF Under
  <2>3. to[i] \in 1..n /\ t[to[i]] = s[i] /\ (p # 0 => to[p] \in 1..n /\ t[to[p]] = s[p])
    BY <1>11, <2>1
  <2>4. CASE i < a
    <3>1. i \in 1..a-1 /\ (p # 0 => p \in 1..a-1) /\ \A j \in p+1..i-1 : j \in 1..a-1
      BY <1>1, <2>1, <2>4
    <3>2. to[i] = i /\ t[i] = s[i] /\ (p # 0 => to[p] = p /\ t[p] = s[p]) /\ \A j \in p+1..i-1 : t[j] = s[j]
      BY <1>4, <3>1
    <3> QED
      BY <2>1, <2>2, <3>2 DEF Under
  <2>5. CASE (i = a \/ i = b) /\ p < a
    <3>1. (i = a => to[i] = a+c-b) /\ (i = b => to[i] = a)
      <4>1. a \in a..b-1 /\ b \in b..c-1 /\ b-b+a = a
        BY <1>1
      <4>2. to[a] = a+c-b /\ to[b] = b-b+a
        BY <1>5, <1>6, <4>1
      <4> QED
        BY <4>1, <4>2
    <3>2. p # 0 => p \in 1..a-1
      BY <1>1, <2>1, <2>5
    <3>3. a+c-b < c /\ a < c /\ p < a /\ a <= a+c-b
      BY <1>1, <2>5
    <3>4. to[i] < c /\ p < to[i]
      BY <1>1, <2>1, <2>5, <3>1, <3>3
    <3>5. p # 0 => to[p] = p /\ t[p] = s[p]
      BY <1>4, <3>2
    <3>6. s[i].level = L
      BY <1>2, <2>5
    <3>7. ASSUME NEW j \in p+1..to[i]-1 PROVE t[j].level >= L
      <4>1. (j < a /\ j \in 1..a-1 /\ j \in p+1..i-1) \/ j \in a..c-1
        BY <1>1, <2>1, <2>3, <2>5, <3>4
      <4>2. j \in 1..a-1 /\ j \in p+1..i-1 => t[j].level >= L
        BY <1>4, <2>2, <3>6
      <4> QED
        BY <1>10, <4>1, <4>2
    <3>8. p \in 0..to[i]-1 /\ t[to[i]] = s[i]
      BY <2>1, <2>3, <3>4
    <3>9. Under(t, p, to[i])
      BY <2>2, <3>5, <3>6, <3>7, <3>8 DEF Under
    <3> QED
      BY <2>1, <3>5, <3>9
  <2>6. CASE a < i /\ i < b
    <3>1. i \in a+1..b-1
      BY <1>1, <2>6
    <3>2. s[i].level > L /\ s[i].level \in Int
      BY <1>2, <1>8, <3>1
    <3>3. p >= a /\ p # 0
      <4>1. p < a => a \in p+1..i-1
        BY <1>1, <2>1, <2>6
      <4>2. ~(p < a)
        BY <1>1, <1>2, <2>2, <3>2, <4>1
      <4> QED
        BY <1>1, <2>1, <4>2
    <3>4. p \in 1..i-1 /\ p \in a..b-1 /\ i \in a..b-1 /\ p + (c-b) = p+c-b /\ i + (c-b) = i+c-b /\ c-b \in Nat
      BY <1>1, <2>1, <2>6, <3>3
    <3>5. ASSUME NEW j \in p+(c-b)..i+(c-b) PROVE t[j] = s[j-(c-b)]
      <4>1. j \in a+c-b..c-1 /\ j-(c-b) = j-c+b
        BY <1>1, <2>1, <2>6, <3>3
      <4> QED
        BY <1>6, <4>1
    <3>6. Under(t, p+(c-b), i+(c-b))
      <4> DEFINE d == c-b
      <4>1. d \in Int /\ p+d \in Nat \ {0} /\ p \in 1..i-1 /\ i \in Nat
        BY <1>1, <2>1, <3>4
      <4>2. \A j \in p+d..i+d : t[j] = s[j-d]
        BY <3>5
      <4> HIDE DEF d
      <4>3. Under(t, p+d, i+d)
        BY <1>13, <4>1, <4>2, MovedTogether
      <4> QED
        BY <4>3 DEF d
    <3>7. to[i] = i+(c-b) /\ to[p] = p+(c-b)
      BY <1>6, <3>4
    <3> QED
      BY <2>1, <3>3, <3>6, <3>7
  <2>7. CASE b < i /\ i < c
    <3>1. i \in b+1..c-1
      BY <1>1, <2>7
    <3>2. s[i].level > L /\ s[i].level \in Int
      <4>1. i \in 1..n
        OBVIOUS
      <4> QED
        BY <1>2, <1>8, <3>1, <4>1
    <3>3. p >= b /\ p # 0
      <4>1. p < b => b \in p+1..i-1
        BY <1>1, <2>1, <2>7
      <4>2. ~(p < b)
        BY <1>1, <1>2, <2>2, <3>2, <4>1
      <4> QED
        BY <1>1, <2>1, <4>2
    <3>4. /\ p \in 1..i-1 /\ p \in b..c-1 /\ i \in b..c-1
          /\ p + (a-b) = p-b+a /\ i + (a-b) = i-b+a /\ a-b \in Int /\ p + (a-b) \in Nat \ {0}
      BY <1>1, <2>1, <2>7, <3>3
    <3>5. ASSUME NEW j \in p+(a-b)..i+(a-b) PROVE t[j] = s[j-(a-b)]
      <4>1. j \in a..a+c-b-1 /\ j-(a-b) = j+b-a
        BY <1>1, <2>1, <2>7, <3>3
      <4> QED
        BY <1>5, <4>1
    <3>6. Under(t, p+(a-b), i+(a-b))
      <4> DEFINE d == a-b
      <4>1. d \in Int /\ p+d \in Nat \ {0} /\ p \in 1..i-1 /\ i \in Nat
        BY <1>1, <2>1, <3>4
      <4>2. \A j \in p+d..i+d : t[j] = s[j-d]
        BY <3>5
      <4> HIDE DEF d
      <4>3. Under(t, p+d, i+d)
        BY <1>13, <4>1, <4>2, MovedTogether
      <4> QED
        BY <4>3 DEF d
    <3>7. to[i] = i+(a-b) /\ to[p] = p+(a-b)
      BY <1>5, <3>4
    <3> QED
      BY <2>1, <3>3, <3>6, <3>7
  <2>8. CASE i >= c /\ p >= c
    <3>1. i \in c..n /\ p \in c..n /\ \A j \in p+1..i-1 : j \in c..n
      BY <1>1, <2>1, <2>8
    <3>2. to[i] = i /\ t[i] = s[i] /\ to[p] = p /\ t[p] = s[p] /\ \A j \in p+1..i-1 : t[j] = s[j]
      BY <1>7, <3>1
    <3>3. p # 0
      BY <1>1, <2>8
    <3> QED
      BY <2>1, <2>2, <3>2, <3>3 DEF Under
  <2>9. CASE i >= c /\ p < c
    <3>1. s[i].level <= L
      <4>1. c \in 1..n /\ c <= n /\ (i = c \/ c \in p+1..i-1)
        BY <1>1, <2>1, <2>9
      <4>2. s[c].level <= L /\ s[c].level \in Int /\ s[i].level \in Int
        BY <1>2, <1>8, <4>1
      <4>3. i = c \/ s[i].level <= s[c].level
        BY <2>2, <4>1, <4>2
      <4> QED
        BY <1>1, <4>2, <4>3
    <3>2. p < a
      <4>1. p >= a => p \in a..c-1 /\ p \in 1..n
        BY <1>1, <2>1, <2>9
      <4>2. p \in a..c-1 => s[p].level >= L
        BY <1>9
      <4>3. ~(p >= a)
        BY <1>1, <1>8, <2>1, <2>2, <3>1, <4>1, <4>2
      <4> QED
        BY <1>1, <2>1, <4>3
    <3>3. to[i] = i /\ t[i] = s[i] /\ (p # 0 => to[p] = p /\ t[p] = s[p])
      <4>1. i \in c..n /\ (p # 0 => p \in 1..a-1)
        BY <1>1, <2>1, <2>9, <3>2
      <4> QED
        BY <1>4, <1>7, <4>1
    <3>4. ASSUME NEW j \in p+1..i-1 PROVE t[j].level >= s[i].level
      <4>1. j \in 1..n /\ (j \in a..c-1 \/ j \in 1..a-1 \/ j \in c..n)
        BY <1>1, <2>1
      <4>2. j \in a..c-1 => t[j].level >= L /\ L \in Int /\ t[j].level \in Int /\ s[i].level \in Int
        BY <1>1, <1>8, <1>10, <4>1
      <4>3. j \in 1..a-1 \/ j \in c..n => t[j] = s[j]
        BY <1>4, <1>7
      <4> QED
        BY <2>2, <3>1, <4>1, <4>2, <4>3
    <3> QED
      BY <2>1, <2>2, <3>3, <3>4 DEF Under
  <2>10. (i = a \/ i = b) => p < a
    <3>1. q \in 0..a-1
      BY <1>3 DEF Under
    <3>2. i = a \/ i = b => q = p
      BY <1>3, <1>13, UnderParent
    <3> QED
      BY <1>1, <3>1, <3>2
  <2> QED
    BY <1>1, <2>1, <2>4, <2>5, <2>6, <2>7, <2>8, <2>9, <2>10
<1> QED
  BY <1>11, <1>12, <1>13 DEF Follows, Relocates

\* Neighbouring subtrees that change places take what is in them along.
LEMMA SwapCarries ==
    ASSUME NEW s \in Outline, ValidTree(s), NEW a \in 1..Len(s), NEW b \in 1..Len(s), NextSibling(s, a, b)
    PROVE  /\ SwapSubtrees(s, a, b) \in Outline /\ ValidTree(SwapSubtrees(s, a, b))
           /\ \E to : /\ Carried(s, SwapSubtrees(s, a, b), 1..Len(s), to)
                      /\ \A i \in 1..Len(s) : Follows(s, SwapSubtrees(s, a, b), 1..Len(s), to, i)
<1> DEFINE t == SwapSubtrees(s, a, b)
           n == Len(s)
           c == EndOf(s, b)
           L == s[a].level
           to == [i \in 1..n |-> IF i < a \/ i >= c THEN i ELSE IF i < b THEN i+c-b ELSE i-b+a]
<1>1. n \in Nat /\ a \in 1..n /\ b \in 1..n /\ L \in Int /\ \A i \in 1..n : s[i].level \in Int
  BY Elements
<1>2. EndOf(s, a) = b /\ a < b /\ s[b].level = L
  BY NextBegins
<1>3. c \in b+1..n+1 /\ b \in a+1..n
  BY <1>1, <1>2, EndFacts
<1>4. PICK q : Under(s, q, a) /\ Under(s, q, b)
  BY NextBegins
<1>5. Neighbours(s, n, a, b, c, q, L)
  <2>1. /\ \A i \in a+1..b-1 : s[i].level > L
        /\ \A i \in b+1..c-1 : s[i].level > L
        /\ c <= n => s[c].level <= L
    BY <1>2, EndFacts
  <2> HIDE DEF t, c, n, to
  <2> QED
    BY <1>1, <1>2, <1>3, <1>4, <2>1 DEF Neighbours
<1>6. c \in 1..n+1 /\ b < c
  BY <1>1, <1>3
<1>7. t \in Outline /\ Len(t) = n /\ Len(s) = n
  BY <1>2, <1>6, SwapPlaces
<1>8. Swapped(s, t, n, a, b, c, to)
  <2>1. /\ \A k \in 1..a-1 : t[k] = s[k]
        /\ \A k \in a..a+c-b-1 : t[k] = s[k+b-a]
        /\ \A k \in a+c-b..c-1 : t[k] = s[k-c+b]
        /\ \A k \in c..n : t[k] = s[k]
    BY <1>2, <1>6, SwapPlaces
  <2> HIDE DEF t, c, n
  <2>2. \A k \in 1..a-1 : to[k] = k
    BY <1>1, <1>3
  <2>3. \A k \in c..n : to[k] = k
    BY <1>1, <1>3
  <2>4. \A k \in a..b-1 : to[k] = k+c-b
    BY <1>1, <1>3
  <2>5. \A k \in b..c-1 : to[k] = k-b+a
    BY <1>1, <1>3
  <2> HIDE DEF to
  <2> QED
    BY <2>1, <2>2, <2>3, <2>4, <2>5 DEF Swapped
<1> HIDE DEF t, c, L, n, to
<1>9. /\ \A i \in 1..n : to[i] \in 1..n /\ t[to[i]] = s[i] /\ Follows(s, t, 1..n, to, i)
      /\ \A k \in 1..n : \E i \in 1..n : k = to[i]
  <2>1. n \in Nat
    BY <1>1
  <2>2. Relocates(s, t, n, to)
    BY <2>1, <1>5, <1>7, <1>8, SwapFollows
  <2> QED
    BY <2>2 DEF Relocates
<1> DEFINE all == 1..n
<1>11. Carried(s, t, all, to)
  BY <1>7, <1>9 DEF Carried
<1>12. \A i \in all : Follows(s, t, all, to, i) /\ t[to[i]].level = s[i].level
  BY <1>9
<1>13. \A k \in 1..Len(t) : (\E i \in all : k = to[i]) \/ Fits(t, k)
  BY <1>7, <1>9
<1>14. ValidTree(t)
  <2> HIDE DEF all
  <2> QED
    BY <1>7, <1>11, <1>12, <1>13, CarriedTree
<1> QED
  BY <1>7, <1>11, <1>12, <1>14 DEF t, n

-----------------------------------------------------------------------------
(* Levels and removals.                                                        *)

\* A subtree from i up to e: what is in it is deeper, what follows it is not.
LEMMA Subtree ==
    ASSUME NEW s \in Outline, NEW i \in 1..Len(s), NEW e, e = EndOf(s, i), NEW j \in 1..Len(s), NEW p, Under(s, p, j)
    PROVE  /\ j \in i+1..e-1 => p >= i
           /\ j >= e => p < i \/ p >= e
           /\ j >= e /\ p < i => e \in 1..Len(s) /\ s[j].level <= s[e].level /\ s[j].level <= s[i].level
<1>1. Len(s) \in Nat /\ \A k \in 1..Len(s) : s[k].level \in Int
  BY Elements
<1>2. /\ e \in i+1..Len(s)+1
      /\ \A k \in i+1..e-1 : s[k].level > s[i].level
      /\ e <= Len(s) => s[e].level <= s[i].level
  BY EndFacts
<1>3. /\ p \in 0..j-1
      /\ p # 0 => s[p].level < s[j].level
      /\ \A k \in p+1..j-1 : s[k].level >= s[j].level
  BY DEF Under
<1>4. ASSUME j \in i+1..e-1 PROVE p >= i
  <2>1. s[j].level > s[i].level
    BY <1>2, <1>4
  <2>2. p < i => i \in p+1..j-1
    BY <1>1, <1>2, <1>3, <1>4
  <2>3. ~(p < i)
    BY <1>1, <1>3, <2>1, <2>2
  <2> QED
    BY <1>1, <1>3, <2>3
<1>5. ASSUME j >= e, p < e
      PROVE  p < i /\ e \in 1..Len(s) /\ s[j].level <= s[e].level /\ s[j].level <= s[i].level
  <2>1. e \in 1..Len(s) /\ s[e].level <= s[i].level
    BY <1>1, <1>2, <1>5
  <2>2. j = e \/ e \in p+1..j-1
    BY <1>1, <1>3, <1>5, <2>1
  <2>3. s[j].level <= s[e].level
    BY <1>1, <1>3, <2>1, <2>2
  <2>4. s[j].level <= s[i].level
    BY <1>1, <2>1, <2>3
  <2>5. ASSUME p >= i PROVE FALSE
    <3>1. p \in 1..Len(s) /\ (p = i \/ p \in i+1..e-1)
      BY <1>1, <1>2, <1>3, <1>5, <2>5
    <3>2. s[p].level >= s[i].level
      BY <1>1, <1>2, <3>1
    <3> QED
      BY <1>1, <1>3, <2>4, <3>1, <3>2
  <2> QED
    BY <1>1, <1>3, <2>1, <2>3, <2>4, <2>5
<1>6. p \in Int /\ e \in Int /\ i \in Int /\ e > i
  BY <1>1, <1>2, <1>3
<1> QED
  BY <1>4, <1>5, <1>6

\* A new level takes no section in and leaves none behind: every section but the
\* moved one stands under the heading it stood under.
LEMMA ShiftCarries ==
    ASSUME NEW s \in Outline, NEW i \in 1..Len(s), NEW level \in 2..Deepest, LevelAllowed(s, i, level)
    PROVE  /\ Shifted(s, i, level) \in Outline /\ ValidTree(Shifted(s, i, level))
           /\ \E to : /\ Carried(s, Shifted(s, i, level), 1..Len(s), to)
                      /\ \A j \in 1..Len(s) : j # i => Follows(s, Shifted(s, i, level), 1..Len(s), to, j)
<1> DEFINE t == Shifted(s, i, level)
           e == EndOf(s, i)
           to == [j \in 1..Len(s) |-> j]
<1>0. Len(s) \in Nat /\ level \in Int /\ s[i].level \in Int /\ i \in Int
  BY Elements, OutlineAssumption
<1>1. /\ Len(s) \in Nat /\ level \in Int /\ s[i].level \in Int
      /\ \A k \in 1..Len(s) : s[k] \in Section /\ s[k].level \in Int
  BY Elements, OutlineAssumption
<1>2. /\ e \in i+1..Len(s)+1
      /\ \A k \in i+1..e-1 : s[k].level > s[i].level
      /\ e <= Len(s) => s[e].level <= s[i].level
  BY EndFacts
<1>3. /\ e <= Len(s) => s[e].level <= level
      /\ \A j \in i..e-1 : s[j].level + level - s[i].level \in 2..Deepest
      /\ ValidTree(t)
  BY DEF LevelAllowed
<1>4. t = [j \in 1..Len(s) |-> IF j \in i..e-1 THEN [s[j] EXCEPT !.level = @ + level - s[i].level] ELSE s[j]]
  BY DEF Shifted
<1> HIDE DEF t, e
<1>5. ASSUME NEW k \in 1..Len(s)
      PROVE  /\ t[k] \in Section /\ t[k].id = s[k].id
             /\ k \notin i..e-1 => t[k] = s[k]
             /\ k \in i..e-1 => t[k].level = s[k].level + level - s[i].level
  <2>1. CASE k \in i..e-1
    <3>1. t[k] = [s[k] EXCEPT !.level = s[k].level + level - s[i].level]
      BY <1>4, <2>1
    <3>2. s[k].level + level - s[i].level \in 2..Deepest /\ s[k] \in Section
      BY <1>1, <1>3, <2>1
    <3> QED
      BY <2>1, <3>1, <3>2 DEF Section
  <2>2. CASE k \notin i..e-1
    BY <1>1, <1>4, <2>2
  <2> QED
    BY <2>1, <2>2
<1>6. t \in Outline /\ Len(t) = Len(s)
  <2>1. t \in [1..Len(s) -> Section]
    BY <1>4, <1>5
  <2> QED
    BY <1>1, <2>1 DEF Outline
<1>7. Carried(s, t, 1..Len(s), to)
  <2>1. \A j \in 1..Len(s) : to[j] \in 1..Len(t) /\ t[to[j]].id = s[j].id
    BY <1>5, <1>6
  <2>2. \A k \in 1..Len(t) : \E j \in 1..Len(s) : k = to[j]
    BY <1>6
  <2> QED
    BY <2>1, <2>2 DEF Carried
<1>8. ASSUME NEW j \in 1..Len(s), j # i, NEW p, Under(s, p, j)
      PROVE  Under(t, p, j) /\ (p # 0 => p \in 1..Len(s))
  <2>1. /\ p \in 0..j-1
        /\ p # 0 => s[p].level < s[j].level
        /\ \A k \in p+1..j-1 : s[k].level >= s[j].level
    BY <1>8 DEF Under
  <2>2. /\ j \in i+1..e-1 => p >= i
        /\ j >= e => p < i \/ p >= e
        /\ j >= e /\ p < i => e \in 1..Len(s) /\ s[j].level <= s[e].level /\ s[j].level <= s[i].level
    BY <1>8, Subtree DEF e
  <2>3. p # 0 => p \in 1..Len(s)
    BY <1>1, <2>1
  <2>4. CASE j < i \/ (j >= e /\ p >= e)
    <3>1. t[j] = s[j] /\ (p # 0 => t[p] = s[p]) /\ \A k \in p+1..j-1 : t[k] = s[k]
      BY <1>1, <1>2, <1>5, <2>1, <2>4
    <3> QED
      BY <2>1, <2>3, <3>1 DEF Under
  <2>5. CASE j \in i+1..e-1
    <3>0. p >= i /\ e <= Len(s)+1 /\ e \in Int /\ p \in Int /\ j \in Int /\ j < e
      BY <1>0, <1>2, <2>1, <2>2, <2>5
    <3>1. \A k \in p..j : k \in i..e-1 /\ k \in 1..Len(s)
      BY <1>0, <3>0
    <3>2. \A k \in p..j : t[k].level = s[k].level + level - s[i].level /\ s[k].level \in Int
      BY <1>1, <1>5, <3>1
    <3>3. p \in p..j /\ j \in p..j /\ \A k \in p+1..j-1 : k \in p..j
      BY <2>1
    <3>4. p # 0 /\ t[p].level < t[j].level
      <4>1. p >= i /\ p # 0
        BY <1>1, <2>1, <2>2, <2>5
      <4>2. s[p].level < s[j].level
        BY <2>1, <4>1
      <4>3. /\ t[p].level = s[p].level + level - s[i].level /\ s[p].level \in Int
            /\ t[j].level = s[j].level + level - s[i].level /\ s[j].level \in Int
        BY <3>2, <3>3
      <4> QED
        BY <1>0, <4>1, <4>2, <4>3
    <3>5. ASSUME NEW k \in p+1..j-1 PROVE t[k].level >= t[j].level
      <4>1. s[k].level >= s[j].level
        BY <2>1
      <4>2. /\ t[k].level = s[k].level + level - s[i].level /\ s[k].level \in Int
            /\ t[j].level = s[j].level + level - s[i].level /\ s[j].level \in Int
        BY <3>2, <3>3
      <4> QED
        BY <1>0, <4>1, <4>2
    <3> QED
      BY <2>1, <2>3, <3>4, <3>5 DEF Under
  <2>6. CASE j >= e /\ p < i
    <3>1. t[j] = s[j] /\ (p # 0 => t[p] = s[p])
      BY <1>1, <1>2, <1>5, <2>1, <2>6
    <3>2. s[j].level <= level
      BY <1>1, <1>3, <2>2, <2>6
    <3>3. ASSUME NEW k \in p+1..j-1 PROVE t[k].level >= s[j].level
      <4>1. k \in 1..Len(s)
        BY <1>1, <2>1
      <4>2. CASE k \in i..e-1
        <5>0. k = i \/ k \in i+1..e-1
          BY <1>0, <1>2, <4>2
        <5>1. s[k].level >= s[i].level /\ s[k].level \in Int
          BY <1>1, <1>2, <4>1, <5>0
        <5>2. t[k].level = s[k].level + level - s[i].level
          BY <1>5, <4>1, <4>2
        <5>3. s[j].level \in Int
          BY <1>1
        <5> QED
          BY <1>0, <3>2, <5>1, <5>2, <5>3
      <4>3. CASE k \notin i..e-1
        BY <1>5, <2>1, <4>1, <4>3
      <4> QED
        BY <4>2, <4>3
    <3> QED
      BY <2>1, <2>3, <3>1, <3>3 DEF Under
  <2> QED
    BY <1>1, <1>2, <1>8, <2>1, <2>2, <2>3, <2>4, <2>5, <2>6
<1>9. \A j \in 1..Len(s) : j # i => Follows(s, t, 1..Len(s), to, j)
  <2> SUFFICES ASSUME NEW j \in 1..Len(s), j # i PROVE Follows(s, t, 1..Len(s), to, j)
    OBVIOUS
  <2>1. ASSUME NEW p, Under(s, p, j)
        PROVE  IF p = 0 THEN Under(t, 0, to[j]) ELSE p \in 1..Len(s) /\ Under(t, to[p], to[j])
    BY <1>8, <2>1
  <2> QED
    BY <2>1 DEF Follows
<1> QED
  BY <1>3, <1>6, <1>7, <1>9 DEF t

Without(s, i) == SubSeq(s, 1, i - 1) \o SubSeq(s, EndOf(s, i), Len(s))

\* Without a subtree the other sections stand where they stood.
LEMMA RemoveCarries ==
    ASSUME NEW s \in Outline, ValidTree(s), NEW i \in 1..Len(s)
    PROVE  /\ Without(s, i) \in Outline /\ ValidTree(Without(s, i))
           /\ \E kept, to : /\ Carried(s, Without(s, i), kept, to)
                            /\ \A j \in kept : Follows(s, Without(s, i), kept, to, j)
<1> DEFINE r == SubSeq(s, 1, i - 1)
           e == EndOf(s, i)
           t == r \o SubSeq(s, e, Len(s))
           kept == {j \in 1..Len(s) : j < i \/ j >= e}
           to == [j \in 1..Len(s) |-> IF j < i THEN j ELSE j - e + i]
<1>1. Len(s) \in Nat /\ \A k \in 1..Len(s) : s[k] \in Section /\ s[k].level \in Int
  BY Elements
<1>2. e \in i+1..Len(s)+1
  BY EndFacts
<1>2a. Without(s, i) = t
  BY DEF Without
<1>3. r \in Seq(Section) /\ Len(r) = i-1 /\ \A k \in 1..i-1 : r[k] = s[k]
  BY <1>1, SubSeqProperties
<1> HIDE DEF r, e
<1>4. /\ t \in Seq(Section) /\ Len(t) = Len(r) + Len(s) - e + 1
      /\ \A k \in 1..Len(r) : t[k] = r[k]
      /\ \A k \in Len(r)+1..Len(r)+Len(s)-e+1 : t[k] = s[k - Len(r) + e - 1]
  <2>1. r \in Seq(Section) /\ e \in 1..Len(s)+1 /\ Len(s) \in e-1..Len(s)
    BY <1>1, <1>2, <1>3
  <2> QED
    BY <2>1, Joined
<1> HIDE DEF t
<1>5. /\ t \in Outline /\ Len(t) = Len(s) - e + i
      /\ \A k \in 1..i-1 : t[k] = s[k]
      /\ \A k \in i..Len(s)-e+i : t[k] = s[k-i+e]
  BY <1>1, <1>2, <1>3, <1>4 DEF Outline
<1>6. \A j \in 1..Len(s) : /\ j < i => to[j] = j /\ j \in 1..Len(t) /\ t[j] = s[j]
                           /\ j >= e => to[j] = j-e+i /\ j-e+i \in 1..Len(t) /\ t[j-e+i] = s[j]
  <2> SUFFICES ASSUME NEW j \in 1..Len(s)
               PROVE  /\ j < i => to[j] = j /\ j \in 1..Len(t) /\ t[j] = s[j]
                      /\ j >= e => to[j] = j-e+i /\ j-e+i \in 1..Len(t) /\ t[j-e+i] = s[j]
    OBVIOUS
  <2>1. CASE j < i
    <3>1. j \in 1..i-1 /\ j \in 1..Len(t) /\ ~(j >= e)
      BY <1>1, <1>2, <1>5, <2>1
    <3>2. to[j] = j
      BY <2>1
    <3> QED
      BY <1>5, <3>1, <3>2
  <2>2. CASE j >= e
    <3>1. j-e+i \in i..Len(s)-e+i /\ j-e+i \in 1..Len(t) /\ (j-e+i)-i+e = j /\ to[j] = j-e+i
      BY <1>1, <1>2, <1>5, <2>2
    <3>2. t[j-e+i] = s[(j-e+i)-i+e]
      BY <1>5, <3>1
    <3> QED
      BY <1>2, <2>2, <3>1, <3>2
  <2> QED
    BY <2>1, <2>2
<1>7. \A k \in 1..Len(t) : \E j \in kept : k = to[j]
  <2> SUFFICES ASSUME NEW k \in 1..Len(t) PROVE \E j \in kept : k = to[j]
    OBVIOUS
  <2>1. CASE k < i
    <3>1. k \in kept /\ k = to[k]
      BY <1>1, <1>2, <1>5, <2>1
    <3> QED
      BY <3>1
  <2>2. CASE k >= i
    <3>1. k-i+e \in kept /\ k = to[k-i+e]
      BY <1>1, <1>2, <1>5, <2>2
    <3> QED
      BY <3>1
  <2> QED
    BY <1>1, <1>5, <2>1, <2>2
<1> HIDE DEF to
<1>8. \A j \in kept : to[j] \in 1..Len(t) /\ t[to[j]] = s[j]
  BY <1>6
<1>9. Carried(s, t, kept, to)
  <2>1. kept \subseteq 1..Len(s)
    OBVIOUS
  <2> HIDE DEF kept
  <2> QED
    BY <1>7, <1>8, <2>1 DEF Carried
<1>10. ASSUME NEW j \in kept, NEW p, Under(s, p, j)
       PROVE  IF p = 0 THEN Under(t, 0, to[j]) ELSE p \in kept /\ Under(t, to[p], to[j])
  <2>1. /\ p \in 0..j-1
        /\ p # 0 => s[p].level < s[j].level
        /\ \A k \in p+1..j-1 : s[k].level >= s[j].level
    BY <1>10 DEF Under
  <2>2. j \in 1..Len(s) /\ t[to[j]] = s[j] /\ (j < i \/ j >= e) /\ (p # 0 => p \in 1..Len(s))
    BY <1>1, <1>8, <2>1
  <2>3. j >= e => p < i \/ p >= e
    BY <1>10, <2>2, Subtree DEF e
  <2>4. p # 0 => p \in kept /\ t[to[p]] = s[p]
    BY <1>1, <1>2, <1>8, <2>1, <2>2, <2>3
  <2> HIDE DEF kept
  <2>5. CASE j < i
    <3>1. to[j] = j /\ (p # 0 => to[p] = p) /\ \A k \in p+1..j-1 : t[k] = s[k]
      BY <1>1, <1>2, <1>5, <1>6, <2>1, <2>2, <2>5
    <3> QED
      BY <2>1, <2>2, <2>4, <3>1 DEF Under
  <2>6. CASE j >= e /\ p < i
    <3>1. to[j] = j-e+i /\ (p # 0 => to[p] = p) /\ p \in 0..j-e+i-1
      <4>1. to[j] = j-e+i /\ (p # 0 => to[p] = p)
        BY <1>6, <2>2, <2>6
      <4>2. e \in Int /\ i \in Int /\ j \in Int
        BY <1>1, <1>2, <2>2
      <4>3. p \in 0..j-e+i-1
        BY <2>1, <2>6, <4>2
      <4> QED
        BY <4>1, <4>3
    <3>2. ASSUME NEW k \in p+1..j-e+i-1 PROVE t[k].level >= s[j].level
      <4>1. CASE k < i
        <5>1. k \in p+1..j-1
          BY <1>1, <1>2, <2>1, <2>2, <2>6, <4>1
        <5>2. k \in 1..i-1
          BY <1>1, <2>1, <4>1
        <5> QED
          BY <1>5, <2>1, <5>1, <5>2
      <4>2. CASE k >= i
        <5>1. k-i+e \in p+1..j-1 /\ k \in i..Len(s)-e+i
          BY <1>1, <1>2, <2>1, <2>2, <2>6, <4>2
        <5>2. t[k] = s[k-i+e]
          BY <1>5, <5>1
        <5> QED
          BY <2>1, <5>1, <5>2
      <4> QED
        BY <1>1, <2>1, <4>1, <4>2
    <3>3. Under(t, p, j-e+i)
      <4>0. e \in Int /\ i \in Int /\ p \in Int /\ j \in Int
        BY <1>1, <1>2, <2>1, <2>2
      <4> DEFINE m == j-e+i
      <4>1. /\ t[m] = s[j] /\ (p # 0 => t[p].level < s[j].level)
            /\ p \in 0..m-1
        BY <2>1, <2>2, <2>4, <3>1, <4>0
      <4>1a. \A k \in p+1..m-1 : t[k].level >= s[j].level
        BY <3>2, <4>0
      <4> HIDE DEF m
      <4>2. Under(t, p, m)
        BY <4>1, <4>1a DEF Under
      <4> QED
        BY <4>2 DEF m
    <3> QED
      BY <2>4, <3>1, <3>3
  <2>7. CASE j >= e /\ p >= e
    <3>1. to[j] = j-e+i /\ to[p] = p-e+i /\ p # 0 /\ p-e+i \in 0..j-e+i-1 /\ p-e+i # 0
      BY <1>1, <1>2, <1>6, <2>1, <2>2, <2>7
    <3>2. ASSUME NEW k \in p-e+i+1..j-e+i-1 PROVE t[k].level >= s[j].level
      <4>0. e \in Int /\ i \in Int /\ p \in Int /\ j \in Int /\ k \in Int /\ j <= Len(s)
        BY <1>1, <1>2, <2>1, <2>2
      <4>1. k-i+e \in p+1..j-1 /\ k \in i..Len(s)-e+i
        BY <1>1, <2>7, <4>0
      <4>2. t[k] = s[k-i+e]
        BY <1>5, <4>1
      <4> QED
        BY <2>1, <4>1, <4>2
    <3>3. Under(t, p-e+i, j-e+i)
      <4>0. e \in Int /\ i \in Int /\ p \in Int /\ j \in Int
        BY <1>1, <1>2, <2>1, <2>2
      <4> DEFINE m == j-e+i
                 q == p-e+i
      <4>1. /\ t[m] = s[j] /\ t[q].level < s[j].level
            /\ q \in 0..m-1
        BY <2>1, <2>2, <2>4, <3>1, <4>0
      <4>1a. \A k \in q+1..m-1 : t[k].level >= s[j].level
        BY <3>2, <4>0
      <4> HIDE DEF m, q
      <4>2. Under(t, q, m)
        BY <4>1, <4>1a DEF Under
      <4> QED
        BY <4>2 DEF m, q
    <3> QED
      BY <2>4, <3>1, <3>3
  <2> QED
    BY <1>1, <2>2, <2>3, <2>5, <2>6, <2>7
<1> HIDE DEF kept
<1>11. \A j \in kept : Follows(s, t, kept, to, j) /\ t[to[j]].level = s[j].level
  BY <1>8, <1>10 DEF Follows
<1>12. \A k \in 1..Len(t) : (\E j \in kept : k = to[j]) \/ Fits(t, k)
  BY <1>7
<1>13. ValidTree(t)
  BY <1>5, <1>9, <1>11, <1>12, CarriedTree
<1> QED
  BY <1>2a, <1>5, <1>9, <1>11, <1>13

-----------------------------------------------------------------------------
(* The steps.                                                                  *)

\* What a step of the module editor keeps: the bodies of ModuleEditsKeepTheTree and
\* of IdsSurviveEditing.
TreeIsKept ==
    outlineEdit'.kind \in Structural /\ UniqueIds(sections) => ValidTree(sections') /\ ParentsKept

IdsAreKept ==
    outlineEdit'.kind \in Structural \cup {"headings"} /\ UniqueIds(sections) =>
        /\ UniqueIds(sections')
        /\ outlineEdit'.kind # "remove" => Ids(sections) \subseteq Ids(sections')

HeadingsOnlyTake ==
    outlineEdit'.kind = "headings" /\ UniqueIds(sections) => NewParentsOnly

OutlineIsKept == TreeIsKept /\ HeadingsOnlyTake /\ IdsAreKept

\* What was written out and read back is known.
LEMMA CommitKnown ==
    ASSUME NEW t \in Outline, Commit(t)
    PROVE  sections' = WithIds(t) /\ Known(sections')
<1>1. sections' = WithIds(t)
  BY CommitNumbers DEF Commit
<1>2. Known(WithIds(t))
  BY Numbered DEF Known
<1> QED
  BY <1>1, <1>2

\* An operation that carries the outline over keeps the tree when it is written out
\* and read back.
LEMMA CommitKeeps ==
    ASSUME Known(sections), NEW t \in Outline, ValidTree(t), Commit(t),
           NEW kept, NEW to, Carried(sections, t, kept, to), NEW moved,
           \A i \in kept : sections[i].id # moved => Follows(sections, t, kept, to, i),
           moved = 0 \/ (outlineEdit'.kind = "level" /\ outlineEdit'.id = moved),
           outlineEdit'.kind # "remove" => kept = 1..Len(sections),
           outlineEdit'.kind # "headings"
    PROVE  Known(sections') /\ OutlineIsKept
<1>1. sections' = WithIds(t) /\ Known(sections')
  BY CommitKnown
<1>2. ASSUME UniqueIds(sections)
      PROVE  /\ ValidTree(sections') /\ UniqueIds(sections')
             /\ \A i \in 1..Len(sections), k \in 1..Len(sections') :
                   sections[i].id = sections'[k].id /\ sections[i].id # moved
                      => ParentId(sections', k) = ParentId(sections, i)
             /\ kept = 1..Len(sections) => Ids(sections) \subseteq Ids(sections')
  <2>1. /\ ValidTree(WithIds(t)) /\ UniqueIds(WithIds(t))
        /\ \A i \in 1..Len(sections), k \in 1..Len(WithIds(t)) :
              sections[i].id = WithIds(t)[k].id /\ sections[i].id # moved
                 => ParentId(WithIds(t), k) = ParentId(sections, i)
        /\ kept = 1..Len(sections) => Ids(sections) \subseteq Ids(WithIds(t))
    BY <1>2, CarriedOver
  <2> QED
    BY <1>1, <2>1, Zenon
<1>3. \A i \in 1..Len(sections) : sections[i].id # 0
  BY DEF Known
<1>4. ASSUME UniqueIds(sections), NEW i \in 1..Len(sections), NEW k \in 1..Len(sections'),
             sections[i].id = sections'[k].id, ~(outlineEdit'.kind = "level" /\ sections[i].id = outlineEdit'.id)
      PROVE  ParentId(sections', k) = ParentId(sections, i)
  <2>1. sections[i].id # moved
    BY <1>3, <1>4
  <2> QED
    BY <1>2, <1>4, <2>1
<1>5. TreeIsKept
  BY <1>2, <1>4 DEF TreeIsKept, ParentsKept
<1>6. IdsAreKept
  BY <1>2 DEF IdsAreKept
<1> QED
  BY <1>1, <1>5, <1>6 DEF OutlineIsKept, HeadingsOnlyTake

\* A new section has a level of the text.
LEMMA NewSections ==
    ASSUME NEW level \in 2..Deepest
    PROVE  NewSection(level) \in Section /\ NewSection(level).id = 0 /\ NewSection(level).level = level
BY DEF NewSection, Section

\* Adding a main section or a child.
LEMMA AddKeeps ==
    ASSUME Known(sections), NEW parent \in 0..Len(sections), AddSection(parent)
    PROVE  Known(sections') /\ OutlineIsKept
<1> DEFINE level == IF parent = 0 THEN 2 ELSE sections[parent].level + 1
           at == IF parent = 0 THEN Len(sections) + 1 ELSE EndOf(sections, parent)
           x == NewSection(level)
           t == Insert(sections, at, <<x>>)
<1>1. sections \in Outline /\ ValidTree(sections)
  BY DEF Known, AddSection, Editable
<1>2. level <= Deepest /\ Commit(t) /\ outlineEdit' = [kind |-> "add", id |-> 0]
  BY DEF AddSection
<1>3. level \in 2..Deepest
  <2>1. parent # 0 => sections[parent].level \in Int /\ sections[parent].level >= 2
    BY <1>1, Elements
  <2> QED
    BY <1>2, <2>1, OutlineAssumption
<1>4. x \in Section /\ x.id = 0 /\ x.level = level
  <2> HIDE DEF level
  <2> QED
    BY <1>3, NewSections
<1> HIDE DEF x
<1>5. /\ t \in Outline /\ ValidTree(t)
      /\ \E to : /\ Carried(sections, t, 1..Len(sections), to)
                 /\ \A i \in 1..Len(sections) : Follows(sections, t, 1..Len(sections), to, i)
  BY <1>1, <1>4, AddCarries
<1>6. outlineEdit'.kind # "remove"
  BY <1>2
<1> HIDE DEF t, at, level
<1> QED
  BY <1>2, <1>5, <1>6, CommitKeeps

\* Adding the introduction and the conclusion that are missing.
LEMMA StarterKeeps ==
    ASSUME Known(sections), AddStarterSections
    PROVE  Known(sections') /\ OutlineIsKept
<1>1. sections \in Outline /\ ValidTree(sections)
  BY DEF Known, AddStarterSections, Editable
<1>2. PICK a \in {<<>>, <<NewSection(2)>>}, b \in {<<>>, <<NewSection(2)>>} : Commit(a \o sections \o b)
  BY DEF AddStarterSections
<1>3. NewSection(2) \in Section /\ NewSection(2).id = 0 /\ NewSection(2).level = 2
  <2>1. 2 \in 2..Deepest
    BY OutlineAssumption
  <2> QED
    BY <2>1, NewSections
<1>3a. \A c \in {<<>>, <<NewSection(2)>>} :
          c \in Seq(Section) /\ \A k \in 1..Len(c) : c[k].level = 2 /\ c[k].id = 0
  <2> SUFFICES ASSUME NEW c, c = <<>> \/ c = <<NewSection(2)>>
               PROVE  c \in Seq(Section) /\ \A k \in 1..Len(c) : c[k].level = 2 /\ c[k].id = 0
    OBVIOUS
  <2>1. CASE c = <<>>
    BY <2>1
  <2>2. CASE c = <<NewSection(2)>>
    <3> DEFINE x == NewSection(2)
    <3>1. x \in Section /\ x.level = 2 /\ x.id = 0 /\ c = <<x>>
      BY <1>3, <2>2
    <3> HIDE DEF x
    <3>2. c \in Seq(Section) /\ Len(c) = 1 /\ c[1] = x
      BY <3>1
    <3> QED
      BY <3>1, <3>2
  <2> QED
    BY <2>1, <2>2
<1>4. a \in Seq(Section) /\ \A k \in 1..Len(a) : a[k].level = 2 /\ a[k].id = 0
  BY <1>3a
<1>5. b \in Seq(Section) /\ \A k \in 1..Len(b) : b[k].level = 2 /\ b[k].id = 0
  BY <1>3a
<1> DEFINE t == a \o sections \o b
<1>6. /\ t \in Outline /\ ValidTree(t)
      /\ \E to : /\ Carried(sections, t, 1..Len(sections), to)
                 /\ \A i \in 1..Len(sections) : Follows(sections, t, 1..Len(sections), to, i)
  <2>1. a \in Outline /\ b \in Outline
    BY <1>4, <1>5 DEF Outline
  <2> QED
    BY <1>1, <1>4, <1>5, <2>1, SurroundCarries
<1>7. outlineEdit'.kind # "remove" /\ outlineEdit'.kind # "headings"
  BY DEF AddStarterSections
<1>8. Commit(t)
  BY <1>2
<1> HIDE DEF t
<1> QED
  BY <1>6, <1>7, <1>8, CommitKeeps

\* A move in either direction swaps a subtree with the next one.
LEMMA SwapKeeps ==
    ASSUME Known(sections), ValidTree(sections), NEW a \in 1..Len(sections), NEW b \in 1..Len(sections),
           NextSibling(sections, a, b), Commit(SwapSubtrees(sections, a, b)), outlineEdit'.kind = "move"
    PROVE  Known(sections') /\ OutlineIsKept
<1> DEFINE t == SwapSubtrees(sections, a, b)
<1>1. /\ t \in Outline /\ ValidTree(t)
      /\ \E to : /\ Carried(sections, t, 1..Len(sections), to)
                 /\ \A i \in 1..Len(sections) : Follows(sections, t, 1..Len(sections), to, i)
  BY SwapCarries DEF Known
<1>2. outlineEdit'.kind # "remove" /\ Commit(t)
  OBVIOUS
<1> HIDE DEF t
<1> QED
  BY <1>1, <1>2, CommitKeeps

\* Changing a level.
LEMMA LevelKeeps ==
    ASSUME Known(sections), NEW i \in 1..Len(sections), NEW level \in 2..Deepest, ChangeLevel(i, level)
    PROVE  Known(sections') /\ OutlineIsKept
<1> DEFINE t == Shifted(sections, i, level)
           moved == sections[i].id
<1>1. /\ sections \in Outline /\ LevelAllowed(sections, i, level) /\ Commit(t)
      /\ outlineEdit' = [kind |-> "level", id |-> moved]
  BY DEF Known, ChangeLevel
<1>2. t \in Outline /\ ValidTree(t)
  BY <1>1, ShiftCarries
<1>3. PICK to : /\ Carried(sections, t, 1..Len(sections), to)
                /\ \A j \in 1..Len(sections) : j # i => Follows(sections, t, 1..Len(sections), to, j)
  BY <1>1, ShiftCarries
<1>4. outlineEdit'.kind = "level" /\ outlineEdit'.id = moved
  BY <1>1
<1> DEFINE all == 1..Len(sections)
<1>5. \A j \in all : sections[j].id # moved => Follows(sections, t, all, to, j)
  BY <1>3
<1>6. Carried(sections, t, all, to)
  BY <1>3
<1>7. all = 1..Len(sections)
  OBVIOUS
<1> HIDE DEF t, moved, all
<1> QED
  BY <1>1, <1>2, <1>4, <1>5, <1>6, <1>7, CommitKeeps

\* Removing a section with its subtree.
LEMMA RemoveKeeps ==
    ASSUME Known(sections), NEW i \in 1..Len(sections), RemoveSubtree(i)
    PROVE  Known(sections') /\ OutlineIsKept
<1> DEFINE t == Without(sections, i)
<1>1. sections \in Outline /\ ValidTree(sections) /\ Commit(t) /\ outlineEdit' = [kind |-> "remove", id |-> 0]
  BY DEF Known, RemoveSubtree, Editable, Without
<1>2. t \in Outline /\ ValidTree(t)
  BY <1>1, RemoveCarries
<1>3. PICK kept, to : Carried(sections, t, kept, to) /\ \A j \in kept : Follows(sections, t, kept, to, j)
  BY <1>1, RemoveCarries
<1>4. outlineEdit'.kind = "remove"
  BY <1>1
<1> HIDE DEF t
<1> QED
  BY <1>1, <1>2, <1>3, <1>4, CommitKeeps

\* Any number of sections can be inserted at once.
LEMMA InsertedOutline ==
    ASSUME NEW s \in Outline, NEW at \in 1..Len(s)+1, NEW x \in Outline
    PROVE  /\ Insert(s, at, x) \in Outline /\ Len(Insert(s, at, x)) = Len(s) + Len(x)
           /\ \A k \in 1..at-1 : Insert(s, at, x)[k] = s[k]
           /\ \A k \in 1..Len(x) : Insert(s, at, x)[k+at-1] = x[k]
           /\ \A k \in at..Len(s) : Insert(s, at, x)[k+Len(x)] = s[k]
<1> DEFINE a == SubSeq(s, 1, at-1)
           b == SubSeq(s, at, Len(s))
           t == a \o x \o b
<1>1. Len(s) \in Nat /\ Len(x) \in Nat /\ at \in Nat
  BY Elements
<1>2. a \in Outline /\ Len(a) = at-1 /\ \A k \in 1..at-1 : a[k] = s[k]
  BY <1>1, SubSeqProperties DEF Outline
<1>3. b \in Outline /\ Len(b) = Len(s)-at+1 /\ \A k \in 1..Len(s)-at+1 : b[k] = s[at+k-1]
  BY <1>1, SubSeqProperties DEF Outline
<1>4. Insert(s, at, x) = t
  BY DEF Insert
<1> HIDE DEF a, b
<1>5. /\ t \in Outline /\ Len(t) = Len(a) + Len(x) + Len(b)
      /\ \A k \in 1..Len(a) : t[k] = a[k]
      /\ \A k \in 1..Len(x) : t[k+Len(a)] = x[k]
      /\ \A k \in Len(a)+Len(x)+1..Len(a)+Len(x)+Len(b) : t[k] = b[k-Len(a)-Len(x)]
  BY <1>2, <1>3, SurroundPlaces
<1> HIDE DEF t
<1>6. ASSUME NEW k \in at..Len(s) PROVE t[k+Len(x)] = s[k]
  <2>1. k+Len(x) \in Len(a)+Len(x)+1..Len(a)+Len(x)+Len(b) /\ (k+Len(x))-Len(a)-Len(x) = k-at+1
    BY <1>1, <1>2, <1>3
  <2>2. k-at+1 \in 1..Len(s)-at+1 /\ at+(k-at+1)-1 = k
    BY <1>1
  <2> QED
    BY <1>3, <1>5, <2>1, <2>2
<1>7. \A k \in 1..Len(x) : t[k+at-1] = x[k]
  <2>1. \A k \in 1..Len(x) : k+at-1 = k+Len(a)
    BY <1>1, <1>2
  <2> QED
    BY <1>5, <2>1
<1>8. Len(t) = Len(s) + Len(x)
  BY <1>1, <1>2, <1>3, <1>5
<1> QED
  BY <1>2, <1>4, <1>5, <1>6, <1>7, <1>8

\* None at all changes nothing.
LEMMA NothingInserted ==
    ASSUME NEW s \in Outline, NEW at \in 1..Len(s)+1, NEW x \in Outline
    PROVE  Len(x) = 0 => Insert(s, at, x) = s
<1> DEFINE t == Insert(s, at, x)
<1>1. Len(s) \in Nat
  BY Elements
<1>2. /\ t \in Outline /\ Len(t) = Len(s) + Len(x)
      /\ \A k \in 1..at-1 : t[k] = s[k]
      /\ \A k \in at..Len(s) : t[k+Len(x)] = s[k]
  BY InsertedOutline
<1> HIDE DEF t
<1>3. ASSUME Len(x) = 0 PROVE t = s
  <2>1. Len(t) = Len(s) /\ \A k \in 1..Len(s) : t[k] = s[k]
    BY <1>1, <1>2, <1>3
  <2> QED
    BY <1>2, <2>1, SeqEqual DEF Outline
<1> QED
  BY <1>3 DEF t

\* Sections keep their levels and their order.
InOrder(s, t, to) ==
    /\ \A i \in 1..Len(s) : t[to[i]].level = s[i].level
    /\ \A i, j \in 1..Len(s) : i < j <=> to[i] < to[j]

\* Sections without identifiers, wherever they are inserted, leave the others theirs
\* and their order.
LEMMA InsertedCarries ==
    ASSUME NEW s \in Outline, NEW at \in 1..Len(s)+1, NEW x \in Outline, \A k \in 1..Len(x) : x[k].id = 0
    PROVE  \E to : /\ Carried(s, Insert(s, at, x), 1..Len(s), to)
                   /\ InOrder(s, Insert(s, at, x), to)
<1> DEFINE t == Insert(s, at, x)
           to == [i \in 1..Len(s) |-> IF i < at THEN i ELSE i + Len(x)]
<1>1. /\ Len(t) = Len(s) + Len(x)
      /\ \A k \in 1..at-1 : t[k] = s[k]
      /\ \A k \in 1..Len(x) : t[k+at-1] = x[k]
      /\ \A k \in at..Len(s) : t[k+Len(x)] = s[k]
  BY InsertedOutline
<1>2. Len(s) \in Nat /\ Len(x) \in Nat
  BY Elements
<1> HIDE DEF t
<1>3. \A i \in 1..Len(s) : to[i] \in 1..Len(t) /\ t[to[i]].id = s[i].id
  BY <1>1, <1>2
<1>4. ASSUME NEW k \in 1..Len(t) PROVE t[k].id = 0 \/ \E i \in 1..Len(s) : k = to[i]
  <2>1. CASE k < at
    <3>1. k \in 1..Len(s) /\ k = to[k]
      BY <1>1, <1>2, <2>1
    <3> QED
      BY <3>1
  <2>2. CASE k >= at /\ k < at+Len(x)
    <3>1. k-at+1 \in 1..Len(x) /\ (k-at+1)+at-1 = k
      BY <1>1, <1>2, <2>2
    <3> QED
      BY <1>1, <3>1
  <2>3. CASE k >= at+Len(x)
    <3>1. k-Len(x) \in 1..Len(s) /\ k = to[k-Len(x)]
      BY <1>1, <1>2, <2>3
    <3> QED
      BY <3>1
  <2> QED
    BY <1>1, <1>2, <2>1, <2>2, <2>3
<1>5. InOrder(s, t, to)
  <2>1. \A i \in 1..Len(s) : t[to[i]].level = s[i].level
    BY <1>1, <1>2
  <2>2. \A i, j \in 1..Len(s) : i < j <=> to[i] < to[j]
    BY <1>1, <1>2
  <2> QED
    BY <2>1, <2>2 DEF InOrder
<1> HIDE DEF to
<1>6. Carried(s, t, 1..Len(s), to)
  BY <1>3, <1>4 DEF Carried
<1> QED
  BY <1>5, <1>6 DEF t

\* What is inserted may take sections over; no other section does.
LEMMA InsertedTakes ==
    ASSUME NEW s, Known(s), UniqueIds(s), NEW t \in Outline, NEW to,
           Carried(s, t, 1..Len(s), to), InOrder(s, t, to),
           NEW i \in 1..Len(s), NEW k \in 1..Len(t), s[i].id = WithIds(t)[k].id
    PROVE  ParentId(WithIds(t), k) \in {ParentId(s, i)} \cup (Ids(WithIds(t)) \ Ids(s))
<1> DEFINE u == WithIds(t)
           q == ParentOf(u, k)
<1>1. s \in Outline /\ Len(s) \in Nat /\ Len(t) \in Nat
  BY Elements DEF Known
<1>2. k = to[i] /\ \A m \in 1..Len(s), l \in 1..Len(t) : s[m].id = u[l].id => l = to[m]
  BY CarriedIds
<1>3. u \in Outline /\ Len(u) = Len(t) /\ \A l \in 1..Len(t) : u[l].id # 0 /\ (t[l].id # 0 => u[l].id = t[l].id)
  BY Numbered
<1>4. /\ \A m \in 1..Len(s) : to[m] \in 1..Len(t) /\ t[to[m]].id = s[m].id /\ s[m].id # 0
      /\ \A m \in 1..Len(s) : t[to[m]].level = s[m].level
      /\ \A m, n \in 1..Len(s) : m < n <=> to[m] < to[n]
  BY DEF Carried, InOrder, Known
<1>5. Under(t, q, k)
  <2>1. Under(u, q, k)
    BY <1>3, UnderParent
  <2> QED
    BY <2>1, UnderNumbered
<1> HIDE DEF u, q
<1>6. q \in 0..k-1 /\ (q # 0 => t[q].level < t[k].level) /\ \A l \in q+1..k-1 : t[l].level >= t[k].level
  BY <1>5 DEF Under
<1>7. CASE q = 0
  <2>1. ASSUME NEW j \in 1..i-1 PROVE s[j].level >= s[i].level
    <3>1. j \in 1..Len(s) /\ j < i
      BY <1>1
    <3>2. to[j] \in q+1..k-1
      BY <1>1, <1>2, <1>4, <1>7, <3>1
    <3> QED
      BY <1>2, <1>4, <1>6, <3>1, <3>2
  <2>2. Under(s, 0, i)
    BY <1>1, <2>1 DEF Under
  <2>3. ParentOf(s, i) = 0
    BY <1>1, <2>2, UnderParent
  <2> QED
    BY <1>7, <2>3 DEF ParentId, q, u
<1>8. ASSUME NEW j \in 1..Len(s), q = to[j] PROVE ParentId(u, k) = ParentId(s, i)
  <2>1. j < i /\ s[j].level < s[i].level /\ q # 0
    BY <1>1, <1>2, <1>4, <1>6, <1>8
  <2>2. ASSUME NEW m \in j+1..i-1 PROVE s[m].level >= s[i].level
    <3>1. m \in 1..Len(s) /\ j < m /\ m < i
      BY <1>1, <2>1
    <3>2. to[m] \in q+1..k-1
      BY <1>1, <1>2, <1>4, <1>8, <3>1
    <3> QED
      BY <1>2, <1>4, <1>6, <3>1, <3>2
  <2>3. Under(s, j, i)
    BY <1>1, <2>1, <2>2 DEF Under
  <2>4. ParentOf(s, i) = j
    BY <1>1, <2>3, UnderParent
  <2>5. u[q].id = s[j].id
    BY <1>3, <1>4, <1>8
  <2> QED
    BY <2>1, <2>4, <2>5 DEF ParentId, q
<1>9. ASSUME q # 0, \A j \in 1..Len(s) : q # to[j] PROVE ParentId(u, k) \in Ids(u) \ Ids(s)
  <2>1. q \in 1..Len(t)
    BY <1>1, <1>6, <1>9
  <2>2. ParentId(u, k) = u[q].id
    BY <1>9 DEF ParentId, q
  <2>3. u[q].id \in Ids(u)
    BY <1>3, <2>1 DEF Ids
  <2>4. u[q].id \notin Ids(s)
    BY <1>2, <1>9, <2>1 DEF Ids
  <2> QED
    BY <2>2, <2>3, <2>4
<1> QED
  BY <1>7, <1>8, <1>9 DEF u

\* A new identifier makes a section.
LEMMA Renamed ==
    ASSUME NEW s \in Outline, NEW i \in 1..Len(s), NEW id \in Nat
    PROVE  [s EXCEPT ![i].id = id] \in Outline /\ Len([s EXCEPT ![i].id = id]) = Len(s)
<1>1. [s[i] EXCEPT !.id = id] \in Section
  BY Elements DEF Section
<1> QED
  BY <1>1, ExceptSeq DEF Outline

\* A typed heading is a section.
LEMMA HeadingsAreSections == Heading \subseteq Section
<1>1. {0} \cup TypedId \subseteq Nat
  BY OutlineAssumption
<1> QED
  BY <1>1 DEF Heading, Section

\* The fields of a section.
LEMMA FieldKeeps ==
    ASSUME Known(sections), NEW i \in 1..Len(sections), UpdateSection(i)
    PROVE  Known(sections') /\ OutlineIsKept
<1>0. sections \in Outline /\ Len(sections) \in Nat /\ ValidTree(sections)
  BY Elements DEF Known, UpdateSection, Editable
<1>1. PICK id \in {sections[i].id} \cup TypedId, n \in 0..MaxTyped : \E typed \in [1..n -> Heading] :
         /\ Commit(Insert([sections EXCEPT ![i].id = id], i + 1, typed))
         /\ outlineEdit' = [kind |-> IF id # sections[i].id \/ \E k \in 1..n : typed[k].id # 0
                                        THEN "identity" ELSE IF n # 0 THEN "headings" ELSE "field",
                            id |-> 0]
  BY DEF UpdateSection
<1>2. PICK typed \in [1..n -> Heading] :
         /\ Commit(Insert([sections EXCEPT ![i].id = id], i + 1, typed))
         /\ outlineEdit' = [kind |-> IF id # sections[i].id \/ \E k \in 1..n : typed[k].id # 0
                                        THEN "identity" ELSE IF n # 0 THEN "headings" ELSE "field",
                            id |-> 0]
  BY <1>1
<1> DEFINE renamed == [sections EXCEPT ![i].id = id]
           t == Insert(renamed, i + 1, typed)
<1>3. n \in Nat /\ id \in Nat
  <2>1. sections[i].id \in Nat
    BY <1>0, Elements
  <2>2. TypedId \subseteq Nat /\ MaxTyped \in Nat
    BY OutlineAssumption
  <2>3. id \in Nat
    BY <2>1, <2>2, Zenon
  <2>4. n \in Nat
    BY <2>2
  <2> QED
    BY <2>3, <2>4
<1>4. typed \in Outline /\ Len(typed) = n
  <2>1. Heading \subseteq Section
    BY HeadingsAreSections
  <2>2. typed \in [1..n -> Section]
    BY <2>1
  <2> QED
    BY <1>3, <2>2 DEF Outline
<1>5. renamed \in Outline /\ Len(renamed) = Len(sections) /\ i + 1 \in 1..Len(renamed)+1
  <2>1. renamed \in Outline /\ Len(renamed) = Len(sections)
    BY <1>0, <1>3, Renamed
  <2> HIDE DEF renamed
  <2> QED
    BY <1>0, <2>1
<1> HIDE DEF renamed
<1>6. t \in Outline
  BY <1>4, <1>5, InsertedOutline
<1>7. Commit(t)
  BY <1>2 DEF renamed
<1> HIDE DEF t
<1>8. sections' = WithIds(t) /\ Known(sections')
  BY <1>6, <1>7, CommitKnown
<1>9. CASE id # sections[i].id \/ \E k \in 1..n : typed[k].id # 0
  <2>1. outlineEdit'.kind = "identity"
    BY <1>2, <1>9
  <2> QED
    BY <1>8, <2>1 DEF OutlineIsKept, TreeIsKept, HeadingsOnlyTake, IdsAreKept, Structural
<1>10. CASE ~(id # sections[i].id \/ \E k \in 1..n : typed[k].id # 0)
  <2>1. renamed = sections
    <3>1. sections[i] = [sections[i] EXCEPT !.id = sections[i].id]
      BY <1>0, Elements DEF Section
    <3>2. sections = [k \in DOMAIN sections |-> sections[k]]
      BY <1>0 DEF Outline
    <3> QED
      BY <1>10, <3>1, <3>2 DEF renamed
  <2>2. PICK to : Carried(sections, t, 1..Len(sections), to) /\ InOrder(sections, t, to)
    BY <1>0, <1>4, <1>5, <1>10, <2>1, InsertedCarries DEF t
  <2>3. UniqueIds(sections) => UniqueIds(sections') /\ Ids(sections) \subseteq Ids(sections')
    BY <1>6, <1>8, <2>2, CarriedIds
  <2>4. IdsAreKept
    BY <2>3 DEF IdsAreKept
  <2>5. CASE n # 0
    <3>1. outlineEdit'.kind = "headings"
      BY <1>2, <1>10, <2>5
    <3>2. ASSUME UniqueIds(sections) PROVE NewParentsOnly
      <4>1. Len(WithIds(t)) = Len(t)
        BY <1>6, Numbered
      <4>2. \A j \in 1..Len(sections), k \in 1..Len(t) :
               sections[j].id = WithIds(t)[k].id =>
                  ParentId(WithIds(t), k) \in {ParentId(sections, j)} \cup (Ids(WithIds(t)) \ Ids(sections))
        BY <1>6, <2>2, <3>2, InsertedTakes
      <4> QED
        BY <1>8, <4>1, <4>2 DEF NewParentsOnly
    <3> QED
      BY <1>8, <2>4, <3>1, <3>2 DEF OutlineIsKept, TreeIsKept, HeadingsOnlyTake, Structural
  <2>6. CASE n = 0
    <3>1. t = sections
      <4>1. t = Insert(sections, i + 1, typed) /\ Len(typed) = 0 /\ i + 1 \in 1..Len(sections)+1
        BY <1>4, <1>5, <2>1, <2>6 DEF t
      <4>2. Insert(sections, i + 1, typed) = sections
        BY <1>0, <1>4, <4>1, NothingInserted
      <4> QED
        BY <4>1, <4>2
    <3>2. sections' = sections
      BY <1>0, <1>8, <3>1, NumberedOnce DEF Known
    <3>3. UniqueIds(sections) => ParentsKept
      BY <3>2 DEF ParentsKept, UniqueIds
    <3>4. outlineEdit'.kind = "field"
      BY <1>2, <1>10, <2>6
    <3> QED
      BY <1>0, <1>8, <2>4, <3>2, <3>3, <3>4 DEF OutlineIsKept, TreeIsKept, HeadingsOnlyTake
  <2> QED
    BY <2>5, <2>6
<1> QED
  BY <1>9, <1>10

\* What is typed as text is an outline with identifiers, though not always a tree.
LEMMA TextsAreOutlines ==
    ASSUME NEW s \in Outline, NEW t \in TextEdits(s)
    PROVE  t \in Outline
<1>0. Len(s) \in Nat
  BY Elements
<1>1. ASSUME NEW i \in 1..Len(s), NEW level \in 2..Deepest PROVE [s EXCEPT ![i].level = level] \in Outline
  <2>1. [s[i] EXCEPT !.level = level] \in Section
    BY Elements DEF Section
  <2> QED
    BY <2>1, ExceptSeq DEF Outline
<1>2. ASSUME NEW i \in 1..Len(s), NEW id \in {0} \cup TypedId PROVE [s EXCEPT ![i].id = id] \in Outline
  <2>1. id \in Nat
    BY OutlineAssumption
  <2> QED
    BY <2>1, Renamed
<1>3. ASSUME NEW i \in 1..Len(s)+1, NEW heading \in Heading PROVE Insert(s, i, <<heading>>) \in Outline
  <2>1. heading \in Section
    BY HeadingsAreSections
  <2>2. <<heading>> \in Outline
    BY <2>1 DEF Outline
  <2> QED
    BY <2>2, InsertedOutline
<1>4. ASSUME NEW i \in 1..Len(s) PROVE SubSeq(s, 1, i - 1) \o SubSeq(s, i + 1, Len(s)) \in Outline
  <2>1. SubSeq(s, 1, i - 1) \in Seq(Section) /\ SubSeq(s, i + 1, Len(s)) \in Seq(Section)
    BY <1>0, SubSeqProperties DEF Outline
  <2> QED
    BY <2>1, ConcatProperties DEF Outline
<1>5. <<>> \in Outline
  BY DEF Outline
<1> DEFINE Relevel(i, level) == [s EXCEPT ![i].level = level]
           Rename(i, id) == [s EXCEPT ![i].id = id]
           Typed(i, heading) == Insert(s, i, <<heading>>)
           Deleted(i) == SubSeq(s, 1, i - 1) \o SubSeq(s, i + 1, Len(s))
           releveled == {Relevel(i, level) : i \in 1..Len(s), level \in 2..Deepest}
           renamed == {Rename(i, id) : i \in 1..Len(s), id \in {0} \cup TypedId}
           added == {Typed(i, heading) : i \in {j \in 1..Len(s) + 1 : Len(s) < MaxSections}, heading \in Heading}
           deleted == {Deleted(i) : i \in 1..Len(s)}
<1>6. TextEdits(s) = releveled \cup renamed \cup added \cup deleted \cup {<<>>}
  BY DEF TextEdits
<1>7. \A i \in 1..Len(s), level \in 2..Deepest : Relevel(i, level) \in Outline
  BY <1>1
<1>8. \A i \in 1..Len(s), id \in {0} \cup TypedId : Rename(i, id) \in Outline
  BY <1>2
<1>9. \A i \in 1..Len(s)+1, heading \in Heading : Typed(i, heading) \in Outline
  BY <1>3
<1>10. \A i \in 1..Len(s) : Deleted(i) \in Outline
  BY <1>4
<1> HIDE DEF Relevel, Rename, Typed, Deleted
<1>11. releveled \subseteq Outline /\ renamed \subseteq Outline /\ added \subseteq Outline /\ deleted \subseteq Outline
  BY <1>7, <1>8, <1>9, <1>10
<1> HIDE DEF releveled, renamed, added, deleted
<1> QED
  BY <1>5, <1>6, <1>11

\* Every step keeps the outline known and the tree whole.
LEMMA OutlineStep ==
    ASSUME Known(sections), [OutlineNext]_outlineEditorVars
    PROVE  Known(sections') /\ [OutlineIsKept]_outlineEditorVars
<1>1. ASSUME NEW parent \in 0..Len(sections), AddSection(parent) PROVE Known(sections') /\ OutlineIsKept
  BY <1>1, AddKeeps
<1>2. ASSUME AddStarterSections PROVE Known(sections') /\ OutlineIsKept
  BY <1>2, StarterKeeps
<1>3. ASSUME NEW i \in 1..Len(sections), MoveDown(i) PROVE Known(sections') /\ OutlineIsKept
  <2>1. PICK j \in Siblings(sections, i) :
           NextSibling(sections, i, j) /\ Commit(SwapSubtrees(sections, i, j))
    BY <1>3 DEF MoveDown
  <2>2. j \in 1..Len(sections) /\ ValidTree(sections) /\ outlineEdit'.kind = "move"
    BY <1>3 DEF MoveDown, Siblings, Editable
  <2> QED
    BY <2>1, <2>2, SwapKeeps
<1>4. ASSUME NEW i \in 1..Len(sections), MoveUp(i) PROVE Known(sections') /\ OutlineIsKept
  <2>1. PICK j \in Siblings(sections, i) :
           NextSibling(sections, j, i) /\ Commit(SwapSubtrees(sections, j, i))
    BY <1>4 DEF MoveUp
  <2>2. j \in 1..Len(sections) /\ ValidTree(sections) /\ outlineEdit'.kind = "move"
    BY <1>4 DEF MoveUp, Siblings, Editable
  <2> QED
    BY <2>1, <2>2, SwapKeeps
<1>5. ASSUME NEW i \in 1..Len(sections), RemoveSubtree(i) PROVE Known(sections') /\ OutlineIsKept
  BY <1>5, RemoveKeeps
<1>6. ASSUME NEW i \in 1..Len(sections), NEW level \in 2..Deepest, ChangeLevel(i, level)
      PROVE  Known(sections') /\ OutlineIsKept
  BY <1>6, LevelKeeps
<1>7. ASSUME CodeEdit PROVE Known(sections') /\ OutlineIsKept
  <2>1. PICK s \in TextEdits(sections) : sections' = ParseOutline(s)
    BY <1>7 DEF CodeEdit
  <2>2. s \in Outline
    BY TextsAreOutlines DEF Known
  <2>3. Known(sections')
    BY <2>1, <2>2, Numbered DEF ParseOutline, Known
  <2>4. outlineEdit'.kind = "code"
    BY <1>7 DEF CodeEdit
  <2> QED
    BY <2>3, <2>4 DEF OutlineIsKept, TreeIsKept, HeadingsOnlyTake, IdsAreKept, Structural
<1>8. ASSUME NEW i \in 1..Len(sections), UpdateSection(i) PROVE Known(sections') /\ OutlineIsKept
  BY <1>8, FieldKeeps
<1>9. CASE UNCHANGED outlineEditorVars
  BY <1>9 DEF outlineEditorVars, Known
<1> QED
  BY <1>1, <1>2, <1>3, <1>4, <1>5, <1>6, <1>7, <1>8, <1>9 DEF OutlineNext

\* Between two operations every section of an outline has a level of the text and
\* an identifier, whatever was typed, in the text or in the fields of a section.
THEOREM OutlineIsKnown == OutlineSpec => []Known(sections)
<1>1. OutlineInit => Known(sections)
  BY DEF OutlineInit, Known, Outline
<1>2. Known(sections) /\ [OutlineNext]_outlineEditorVars => Known(sections)'
  BY OutlineStep
<1> QED
  BY <1>1, <1>2, PTL DEF OutlineSpec

\* The module editor's operations leave a tree and hand no section another parent
\* than it had, in outlines of any length and depth; of headings typed into a field,
\* which may be any, it says that nothing but they takes sections over
\* (OutlineBuilder.tsx).
THEOREM SubtreesStayTogether == OutlineSpec => ModuleEditsKeepTheTree
<1>1. Known(sections) /\ [OutlineNext]_outlineEditorVars => [TreeIsKept /\ HeadingsOnlyTake]_outlineEditorVars
  BY OutlineStep DEF OutlineIsKept
<1>2. OutlineSpec => [][TreeIsKept /\ HeadingsOnlyTake]_outlineEditorVars
  BY <1>1, OutlineIsKnown, PTL DEF OutlineSpec
<1>3. [TreeIsKept /\ HeadingsOnlyTake]_outlineEditorVars
         => [UniqueIds(sections) =>
                /\ outlineEdit'.kind \in Structural => ValidTree(sections') /\ ParentsKept
                /\ outlineEdit'.kind = "headings" => NewParentsOnly]_outlineEditorVars
  BY DEF TreeIsKept, HeadingsOnlyTake
<1> QED
  BY <1>2, <1>3, PTL DEF ModuleEditsKeepTheTree

\* Unless an identifier is typed, the module editor's operations leave sections their
\* identifiers and give new ones identifiers of their own, the headings typed into
\* a field included, however many they are (OutlineBuilder.tsx).
THEOREM SectionsKeepTheirIds == OutlineSpec => IdsSurviveEditing
<1>1. Known(sections) /\ [OutlineNext]_outlineEditorVars => [IdsAreKept]_outlineEditorVars
  BY OutlineStep DEF OutlineIsKept
<1>2. OutlineSpec => [][IdsAreKept]_outlineEditorVars
  BY <1>1, OutlineIsKnown, PTL DEF OutlineSpec
<1> QED
  BY <1>2 DEF IdsAreKept, IdsSurviveEditing
=============================================================================
