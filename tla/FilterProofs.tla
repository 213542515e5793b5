---------------------------- MODULE FilterProofs ----------------------------
(***************************************************************************)
(* Theorems about Filter, for every query string.  What a fold makes of a  *)
(* list of any length is proved by induction, with a set for the property: *)
(* LeastNumber and ByInduction.                                            *)
(***************************************************************************)
EXTENDS Filter, SequenceTheorems, WellFoundedInduction, TLAPS

\* A set of numbers that is not empty has a least element.
LEMMA LeastNumber ==
    ASSUME NEW T, T \subseteq Nat, T # {}
    PROVE  \E m \in T : \A k \in T : ~(k < m)
<1>1. PICK m \in T : \A k \in T : ~(<<k, m>> \in OpToRel(<, Nat))
  BY NatLessThanWellFounded, WFMin, Zenon
<1>2. \A i, j \in Nat : i < j => <<i, j>> \in OpToRel(<, Nat)
  BY Zenon DEF OpToRel
<1>3. QED
  BY <1>1, <1>2, Zenon

\* A set of numbers with 0 and, up to n, the successor of each, has them all.
LEMMA ByInduction ==
    ASSUME NEW n \in Nat, NEW S, 0 \in S, \A k \in 0 .. n - 1 : k \in S => k + 1 \in S
    PROVE  \A k \in 0 .. n : k \in S
<1> DEFINE T == {k \in 0 .. n : k \notin S}
<1> SUFFICES ASSUME T # {} PROVE FALSE
  OBVIOUS
<1>1. PICK m \in T : \A k \in T : ~(k < m)
  BY LeastNumber, T \subseteq Nat
<1>2. m \in 1 .. n /\ m \notin S /\ m - 1 \in 0 .. n - 1 /\ m - 1 < m /\ (m - 1) + 1 = m
  OBVIOUS
<1>3. QED
  BY <1>1, <1>2

-----------------------------------------------------------------------------
(***************************************************************************)
(* AssignAll is the fold that it says it is.                               *)
(***************************************************************************)
Assigns(f, object, leaves, n) ==
    f = [k \in 0 .. n |-> IF k = 0 THEN object ELSE Assign(f[k - 1], leaves[k])]

LEMMA AssignsExists ==
    ASSUME NEW object, NEW leaves, NEW n \in Nat
    PROVE  \E f : Assigns(f, object, leaves, n)
<1> DEFINE S == {k \in Nat : \E f : Assigns(f, object, leaves, k)}
<1>1. 0 \in S
  <2> DEFINE f == [k \in 0 .. 0 |-> object]
  <2>1. Assigns(f, object, leaves, 0)
    BY DEF Assigns
  <2>2. QED
    BY <2>1
<1>2. ASSUME NEW k \in 0 .. n - 1, k \in S PROVE k + 1 \in S
  <2>1. PICK f : Assigns(f, object, leaves, k)
    BY <1>2
  <2> DEFINE g == [i \in 0 .. k + 1 |->
                     IF i = k + 1 THEN Assign(f[k], leaves[k + 1]) ELSE f[i]]
  <2>2. ASSUME NEW i \in 0 .. k + 1
        PROVE  g[i] = IF i = 0 THEN object ELSE Assign(g[i - 1], leaves[i])
    <3>1. CASE i = k + 1
      <4>1. g[i] = Assign(f[k], leaves[k + 1]) /\ g[i - 1] = f[k] /\ i # 0
        BY <3>1
      <4>2. QED
        BY <3>1, <4>1
    <3>2. CASE i \in 0 .. k
      <4>1. g[i] = f[i] /\ (i # 0 => g[i - 1] = f[i - 1])
        BY <3>2
      <4>2. f[i] = IF i = 0 THEN object ELSE Assign(f[i - 1], leaves[i])
        BY <2>1, <3>2 DEF Assigns
      <4>3. QED
        BY <4>1, <4>2
    <3>3. QED
      BY <3>1, <3>2
  <2>3. g = [i \in 0 .. k + 1 |-> IF i = 0 THEN object ELSE Assign(g[i - 1], leaves[i])]
    BY <2>2
  <2>4. Assigns(g, object, leaves, k + 1)
    BY <2>3 DEF Assigns
  <2>5. QED
    BY <2>4
<1>3. \A k \in 0 .. n : k \in S
  BY <1>1, <1>2, ByInduction
<1>4. QED
  BY <1>3

\* What holds of the object before the first leaf, and after a leaf if it
\* did before, holds of the result.  I[k]: the objects that have it after k.
LEMMA AssignAllBy ==
    ASSUME NEW object, NEW leaves, Len(leaves) \in Nat, NEW I, object \in I[0],
           \A k \in 1 .. Len(leaves) : \A o \in I[k - 1] : Assign(o, leaves[k]) \in I[k]
    PROVE  AssignAll(object, leaves) \in I[Len(leaves)]
<1> DEFINE n == Len(leaves)
<1> DEFINE f == CHOOSE f : Assigns(f, object, leaves, n)
<1>1. Assigns(f, object, leaves, n)
  BY AssignsExists
<1>2. AssignAll(object, leaves) = f[n]
  BY DEF AssignAll, Assigns
<1> HIDE DEF f
<1> DEFINE S == {k \in 0 .. n : f[k] \in I[k]}
<1>3. 0 \in S
  BY <1>1 DEF Assigns
<1>4. ASSUME NEW k \in 0 .. n - 1, k \in S PROVE k + 1 \in S
  <2>1. f[k + 1] = Assign(f[k], leaves[k + 1])
    BY <1>1 DEF Assigns
  <2>2. k + 1 \in 1 .. n /\ (k + 1) - 1 = k /\ f[k] \in I[k]
    BY <1>4
  <2>3. QED
    BY <2>1, <2>2
<1>5. \A k \in 0 .. n : k \in S
  BY <1>3, <1>4, ByInduction
<1>6. QED
  BY <1>2, <1>5
-----------------------------------------------------------------------------
(***************************************************************************)
(* Assign, which replaces the leaf of its key or appends.                  *)
(***************************************************************************)
In(leaf, o) == \E i \in DOMAIN o : o[i] = leaf

Assigned(S, o, leaf, object) ==
    /\ object \in Seq(S) /\ Len(object) >= Len(o) /\ Len(object) > 0
    /\ In(leaf, object)
    /\ \A i \in DOMAIN object :
          \/ object[i] = leaf
          \/ i \in DOMAIN o /\ object[i] = o[i] /\ Head(o[i].path) # Head(leaf.path)
    /\ \A i \in DOMAIN o :
          IF Head(o[i].path) = Head(leaf.path) THEN object[i] = leaf ELSE object[i] = o[i]

LEMMA AssignFacts ==
    ASSUME NEW S, NEW o \in Seq(S), NEW leaf \in S
    PROVE  Assigned(S, o, leaf, Assign(o, leaf))
<1> DEFINE same == {i \in DOMAIN o : Head(o[i].path) = Head(leaf.path)}
<1>0. PICK object : object = Assign(o, leaf)
  OBVIOUS
<1>1. /\ Len(o) \in Nat /\ DOMAIN o = 1 .. Len(o) /\ o \in [1 .. Len(o) -> S]
  BY LenProperties
<1>2. CASE same = {}
  <2>1. object = Append(o, leaf)
    BY <1>0, <1>2 DEF Assign
  <2>2. /\ object \in Seq(S) /\ Len(object) = Len(o) + 1 /\ object[Len(o) + 1] = leaf
        /\ \A i \in 1 .. Len(o) : object[i] = o[i]
        /\ DOMAIN object = 1 .. Len(o) + 1
    BY <1>1, <2>1
  <2>3. \A i \in DOMAIN o : Head(o[i].path) # Head(leaf.path)
    BY <1>2
  <2>4. \A i \in DOMAIN object : i = Len(o) + 1 \/ i \in DOMAIN o
    BY <1>1, <2>2
  <2>5. Len(o) + 1 \in DOMAIN object /\ Len(object) >= Len(o) /\ Len(object) > 0
    BY <1>1, <2>2
  <2>6. QED
    BY <1>0, <1>1, <2>2, <2>3, <2>4, <2>5 DEF Assigned, In
<1>3. CASE same # {}
  <2>1. object = [i \in DOMAIN o |-> IF i \in same THEN leaf ELSE o[i]]
    BY <1>0, <1>3 DEF Assign
  <2>2. object \in [1 .. Len(o) -> S]
    BY <1>1, <2>1
  <2>3. object \in Seq(S) /\ Len(object) = Len(o) /\ DOMAIN object = DOMAIN o
    BY <1>1, <2>2, SeqDef, LenProperties
  <2>4. \A i \in DOMAIN o :
            IF Head(o[i].path) = Head(leaf.path) THEN object[i] = leaf ELSE object[i] = o[i]
    BY <2>1
  <2>5. PICK i \in DOMAIN o : Head(o[i].path) = Head(leaf.path)
    BY <1>3
  <2>6. Len(object) >= Len(o) /\ Len(object) > 0
    BY <1>1, <2>3, <2>5
  <2>7. QED
    BY <1>0, <2>3, <2>4, <2>5, <2>6 DEF Assigned, In
<1>4. QED
  BY <1>2, <1>3

\* A key keeps being there once.
LEMMA AssignDistinct ==
    ASSUME NEW S, NEW o \in Seq(S), NEW leaf \in S, DistinctHeads(o)
    PROVE  DistinctHeads(Assign(o, leaf))
<1> DEFINE object == Assign(o, leaf)
<1>1. /\ object \in Seq(S)
      /\ \A i \in DOMAIN object :
            \/ object[i] = leaf
            \/ i \in DOMAIN o /\ object[i] = o[i] /\ Head(o[i].path) # Head(leaf.path)
  BY AssignFacts DEF Assigned
<1>2. \A i, j \in DOMAIN object : object[i] = leaf /\ object[j] = leaf => i = j
  <2> SUFFICES ASSUME NEW i \in DOMAIN object, NEW j \in DOMAIN object,
                      object[i] = leaf, object[j] = leaf, i < j
               PROVE  FALSE
    BY <1>1, LenProperties
  <2> DEFINE same == {k \in DOMAIN o : Head(o[k].path) = Head(leaf.path)}
  <2>1. o \in [1 .. Len(o) -> S] /\ Len(o) \in Nat /\ DOMAIN o = 1 .. Len(o)
    BY LenProperties
  <2>2. CASE same = {}
    <3>1. object = Append(o, leaf)
      BY <2>2 DEF Assign
    <3>2. i \in DOMAIN o /\ object[i] = o[i]
      BY <2>1, <3>1
    <3>3. QED
      BY <2>2, <3>2
  <2>3. CASE same # {}
    <3>1. object = [k \in DOMAIN o |-> IF k \in same THEN leaf ELSE o[k]]
      BY <2>3 DEF Assign
    <3>2. i \in same /\ j \in same
      BY <3>1
    <3>3. QED
      BY <3>2 DEF DistinctHeads
  <2>4. QED
    BY <2>2, <2>3
<1> HIDE DEF object
<1>3. QED
  BY <1>1, <1>2 DEF DistinctHeads, object
-----------------------------------------------------------------------------
(***************************************************************************)
(* What AssignAll makes of an object: o, after k of the leaves.            *)
(***************************************************************************)
\* No leaf is invented, ...
FromThese(object, leaves, k, o) ==
    \A i \in DOMAIN o : In(o[i], object) \/ \E j \in 1 .. k : o[i] = leaves[j]

\* ... the first key stays the first, ...
SameFirst(object, leaves, k, o) ==
    /\ Len(object) > 0 => Len(o) > 0 /\ Head(o[1].path) = Head(object[1].path)
    /\ Len(object) = 0 /\ k > 0 => Len(o) > 0 /\ Head(o[1].path) = Head(leaves[1].path)

\* ... and a leaf is lost only to a later one of the same key.
Kept(object, leaves, k, o) ==
    /\ \A i \in DOMAIN object :
          (\A j \in 1 .. k : Head(leaves[j].path) # Head(object[i].path)) => In(object[i], o)
    /\ \A i \in 1 .. k :
          (\A j \in i + 1 .. k : Head(leaves[j].path) # Head(leaves[i].path)) => In(leaves[i], o)

\* ... and a key is never lost.
HeadsKept(object, leaves, k, o) ==
    /\ \A i \in DOMAIN object : \E m \in DOMAIN o : Head(o[m].path) = Head(object[i].path)
    /\ \A i \in 1 .. k : \E m \in DOMAIN o : Head(o[m].path) = Head(leaves[i].path)

Folded(S, object, leaves, k, o) ==
    /\ o \in Seq(S)
    /\ DistinctHeads(object) => DistinctHeads(o)
    /\ FromThese(object, leaves, k, o)
    /\ SameFirst(object, leaves, k, o)
    /\ Kept(object, leaves, k, o)
    /\ HeadsKept(object, leaves, k, o)

LEMMA FoldedStep ==
    ASSUME NEW S, NEW object \in Seq(S), NEW leaves \in Seq(S), NEW k \in 1 .. Len(leaves),
           NEW o, Folded(S, object, leaves, k - 1, o)
    PROVE  Folded(S, object, leaves, k, Assign(o, leaves[k]))
<1> DEFINE leaf == leaves[k]
<1>0. PICK r : r = Assign(o, leaf)
  OBVIOUS
<1>1. /\ o \in Seq(S) /\ leaf \in S /\ Len(leaves) \in Nat /\ Len(o) \in Nat
      /\ DOMAIN o = 1 .. Len(o)
  BY ElementOfSeq, LenProperties DEF Folded
<1>2. /\ r \in Seq(S) /\ Len(r) >= Len(o) /\ Len(r) > 0 /\ In(leaf, r)
      /\ \A i \in DOMAIN r :
            \/ r[i] = leaf
            \/ i \in DOMAIN o /\ r[i] = o[i] /\ Head(o[i].path) # Head(leaf.path)
      /\ \A i \in DOMAIN o :
            IF Head(o[i].path) = Head(leaf.path) THEN r[i] = leaf ELSE r[i] = o[i]
  <2>1. Assigned(S, o, leaf, Assign(o, leaf))
    BY <1>1, AssignFacts
  <2>2. QED
    BY <1>0, <2>1 DEF Assigned
<1>3. DistinctHeads(object) => DistinctHeads(r)
  BY <1>0, <1>1, AssignDistinct DEF Folded
<1>4. /\ Len(r) \in Nat /\ DOMAIN r = 1 .. Len(r) /\ DOMAIN o \subseteq DOMAIN r
      /\ k - 1 \in Nat /\ k \in 1 .. k
  BY <1>1, <1>2, LenProperties
<1>5. FromThese(object, leaves, k, r)
  <2> SUFFICES ASSUME NEW i \in DOMAIN r
               PROVE  In(r[i], object) \/ \E j \in 1 .. k : r[i] = leaves[j]
    BY DEF FromThese
  <2>1. CASE r[i] = leaf
    BY <1>4, <2>1
  <2>2. CASE i \in DOMAIN o /\ r[i] = o[i]
    BY <2>2 DEF Folded, FromThese
  <2>3. QED
    BY <1>2, <2>1, <2>2
<1>6. SameFirst(object, leaves, k, r)
  <2>1. Len(o) > 0 => Head(r[1].path) = Head(o[1].path)
    <3>1. Len(o) > 0 => 1 \in DOMAIN o
      BY <1>1
    <3>2. QED
      BY <1>2, <3>1
  <2>2. ASSUME Len(object) = 0
        PROVE  Head(r[1].path) = Head(leaves[1].path)
    <3>1. CASE k = 1
      <4>1. Len(o) = 0
        <5>1. ASSUME NEW i \in DOMAIN o PROVE FALSE
          BY <2>2, <3>1, LenProperties DEF Folded, FromThese, In
        <5>2. 1 \notin 1 .. Len(o)
          BY <1>1, <5>1
        <5>3. QED
          BY <1>1, <5>2
      <4>2. 1 \in DOMAIN r /\ 1 \notin DOMAIN o
        BY <1>1, <1>2, <1>4, <4>1
      <4>3. QED
        BY <1>2, <3>1, <4>2
    <3>2. CASE k > 1
      BY <2>1, <2>2, <3>2 DEF Folded, SameFirst
    <3>3. QED
      BY <3>1, <3>2
  <2>3. QED
    BY <1>2, <2>1, <2>2 DEF Folded, SameFirst
<1>7. \A l : In(l, o) /\ Head(l.path) # Head(leaf.path) => In(l, r)
  BY <1>2, <1>4 DEF In
<1>8. Kept(object, leaves, k, r)
  <2>1. ASSUME NEW i \in DOMAIN object,
               \A j \in 1 .. k : Head(leaves[j].path) # Head(object[i].path)
        PROVE  In(object[i], r)
    <3>1. \A j \in 1 .. k - 1 : j \in 1 .. k
      OBVIOUS
    <3>2. In(object[i], o)
      BY <2>1, <3>1 DEF Folded, Kept
    <3>3. QED
      BY <1>4, <1>7, <2>1, <3>2
  <2>2. ASSUME NEW i \in 1 .. k,
               \A j \in i + 1 .. k : Head(leaves[j].path) # Head(leaves[i].path)
        PROVE  In(leaves[i], r)
    <3>1. CASE i = k
      BY <1>2, <3>1
    <3>2. CASE i # k
      <4>1. i \in 1 .. k - 1 /\ k \in i + 1 .. k /\ \A j \in i + 1 .. k - 1 : j \in i + 1 .. k
        BY <3>2
      <4>2. In(leaves[i], o)
        BY <2>2, <4>1 DEF Folded, Kept
      <4>3. QED
        BY <1>7, <2>2, <4>1, <4>2
    <3>3. QED
      BY <3>1, <3>2
  <2>3. QED
    BY <2>1, <2>2 DEF Kept
<1>9. HeadsKept(object, leaves, k, r)
  <2>1. \A i \in DOMAIN o : i \in DOMAIN r /\ Head(r[i].path) = Head(o[i].path)
    BY <1>2, <1>4
  <2>2. /\ \A i \in DOMAIN object : \E m \in DOMAIN o : Head(o[m].path) = Head(object[i].path)
        /\ \A i \in 1 .. k - 1 : \E m \in DOMAIN o : Head(o[m].path) = Head(leaves[i].path)
    BY DEF Folded, HeadsKept
  <2>3. \E m \in DOMAIN r : Head(r[m].path) = Head(leaves[k].path)
    BY <1>2 DEF In
  <2>4. \A i \in 1 .. k : i = k \/ i \in 1 .. k - 1
    OBVIOUS
  <2>5. QED
    BY <2>1, <2>2, <2>3, <2>4 DEF HeadsKept
<1>10. QED
  BY <1>2, <1>3, <1>5, <1>6, <1>8, <1>9, <1>0 DEF Folded

LEMMA AssignAllFolds ==
    ASSUME NEW S, NEW object \in Seq(S), NEW leaves \in Seq(S)
    PROVE  Folded(S, object, leaves, Len(leaves), AssignAll(object, leaves))
<1> DEFINE n == Len(leaves)
<1> DEFINE I == [k \in 0 .. n |-> {o \in Seq(S) : Folded(S, object, leaves, k, o)}]
<1>1. n \in Nat
  BY LenProperties
<1>2. Folded(S, object, leaves, 0, object)
  BY LenProperties DEF Folded, FromThese, SameFirst, Kept, HeadsKept, In
<1>3. object \in I[0]
  BY <1>1, <1>2
<1>4. ASSUME NEW k \in 1 .. n, NEW o \in I[k - 1]
      PROVE  Assign(o, leaves[k]) \in I[k]
  <2>1. Folded(S, object, leaves, k - 1, o)
    BY <1>1, <1>4
  <2>2. Folded(S, object, leaves, k, Assign(o, leaves[k]))
    BY <2>1, FoldedStep
  <2>3. QED
    BY <1>1, <2>2 DEF Folded
<1> HIDE DEF I
<1>5. AssignAll(object, leaves) \in I[n]
  BY <1>1, <1>3, <1>4, AssignAllBy
<1>6. QED
  BY <1>1, <1>5 DEF I
-----------------------------------------------------------------------------
(***************************************************************************)
(* The objects that parseFilter makes of conditions.                       *)
(***************************************************************************)
LEMMA FunctionIsSeq ==
    ASSUME NEW T, NEW n \in Nat, NEW f \in [1 .. n -> T]
    PROVE  f \in Seq(T) /\ Len(f) = n
BY SeqDef, LenProperties

Leaves == {ParseKeyValue(c) : c \in Conditions}

Parsed(conditions) == [i \in DOMAIN conditions |-> ParseKeyValue(conditions[i])]

\* object stands for the conditions of a filter and of a branch of its "or".
Represents(object, filter, branch) ==
    /\ object \in Seq(Leaves) /\ DistinctHeads(object)
    /\ \A i \in DOMAIN object :
          \E c \in ToSet(filter) \cup ToSet(branch) : object[i] = ParseKeyValue(c)
    /\ DistinctHeads(filter \o branch) =>
          \A c \in ToSet(filter) \cup ToSet(branch) : In(ParseKeyValue(c), object)

LEMMA SamePath == \A c : ParseKeyValue(c).path = c.path
BY DEF ParseKeyValue, Leaf

LEMMA ParsedFacts ==
    ASSUME NEW s \in Seq(Conditions)
    PROVE  /\ Parsed(s) \in Seq(Leaves) /\ Len(Parsed(s)) = Len(s) /\ Len(s) \in Nat
           /\ DOMAIN s = 1 .. Len(s)
           /\ \A i \in 1 .. Len(s) : s[i] \in Conditions /\ Parsed(s)[i] = ParseKeyValue(s[i])
<1>1. /\ Len(s) \in Nat /\ DOMAIN s = 1 .. Len(s)
      /\ \A i \in 1 .. Len(s) : s[i] \in Conditions
  BY LenProperties, ElementOfSeq
<1>2. Parsed(s) \in [1 .. Len(s) -> Leaves]
  BY <1>1 DEF Parsed, Leaves
<1>3. QED
  BY <1>1, <1>2, FunctionIsSeq DEF Parsed

LEMMA EmptyObject == DistinctHeads(<<>>) /\ \A S : <<>> \in Seq(S) /\ Len(<<>>) = 0
BY DEF DistinctHeads

\* parseBaseFilter
LEMMA BaseFilterFacts ==
    ASSUME NEW s \in Seq(Conditions), NEW o, o = ParseBaseFilter(s)
    PROVE  /\ o \in Seq(Leaves) /\ DistinctHeads(o)
           /\ \A i \in DOMAIN o : \E j \in 1 .. Len(s) : o[i] = ParseKeyValue(s[j])
           /\ DistinctHeads(s) => \A j \in 1 .. Len(s) : In(ParseKeyValue(s[j]), o)
<1>1. Folded(Leaves, <<>>, Parsed(s), Len(Parsed(s)), o)
  BY ParsedFacts, EmptyObject, AssignAllFolds DEF ParseBaseFilter, Parsed
<1>2. Folded(Leaves, <<>>, Parsed(s), Len(s), o)
  BY <1>1, ParsedFacts
<1>3. o \in Seq(Leaves) /\ DistinctHeads(o)
  BY <1>2, EmptyObject DEF Folded
<1>4. \A i \in DOMAIN o : \E j \in 1 .. Len(s) : o[i] = ParseKeyValue(s[j])
  <2>1. \A i \in DOMAIN o : \E j \in 1 .. Len(s) : o[i] = Parsed(s)[j]
    BY <1>2, EmptyObject, LenProperties DEF Folded, FromThese, In
  <2>2. QED
    BY <2>1, ParsedFacts
<1>5. ASSUME DistinctHeads(s), NEW j \in 1 .. Len(s)
      PROVE  In(ParseKeyValue(s[j]), o)
  <2>1. ASSUME NEW i \in j + 1 .. Len(s)
        PROVE  Head(Parsed(s)[i].path) # Head(Parsed(s)[j].path)
    <3>1. i \in 1 .. Len(s) /\ i # j /\ i \in DOMAIN s /\ j \in DOMAIN s
      BY <2>1, ParsedFacts
    <3>2. Head(s[i].path) # Head(s[j].path)
      BY <1>5, <3>1 DEF DistinctHeads
    <3>3. Parsed(s)[i].path = s[i].path /\ Parsed(s)[j].path = s[j].path
      BY <3>1, ParsedFacts, SamePath
    <3>4. QED
      BY <3>2, <3>3
  <2>2. In(Parsed(s)[j], o)
    BY <1>2, <2>1 DEF Folded, Kept
  <2>3. QED
    BY <2>2, ParsedFacts
<1>6. QED
  BY <1>3, <1>4, <1>5

LEMMA ElementsOfConditions ==
    ASSUME NEW s \in Seq(Conditions)
    PROVE  /\ \A c \in ToSet(s) : c \in Conditions /\ \E i \in 1 .. Len(s) : s[i] = c
           /\ \A i \in 1 .. Len(s) : s[i] \in ToSet(s)
BY LenProperties, ElementOfSeq DEF ToSet

\* A branch, with the conditions beside "or" spread over it.
LEMMA BranchRepresents ==
    ASSUME NEW filter \in Seq(Conditions), NEW branch \in Seq(Conditions)
    PROVE  Represents(Spread(ParseBaseFilter(branch), ParseBaseFilter(filter)), filter, branch)
<1>0. PICK f, b, o : /\ f = ParseBaseFilter(filter) /\ b = ParseBaseFilter(branch)
                     /\ o = Spread(b, f)
  OBVIOUS
<1>1. /\ f \in Seq(Leaves) /\ DistinctHeads(f)
      /\ \A i \in DOMAIN f : \E j \in 1 .. Len(filter) : f[i] = ParseKeyValue(filter[j])
      /\ DistinctHeads(filter) => \A j \in 1 .. Len(filter) : In(ParseKeyValue(filter[j]), f)
  BY <1>0, BaseFilterFacts
<1>2. /\ b \in Seq(Leaves) /\ DistinctHeads(b)
      /\ \A i \in DOMAIN b : \E j \in 1 .. Len(branch) : b[i] = ParseKeyValue(branch[j])
      /\ DistinctHeads(branch) => \A j \in 1 .. Len(branch) : In(ParseKeyValue(branch[j]), b)
  BY <1>0, BaseFilterFacts
<1>3. Folded(Leaves, b, f, Len(f), o) /\ Len(f) \in Nat /\ DOMAIN f = 1 .. Len(f)
  BY <1>0, <1>1, <1>2, AssignAllFolds, LenProperties DEF Spread
<1>4. \A i \in DOMAIN o :
          \E c \in ToSet(filter) \cup ToSet(branch) : o[i] = ParseKeyValue(c)
  <2> SUFFICES ASSUME NEW i \in DOMAIN o
               PROVE  \E c \in ToSet(filter) \cup ToSet(branch) : o[i] = ParseKeyValue(c)
    OBVIOUS
  <2>1. CASE In(o[i], b)
    BY <1>2, <2>1, ElementsOfConditions DEF In
  <2>2. CASE \E j \in 1 .. Len(f) : o[i] = f[j]
    BY <1>1, <1>3, <2>2, ElementsOfConditions
  <2>3. QED
    BY <1>3, <2>1, <2>2 DEF Folded, FromThese
<1>5. ASSUME DistinctHeads(filter \o branch),
             NEW c \in ToSet(filter) \cup ToSet(branch)
      PROVE  In(ParseKeyValue(c), o)
  <2>1. /\ Len(filter) \in Nat /\ Len(branch) \in Nat
        /\ DOMAIN filter = 1 .. Len(filter) /\ DOMAIN branch = 1 .. Len(branch)
        /\ DOMAIN (filter \o branch) = 1 .. Len(filter) + Len(branch)
        /\ \A i \in 1 .. Len(filter) : (filter \o branch)[i] = filter[i]
        /\ \A i \in 1 .. Len(branch) : (filter \o branch)[Len(filter) + i] = branch[i]
    BY LenProperties, ConcatProperties
  <2>2. /\ \A i \in 1 .. Len(filter) : i \in 1 .. Len(filter) + Len(branch)
        /\ \A i \in 1 .. Len(branch) : Len(filter) + i \in 1 .. Len(filter) + Len(branch)
    BY <2>1
  <2>3. DistinctHeads(filter) /\ DistinctHeads(branch)
    <3>1. DistinctHeads(filter)
      BY <1>5, <2>1, <2>2 DEF DistinctHeads
    <3>2. ASSUME NEW i \in 1 .. Len(branch), NEW j \in 1 .. Len(branch),
                 Head(branch[i].path) = Head(branch[j].path)
          PROVE  i = j
      <4>1. Len(filter) + i = Len(filter) + j
        BY <1>5, <2>1, <2>2, <3>2 DEF DistinctHeads
      <4>2. QED
        BY <2>1, <4>1
    <3>3. QED
      BY <2>1, <3>1, <3>2 DEF DistinctHeads
  <2>4. ASSUME NEW i \in 1 .. Len(filter), NEW j \in 1 .. Len(branch)
        PROVE  Head(filter[i].path) # Head(branch[j].path)
    <3>1. i # Len(filter) + j
      BY <2>1
    <3>2. QED
      BY <1>5, <2>1, <2>2, <3>1 DEF DistinctHeads
  <2>5. CASE c \in ToSet(filter)
    <3>1. In(ParseKeyValue(c), f)
      BY <1>1, <2>3, <2>5, ElementsOfConditions
    <3>2. PICK i \in 1 .. Len(f) : f[i] = ParseKeyValue(c)
      BY <1>3, <3>1 DEF In
    <3>3. \A j \in i + 1 .. Len(f) : Head(f[j].path) # Head(f[i].path)
      <4>1. \A j \in i + 1 .. Len(f) : j \in DOMAIN f /\ i \in DOMAIN f /\ j # i
        BY <1>3, <3>2
      <4>2. QED
        BY <1>1, <4>1 DEF DistinctHeads
    <3>4. In(f[i], o)
      BY <1>3, <3>3 DEF Folded, Kept
    <3>5. QED
      BY <3>2, <3>4
  <2>6. CASE c \in ToSet(branch)
    <3>1. PICK j \in 1 .. Len(branch) : branch[j] = c
      BY <2>6, ElementsOfConditions
    <3>2. PICK i \in DOMAIN b : b[i] = ParseKeyValue(c)
      BY <1>2, <2>3, <3>1 DEF In
    <3>3. ASSUME NEW k \in 1 .. Len(f)
          PROVE  Head(f[k].path) # Head(b[i].path)
      <4>1. PICK m \in 1 .. Len(filter) : f[k] = ParseKeyValue(filter[m])
        BY <1>1, <1>3
      <4>2. f[k].path = filter[m].path /\ b[i].path = branch[j].path
        BY <3>1, <3>2, <4>1, SamePath
      <4>3. QED
        BY <2>4, <4>2
    <3>4. In(b[i], o)
      BY <1>3, <3>3 DEF Folded, Kept
    <3>5. QED
      BY <3>2, <3>4
  <2>7. QED
    BY <2>5, <2>6
<1>6. QED
  BY <1>0, <1>2, <1>3, <1>4, <1>5 DEF Folded, Represents

\* The conditions of a filter without "or".
LEMMA FilterRepresents ==
    ASSUME NEW filter \in Seq(Conditions)
    PROVE  Represents(ParseBaseFilter(filter), filter, <<>>)
<1>0. PICK f : f = ParseBaseFilter(filter)
  OBVIOUS
<1>1. /\ f \in Seq(Leaves) /\ DistinctHeads(f)
      /\ \A i \in DOMAIN f : \E j \in 1 .. Len(filter) : f[i] = ParseKeyValue(filter[j])
      /\ DistinctHeads(filter) => \A j \in 1 .. Len(filter) : In(ParseKeyValue(filter[j]), f)
  BY <1>0, BaseFilterFacts
<1>2. filter \o <<>> = filter
  BY ConcatEmptySeq
<1>3. ToSet(filter) \cup ToSet(<<>>) = ToSet(filter)
  BY DEF ToSet
<1>4. QED
  BY <1>0, <1>1, <1>2, <1>3, ElementsOfConditions DEF Represents
-----------------------------------------------------------------------------
(***************************************************************************)
(* The requests: query is one, and search is what is made of it.           *)
(***************************************************************************)
Selected == [path : Selects, value : {"0", "1"}]
Sorted   == [path : Sorts, value : {"asc", "DESC", None}]

Queries ==
    [filter : Seq(Conditions), or : Seq(Seq(Conditions)), select : Seq(Selected),
     sort : Seq(Sorted), limit : Numbers \cup {"x", None}, skip : Numbers \cup {"x", None}]

FilterInv == query \in Queries /\ search = ParseFilterRequestQuery(query)

LEMMA FilterInvInit == Init => FilterInv
<1> SUFFICES ASSUME Init PROVE FilterInv
  OBVIOUS
<1>1. NoQuery \in Queries
  BY EmptySeq DEF NoQuery, Queries
<1>2. QED
  BY <1>1 DEF Init, FilterInv

LEMMA FilterInvStep == FilterInv /\ [Next]_<<query, search>> => FilterInv'
<1> SUFFICES ASSUME FilterInv, [Next]_<<query, search>> PROVE FilterInv'
  OBVIOUS
<1>1. CASE UNCHANGED <<query, search>>
  BY <1>1 DEF FilterInv
<1>2. CASE Next
  <2>1. query' \in Queries
    <3>0. /\ query \in Queries /\ query.filter \in Seq(Conditions)
          /\ query.or \in Seq(Seq(Conditions)) /\ query.select \in Seq(Selected)
          /\ query.sort \in Seq(Sorted)
      BY DEF FilterInv, Queries
    <3>1. ASSUME NEW c \in Conditions, AddCondition(c) \/ AddBranch(c)
          PROVE  query' \in Queries
      <4>1. <<c>> \in Seq(Conditions)
        OBVIOUS
      <4>2. CASE AddCondition(c)
        <5>1. Append(query.filter, c) \in Seq(Conditions)
          BY <3>0
        <5>2. query' = [query EXCEPT !.filter = Append(query.filter, c)]
          BY <4>2 DEF AddCondition
        <5>3. QED
          BY <3>0, <5>1, <5>2 DEF Queries
      <4>3. CASE AddBranch(c)
        <5>1. Append(query.or, <<c>>) \in Seq(Seq(Conditions))
          BY <3>0, <4>1
        <5>2. query' = [query EXCEPT !.or = Append(query.or, <<c>>)]
          BY <4>3 DEF AddBranch
        <5>3. QED
          BY <3>0, <5>1, <5>2 DEF Queries
      <4>4. QED
        BY <3>1, <4>2, <4>3
    <3>2. ASSUME NEW c \in Conditions, NEW b \in DOMAIN query.or, AddToBranch(b, c)
          PROVE  query' \in Queries
      <4>1. query.or \in Seq(Seq(Conditions)) /\ query.or[b] \in Seq(Conditions)
        BY LenProperties, ElementOfSeq DEF FilterInv, Queries
      <4>2. [query.or EXCEPT ![b] = Append(@, c)] \in Seq(Seq(Conditions))
        BY <4>1, ExceptSeq, LenProperties
      <4>3. QED
        BY <3>2, <4>2 DEF AddToBranch, FilterInv, Queries
    <3>3. ASSUME NEW path \in Selects, AddSelect(path) PROVE query' \in Queries
      <4>1. PICK v \in {"0", "1"} :
                query' = [query EXCEPT !.select = Append(query.select, Leaf(path, v))]
        BY <3>3 DEF AddSelect
      <4>2. Leaf(path, v) \in Selected
        BY DEF Leaf, Selected
      <4>3. Append(query.select, Leaf(path, v)) \in Seq(Selected)
        BY <3>0, <4>2
      <4>4. QED
        BY <3>0, <4>1, <4>3 DEF Queries
    <3>4. ASSUME NEW path \in Sorts, AddSort(path) PROVE query' \in Queries
      <4>1. PICK v \in {"asc", "DESC", None} :
                query' = [query EXCEPT !.sort = Append(query.sort, Leaf(path, v))]
        BY <3>4 DEF AddSort
      <4>2. Leaf(path, v) \in Sorted
        BY DEF Leaf, Sorted
      <4>3. Append(query.sort, Leaf(path, v)) \in Seq(Sorted)
        BY <3>0, <4>2
      <4>4. QED
        BY <3>0, <4>1, <4>3 DEF Queries
    <3>5. ASSUME NEW parameter \in {"limit", "skip"}, AddNumber(parameter)
          PROVE  query' \in Queries
      BY <3>5 DEF AddNumber, FilterInv, Queries
    <3>6. QED
      BY <1>2, <3>1, <3>2, <3>3, <3>4, <3>5 DEF Next
  <2>2. QED
    BY <1>2, <2>1 DEF Next, FilterInv
<1>3. QED
  BY <1>1, <1>2

LEMMA FilterInvAlways == Spec => []FilterInv
BY FilterInvInit, FilterInvStep, PTL DEF Spec

LEMMA SearchFields ==
    ASSUME FilterInv, search # None
    PROVE  /\ ~Throws(query)
           /\ search.where = IF query.filter = <<>> /\ query.or = <<>> THEN <<>>
                             ELSE ParseFilter(query.filter, query.or)
           /\ search.select = ParseSelect(query.select)
           /\ search.order = ParseSort(query.sort)
           /\ search.relations = {}
BY DEF FilterInv, ParseFilterRequestQuery

\* What the conditions of a query become.
LEMMA WhereFacts ==
    ASSUME FilterInv, search # None
    PROVE  /\ query.filter \in Seq(Conditions) /\ query.or \in Seq(Seq(Conditions))
           /\ query.filter = <<>> /\ query.or = <<>> => search.where = <<>>
           /\ query.filter # <<>> /\ query.or = <<>> =>
                 /\ DOMAIN search.where = {1} /\ Len(search.where) = 1
                 /\ Represents(search.where[1], query.filter, <<>>)
           /\ query.or # <<>> =>
                 /\ DOMAIN search.where = DOMAIN query.or /\ Len(search.where) = Len(query.or)
                 /\ search.where # <<>>
                 /\ \A i \in DOMAIN query.or :
                       Represents(search.where[i], query.filter, query.or[i])
<1>1. query.filter \in Seq(Conditions) /\ query.or \in Seq(Seq(Conditions))
  BY DEF FilterInv, Queries
<1>2. query.filter = <<>> /\ query.or = <<>> => search.where = <<>>
  BY SearchFields
<1>3. ASSUME query.filter # <<>>, query.or = <<>>
      PROVE  /\ DOMAIN search.where = {1} /\ Len(search.where) = 1
             /\ Represents(search.where[1], query.filter, <<>>)
  <2>1. search.where = <<ParseBaseFilter(query.filter)>>
    BY <1>3, SearchFields DEF ParseFilter
  <2>2. QED
    BY <1>1, <2>1, FilterRepresents
<1>4. ASSUME query.or # <<>>
      PROVE  /\ DOMAIN search.where = DOMAIN query.or /\ Len(search.where) = Len(query.or)
             /\ search.where # <<>>
             /\ \A i \in DOMAIN query.or :
                   Represents(search.where[i], query.filter, query.or[i])
  <2>1. search.where = [i \in DOMAIN query.or |->
                          Spread(ParseBaseFilter(query.or[i]), ParseBaseFilter(query.filter))]
    BY <1>4, SearchFields DEF ParseFilter
  <2>2. /\ Len(query.or) \in Nat /\ DOMAIN query.or = 1 .. Len(query.or) /\ Len(query.or) # 0
        /\ \A i \in DOMAIN query.or : query.or[i] \in Seq(Conditions)
    BY <1>1, <1>4, LenProperties, ElementOfSeq, EmptySeq
  <2>3. ASSUME NEW i \in DOMAIN query.or
        PROVE  Represents(search.where[i], query.filter, query.or[i])
    BY <1>1, <2>1, <2>2, BranchRepresents
  <2>4. search.where \in [1 .. Len(query.or) -> {search.where[i] : i \in DOMAIN query.or}]
    BY <2>1, <2>2
  <2>5. Len(search.where) = Len(query.or) /\ DOMAIN search.where = DOMAIN query.or
    BY <2>2, <2>4, FunctionIsSeq
  <2>6. search.where # <<>>
    BY <2>2, <2>5
  <2>7. QED
    BY <2>3, <2>5, <2>6
<1>5. QED
  BY <1>1, <1>2, <1>3, <1>4

\* parseSelectFromQueryString and parseSortFromQueryString
SelectLeaf(s) == Leaf(s.path, s.value = "1")
SelectLeaves(select) == [i \in DOMAIN select |-> SelectLeaf(select[i])]

LEMMA SelectFacts ==
    ASSUME FilterInv, search # None
    PROVE  LET S == {SelectLeaf(s) : s \in Selected}
               select == query.select
           IN  /\ select \in Seq(Selected) /\ SelectLeaves(select) \in Seq(S)
               /\ Len(select) \in Nat /\ DOMAIN select = 1 .. Len(select)
               /\ Folded(S, <<>>, SelectLeaves(select), Len(select), search.select)
<1> DEFINE S == {SelectLeaf(s) : s \in Selected}
<1>1. /\ query.select \in Seq(Selected) /\ Len(query.select) \in Nat
      /\ DOMAIN query.select = 1 .. Len(query.select)
      /\ \A i \in DOMAIN query.select : query.select[i] \in Selected
  BY LenProperties, ElementOfSeq DEF FilterInv, Queries
<1>2. SelectLeaves(query.select) \in [1 .. Len(query.select) -> S]
  BY <1>1 DEF SelectLeaves
<1> HIDE DEF S
<1>3. SelectLeaves(query.select) \in Seq(S) /\ Len(SelectLeaves(query.select)) = Len(query.select)
  BY <1>1, <1>2, FunctionIsSeq
<1>4. search.select = AssignAll(<<>>, SelectLeaves(query.select))
  BY SearchFields DEF ParseSelect, SelectLeaves, SelectLeaf
<1>5. Folded(S, <<>>, SelectLeaves(query.select), Len(query.select), search.select)
  BY <1>3, <1>4, EmptyObject, AssignAllFolds
<1>6. QED
  BY <1>1, <1>3, <1>5 DEF S

LEMMA SortFacts ==
    ASSUME FilterInv, search # None
    PROVE  LET S == {Leaf(s.path, ToUpperCase(s.value)) : s \in Sorted}
               sort == query.sort
           IN  /\ sort \in Seq(Sorted) /\ Directions(sort) \in Seq(S)
               /\ Len(sort) \in Nat /\ DOMAIN sort = 1 .. Len(sort)
               /\ Len(Directions(sort)) = Len(sort)
               /\ Folded(S, <<>>, Directions(sort), Len(sort), search.order)
<1> DEFINE S == {Leaf(s.path, ToUpperCase(s.value)) : s \in Sorted}
<1>1. /\ query.sort \in Seq(Sorted) /\ Len(query.sort) \in Nat
      /\ DOMAIN query.sort = 1 .. Len(query.sort)
      /\ \A i \in DOMAIN query.sort : query.sort[i] \in Sorted
  BY LenProperties, ElementOfSeq DEF FilterInv, Queries
<1>2. Directions(query.sort) \in [1 .. Len(query.sort) -> S]
  BY <1>1 DEF Directions
<1> HIDE DEF S
<1>3. Directions(query.sort) \in Seq(S) /\ Len(Directions(query.sort)) = Len(query.sort)
  BY <1>1, <1>2, FunctionIsSeq
<1>4. search.order = AssignAll(<<>>, Directions(query.sort))
  BY SearchFields DEF ParseSort
<1>5. Folded(S, <<>>, Directions(query.sort), Len(query.sort), search.order)
  BY <1>3, <1>4, EmptyObject, AssignAllFolds
<1>6. QED
  BY <1>1, <1>3, <1>5 DEF S
-----------------------------------------------------------------------------

\* What parseFilterRequestQuery returns is well formed, whatever it is given:
\* no object of it has a key twice, and there is one for each branch of "or".
THEOREM ParsedIsWellFormed == Spec => []ParsedOK
<1>1. FilterInv => ParsedOK
  <2> SUFFICES ASSUME FilterInv, search # None PROVE ParsedOK
    BY DEF ParsedOK
  <2>1. \A object \in ToSet(search.where) : DistinctHeads(object)
    <3>1. ToSet(<<>>) = {}
      BY DEF ToSet
    <3>2. ASSUME NEW i \in DOMAIN search.where PROVE DistinctHeads(search.where[i])
      BY <3>1, WhereFacts DEF Represents
    <3>3. QED
      BY <3>2 DEF ToSet
  <2>2. DistinctHeads(search.select) /\ DistinctHeads(search.order)
    BY SelectFacts, SortFacts, EmptyObject DEF Folded
  <2>3. query.or # <<>> => Len(search.where) = Len(query.or)
    BY WhereFacts
  <2>4. QED
    BY <2>1, <2>2, <2>3 DEF ParsedOK
<1>2. QED
  BY <1>1, FilterInvAlways, PTL

\* What findByUserId hands to find.
LEMMA FoundByUserId ==
    ASSUME FilterInv, search # None, NEW user
    PROVE  /\ FindByUserId(search, user).where = OwnBranches(search.where, user)
           /\ FindByUserId(search, user).select = search.select
           /\ FindByUserId(search, user).relations = {"user"}
BY DEF FindByUserId, FilterInv, ParseFilterRequestQuery

\* findByUserId finds rows of its user only, and every one of them that the
\* filter finds.
THEOREM OwnRowsOnly == Spec => []OwnRows
<1>1. FilterInv => OwnRows
  <2> SUFFICES ASSUME FilterInv, search # None, NEW user \in Users, NEW row \in Rows
               PROVE  LET own == row[UserId] = user
                          found == Finds(OwnBranches(search.where, user), row)
                      IN  /\ found => own
                          /\ own /\ Finds(search.where, row) => found
    BY FoundByUserId DEF OwnRows
  <2> DEFINE own == Leaf(UserId, {user})
  <2> DEFINE where == search.where
  <2> DEFINE S == Leaves \cup {own}
  <2> DEFINE accepts(object) == \A l \in ToSet(object) : row[l.path] \in l.value
  <2>1. own.path = UserId /\ own.value = {user}
    BY DEF Leaf
  <2>2. CASE where = <<>>
    <3>1. OwnBranches(where, user) = <<<<own>>>>
      BY <2>2 DEF OwnBranches
    <3>2. ToSet(<<own>>) = {own}
      BY DEF ToSet
    <3>3. Finds(<<<<own>>>>, row) <=> row[own.path] \in own.value
      BY <3>2 DEF Finds
    <3>4. QED
      BY <2>1, <3>1, <3>3
  <2>3. CASE where # <<>>
    <3>1. \A i \in DOMAIN where : where[i] \in Seq(S)
      <4>1. \A i \in DOMAIN where : where[i] \in Seq(Leaves)
        BY <2>3, WhereFacts DEF Represents
      <4>2. QED
        BY <4>1, SeqMonotonic
    <3>2. OwnBranches(where, user) = [i \in DOMAIN where |-> Assign(where[i], own)]
      BY <2>3 DEF OwnBranches
    <3>3. DOMAIN where # {}
      BY <2>3, WhereFacts, LenProperties, EmptySeq
    <3>4. OwnBranches(where, user) # <<>>
      BY <3>2, <3>3
    <3> HIDE DEF S
    <3>5. ASSUME NEW i \in DOMAIN where
          PROVE  /\ accepts(Assign(where[i], own)) => row[UserId] = user
                 /\ row[UserId] = user /\ accepts(where[i]) => accepts(Assign(where[i], own))
      <4>1. own \in S
        BY DEF S
      <4>2. Assigned(S, where[i], own, Assign(where[i], own))
        BY <3>1, <4>1, AssignFacts
      <4>3. PICK object : object = Assign(where[i], own)
        OBVIOUS
      <4> HIDE DEF own
      <4>4. In(own, object)
        BY <4>2, <4>3, Zenon DEF Assigned
      <4>5. \A j \in DOMAIN object :
               object[j] = own \/ (j \in DOMAIN where[i] /\ object[j] = where[i][j])
        BY <4>2, <4>3, Zenon DEF Assigned
      <4>6. accepts(object) <=> \A j \in DOMAIN object : row[object[j].path] \in object[j].value
        BY Zenon DEF ToSet
      <4>7. accepts(where[i]) <=>
              \A j \in DOMAIN where[i] : row[where[i][j].path] \in where[i][j].value
        BY Zenon DEF ToSet
      <4>8. row[own.path] \in own.value <=> row[UserId] = user
        BY <2>1
      <4> HIDE DEF accepts
      <4>9. accepts(object) => row[UserId] = user
        BY <4>4, <4>6, <4>8 DEF In
      <4>10. row[UserId] = user /\ accepts(where[i]) => accepts(object)
        BY <4>5, <4>6, <4>7, <4>8
      <4>11. QED
        BY <4>3, <4>9, <4>10
    <3>6. QED
      BY <2>3, <3>2, <3>4, <3>5 DEF Finds
  <2>4. QED
    BY <2>2, <2>3
<1>2. QED
  BY <1>1, FilterInvAlways, PTL

\* Leaves of different keys are only strung together.
LEMMA AssignAllApart ==
    ASSUME NEW S, NEW leaves \in Seq(S), DistinctHeads(leaves)
    PROVE  AssignAll(<<>>, leaves) = leaves
<1> DEFINE n == Len(leaves)
<1> DEFINE prefix(k) == [i \in 1 .. k |-> leaves[i]]
<1> DEFINE I == [k \in 0 .. n |-> {prefix(k)}]
<1>1. /\ n \in Nat /\ DOMAIN leaves = 1 .. n /\ leaves \in [1 .. n -> S]
      /\ \A i \in 1 .. n : leaves[i] \in S
  BY LenProperties, ElementOfSeq
<1>2. <<>> \in I[0]
  <2>1. prefix(0) = <<>>
    OBVIOUS
  <2>2. QED
    BY <1>1, <2>1
<1>3. ASSUME NEW k \in 1 .. n, NEW o \in I[k - 1]
      PROVE  Assign(o, leaves[k]) \in I[k]
  <2>1. o = prefix(k - 1) /\ k - 1 \in Nat
    BY <1>1, <1>3
  <2>2. prefix(k - 1) \in [1 .. k - 1 -> S]
    BY <1>1
  <2>3. o \in Seq(S) /\ Len(o) = k - 1 /\ DOMAIN o = 1 .. k - 1
    BY <2>1, <2>2, FunctionIsSeq
  <2>4. \A i \in DOMAIN o : Head(o[i].path) # Head(leaves[k].path)
    <3>1. \A i \in DOMAIN o : o[i] = leaves[i]
      BY <2>1, <2>3
    <3>2. \A i \in DOMAIN o : i \in DOMAIN leaves /\ k \in DOMAIN leaves /\ i # k
      BY <1>1, <2>3
    <3>3. QED
      BY <3>1, <3>2 DEF DistinctHeads
  <2>5. Assign(o, leaves[k]) = Append(o, leaves[k])
    BY <2>4 DEF Assign
  <2>6. Append(o, leaves[k]) = prefix(k)
    <3>1. prefix(k) \in [1 .. k -> S] /\ leaves[k] \in S /\ k \in Nat
      BY <1>1
    <3>2. prefix(k) \in Seq(S) /\ Len(prefix(k)) = k
      BY <3>1, FunctionIsSeq
    <3>3. Append(o, leaves[k]) \in Seq(S) /\ Len(Append(o, leaves[k])) = k
      BY <2>3, <3>1
    <3>4. ASSUME NEW i \in 1 .. k PROVE Append(o, leaves[k])[i] = prefix(k)[i]
      BY <2>1, <2>3, <3>1
    <3> HIDE DEF prefix
    <3>5. QED
      BY <3>2, <3>3, <3>4, SeqEqual
  <2>7. QED
    BY <1>1, <2>5, <2>6
<1>4. prefix(n) = leaves
  BY <1>1
<1>5. I[n] = {leaves}
  BY <1>1, <1>4
<1> HIDE DEF I
<1>6. AssignAll(<<>>, leaves) \in I[n]
  BY <1>1, <1>2, <1>3, AssignAllBy
<1>7. QED
  BY <1>5, <1>6

\* parseSortFromQueryString keeps the order of the keys, which is the priority
\* of the ORDER BY; of keys that collide the first keeps its place.
THEOREM SortsByPriority == Spec => []SortKeepsPriority
<1>1. FilterInv => SortKeepsPriority
  <2> SUFFICES ASSUME FilterInv, search # None PROVE SortKeepsPriority
    BY DEF SortKeepsPriority
  <2> DEFINE sort == query.sort
  <2> DEFINE S == {Leaf(s.path, ToUpperCase(s.value)) : s \in Sorted}
  <2>1. /\ sort \in Seq(Sorted) /\ Directions(sort) \in Seq(S) /\ Len(sort) \in Nat
        /\ DOMAIN sort = 1 .. Len(sort) /\ Len(Directions(sort)) = Len(sort)
        /\ Folded(S, <<>>, Directions(sort), Len(sort), search.order)
    BY SortFacts
  <2>2. \A i \in DOMAIN sort : Directions(sort)[i].path = sort[i].path
    BY DEF Directions, Leaf
  <2>3. DOMAIN Directions(sort) = DOMAIN sort
    BY DEF Directions
  <2>4. ASSUME DistinctHeads(sort)
        PROVE  search.order = [i \in DOMAIN sort |-> Leaf(sort[i].path, ToUpperCase(sort[i].value))]
    <3>1. DistinctHeads(Directions(sort))
      BY <2>2, <2>3, <2>4 DEF DistinctHeads
    <3>2. search.order = AssignAll(<<>>, Directions(sort))
      BY SearchFields DEF ParseSort
    <3>3. search.order = Directions(sort)
      BY <2>1, <3>1, <3>2, AssignAllApart
    <3>4. QED
      BY <3>3 DEF Directions
  <2>5. ASSUME sort # <<>>
        PROVE  Head(search.order[1].path) = Head(sort[1].path)
    <3>1. Len(sort) > 0 /\ 1 \in DOMAIN sort
      BY <2>1, <2>5, EmptySeq
    <3>2. Head(search.order[1].path) = Head(Directions(sort)[1].path)
      BY <2>1, <3>1, EmptyObject DEF Folded, SameFirst
    <3>3. QED
      BY <2>2, <3>1, <3>2
  <2>6. QED
    BY <2>4, <2>5 DEF SortKeepsPriority
<1>2. QED
  BY <1>1, FilterInvAlways, PTL

\* The columns of a row and of its user differ in how their paths begin.
LEMMA ColumnPaths ==
    /\ \A path \in UserColumns : Head(path) = "user"
    /\ \A path \in OwnColumns : /\ path \notin UserColumns /\ Head(path) # "user"
                                /\ Head(path) \in {"id", "createdAt", "updatedAt"} =>
                                      path \in Identity
    /\ \A path \in Identity : path \notin UserColumns /\ Head(path) # "user"
<1>1. /\ Head(<<"id">>) = "id" /\ Head(<<"createdAt">>) = "createdAt"
      /\ Head(<<"updatedAt">>) = "updatedAt" /\ Head(<<"displayName">>) = "displayName"
      /\ Head(<<"userId">>) = "userId"
  OBVIOUS
<1>2. \A path \in UserColumns : Head(path) = "user"
  BY DEF UserColumns
<1>3. \A path \in OwnColumns : Head(path) # "user"
  BY <1>1 DEF OwnColumns
<1>4. Identity \subseteq OwnColumns
  BY DEF Identity, OwnColumns
<1>5. \A path \in OwnColumns :
          Head(path) \in {"id", "createdAt", "updatedAt"} => path \in Identity
  BY <1>1 DEF OwnColumns, Identity
<1>6. QED
  BY <1>2, <1>3, <1>4, <1>5

\* The columns that a request selects, and that an object names with TRUE.
AskedFor == {s.path : s \in {t \in ToSet(query.select) : t.value = "1"}}
Named(o) == {l.path : l \in {k \in ToSet(o) : k.value}}

\* What is left of a select that is not empty when getSelectQuery is done: its
\* TRUE leaves are what was asked for and the identity.
LEMMA SelectQueryFacts ==
    ASSUME FilterInv, search # None, query.select # <<>>,
           NEW o, o = GetSelectQuery(search.select)
    PROVE  /\ Identity \subseteq Named(o) /\ Named(o) \subseteq Identity \cup AskedFor
           /\ DistinctHeads(query.select) => AskedFor \subseteq Named(o)
           /\ \A l \in ToSet(o) : \/ Head(l.path) \in {"id", "createdAt", "updatedAt"}
                                  \/ \E s \in ToSet(query.select) : Head(l.path) = Head(s.path)
           /\ \A s \in ToSet(query.select) : \E l \in ToSet(o) : Head(l.path) = Head(s.path)
<1> DEFINE asked == AskedFor
<1> DEFINE named == Named(o)
<1> DEFINE select == query.select
<1> DEFINE S == {SelectLeaf(s) : s \in Selected}
<1> DEFINE leaf(path) == Leaf(path, TRUE)
<1> DEFINE ids == <<leaf(<<"id">>), leaf(<<"createdAt">>), leaf(<<"updatedAt">>)>>
<1> DEFINE T == S \cup {leaf(path) : path \in Identity}
<1>1. /\ select \in Seq(Selected) /\ SelectLeaves(select) \in Seq(S)
      /\ Len(select) \in Nat /\ DOMAIN select = 1 .. Len(select)
      /\ Folded(S, <<>>, SelectLeaves(select), Len(select), search.select)
  BY SelectFacts
<1>2. Len(select) > 0 /\ Len(search.select) > 0 /\ search.select \in Seq(S)
  BY <1>1, EmptySeq, EmptyObject DEF Folded, SameFirst
<1>3. o = AssignAll(search.select, ids)
  BY <1>2, EmptyObject DEF GetSelectQuery, Spread
<1>4. ids \in Seq(T) /\ search.select \in Seq(T) /\ Len(ids) = 3
  <2>1. search.select \in Seq(T)
    BY <1>2, SeqMonotonic
  <2>2. QED
    BY <2>1 DEF Identity
<1>5. Folded(T, search.select, ids, 3, o)
  <2> HIDE DEF T, ids
  <2>1. QED
    BY <1>3, <1>4, AssignAllFolds
<1>6. /\ ids[1].path = <<"id">> /\ ids[2].path = <<"createdAt">> /\ ids[3].path = <<"updatedAt">>
      /\ \A i \in 1 .. 3 : ids[i].value
      /\ Head(ids[1].path) = "id" /\ Head(ids[2].path) = "createdAt"
      /\ Head(ids[3].path) = "updatedAt"
      /\ \A i \in 1 .. 3 : i = 1 \/ i = 2 \/ i = 3
  BY DEF Leaf
<1> HIDE DEF ids, S, T
<1>7. \A i \in DOMAIN select :
          /\ SelectLeaves(select)[i].path = select[i].path
          /\ SelectLeaves(select)[i].value = (select[i].value = "1")
  BY DEF SelectLeaves, SelectLeaf, Leaf
<1>8. ASSUME NEW i \in DOMAIN o
      PROVE  \/ \E j \in 1 .. 3 : o[i] = ids[j]
             \/ \E j \in DOMAIN select : o[i] = SelectLeaves(select)[j]
  <2>1. CASE In(o[i], search.select)
    <3>1. PICK m \in DOMAIN search.select : search.select[m] = o[i]
      BY <2>1 DEF In
    <3>2. QED
      BY <1>1, <3>1, EmptyObject DEF Folded, FromThese, In
  <2>2. QED
    BY <1>5, <2>1 DEF Folded, FromThese
<1>9. Identity \subseteq named
  <2>1. \A i \in 1 .. 3 : In(ids[i], o)
    <3>1. \A i \in 1 .. 3 : \A j \in i + 1 .. 3 : Head(ids[j].path) # Head(ids[i].path)
      BY <1>6
    <3>2. QED
      BY <1>5, <3>1 DEF Folded, Kept
  <2>2. \A i \in 1 .. 3 : ids[i].path \in named
    BY <1>6, <2>1 DEF In, ToSet, Named
  <2>3. QED
    BY <1>6, <2>2 DEF Identity
<1>10. named \subseteq Identity \cup asked
  <2> SUFFICES ASSUME NEW i \in DOMAIN o, o[i].value
               PROVE  o[i].path \in Identity \cup asked
    BY DEF ToSet, Named
  <2>1. CASE \E j \in 1 .. 3 : o[i] = ids[j]
    BY <1>6, <2>1 DEF Identity
  <2>2. CASE \E j \in DOMAIN select : o[i] = SelectLeaves(select)[j]
    <3>1. PICK j \in DOMAIN select : o[i] = SelectLeaves(select)[j]
      BY <2>2
    <3>2. select[j].value = "1" /\ o[i].path = select[j].path
      BY <1>7, <3>1
    <3>3. QED
      BY <3>2 DEF ToSet, AskedFor
  <2>3. QED
    BY <1>8, <2>1, <2>2
<1>11. ASSUME DistinctHeads(select)
       PROVE  asked \subseteq named
  <2> SUFFICES ASSUME NEW j \in DOMAIN select, select[j].value = "1"
               PROVE  select[j].path \in named
    BY DEF ToSet, AskedFor
  <2> DEFINE path == select[j].path
  <2>1. path \in OwnColumns \cup UserColumns
    <3>1. select[j] \in Selected
      BY <1>1, ElementOfSeq
    <3>2. QED
      BY <3>1, SelectsAssumption DEF Selected
  <2>2. CASE Head(path) \in {"id", "createdAt", "updatedAt"}
    BY <1>9, <2>1, <2>2, ColumnPaths
  <2>3. CASE Head(path) \notin {"id", "createdAt", "updatedAt"}
    <3>1. \A i \in j + 1 .. Len(select) :
              Head(SelectLeaves(select)[i].path) # Head(SelectLeaves(select)[j].path)
      <4>1. \A i \in j + 1 .. Len(select) : i \in DOMAIN select /\ i # j
        BY <1>1
      <4>2. QED
        BY <1>7, <1>11, <4>1 DEF DistinctHeads
    <3>2. In(SelectLeaves(select)[j], search.select)
      BY <1>1, <3>1 DEF Folded, Kept
    <3>3. PICK i \in DOMAIN search.select : search.select[i] = SelectLeaves(select)[j]
      BY <3>2 DEF In
    <3>4. \A k \in 1 .. 3 : Head(ids[k].path) # Head(search.select[i].path)
      BY <1>6, <1>7, <2>3, <3>3
    <3>5. In(search.select[i], o)
      BY <1>5, <3>4 DEF Folded, Kept
    <3>6. search.select[i].path = path /\ search.select[i].value
      BY <1>7, <3>3
    <3>7. QED
      BY <3>5, <3>6 DEF In, ToSet, Named
  <2>4. QED
    BY <2>2, <2>3
<1>12. ASSUME NEW i \in DOMAIN o
       PROVE  \/ Head(o[i].path) \in {"id", "createdAt", "updatedAt"}
              \/ \E s \in ToSet(select) : Head(o[i].path) = Head(s.path)
  <2>1. CASE \E j \in 1 .. 3 : o[i] = ids[j]
    BY <1>6, <2>1
  <2>2. CASE \E j \in DOMAIN select : o[i] = SelectLeaves(select)[j]
    BY <1>7, <2>2 DEF ToSet
  <2>3. QED
    BY <1>8, <2>1, <2>2
<1>13. ASSUME NEW j \in DOMAIN select
       PROVE  \E l \in ToSet(o) : Head(l.path) = Head(select[j].path)
  <2>1. PICK m \in DOMAIN search.select :
            Head(search.select[m].path) = Head(SelectLeaves(select)[j].path)
    BY <1>1 DEF Folded, HeadsKept
  <2>2. PICK i \in DOMAIN o : Head(o[i].path) = Head(search.select[m].path)
    BY <1>5 DEF Folded, HeadsKept
  <2>3. QED
    BY <1>7, <2>1, <2>2 DEF ToSet
<1>14. /\ ToSet(o) = {o[i] : i \in DOMAIN o}
       /\ ToSet(select) = {select[j] : j \in DOMAIN select}
  BY DEF ToSet
<1>15. \A l \in ToSet(o) : \/ Head(l.path) \in {"id", "createdAt", "updatedAt"}
                          \/ \E s \in ToSet(select) : Head(l.path) = Head(s.path)
  BY <1>12, <1>14
<1>16. \A s \in ToSet(select) : \E l \in ToSet(o) : Head(l.path) = Head(s.path)
  BY <1>13, <1>14
<1>17. QED
  BY <1>9, <1>10, <1>11, <1>15, <1>16

\* A select is read with the row's identity; find reads nothing else that was
\* not selected, findByUserId the whole user when the select names nothing of
\* it; with keys apart, all that was selected is read.
THEOREM SelectsIdentity == Spec => []SelectKeepsIdentity
<1> DEFINE ofUser == \E s \in ToSet(query.select) : s.path \in UserColumns
<1> DEFINE joined == IF ofUser THEN AskedFor \cap UserColumns ELSE UserColumns
<1> DEFINE found == Read(search)
<1> DEFINE own(user) == Read(FindByUserId(search, user))
<1>1. ASSUME FilterInv, search # None, query.select # <<>>, NEW user
      PROVE  /\ Identity \subseteq found
             /\ found \subseteq Identity \cup (AskedFor \ UserColumns)
             /\ found \subseteq own(user) /\ own(user) \subseteq found \cup joined
             /\ DistinctHeads(query.select) =>
                   /\ found = Identity \cup (AskedFor \ UserColumns)
                   /\ own(user) = found \cup joined
  <2>0. PICK o : o = GetSelectQuery(search.select)
    OBVIOUS
  <2> DEFINE named == Named(o)
  <2>1. /\ Identity \subseteq named /\ named \subseteq Identity \cup AskedFor
        /\ DistinctHeads(query.select) => AskedFor \subseteq named
        /\ \A l \in ToSet(o) : \/ Head(l.path) \in {"id", "createdAt", "updatedAt"}
                               \/ \E s \in ToSet(query.select) : Head(l.path) = Head(s.path)
        /\ \A s \in ToSet(query.select) : \E l \in ToSet(o) : Head(l.path) = Head(s.path)
    BY <1>1, <2>0, SelectQueryFacts
  <2>2. \A s \in ToSet(query.select) : s.path \in OwnColumns \cup UserColumns
    <3>1. \A s \in ToSet(query.select) : s \in Selected
      BY <1>1, SelectFacts, ElementOfSeq DEF ToSet
    <3>2. QED
      BY <3>1, SelectsAssumption DEF Selected
  <2>3. ofUser <=> \E l \in ToSet(o) : Head(l.path) = "user"
    BY <2>1, <2>2, ColumnPaths
  <2> HIDE DEF ofUser
  <2>4. found = named \ UserColumns
    <3>1. search.relations = {}
      BY <1>1, SearchFields
    <3>2. QED
      BY <2>0, <3>1 DEF Read, Fields, Named
  <2>5. own(user) = named \cup (IF ofUser THEN {} ELSE UserColumns)
    <3>1. own(user) = Fields(o, {"user"})
      BY <1>1, <2>0, FoundByUserId DEF Read
    <3>2. {l.path : l \in {k \in ToSet(o) : k.value /\ (k.path \in UserColumns =>
                                                          Head(k.path) \in {"user"})}} = named
      BY <2>0, ColumnPaths DEF Named
    <3>3. {path \in UserColumns : /\ Head(path) \in {"user"}
                                  /\ \A l \in ToSet(o) : Head(l.path) # Head(path)}
            = IF ofUser THEN {} ELSE UserColumns
      BY <2>3, ColumnPaths
    <3>4. QED
      BY <3>1, <3>2, <3>3 DEF Fields
  <2>6. Identity \cap UserColumns = {}
    BY ColumnPaths
  <2> HIDE DEF found, own, named
  <2>7. QED
    BY <2>1, <2>4, <2>5, <2>6
<1>2. FilterInv => SelectKeepsIdentity
  BY <1>1 DEF SelectKeepsIdentity, AskedFor
<1>3. QED
  BY <1>2, FilterInvAlways, PTL
-----------------------------------------------------------------------------
(***************************************************************************)
(* What the database accepts for a condition is what a caller means by it. *)
(***************************************************************************)
LEMMA ColumnValues ==
    ASSUME NEW row \in Rows, NEW path \in Columns
    PROVE  /\ row[path] \in Values
           /\ path # UserId => row[path] \in Texts
<1>1. PICK c \in {"2024Z", "2025Z"}, d \in {"2024", "a", "ab"}, e \in {"a", "ab"},
           n \in {"a", "ab"}, u \in Users : row = Row(c, d, e, n, u)
  BY DEF Rows
<1>2. {c, d, e, n} \subseteq Texts
  BY <1>1 DEF Texts, Order, ToSet
<1>3. row[path] = CASE path = CreatedAt -> c
                    [] path = UserId -> u
                    [] path = <<"displayName">> -> d
                    [] path = <<"user", "email">> -> e
                    [] path = <<"user", "username">> -> n
  BY <1>1 DEF Row
<1>4. CASE path = UserId
  BY <1>3, <1>4 DEF UserId, CreatedAt, Values
<1>5. CASE path # UserId
  <2>1. row[path] \in {c, d, e, n}
    BY <1>3, <1>5 DEF Columns
  <2>2. QED
    BY <1>2, <1>5, <2>1 DEF Values
<1>6. QED
  BY <1>4, <1>5

LEMMA RankFacts ==
    ASSUME NEW v \in Texts
    PROVE  Rank(v) \in 1 .. 6 /\ Order[Rank(v)] = v
<1>1. DOMAIN Order = 1 .. 6
  BY DEF Order
<1>2. \E i \in DOMAIN Order : Order[i] = v
  BY DEF Texts, ToSet
<1>3. QED
  BY <1>1, <1>2 DEF Rank

LEMMA OperatorMeaning ==
    ASSUME NEW o \in FilterOperatorEnum, NEW v \in Values, NEW x,
           o \notin {"in", "nin", "ne"} => v \in Texts /\ x \in Texts
    PROVE  Holds(o, v, x) <=> v \in ParseOperator(o, x)
<1>1. CASE o \in {"in", "nin", "ne"}
  BY <1>1 DEF Holds, ParseOperator
<1>2. CASE o = "like"
  BY <1>2 DEF Holds, ParseOperator, Like
<1>3. CASE o \in {"gt", "gte", "lt", "lte"}
  <2>1. /\ v \in Texts /\ Rank(v) \in Nat /\ Rank(x) \in Nat
        /\ Rank(v) = Rank(x) => v = x
    BY <1>3, RankFacts
  <2>2. /\ v \in MoreThan(x) <=> Rank(v) > Rank(x)
        /\ v \in LessThan(x) <=> Rank(v) < Rank(x)
    BY <2>1 DEF MoreThan, LessThan
  <2>3. /\ Rank(v) >= Rank(x) <=> Rank(v) > Rank(x) \/ v = x
        /\ Rank(v) <= Rank(x) <=> Rank(v) < Rank(x) \/ v = x
    BY <2>1
  <2>4. CASE o = "gt"
    BY <2>2, <2>4 DEF Holds, ParseOperator
  <2>5. CASE o = "gte"
    BY <2>2, <2>3, <2>5 DEF Holds, ParseOperator
  <2>6. CASE o = "lt"
    BY <2>2, <2>6 DEF Holds, ParseOperator
  <2>7. CASE o = "lte"
    BY <2>2, <2>3, <2>7 DEF Holds, ParseOperator
  <2>8. QED
    BY <1>3, <2>4, <2>5, <2>6, <2>7
<1>4. QED
  BY <1>1, <1>2, <1>3 DEF FilterOperatorEnum

LEMMA OperandMeaning ==
    ASSUME NEW c \in Conditions, NEW t \in OperandTexts(c),
           c.path # CreatedAt => OperandTexts(c) \cap DOMAIN Instant = {}
    PROVE  /\ GetDateOrValue(t) = Typed(c.path, t)
           /\ c.path # UserId => GetDateOrValue(t) \in Texts
<1>1. CASE c.path = CreatedAt
  <2>1. t \in DOMAIN Instant
    BY <1>1, ConditionsAssumption
  <2>2. Instant[t] \in Texts
    BY <2>1 DEF Instant, Texts, Order, ToSet
  <2>3. QED
    BY <1>1, <2>1, <2>2 DEF GetDateOrValue, Typed
<1>2. CASE c.path # CreatedAt
  <2>1. t \notin DOMAIN Instant
    BY <1>2
  <2>2. c.path # UserId => t \in Texts
    BY <1>2, ConditionsAssumption
  <2>3. QED
    BY <1>2, <2>1, <2>2 DEF GetDateOrValue, Typed
<1>3. QED
  BY <1>1, <1>2

LEMMA ConditionMeaning ==
    ASSUME NEW c \in Conditions, NEW row \in Rows,
           Plain(c) \/ DOMAIN c.operators \subseteq FilterOperatorEnum,
           c.path # CreatedAt => OperandTexts(c) \cap DOMAIN Instant = {}
    PROVE  Meets(row, c) <=> row[c.path] \in ParseKeyValue(c).value
<1>1. CASE Plain(c)
  <2>1. c.value \in OperandTexts(c)
    BY <1>1 DEF OperandTexts
  <2>2. GetDateOrValue(c.value) = Typed(c.path, c.value)
    BY <2>1, OperandMeaning
  <2>3. ParseKeyValue(c).value = {GetDateOrValue(c.value)}
    BY <1>1 DEF ParseKeyValue, Leaf
  <2>4. QED
    BY <1>1, <2>2, <2>3 DEF Meets
<1>2. CASE ~Plain(c)
  <2> DEFINE v == row[c.path]
  <2>1. c.path \in Columns
    BY ConditionsAssumption
  <2>2. v \in Values /\ (c.path # UserId => v \in Texts)
    BY <2>1, ColumnValues
  <2>3. ASSUME NEW o \in DOMAIN c.operators
        PROVE  Holds(o, v, TypedOperand(c.path, o, c.operators[o]))
                   <=> v \in ParseOperator(o, Operand(o, c.operators[o]))
    <3> DEFINE x == c.operators[o]
    <3>1. o \in FilterOperatorEnum
      BY <1>2
    <3>2. (IF o \in {"in", "nin"} THEN x ELSE {x}) \subseteq OperandTexts(c)
      BY <1>2 DEF OperandTexts
    <3>3. CASE o \in {"in", "nin"}
      <4>1. \A t \in x : GetDateOrValue(t) = Typed(c.path, t)
        BY <3>2, <3>3, OperandMeaning
      <4>2. Operand(o, x) = TypedOperand(c.path, o, x)
        BY <3>3, <4>1 DEF Operand, TypedOperand
      <4>3. QED
        BY <2>2, <3>1, <3>3, <4>2, OperatorMeaning
    <3>4. CASE o \notin {"in", "nin"}
      <4>1. x \in OperandTexts(c)
        BY <3>2, <3>4
      <4>2. /\ GetDateOrValue(x) = Typed(c.path, x)
            /\ c.path # UserId => GetDateOrValue(x) \in Texts
        BY <4>1, OperandMeaning
      <4>3. Operand(o, x) = TypedOperand(c.path, o, x) /\ Operand(o, x) = GetDateOrValue(x)
        BY <3>4, <4>2 DEF Operand, TypedOperand
      <4>4. o # "ne" => c.path # UserId
        BY <1>2, <3>4, ConditionsAssumption
      <4>5. QED
        BY <2>2, <3>1, <3>4, <4>2, <4>3, <4>4, OperatorMeaning
    <3>5. QED
      BY <3>3, <3>4
  <2>4. ParseKeyValue(c).value = ConvertOperators(c.operators)
    BY <1>2 DEF ParseKeyValue, Leaf
  <2> HIDE DEF v
  <2>5. v \in ConvertOperators(c.operators)
            <=> \A o \in DOMAIN c.operators : v \in ParseOperator(o, Operand(o, c.operators[o]))
    BY <2>2 DEF ConvertOperators
  <2>6. QED
    BY <1>2, <2>3, <2>4, <2>5 DEF Meets, v
<1>3. QED
  BY <1>1, <1>2

\* A search that was not refused has operators that are known.
LEMMA KnownOperators ==
    ASSUME FilterInv, search # None, DatesForDates, NEW c \in AllConditions
    PROVE  /\ c \in Conditions
           /\ Plain(c) \/ DOMAIN c.operators \subseteq FilterOperatorEnum
           /\ c.path # CreatedAt => OperandTexts(c) \cap DOMAIN Instant = {}
<1>1. query.filter \in Seq(Conditions) /\ query.or \in Seq(Seq(Conditions)) /\ ~Throws(query)
  BY WhereFacts, SearchFields
<1>2. c.path # CreatedAt => OperandTexts(c) \cap DOMAIN Instant = {}
  BY DEF DatesForDates
<1>3. CASE c \in ToSet(query.filter)
  <2>1. PICK i \in DOMAIN query.filter : query.filter[i] = c
    BY <1>3 DEF ToSet
  <2>2. c \in Conditions
    BY <1>1, <1>3, ElementsOfConditions
  <2>3. QED
    BY <1>1, <1>2, <2>1, <2>2 DEF Throws
<1>4. CASE \E b \in ToSet(query.or) : c \in ToSet(b)
  <2>1. PICK b \in DOMAIN query.or : c \in ToSet(query.or[b])
    BY <1>4 DEF ToSet
  <2>2. query.or[b] \in Seq(Conditions)
    BY <1>1, <2>1, LenProperties, ElementOfSeq
  <2>3. PICK i \in DOMAIN query.or[b] : query.or[b][i] = c
    BY <2>1 DEF ToSet
  <2>4. c \in Conditions
    BY <2>1, <2>2, ElementsOfConditions
  <2>5. QED
    BY <1>1, <1>2, <2>3, <2>4 DEF Throws
<1>5. QED
  BY <1>3, <1>4 DEF AllConditions

Accepts(object, row) == \A l \in ToSet(object) : row[l.path] \in l.value

LEMMA BranchMeaning ==
    ASSUME FilterInv, search # None, DatesForDates, NEW row \in Rows,
           NEW filter, NEW branch, NEW object, Represents(object, filter, branch),
           ToSet(filter) \cup ToSet(branch) \subseteq AllConditions
    PROVE  /\ (\A c \in ToSet(filter) \cup ToSet(branch) : Meets(row, c)) => Accepts(object, row)
           /\ DistinctHeads(filter \o branch) /\ Accepts(object, row) =>
                 \A c \in ToSet(filter) \cup ToSet(branch) : Meets(row, c)
<1>1. ASSUME NEW c \in ToSet(filter) \cup ToSet(branch)
      PROVE  /\ Meets(row, c) <=> row[c.path] \in ParseKeyValue(c).value
             /\ ParseKeyValue(c).path = c.path
  BY KnownOperators, ConditionMeaning, SamePath
<1>2. ASSUME \A c \in ToSet(filter) \cup ToSet(branch) : Meets(row, c)
      PROVE  Accepts(object, row)
  <2> SUFFICES ASSUME NEW i \in DOMAIN object PROVE row[object[i].path] \in object[i].value
    BY DEF Accepts, ToSet
  <2>1. PICK c \in ToSet(filter) \cup ToSet(branch) : object[i] = ParseKeyValue(c)
    BY DEF Represents
  <2>2. QED
    BY <1>1, <1>2, <2>1
<1>3. ASSUME DistinctHeads(filter \o branch), Accepts(object, row),
             NEW c \in ToSet(filter) \cup ToSet(branch)
      PROVE  Meets(row, c)
  <2>1. In(ParseKeyValue(c), object)
    BY <1>3 DEF Represents
  <2>2. row[c.path] \in ParseKeyValue(c).value
    BY <1>1, <1>3, <2>1 DEF Accepts, In, ToSet
  <2>3. QED
    BY <1>1, <2>2
<1>4. QED
  BY <1>2, <1>3

\* A filter finds what it asks for and, with keys apart, nothing else.
LEMMA FilterMeaning ==
    ASSUME FilterInv, search # None, DatesForDates, NEW row \in Rows
    PROVE  /\ Asked(row) => Finds(search.where, row)
           /\ HeadsApart /\ Finds(search.where, row) => Asked(row)
<1> DEFINE filter == query.filter
<1> DEFINE where == search.where
<1>1. /\ filter \in Seq(Conditions) /\ query.or \in Seq(Seq(Conditions))
      /\ filter \o <<>> = filter /\ ToSet(<<>>) = {}
  BY WhereFacts, ConcatEmptySeq DEF ToSet
<1>2. CASE filter = <<>> /\ query.or = <<>>
  BY <1>1, <1>2, WhereFacts DEF Asked, Finds
<1>3. CASE filter # <<>> /\ query.or = <<>>
  <2>1. /\ DOMAIN where = {1} /\ where # <<>> /\ Represents(where[1], filter, <<>>)
    BY <1>3, WhereFacts
  <2>2. ToSet(filter) \cup ToSet(<<>>) \subseteq AllConditions
    BY <1>1 DEF AllConditions
  <2>3. /\ (\A c \in ToSet(filter) : Meets(row, c)) => Accepts(where[1], row)
        /\ DistinctHeads(filter) /\ Accepts(where[1], row) =>
              \A c \in ToSet(filter) : Meets(row, c)
    <3> DEFINE all == ToSet(filter) \cup ToSet(<<>>)
    <3>1. /\ (\A c \in all : Meets(row, c)) => Accepts(where[1], row)
          /\ DistinctHeads(filter \o <<>>) /\ Accepts(where[1], row) =>
                \A c \in all : Meets(row, c)
      BY <2>1, <2>2, BranchMeaning
    <3>2. all = ToSet(filter)
      BY <1>1
    <3> HIDE DEF all
    <3>3. QED
      BY <1>1, <3>1, <3>2
  <2>4. Finds(where, row) <=> Accepts(where[1], row)
    BY <2>1 DEF Finds, Accepts
  <2>5. Asked(row) <=> \A c \in ToSet(filter) : Meets(row, c)
    BY <1>3 DEF Asked
  <2>6. QED
    BY <2>3, <2>4, <2>5 DEF HeadsApart
<1>4. CASE query.or # <<>>
  <2>1. /\ DOMAIN where = DOMAIN query.or /\ where # <<>>
        /\ \A i \in DOMAIN query.or : Represents(where[i], filter, query.or[i])
    BY <1>4, WhereFacts
  <2>2. ASSUME NEW i \in DOMAIN query.or
        PROVE  /\ (\A c \in ToSet(filter) \cup ToSet(query.or[i]) : Meets(row, c)) =>
                      Accepts(where[i], row)
               /\ DistinctHeads(filter \o query.or[i]) /\ Accepts(where[i], row) =>
                      \A c \in ToSet(filter) \cup ToSet(query.or[i]) : Meets(row, c)
    <3>1. ToSet(filter) \cup ToSet(query.or[i]) \subseteq AllConditions
      BY DEF AllConditions, ToSet
    <3>2. QED
      BY <2>1, <3>1, BranchMeaning
  <2>3. Finds(where, row) <=> \E i \in DOMAIN query.or : Accepts(where[i], row)
    BY <2>1 DEF Finds, Accepts
  <2>4. Asked(row) <=> \E i \in DOMAIN query.or :
                           \A c \in ToSet(filter) \cup ToSet(query.or[i]) : Meets(row, c)
    <3>1. ToSet(query.or) = {query.or[i] : i \in DOMAIN query.or}
      BY DEF ToSet
    <3>2. QED
      BY <1>4, <3>1 DEF Asked
  <2>5. HeadsApart => \A i \in DOMAIN query.or : DistinctHeads(filter \o query.or[i])
    BY DEF HeadsApart, ToSet
  <2>6. QED
    BY <2>2, <2>3, <2>4, <2>5
<1>5. QED
  BY <1>2, <1>3, <1>4

\* Every row that a filter asks for is accepted by one of the objects that
\* parseFilter returns, although Object.assign may drop conditions.
THEOREM FindsWhatIsAsked == Spec => []NeverNarrower
<1>1. FilterInv => NeverNarrower
  BY FilterMeaning DEF NeverNarrower
<1>2. QED
  BY <1>1, FilterInvAlways, PTL

\* When no two keys collide, parseFilter's objects accept no other row: its
\* distribution of the conditions over the branches means the same.
THEOREM FindsNothingElse == Spec => []Faithful
<1>1. FilterInv => Faithful
  BY FilterMeaning DEF Faithful
<1>2. QED
  BY <1>1, FilterInvAlways, PTL
=============================================================================
