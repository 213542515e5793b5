-------------------------- MODULE HideOrOmitProofs --------------------------
(***************************************************************************)
(* Theorems about hideOrOmitDeep, for data of any depth, any set of keys   *)
(* and any of them listed: its recursion ends, and what it does along a    *)
(* path of any length, by induction on the path.                           *)
(***************************************************************************)
EXTENDS HideOrOmit, SequenceTheorems, WellFoundedInduction, TLAPS

\* A set of numbers that is not empty has a least element.
LEMMA LeastNumber ==
    ASSUME NEW T, T \subseteq Nat, T # {}
    PROVE  \E m \in T : \A k \in T : ~(k < m)
<1>1. PICK m \in T : \A k \in T : ~(<<k, m>> \in OpToRel(<, Nat))
  BY NatLessThanWellFounded, WFMin, Zenon
<1>2. \A i, j \in Nat : i < j => <<i, j>> \in OpToRel(<, Nat)
  BY Zenon DEF OpToRel
<1>3. QED
  BY <1>1, <1>2, Zenon

\* A set of numbers with 0 and, up to n, the successor of each, has them all.
LEMMA ByInduction ==
    ASSUME NEW n \in Nat, NEW S, 0 \in S, \A k \in 0 .. n - 1 : k \in S => k + 1 \in S
    PROVE  \A k \in 0 .. n : k \in S
<1> DEFINE T == {k \in 0 .. n : k \notin S}
<1> SUFFICES ASSUME T # {} PROVE FALSE
  OBVIOUS
<1>1. PICK m \in T : \A k \in T : ~(k < m)
  BY LeastNumber, T \subseteq Nat
<1>2. m \in 1 .. n /\ m \notin S /\ m - 1 \in 0 .. n - 1 /\ m - 1 < m /\ (m - 1) + 1 = m
  OBVIOUS
<1>3. QED
  BY <1>1, <1>2

-----------------------------------------------------------------------------
(***************************************************************************)
(* The data: every value is a leaf or made of the values before it.        *)
(***************************************************************************)
\* An object or an array whose fields are in S.
Made(v, S) ==
    \E f : /\ \/ v = Object(f) /\ DOMAIN f \subseteq Keys
              \/ v = Array(f) /\ DOMAIN f \subseteq Indexes
           /\ \A k \in DOMAIN f : f[k] \in S

Upto(k) == Smallest \cup {built[i] : i \in 1 .. k}

Chain ==
    /\ Len(built) \in Nat \ {0} /\ DOMAIN built = 1 .. Len(built)
    /\ built \in Seq({built[i] : i \in DOMAIN built})
    /\ \A i \in 1 .. Len(built) : built[i] \in Smallest \/ Made(built[i], Upto(i - 1))

LEMMA SmallestMade == \A S : \A v \in Smallest : v \in Leaves \/ Made(v, S)
<1> SUFFICES ASSUME NEW S, NEW v \in Smallest, v \notin Leaves PROVE Made(v, S)
  OBVIOUS
<1>1. DOMAIN NoFields = {}
  BY DEF NoFields
<1>2. v = Object(NoFields) \/ v = Array(NoFields)
  BY DEF Smallest
<1>3. QED
  BY <1>1, <1>2 DEF Made

LEMMA WrapMade ==
    ASSUME NEW value, NEW v \in Wrap(value), NEW S, value \in S, Leaves \subseteq S
    PROVE  Made(v, S)
<1>1. CASE \E i \in Indexes, l \in Leaves : v = Array(With(i, value, "0", l))
  <2>1. PICK i \in Indexes, l \in Leaves : v = Array(With(i, value, "0", l))
    BY <1>1
  <2>2. DOMAIN With(i, value, "0", l) \subseteq Indexes
    BY DEF With, Indexes
  <2>3. \A k \in DOMAIN With(i, value, "0", l) : With(i, value, "0", l)[k] \in S
    BY DEF With
  <2>4. QED
    BY <2>1, <2>2, <2>3 DEF Made
<1>2. CASE \E i, j \in Keys, l \in Leaves : v = Object(With(i, value, j, l))
  <2>1. PICK i \in Keys, j \in Keys, l \in Leaves : v = Object(With(i, value, j, l))
    BY <1>2
  <2>2. DOMAIN With(i, value, j, l) \subseteq Keys
    BY DEF With
  <2>3. \A k \in DOMAIN With(i, value, j, l) : With(i, value, j, l)[k] \in S
    BY DEF With
  <2>4. QED
    BY <2>1, <2>2, <2>3 DEF Made
<1>3. QED
  BY <1>1, <1>2 DEF Wrap

LEMMA ChainInit == DataInit => Chain
<1> SUFFICES ASSUME DataInit PROVE Chain
  OBVIOUS
<1>1. PICK value \in Smallest : built = <<value>>
  BY DEF DataInit
<1>2. Len(built) = 1 /\ DOMAIN built = 1 .. 1 /\ built[1] = value
  BY <1>1
<1>3. {built[i] : i \in DOMAIN built} = {value}
  BY <1>2
<1>4. QED
  BY <1>1, <1>2, <1>3 DEF Chain

LEMMA ChainStep == Chain /\ [Grow]_built => Chain'
<1> SUFFICES ASSUME Chain, [Grow]_built PROVE Chain'
  OBVIOUS
<1>0. PICK n \in Nat \ {0} : n = Len(built)
  BY DEF Chain
<1>1. CASE UNCHANGED built
  BY <1>1 DEF Chain, Upto
<1>2. CASE Grow
  <2>1. PICK v \in Wrap(Data) : built' = Append(built, v)
    BY <1>2 DEF Grow
  <2> DEFINE S == {built[i] : i \in DOMAIN built}
  <2>2. built \in Seq(S \cup {v})
    <3>1. built \in Seq(S) /\ S \subseteq S \cup {v}
      BY DEF Chain
    <3>2. QED
      BY <3>1, SeqMonotonic
  <2>3. /\ built' \in Seq(S \cup {v}) /\ Len(built') = n + 1 /\ DOMAIN built' = 1 .. n + 1
        /\ DOMAIN built = 1 .. n
        /\ built'[n + 1] = v /\ \A i \in 1 .. n : built'[i] = built[i]
    <3> HIDE DEF S
    <3>1. Len(built') = n + 1 /\ built' \in Seq(S \cup {v})
      BY <1>0, <2>1, <2>2, AppendProperties
    <3>2. DOMAIN built' = 1 .. n + 1
      BY <3>1, LenProperties, <1>0
    <3>3. DOMAIN built = 1 .. n
      BY <1>0 DEF Chain
    <3>4. built'[n + 1] = v
      BY <1>0, <2>1, <2>2, AppendProperties
    <3>5. \A i \in 1 .. n : built'[i] = built[i]
      BY <1>0, <2>1, <2>2, AppendProperties
    <3>6. QED
      BY <3>1, <3>2, <3>3, <3>4, <3>5
  <2>4. {built'[i] : i \in DOMAIN built'} = S \cup {v}
    BY <1>0, <2>3
  <2>5. \A k \in 0 .. n : Upto(k)' = Upto(k)
    BY <1>0, <2>3 DEF Upto
  <2>6. \A i \in 1 .. n : built'[i] \in Smallest \/ Made(built'[i], Upto(i - 1)')
    <3>1. \A i \in 1 .. n : built[i] \in Smallest \/ Made(built[i], Upto(i - 1))
      BY <1>0 DEF Chain
    <3>2. \A i \in 1 .. n : i - 1 \in 0 .. n
      BY <1>0
    <3>3. QED
      BY <2>3, <2>5, <3>1, <3>2
  <2>7. Made(built'[n + 1], Upto(n)')
    <3>1. Data \in Upto(n) /\ Leaves \subseteq Upto(n)
      BY <1>0, <2>3 DEF Data, Upto, Smallest
    <3>2. Made(v, Upto(n))
      BY <3>1, WrapMade
    <3>3. QED
      BY <1>0, <3>2, <2>3, <2>5
  <2>8. \A i \in 1 .. n + 1 : built'[i] \in Smallest \/ Made(built'[i], Upto(i - 1)')
    <3>1. \A i \in 1 .. n + 1 : i \in 1 .. n \/ i = n + 1
      BY <1>0
    <3>2. (n + 1) - 1 = n
      BY <1>0
    <3>3. QED
      BY <2>6, <2>7, <3>1, <3>2
  <2>9. QED
    BY <1>0, <2>3, <2>4, <2>8 DEF Chain
<1>3. QED
  BY <1>1, <1>2

LEMMA ChainAlways == GrowSpec => []Chain
  BY ChainInit, ChainStep, PTL DEF GrowSpec

-----------------------------------------------------------------------------
(***************************************************************************)
(* The recursion of hideOrOmitDeep ends: there is a copy of every value.   *)
(***************************************************************************)
Copies(f, isDelete, S) == f = [v \in S |-> Copied(v, isDelete, f)]

LEMMA Kinds ==
    /\ \A f : /\ Object(f).kind = "object" /\ Object(f).of = f /\ DOMAIN Object(f) = {"kind", "of"}
              /\ Array(f).kind = "array" /\ Array(f).of = f /\ DOMAIN Array(f) = {"kind", "of"}
    /\ \A v \in Leaves \cup {Mask, Missing} : "of" \notin DOMAIN v
    /\ Text.kind = "text" /\ Null.kind = "null" /\ Date.kind = "date" /\ Mask.kind = "mask"
    /\ Missing.kind = "missing"
  BY DEF Object, Array, Leaves, Text, Null, Date, Mask, Missing

LEMMA MadeOfMore ==
    ASSUME NEW v, NEW S, NEW T, S \subseteq T, Made(v, S)
    PROVE  Made(v, T)
  BY DEF Made

\* A copy depends on the copies of what is in the value, and null has none.
LEMMA CopiedOfParts ==
    ASSUME NEW S, \A x \in S : x \in Leaves \/ Made(x, S), NEW isDelete,
           NEW f, NEW g, \A x \in S \ {Null} : f[x] = g[x],
           NEW v, v \in {Text, Date} \/ Made(v, S)
    PROVE  Copied(v, isDelete, f) = Copied(v, isDelete, g)
<1>1. ASSUME NEW x \in S PROVE Item(x, f) = Item(x, g)
  <2>1. x = Null => IsPrimitive(x)
    BY Kinds DEF IsPrimitive
  <2>2. QED
    BY <2>1 DEF Item
<1>2. ASSUME NEW x, Made(x, S), x.kind = "array" PROVE Items(x, f) = Items(x, g)
  <2>1. PICK h : x.of = h /\ \A k \in DOMAIN h : h[k] \in S
    BY <1>2, Kinds DEF Made
  <2>2. \A k \in DOMAIN h : Item(h[k], f) = Item(h[k], g)
    BY <1>1, <2>1
  <2>3. QED
    BY <2>1, <2>2 DEF Items
<1>3. ASSUME NEW x \in S PROVE Field(x, f) = Field(x, g)
  <2>1. CASE x.kind = "array"
    <3>1. Made(x, S)
      BY <2>1, Kinds DEF Leaves
    <3>2. Items(x, f) = Items(x, g)
      BY <1>2, <2>1, <3>1
    <3>3. QED
      BY <2>1, <3>2 DEF Field
  <2>2. CASE x.kind = "object"
    <3>1. x # Null
      BY <2>2, Kinds
    <3>2. QED
      BY <2>2, <3>1 DEF Field
  <2>3. CASE x.kind \notin {"array", "object"}
    BY <2>3 DEF Field
  <2>4. QED
    BY <2>1, <2>2, <2>3
<1>4. CASE v = Text
  <2>1. FieldsOf(v) = [k \in {"0"} |-> Text] /\ v.kind # "array"
    BY <1>4, Kinds DEF FieldsOf
  <2>2. Field(Text, f) = Field(Text, g)
    BY Kinds DEF Field
  <2>3. QED
    BY <2>1, <2>2 DEF Copied
<1>5. CASE v = Date
  <2>1. FieldsOf(v) = NoFields /\ v.kind # "array"
    BY <1>5, Kinds DEF FieldsOf
  <2>2. DOMAIN FieldsOf(v) = {}
    BY <2>1 DEF NoFields
  <2>3. QED
    BY <2>1, <2>2 DEF Copied
<1>6. CASE Made(v, S) /\ v.kind = "array"
  <2>1. Items(v, f) = Items(v, g)
    BY <1>2, <1>6
  <2>2. QED
    BY <1>6, <2>1 DEF Copied
<1>7. CASE Made(v, S) /\ v.kind = "object"
  <2>1. PICK h : v.of = h /\ \A k \in DOMAIN h : h[k] \in S
    BY <1>7, Kinds DEF Made
  <2>2. FieldsOf(v) = h
    BY <1>7, <2>1 DEF FieldsOf
  <2>3. \A k \in DOMAIN h : Field(h[k], f) = Field(h[k], g)
    BY <1>3, <2>1
  <2>4. QED
    BY <1>7, <2>2, <2>3 DEF Copied
<1>8. QED
  BY <1>4, <1>5, <1>6, <1>7, Kinds DEF Made

LEMMA CopiedOfSmallest ==
    ASSUME NEW v \in Smallest \ {Null}, NEW isDelete, NEW f, NEW g
    PROVE  Copied(v, isDelete, f) = Copied(v, isDelete, g)
<1>0. PICK S : S = {}
  OBVIOUS
<1>1. \A x \in S : x \in Leaves \/ Made(x, S)
  BY <1>0
<1>2. \A x \in S \ {Null} : f[x] = g[x]
  BY <1>0
<1>3. v \in {Text, Date} \/ Made(v, S)
  BY SmallestMade DEF Leaves
<1>4. QED
  BY <1>1, <1>2, <1>3, CopiedOfParts

LEMMA UptoMade ==
    ASSUME Chain, NEW k \in 0 .. Len(built)
    PROVE  /\ \A x \in Upto(k) : x \in Leaves \/ Made(x, Upto(k))
           /\ k < Len(built) =>
                Upto(k + 1) = Upto(k) \cup {built[k + 1]}
                  /\ (built[k + 1] \in Upto(k) \/ Made(built[k + 1], Upto(k)))
<1> PICK n \in Nat \ {0} : n = Len(built)
  BY DEF Chain
<1>1. ASSUME NEW i \in 1 .. k PROVE built[i] \in Smallest \/ Made(built[i], Upto(k))
  <2>1. i \in 1 .. n
    OBVIOUS
  <2>2. Upto(i - 1) \subseteq Upto(k)
    BY DEF Upto
  <2>3. built[i] \in Smallest \/ Made(built[i], Upto(i - 1))
    BY <2>1 DEF Chain
  <2>4. QED
    BY <2>2, <2>3, MadeOfMore
<1>2. \A x \in Upto(k) : x \in Smallest \/ Made(x, Upto(k))
  BY <1>1 DEF Upto
<1>3. \A x \in Upto(k) : x \in Leaves \/ Made(x, Upto(k))
  BY <1>2, SmallestMade
<1>4. ASSUME k < Len(built)
      PROVE  Upto(k + 1) = Upto(k) \cup {built[k + 1]}
               /\ (built[k + 1] \in Upto(k) \/ Made(built[k + 1], Upto(k)))
  <2>1. k + 1 \in 1 .. n /\ (k + 1) - 1 = k /\ 1 .. k + 1 = (1 .. k) \cup {k + 1}
    BY <1>4
  <2>2. Upto(k + 1) = Upto(k) \cup {built[k + 1]}
    BY <2>1 DEF Upto
  <2>3. built[k + 1] \in Smallest \/ Made(built[k + 1], Upto(k))
    BY <2>1 DEF Chain
  <2>4. Smallest \subseteq Upto(k)
    BY DEF Upto
  <2>5. QED
    BY <2>2, <2>3, <2>4
<1>5. QED
  BY <1>3, <1>4

\* The copies of some values and of one that is made of them.
LEMMA OneMoreCopy ==
    ASSUME NEW S, \A x \in S : x \in Leaves \/ Made(x, S), NEW isDelete, NEW f,
           Copies(f, isDelete, S \ {Null}), NEW v, v \in S \/ Made(v, S)
    PROVE  \E g : Copies(g, isDelete, (S \cup {v}) \ {Null})
<1> DEFINE T == (S \cup {v}) \ {Null}
<1> DEFINE g == [x \in T |-> IF x \in S THEN f[x] ELSE Copied(x, isDelete, f)]
<1>1. \A x \in S \ {Null} : f[x] = g[x]
  OBVIOUS
<1>2. ASSUME NEW x \in T PROVE g[x] = Copied(x, isDelete, g)
  <2>1. x \in {Text, Date} \/ Made(x, S)
    BY DEF Leaves
  <2> HIDE DEF g
  <2>2. Copied(x, isDelete, f) = Copied(x, isDelete, g)
    BY <1>1, <2>1, CopiedOfParts
  <2>3. g[x] = Copied(x, isDelete, f)
    BY DEF g, Copies
  <2>4. QED
    BY <2>2, <2>3
<1>3. g = [x \in T |-> g[x]]
  OBVIOUS
<1>4. g = [x \in T |-> Copied(x, isDelete, g)]
  <2> HIDE DEF g
  <2>1. QED
    BY <1>2, <1>3
<1>5. QED
  BY <1>4 DEF Copies

LEMMA CopiesExist ==
    ASSUME Chain, NEW isDelete
    PROVE  \E f : Copies(f, isDelete, Parts \ {Null})
<1> PICK n \in Nat \ {0} : n = Len(built)
  BY DEF Chain
<1> DEFINE S == {k \in Nat : \E f : Copies(f, isDelete, Upto(k) \ {Null})}
<1>1. 0 \in S
  <2> DEFINE f == [x \in Smallest \ {Null} |-> Copied(x, isDelete, NoFields)]
  <2>1. Upto(0) = Smallest
    BY DEF Upto
  <2>2. ASSUME NEW x \in Smallest \ {Null} PROVE f[x] = Copied(x, isDelete, f)
    <3>1. f[x] = Copied(x, isDelete, NoFields)
      OBVIOUS
    <3> HIDE DEF f
    <3>2. Copied(x, isDelete, f) = Copied(x, isDelete, NoFields)
      BY CopiedOfSmallest
    <3>3. QED
      BY <3>1, <3>2
  <2>3. f = [x \in Smallest \ {Null} |-> f[x]]
    OBVIOUS
  <2>4. Copies(f, isDelete, Smallest \ {Null})
    <3> HIDE DEF f
    <3>1. QED
      BY <2>2, <2>3 DEF Copies
  <2>5. QED
    BY <2>1, <2>4
<1>2. ASSUME NEW k \in 0 .. n - 1, k \in S PROVE k + 1 \in S
  <2>1. PICK f : Copies(f, isDelete, Upto(k) \ {Null})
    BY <1>2
  <2>2. k \in 0 .. Len(built) /\ k < Len(built)
    OBVIOUS
  <2>3. \E g : Copies(g, isDelete, Upto(k + 1) \ {Null})
    BY <2>1, <2>2, UptoMade, OneMoreCopy
  <2>4. QED
    BY <2>3
<1> HIDE DEF S
<1>3. n \in S
  BY <1>1, <1>2, ByInduction
<1>4. Upto(n) = Parts
  BY DEF Upto, Parts, Chain
<1>5. QED
  BY <1>3, <1>4 DEF S

\* hideOrOmitDeep does what its body says, of every value but null.
LEMMA CopyIs ==
    ASSUME Chain, NEW isDelete
    PROVE  \E copy : /\ \A v \in Parts \ {Null} : copy[v] = Copied(v, isDelete, copy)
                     /\ \A v : HideOrOmitDeep(v, isDelete) = copy[v]
<1> DEFINE copy == CHOOSE f : f = [v \in Parts \ {Null} |-> Copied(v, isDelete, f)]
<1>1. copy = [v \in Parts \ {Null} |-> Copied(v, isDelete, copy)]
  BY CopiesExist DEF Copies
<1>2. \A v : HideOrOmitDeep(v, isDelete) = copy[v]
  BY DEF HideOrOmitDeep
<1> HIDE DEF copy
<1>3. \A v \in Parts \ {Null} : copy[v] = Copied(v, isDelete, copy)
  BY <1>1
<1>4. QED
  BY <1>2, <1>3

-----------------------------------------------------------------------------
(***************************************************************************)
(* What is at a key of a copy.                                             *)
(***************************************************************************)
\* What hideOrOmitDeep has for its copies.
AreCopies(copy, isDelete) == \A v \in Parts \ {Null} : copy[v] = Copied(v, isDelete, copy)

LEMMA PartsMade ==
    ASSUME Chain
    PROVE  /\ \A x \in Parts : x \in Leaves \/ Made(x, Parts)
           /\ Data \in Parts /\ Missing \notin Parts
<1> PICK n \in Nat \ {0} : n = Len(built)
  BY DEF Chain
<1>1. Upto(n) = Parts
  BY DEF Upto, Parts, Chain
<1>2. \A x \in Upto(n) : x \in Leaves \/ Made(x, Upto(n))
  BY UptoMade
<1>3. Data \in Parts
  BY DEF Data, Parts, Chain
<1>4. \A x \in Parts : x \in Leaves \/ Made(x, Parts)
  BY <1>1, <1>2
<1>5. ASSUME NEW x \in Parts PROVE x # Missing
  <2>1. x.kind \in {"text", "null", "date", "object", "array"}
    BY <1>4, Kinds DEF Made, Leaves
  <2>2. QED
    BY <2>1, Kinds
<1>6. QED
  BY <1>3, <1>4, <1>5

LEMMA CopiesInCopies ==
    ASSUME Chain, NEW isDelete, NEW copy, AreCopies(copy, isDelete), NEW x \in Parts
    PROVE  /\ Field(x, copy) = IF x \in Leaves THEN x ELSE copy[x]
           /\ Item(x, copy) = IF x \in {Text, Null} THEN x ELSE copy[x]
<1>1. CASE x \in Leaves
  BY <1>1, Kinds DEF Field, Item, IsPrimitive, Leaves
<1>2. CASE x \notin Leaves /\ x.kind = "array"
  <2>1. x # Null /\ copy[x] = Items(x, copy)
    BY <1>2, Kinds DEF AreCopies, Copied, Leaves
  <2>2. QED
    BY <1>2, <2>1 DEF Field, Item, IsPrimitive, Leaves
<1>3. CASE x \notin Leaves /\ x.kind = "object"
  BY <1>3 DEF Field, Item, IsPrimitive, Leaves
<1>4. QED
  BY <1>1, <1>2, <1>3, PartsMade, Kinds DEF Made

LEMMA CopyOfArray ==
    ASSUME NEW isDelete, NEW copy, AreCopies(copy, isDelete), NEW h, Array(h) \in Parts
    PROVE  /\ copy[Array(h)].kind = "array" /\ "of" \in DOMAIN copy[Array(h)]
           /\ DOMAIN copy[Array(h)].of = DOMAIN h
           /\ \A k \in DOMAIN h : copy[Array(h)].of[k] = Item(h[k], copy)
<1>0. PICK v : v = Array(h)
  OBVIOUS
<1>1. v # Null /\ v.kind = "array" /\ v \in Parts
  BY <1>0, Kinds
<1>2. copy[Array(h)] = Items(Array(h), copy)
  BY <1>0, <1>1 DEF AreCopies, Copied
<1>3. copy[Array(h)] = Array([i \in DOMAIN h |-> Item(h[i], copy)])
  BY <1>2, Kinds DEF Items
<1>4. QED
  BY <1>3, Kinds

LEMMA CopyOfObject ==
    ASSUME NEW isDelete, NEW copy, AreCopies(copy, isDelete), NEW h, Object(h) \in Parts
    PROVE  /\ copy[Object(h)].kind = "object" /\ "of" \in DOMAIN copy[Object(h)]
           /\ DOMAIN copy[Object(h)].of = DOMAIN h \ (IF isDelete THEN Listed ELSE {})
           /\ \A k \in DOMAIN copy[Object(h)].of :
                 copy[Object(h)].of[k] = IF k \in Listed THEN Mask ELSE Field(h[k], copy)
<1> DEFINE kept == IF isDelete THEN DOMAIN h \ Listed ELSE DOMAIN h
<1>0. PICK v : v = Object(h)
  OBVIOUS
<1>1. v # Null /\ v.kind = "object" /\ v.of = h /\ v \in Parts
  BY <1>0, Kinds
<1>2. FieldsOf(v) = h
  BY <1>1 DEF FieldsOf
<1>3. copy[Object(h)] = Object([k \in kept |-> IF k \in Listed THEN Mask ELSE Field(h[k], copy)])
  <2>1. copy[v] = Copied(v, isDelete, copy)
    BY <1>1 DEF AreCopies
  <2>2. Copied(v, isDelete, copy) =
          Object([k \in kept |-> IF k \in Listed THEN Mask ELSE Field(h[k], copy)])
    BY <1>1, <1>2 DEF Copied
  <2>3. QED
    BY <1>0, <2>1, <2>2
<1>4. QED
  BY <1>3, Kinds

LEMMA CopyOfLeaf ==
    ASSUME NEW isDelete, NEW copy, AreCopies(copy, isDelete)
    PROVE  /\ copy[Date] = Object(NoFields)
           /\ \E f : /\ copy[Text] = Object(f) /\ DOMAIN f \subseteq {"0"}
                     /\ \A k \in DOMAIN f \ Listed : f[k] = Text
<1>1. Text \in Parts \ {Null} /\ Date \in Parts \ {Null}
  BY Kinds DEF Parts, Smallest, Leaves
<1>2. copy[Date] = Object(NoFields)
  <2>1. FieldsOf(Date) = NoFields
    BY Kinds DEF FieldsOf
  <2>2. DOMAIN NoFields = {} /\ DOMAIN NoFields \ Listed = {}
    BY DEF NoFields
  <2>3. Copied(Date, isDelete, copy) =
          Object([k \in {} |-> IF k \in Listed THEN Mask ELSE Field(NoFields[k], copy)])
    BY <2>1, <2>2, Kinds DEF Copied
  <2>4. [k \in {} |-> IF k \in Listed THEN Mask ELSE Field(NoFields[k], copy)] = NoFields
    BY DEF NoFields
  <2>5. QED
    BY <1>1, <2>3, <2>4 DEF AreCopies
<1>3. FieldsOf(Text) = [k \in {"0"} |-> Text]
  BY Kinds DEF FieldsOf
<1>4. Field(Text, copy) = Text
  BY Kinds DEF Field
<1> DEFINE f == [k \in IF isDelete THEN {"0"} \ Listed ELSE {"0"} |->
                    IF k \in Listed THEN Mask ELSE Text]
<1>5. copy[Text] = Object(f)
  <2>1. copy[Text] = Copied(Text, isDelete, copy)
    BY <1>1 DEF AreCopies
  <2>2. PICK fields : fields = FieldsOf(Text)
    OBVIOUS
  <2>3. DOMAIN fields = {"0"} /\ \A k \in DOMAIN fields : Field(fields[k], copy) = Text
    BY <1>3, <1>4, <2>2
  <2>4. Copied(Text, isDelete, copy) =
          Object([k \in IF isDelete THEN DOMAIN fields \ Listed ELSE DOMAIN fields |->
                     IF k \in Listed THEN Mask ELSE Field(fields[k], copy)])
    BY <2>2, Kinds DEF Copied
  <2>5. QED
    BY <2>1, <2>3, <2>4
<1>6. DOMAIN f \subseteq {"0"} /\ \A k \in DOMAIN f \ Listed : f[k] = Text
  OBVIOUS
<1>7. QED
  BY <1>2, <1>5, <1>6

-----------------------------------------------------------------------------
(***************************************************************************)
(* Paths.                                                                  *)
(***************************************************************************)
Follows(at, value, path, n) ==
    at = [k \in 0 .. n |-> IF k = 0 THEN value ELSE Child(at[k - 1], path[k])]

LEMMA FollowsExists ==
    ASSUME NEW value, NEW path, NEW n \in Nat
    PROVE  \E at : Follows(at, value, path, n)
<1> DEFINE S == {k \in Nat : \E at : Follows(at, value, path, k)}
<1>1. 0 \in S
  <2> DEFINE at == [k \in 0 .. 0 |-> value]
  <2>1. Follows(at, value, path, 0)
    BY DEF Follows
  <2>2. QED
    BY <2>1
<1>2. ASSUME NEW k \in 0 .. n - 1, k \in S PROVE k + 1 \in S
  <2>1. PICK at : Follows(at, value, path, k)
    BY <1>2
  <2> DEFINE next == [i \in 0 .. k + 1 |->
                        IF i = k + 1 THEN Child(at[k], path[k + 1]) ELSE at[i]]
  <2>2. ASSUME NEW i \in 0 .. k + 1
        PROVE  next[i] = IF i = 0 THEN value ELSE Child(next[i - 1], path[i])
    <3>1. CASE i = k + 1
      <4>1. next[i] = Child(at[k], path[k + 1]) /\ next[i - 1] = at[k] /\ i # 0
        BY <3>1
      <4>2. QED
        BY <3>1, <4>1
    <3>2. CASE i # k + 1
      <4>1. i \in 0 .. k /\ next[i] = at[i] /\ (i # 0 => next[i - 1] = at[i - 1])
        BY <3>2
      <4>2. QED
        BY <2>1, <4>1 DEF Follows
    <3>3. QED
      BY <3>1, <3>2
  <2>3. next = [i \in 0 .. k + 1 |-> next[i]]
    OBVIOUS
  <2>4. Follows(next, value, path, k + 1)
    <3> HIDE DEF next
    <3>1. QED
      BY <2>2, <2>3 DEF Follows
  <2>5. QED
    BY <2>4
<1> HIDE DEF S
<1>3. n \in S
  BY <1>1, <1>2, ByInduction
<1>4. QED
  BY <1>3 DEF S

\* Along goes from each value on the path to its child.
LEMMA AlongIs ==
    ASSUME NEW value, NEW path, Len(path) \in Nat
    PROVE  /\ Along(value, path)[0] = value
           /\ \A n \in 1 .. Len(path) :
                 Along(value, path)[n] = Child(Along(value, path)[n - 1], path[n])
<1> DEFINE at == CHOOSE at : Follows(at, value, path, Len(path))
<1>1. Follows(at, value, path, Len(path))
  BY FollowsExists
<1>2. Along(value, path) = at
  BY DEF Along, Follows
<1> HIDE DEF at
<1>3. at[0] = value /\ \A n \in 1 .. Len(path) : at[n] = Child(at[n - 1], path[n])
  BY <1>1 DEF Follows
<1>4. QED
  BY <1>2, <1>3

LEMMA ChildOf ==
    /\ \A k : /\ \A v \in Leaves \cup {Mask, Missing, Object(NoFields)} : Child(v, k) = Missing
    /\ \A h, k : /\ Child(Object(h), k) = IF k \in DOMAIN h THEN h[k] ELSE Missing
                 /\ Child(Array(h), k) = IF k \in DOMAIN h THEN h[k] ELSE Missing
<1>1. \A h, k : /\ Child(Object(h), k) = IF k \in DOMAIN h THEN h[k] ELSE Missing
                /\ Child(Array(h), k) = IF k \in DOMAIN h THEN h[k] ELSE Missing
  BY Kinds DEF Child
<1>2. DOMAIN NoFields = {}
  BY DEF NoFields
<1>3. QED
  BY <1>1, <1>2, Kinds DEF Child

-----------------------------------------------------------------------------
(***************************************************************************)
(* Along a path: what is listed is hidden.                                 *)
(***************************************************************************)
\* What may be in a copy where no listed key leads to, and below one.
Clear(found, copy) ==
    found \in {Missing, Text, Null, Date} \cup {copy[v] : v \in Parts \ {Null}}

Hidden(found, isDelete) == found = Missing \/ (~isDelete /\ found = Mask)

LEMMA HiddenStep ==
    ASSUME Chain, NEW isDelete, NEW copy, AreCopies(copy, isDelete), NEW found, NEW k,
           Clear(found, copy)
    PROVE  IF k \in Listed THEN Hidden(Child(found, k), isDelete)
                           ELSE Clear(Child(found, k), copy)
<1> DEFINE child == Child(found, k)
<1>1. k \in Listed => k \in Keys /\ k \notin Indexes
  BY ListedAssumption, KeysAssumption
<1>2. CASE found \in {Missing, Text, Null, Date}
  <2>1. child = Missing
    BY <1>2, ChildOf DEF Leaves
  <2>2. QED
    BY <2>1 DEF Hidden, Clear
<1>3. CASE found = copy[Date]
  <2>1. child = Missing
    BY <1>3, CopyOfLeaf, ChildOf
  <2>2. QED
    BY <2>1 DEF Hidden, Clear
<1>4. CASE found = copy[Text]
  <2>1. PICK f : /\ found = Object(f) /\ DOMAIN f \subseteq {"0"}
                 /\ \A i \in DOMAIN f \ Listed : f[i] = Text
    BY <1>4, CopyOfLeaf
  <2>2. child = IF k \in DOMAIN f THEN f[k] ELSE Missing
    BY <2>1, ChildOf
  <2>3. k \in Listed => k \notin DOMAIN f
    BY <1>1, <2>1 DEF Indexes
  <2>4. QED
    BY <2>1, <2>2, <2>3 DEF Hidden, Clear
<1>5. ASSUME NEW h, Array(h) \in Parts, found = copy[Array(h)], DOMAIN h \subseteq Indexes,
             \A i \in DOMAIN h : h[i] \in Parts
      PROVE  IF k \in Listed THEN Hidden(child, isDelete) ELSE Clear(child, copy)
  <2>1. child = IF k \in DOMAIN h THEN Item(h[k], copy) ELSE Missing
    <3>1. /\ "of" \in DOMAIN found /\ DOMAIN found.of = DOMAIN h
          /\ \A i \in DOMAIN h : found.of[i] = Item(h[i], copy)
      BY <1>5, CopyOfArray
    <3>2. QED
      BY <3>1 DEF Child
  <2>2. CASE k \in DOMAIN h
    <3>1. Item(h[k], copy) = IF h[k] \in {Text, Null} THEN h[k] ELSE copy[h[k]]
      BY <1>5, <2>2, CopiesInCopies
    <3>2. Clear(child, copy)
      BY <1>5, <2>1, <2>2, <3>1 DEF Clear
    <3>3. QED
      BY <1>1, <1>5, <2>2, <3>2
  <2>3. CASE k \notin DOMAIN h
    BY <2>1, <2>3 DEF Hidden, Clear
  <2>4. QED
    BY <2>2, <2>3
<1>6. ASSUME NEW h, Object(h) \in Parts, found = copy[Object(h)],
             \A i \in DOMAIN h : h[i] \in Parts
      PROVE  IF k \in Listed THEN Hidden(child, isDelete) ELSE Clear(child, copy)
  <2>1. /\ "of" \in DOMAIN found
        /\ DOMAIN found.of = DOMAIN h \ (IF isDelete THEN Listed ELSE {})
        /\ \A i \in DOMAIN found.of :
              found.of[i] = IF i \in Listed THEN Mask ELSE Field(h[i], copy)
    BY <1>6, CopyOfObject
  <2>2. child = IF k \notin DOMAIN found.of THEN Missing
                ELSE IF k \in Listed THEN Mask ELSE Field(h[k], copy)
    BY <2>1 DEF Child
  <2>3. k \in DOMAIN found.of => k \in DOMAIN h /\ (k \in Listed => ~isDelete)
    BY <2>1
  <2>4. CASE k \notin DOMAIN found.of \/ k \in Listed
    BY <2>2, <2>3, <2>4 DEF Hidden, Clear
  <2>5. CASE k \in DOMAIN found.of /\ k \notin Listed
    <3>1. Field(h[k], copy) = IF h[k] \in Leaves THEN h[k] ELSE copy[h[k]]
      BY <1>6, <2>3, <2>5, CopiesInCopies
    <3>2. QED
      BY <1>6, <2>2, <2>3, <2>5, <3>1 DEF Clear, Leaves
  <2>6. QED
    BY <2>4, <2>5
<1>7. CASE \E v \in Parts \ {Null} : found = copy[v]
  <2>1. PICK v \in Parts \ {Null} : found = copy[v]
    BY <1>7
  <2>2. v \in {Text, Date} \/ Made(v, Parts)
    BY <2>1, PartsMade DEF Leaves
  <2>3. CASE Made(v, Parts)
    <3>1. PICK h : /\ \/ v = Object(h)
                      \/ v = Array(h) /\ DOMAIN h \subseteq Indexes
                   /\ \A i \in DOMAIN h : h[i] \in Parts
      BY <2>3 DEF Made
    <3>2. QED
      BY <1>5, <1>6, <2>1, <3>1
  <2>4. QED
    BY <1>3, <1>4, <2>1, <2>2, <2>3
<1>8. QED
  BY <1>2, <1>7 DEF Clear

LEMMA HiddenAlong ==
    ASSUME Chain, NEW isDelete \in BOOLEAN, NEW copy, AreCopies(copy, isDelete),
           NEW value, Clear(value, copy), NEW path, Len(path) \in Nat,
           NEW i \in 1 .. Len(path), path[i] \in Listed
    PROVE  Hidden(Along(value, path)[Len(path)], isDelete)
<1> PICK at : at = Along(value, path)
  OBVIOUS
<1> PICK n \in Nat : n = Len(path)
  OBVIOUS
<1> DEFINE S == {k \in 0 .. n : IF \E j \in 1 .. k : path[j] \in Listed
                                  THEN Hidden(at[k], isDelete) ELSE Clear(at[k], copy)}
<1>1. at[0] = value /\ \A k \in 1 .. n : at[k] = Child(at[k - 1], path[k])
  BY AlongIs
<1>2. 0 \in S
  BY <1>1
<1>3. ASSUME NEW k \in 0 .. n - 1, k \in S PROVE k + 1 \in S
  <2>1. k + 1 \in 1 .. n /\ at[k + 1] = Child(at[k], path[k + 1])
    BY <1>1
  <2>2. CASE \E j \in 1 .. k : path[j] \in Listed
    <3>1. Hidden(at[k], isDelete)
      BY <1>3, <2>2
    <3>2. at[k + 1] = Missing
      BY <2>1, <3>1, ChildOf DEF Hidden
    <3>3. QED
      BY <2>1, <2>2, <3>2 DEF Hidden
  <2>3. CASE ~ \E j \in 1 .. k : path[j] \in Listed
    <3>1. Clear(at[k], copy)
      BY <1>3, <2>3
    <3>2. IF path[k + 1] \in Listed THEN Hidden(at[k + 1], isDelete)
                                    ELSE Clear(at[k + 1], copy)
      BY <2>1, <3>1, HiddenStep
    <3>3. (\E j \in 1 .. k + 1 : path[j] \in Listed) <=> path[k + 1] \in Listed
      BY <2>3
    <3>4. QED
      BY <2>1, <3>2, <3>3
  <2>4. QED
    BY <2>2, <2>3
<1> HIDE DEF S
<1>4. n \in S
  BY <1>2, <1>3, ByInduction
<1>5. QED
  BY <1>4 DEF S

LEMMA PathFacts ==
    ASSUME NEW path \in Paths
    PROVE  Len(path) \in Nat /\ DOMAIN path = 1 .. Len(path)
<1>1. PICK n \in 0 .. MaxDepth : path \in [1 .. n -> Keys \cup Indexes]
  BY DEF Paths
<1>2. n \in Nat
  BY DepthAssumption
<1>3. path \in Seq(Keys \cup Indexes)
  BY <1>1, <1>2, SeqDef
<1>4. QED
  BY <1>3, LenProperties

\* No listed field at any depth of what is logged or returned.
THEOREM ListedIsHidden == GrowSpec => []ListedHidden
<1>1. Chain => ListedHidden
  <2> SUFFICES ASSUME Chain, Data # Null, NEW isDelete \in BOOLEAN, NEW path \in Paths,
                      Names(path) \cap Listed # {}
               PROVE  LET found == Along(HideOrOmitDeep(Data, isDelete), path)[Len(path)]
                      IN  found # Missing => ~isDelete /\ found = Mask
    BY DEF ListedHidden
  <2>1. PICK copy : AreCopies(copy, isDelete) /\ HideOrOmitDeep(Data, isDelete) = copy[Data]
    BY CopyIs DEF AreCopies
  <2>2. Clear(copy[Data], copy)
    BY PartsMade DEF Clear
  <2>3. PICK i \in 1 .. Len(path) : path[i] \in Listed
    BY PathFacts DEF Names
  <2>4. Hidden(Along(copy[Data], path)[Len(path)], isDelete)
    BY <2>1, <2>2, <2>3, PathFacts, HiddenAlong
  <2>5. QED
    BY <2>1, <2>4 DEF Hidden
<1>2. QED
  BY <1>1, ChainAlways, PTL

-----------------------------------------------------------------------------
(***************************************************************************)
(* Along a path: everything else is kept.                                  *)
(***************************************************************************)
Related(given, found, inArray, copy) ==
    IF given \in {Missing, Text, Null} THEN found = given
    ELSE /\ given \in Parts
         /\ found = IF given = Date /\ ~inArray THEN given ELSE copy[given]

LEMMA RelatedStep ==
    ASSUME Chain, NEW isDelete, NEW copy, AreCopies(copy, isDelete),
           NEW given, NEW found, NEW inArray, NEW k, k \notin Listed,
           Related(given, found, inArray, copy)
    PROVE  Related(Child(given, k), Child(found, k), given.kind = "array", copy)
<1>1. CASE given \in {Missing, Text, Null, Date}
  <2>1. found \in {Missing, Text, Null, Date, Object(NoFields)}
    BY <1>1, CopyOfLeaf DEF Related
  <2>2. Child(given, k) = Missing /\ Child(found, k) = Missing
    BY <1>1, <2>1, ChildOf DEF Leaves
  <2>3. QED
    BY <2>2 DEF Related
<1>2. CASE given \notin {Missing, Text, Null, Date}
  <2>1. given \in Parts /\ found = copy[given] /\ Made(given, Parts)
    BY <1>2, PartsMade DEF Related, Leaves
  <2>2. PICK h : (given = Object(h) \/ given = Array(h)) /\ \A i \in DOMAIN h : h[i] \in Parts
    BY <2>1 DEF Made
  <2>3. CASE given = Array(h)
    <3>1. /\ "of" \in DOMAIN found /\ DOMAIN found.of = DOMAIN h
          /\ \A i \in DOMAIN h : found.of[i] = Item(h[i], copy)
      BY <2>1, <2>3, CopyOfArray
    <3>2. Child(given, k) = IF k \in DOMAIN h THEN h[k] ELSE Missing
      BY <2>3, ChildOf
    <3>3. Child(found, k) = IF k \in DOMAIN h THEN Item(h[k], copy) ELSE Missing
      BY <3>1 DEF Child
    <3>4. k \in DOMAIN h =>
            Item(h[k], copy) = IF h[k] \in {Text, Null} THEN h[k] ELSE copy[h[k]]
      BY <2>2, CopiesInCopies
    <3>5. given.kind = "array" /\ Missing \notin Parts
      BY <2>3, Kinds, PartsMade
    <3>6. QED
      BY <2>2, <3>2, <3>3, <3>4, <3>5 DEF Related
  <2>4. CASE given = Object(h)
    <3>1. /\ "of" \in DOMAIN found
          /\ DOMAIN found.of = DOMAIN h \ (IF isDelete THEN Listed ELSE {})
          /\ \A i \in DOMAIN found.of :
                found.of[i] = IF i \in Listed THEN Mask ELSE Field(h[i], copy)
      BY <2>1, <2>4, CopyOfObject
    <3>2. Child(given, k) = IF k \in DOMAIN h THEN h[k] ELSE Missing
      BY <2>4, ChildOf
    <3>3. Child(found, k) = IF k \in DOMAIN h THEN Field(h[k], copy) ELSE Missing
      BY <3>1 DEF Child
    <3>4. k \in DOMAIN h =>
            Field(h[k], copy) = IF h[k] \in Leaves THEN h[k] ELSE copy[h[k]]
      BY <2>2, CopiesInCopies
    <3>5. given.kind # "array" /\ Missing \notin Parts
      BY <2>4, Kinds, PartsMade
    <3>6. QED
      BY <2>2, <3>2, <3>3, <3>4, <3>5 DEF Related, Leaves
  <2>5. QED
    BY <2>2, <2>3, <2>4
<1>3. QED
  BY <1>1, <1>2

LEMMA RelatedKept ==
    ASSUME Chain, NEW isDelete, NEW copy, AreCopies(copy, isDelete),
           NEW given, NEW found, NEW inArray, Related(given, found, inArray, copy)
    PROVE  Kept(given, found, inArray, isDelete)
<1>1. CASE given \in {Missing, Text, Null, Date}
  <2>1. "of" \notin DOMAIN given
    BY <1>1, Kinds DEF Leaves
  <2>2. IF given = Date /\ inArray THEN found = Object(NoFields) ELSE found = given
    BY <1>1, Kinds, CopyOfLeaf DEF Related
  <2>3. QED
    BY <2>1, <2>2 DEF Kept
<1>2. CASE given \notin {Missing, Text, Null, Date}
  <2>1. given \in Parts /\ found = copy[given] /\ Made(given, Parts)
    BY <1>2, PartsMade DEF Related, Leaves
  <2>2. PICK h : \/ given = Object(h)
                 \/ given = Array(h) /\ DOMAIN h \subseteq Indexes
    BY <2>1 DEF Made
  <2>3. CASE given = Array(h) /\ DOMAIN h \subseteq Indexes
    <3>1. found.kind = "array" /\ "of" \in DOMAIN found /\ DOMAIN found.of = DOMAIN h
      BY <2>1, <2>3, CopyOfArray
    <3>2. DOMAIN h \ Listed = DOMAIN h
      BY <2>3, ListedAssumption, KeysAssumption
    <3>3. QED
      BY <2>3, <3>1, <3>2, Kinds DEF Kept
  <2>4. CASE given = Object(h)
    <3>1. /\ found.kind = "object" /\ "of" \in DOMAIN found
          /\ DOMAIN found.of = DOMAIN h \ (IF isDelete THEN Listed ELSE {})
      BY <2>1, <2>4, CopyOfObject
    <3>2. QED
      BY <2>4, <3>1, Kinds DEF Kept
  <2>5. QED
    BY <2>2, <2>3, <2>4
<1>3. QED
  BY <1>1, <1>2

\* Everything else is in the copy as it is in the data, and nothing more.
THEOREM OthersAreKept == GrowSpec => []OthersKept
<1>1. Chain => OthersKept
  <2> SUFFICES ASSUME Chain, Data \notin {Null, Text}, NEW isDelete \in BOOLEAN,
                      NEW path \in Paths, Names(path) \cap Listed = {}
               PROVE  LET n == Len(path)
                          given == Along(Data, path)
                          inArray == n = 0 \/ given[n - 1].kind = "array"
                      IN  Kept(given[n], Along(HideOrOmitDeep(Data, isDelete), path)[n],
                               inArray, isDelete)
    BY DEF OthersKept
  <2>1. PICK copy : AreCopies(copy, isDelete) /\ HideOrOmitDeep(Data, isDelete) = copy[Data]
    BY CopyIs DEF AreCopies
  <2>2. PICK n \in Nat : n = Len(path)
    BY PathFacts
  <2>3. PICK given : given = Along(Data, path)
    OBVIOUS
  <2>4. PICK found : found = Along(copy[Data], path)
    OBVIOUS
  <2>5. /\ given[0] = Data /\ \A k \in 1 .. n : given[k] = Child(given[k - 1], path[k])
        /\ found[0] = copy[Data] /\ \A k \in 1 .. n : found[k] = Child(found[k - 1], path[k])
    BY <2>2, <2>3, <2>4, AlongIs
  <2> DEFINE inArray(k) == k = 0 \/ given[k - 1].kind = "array"
  <2> DEFINE S == {k \in 0 .. n : Related(given[k], found[k], inArray(k), copy)}
  <2>6. 0 \in S
    <3>1. Data \in Parts /\ Data # Missing
      BY PartsMade
    <3>2. QED
      BY <2>5, <3>1 DEF Related
  <2>7. ASSUME NEW k \in 0 .. n - 1, k \in S PROVE k + 1 \in S
    <3>1. k + 1 \in 1 .. n /\ k + 1 # 0 /\ (k + 1) - 1 = k
      OBVIOUS
    <3>2. path[k + 1] \notin Listed
      BY <2>2, <3>1, PathFacts DEF Names
    <3>3. Related(given[k], found[k], inArray(k), copy)
      BY <2>7
    <3> HIDE DEF inArray
    <3>4. Related(Child(given[k], path[k + 1]), Child(found[k], path[k + 1]),
                  given[k].kind = "array", copy)
      BY <2>1, <3>2, <3>3, RelatedStep
    <3>5. Related(given[k + 1], found[k + 1], given[k].kind = "array", copy)
      BY <2>5, <3>1, <3>4
    <3>6. inArray(k + 1) <=> given[k].kind = "array"
      BY <3>1 DEF inArray
    <3>7. Related(given[k + 1], found[k + 1], inArray(k + 1), copy)
      BY <3>5, <3>6 DEF Related
    <3>8. QED
      BY <3>1, <3>7
  <2> HIDE DEF S
  <2>8. n \in S
    BY <2>6, <2>7, ByInduction
  <2>9. Related(given[n], found[n], inArray(n), copy)
    BY <2>8 DEF S
  <2>10. Kept(given[n], found[n], inArray(n), isDelete)
    BY <2>1, <2>9, RelatedKept
  <2>11. QED
    BY <2>1, <2>2, <2>3, <2>4, <2>10
<1>2. QED
  BY <1>1, ChainAlways, PTL
=============================================================================
