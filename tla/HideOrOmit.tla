----------------------------- MODULE HideOrOmit -----------------------------
(***************************************************************************)
(* hideOrOmitDeep: a copy of response or request data in which the values  *)
(* of some keys are masked, or the keys left out, for the log and for the  *)
(* users that UserService returns.                                         *)
(*                                                                         *)
(* A value is a primitive (a text or null), a Date, or an object or array  *)
(* of values.  An array has its indexes for keys, as in JavaScript.        *)
(***************************************************************************)
EXTENDS Naturals, Sequences

CONSTANTS
    Keys,           \* names of fields
    Listed,         \* the keys to hide or to omit
    MaxDepth        \* bound: depth of the data

Indexes == {"0", "1"}

ASSUME ListedAssumption == Listed \subseteq Keys
ASSUME KeysAssumption == Keys \cap Indexes = {}
ASSUME DepthAssumption == MaxDepth \in Nat

\* The data of a request or a response, at the end, after the values that it
\* was built from, each of which is in the next one.
VARIABLE built

Data == built[Len(built)]

NoFields == [k \in {} |-> {}]

Text    == [kind |-> "text"]
Null    == [kind |-> "null"]
Date    == [kind |-> "date"]
Mask    == [kind |-> "mask"]     \* '*****'
Missing == [kind |-> "missing"]  \* no value at all
Object(of) == [kind |-> "object", of |-> of]
Array(of)  == [kind |-> "array", of |-> of]

Leaves   == {Text, Null, Date}
Smallest == Leaves \cup {Object(NoFields), Array(NoFields)}
Parts    == Smallest \cup {built[i] : i \in DOMAIN built}

\* value !== Object(value)
IsPrimitive(value) == value.kind \in {"text", "null", "mask"}

\* Object.keys: a Date has none, a text those of its letters (one, here).
FieldsOf(value) ==
    CASE value.kind = "object" -> value.of
      [] value.kind = "date" -> NoFields
      [] value.kind = "text" -> [k \in {"0"} |-> Text]

\* An item of an array, be it in another value or the data itself.
Item(value, copy) == IF IsPrimitive(value) THEN value ELSE copy[value]

Items(array, copy) == Array([i \in DOMAIN array.of |-> Item(array.of[i], copy)])

\* Fault: the arrays in an object are taken over as they are.
Field_SkipsArrays(value, copy) ==
    IF value.kind = "object" THEN copy[value] ELSE value

\* Fault: a Date is an object like any other.
Field_EmptiesDates(value, copy) ==
    IF value.kind = "array" THEN Items(value, copy)
    ELSE IF IsPrimitive(value) THEN value ELSE copy[value]

\* The value of a key that is not listed.
Field(value, copy) ==
    CASE value.kind = "array" -> Items(value, copy)
      [] value.kind = "object" -> copy[value]
      [] OTHER -> value

\* The body of hideOrOmitDeep, given its copies of what is in the value; for
\* null, Object.keys throws a TypeError.
Copied(value, isDelete, copy) ==
    IF value.kind = "array" THEN Items(value, copy)
    ELSE LET fields == FieldsOf(value)
             kept == IF isDelete THEN DOMAIN fields \ Listed ELSE DOMAIN fields
         IN  Object([k \in kept |-> IF k \in Listed THEN Mask ELSE Field(fields[k], copy)])

HideOrOmitDeep(value, isDelete) ==
    LET copy[v \in Parts \ {Null}] == Copied(v, isDelete, copy) IN copy[value]
-----------------------------------------------------------------------------
\* value at key k, alone or beside a leaf at key j.
With(k, value, j, leaf) == [key \in {k, j} |-> IF key = k THEN value ELSE leaf]

\* The data is put into an array or an object.
Wrap(value) ==
    {Array(With(i, value, "0", l)) : i \in Indexes, l \in Leaves}
        \cup {Object(With(k, value, j, l)) : k \in Keys, j \in Keys, l \in Leaves}

DataInit == built \in {<<value>> : value \in Smallest}

Grow ==
    /\ Len(built) <= MaxDepth
    /\ \E value \in Wrap(Data) : built' = Append(built, value)

GrowSpec == DataInit /\ [][Grow]_built
-----------------------------------------------------------------------------
(***************************************************************************)
(* Properties                                                              *)
(***************************************************************************)
Child(value, key) ==
    IF "of" \notin DOMAIN value THEN Missing
    ELSE IF key \in DOMAIN value.of THEN value.of[key] ELSE Missing

\* The values on a path of keys, from value itself to where the path ends.
Along(value, path) ==
    LET at[n \in 0 .. Len(path)] ==
            IF n = 0 THEN value ELSE Child(at[n - 1], path[n])
    IN  at

\* No data is deeper than these.
Paths == UNION {[1 .. n -> Keys \cup Indexes] : n \in 0 .. MaxDepth}

Names(path) == {path[i] : i \in DOMAIN path}

\* At no depth, in arrays of arrays as little as in objects, is there
\* anything under a listed key but the mask; nor the key itself, when it is
\* to be omitted.
ListedHidden ==
    Data # Null => \A isDelete \in BOOLEAN :
        LET copy == HideOrOmitDeep(Data, isDelete)
        IN  \A path \in Paths :
                LET found == Along(copy, path)[Len(path)]
                IN  Names(path) \cap Listed # {} /\ found # Missing =>
                        ~isDelete /\ found = Mask

\* What becomes of a value that no listed key leads to.
Kept(given, found, inArray, isDelete) ==
    IF "of" \in DOMAIN given
      THEN /\ found.kind = given.kind /\ "of" \in DOMAIN found
           /\ DOMAIN found.of = DOMAIN given.of \ (IF isDelete THEN Listed ELSE {})
    ELSE IF given = Date /\ inArray THEN found = Object(NoFields)
    ELSE found = given

\* Everything else is there, where it was, and nothing is made up: only the
\* Dates that are items of an array, or the data itself, and have no keys to
\* copy, turn into empty objects.
OthersKept ==
    Data \notin {Null, Text} => \A isDelete \in BOOLEAN :
        LET copy == HideOrOmitDeep(Data, isDelete)
        IN  \A path \in Paths :
                LET n == Len(path)
                    given == Along(Data, path)
                    inArray == n = 0 \/ given[n - 1].kind = "array"
                IN  Names(path) \cap Listed = {} =>
                        Kept(given[n], Along(copy, path)[n], inArray, isDelete)
=============================================================================
