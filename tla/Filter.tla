------------------------------- MODULE Filter -------------------------------
(***************************************************************************)
(* FilterService: what a GET request's query string makes of the search    *)
(* that BaseService.find and CrudService.findByUserId hand to the          *)
(* repository.                                                             *)
(*                                                                         *)
(* A JavaScript object that createObject built is a sequence of leaves,    *)
(* in the order of its keys: a leaf is a path (a dotted key) and a value.  *)
(* Object.assign and the spread go by the first name of a path.  The value *)
(* of a condition is the set of column values that it accepts.             *)
(***************************************************************************)
EXTENDS Naturals, SequencesExt

CONSTANTS
    Conditions,     \* the conditions that a filter is made of
    Selects,        \* paths that select[...] names
    Sorts,          \* paths that sort[...] names
    Users,
    MaxParams,      \* bound: parameters in one query string
    None

VARIABLES
    query,          \* the query string of a request (as qs reads it)
    search          \* request.parsedFilter, or None when it was refused

\* Texts and dates in the order of the database.  Instant: the texts that
\* luxon takes for an ISO date; as a text, a date is longer than all of them.
Order == <<"2024", "2024Z", "2025", "2025Z", "a", "ab">>
Texts == ToSet(Order)
Values == Texts \cup Users
Instant == [t \in {"2024", "2025"} |-> IF t = "2024" THEN "2024Z" ELSE "2025Z"]
Contained == {<<t, t>> : t \in {"2024", "2025", "a", "ab"}} \cup {<<"a", "ab">>}

Rank(value) == CHOOSE i \in DOMAIN Order : Order[i] = value

\* A condition of the filter: a value, or operators with their operands.
Is(path, value) == [path |-> path, value |-> value]
Has(path, operators) == [path |-> path, operators |-> operators]
Plain(condition) == "value" \in DOMAIN condition

FilterOperatorEnum == {"in", "nin", "ne", "gt", "gte", "lt", "lte", "like"}

\* The operands of a condition.
OperandTexts(c) ==
    IF Plain(c) THEN {c.value}
    ELSE UNION {IF o \in {"in", "nin"} THEN c.operators[o] ELSE {c.operators[o]} :
                    o \in DOMAIN c.operators}

\* The columns of a row, those of its user included.  As in the database, a
\* date is compared with dates, texts with texts, a user's id with ids: these
\* have no order here.
CreatedAt == <<"createdAt">>
UserId == <<"userId">>
Columns == {CreatedAt, UserId, <<"displayName">>, <<"user", "email">>, <<"user", "username">>}

ASSUME ConditionsAssumption ==
    \A c \in Conditions :
        /\ c.path \in Columns
        /\ OperandTexts(c) \subseteq IF c.path = CreatedAt THEN DOMAIN Instant
                                   ELSE IF c.path = UserId THEN Users ELSE Texts
        /\ c.path = UserId /\ ~Plain(c) => DOMAIN c.operators \subseteq {"in", "nin", "ne"}

\* The columns of a row and of its user that a select may name: the
\* repository refuses one of anything else.
OwnColumns == {<<"id">>, <<"createdAt">>, <<"updatedAt">>, <<"displayName">>, <<"userId">>}
UserColumns ==
    {<<"user", "id">>, <<"user", "createdAt">>, <<"user", "updatedAt">>, <<"user", "name">>,
     <<"user", "username">>, <<"user", "password">>, <<"user", "email">>,
     <<"user", "phone">>, <<"user", "role">>}

ASSUME SelectsAssumption == Selects \subseteq OwnColumns \cup UserColumns
-----------------------------------------------------------------------------
\* createObject
Leaf(path, value) == [path |-> path, value |-> value]

\* Fault: the leaves of two keys are merged.
Assign_Merges(object, leaf) == Append(object, leaf)

\* Object.assign(object, createObject(...)): a key keeps its place.
Assign(object, leaf) ==
    LET same == {i \in DOMAIN object : Head(object[i].path) = Head(leaf.path)}
    IN  IF same = {} THEN Append(object, leaf)
        ELSE [i \in DOMAIN object |-> IF i \in same THEN leaf ELSE object[i]]

\* The same for one leaf after the other, n of them.
AssignAll(object, leaves) ==
    LET assigned[n \in 0 .. Len(leaves)] ==
            IF n = 0 THEN object ELSE Assign(assigned[n - 1], leaves[n])
    IN  assigned[Len(leaves)]

\* {...first, ...second}
Spread(first, second) == AssignAll(first, second)

\* getDateOrValue, for a text and for a list.
GetDateOrValue(text) == IF text \in DOMAIN Instant THEN Instant[text] ELSE text

\* Fault: what an operator is given stays a text.
Operand_AsIs(operator, operand) == operand

Operand(operator, operand) ==
    IF operator \in {"in", "nin"} THEN {GetDateOrValue(t) : t \in operand}
    ELSE GetDateOrValue(operand)

\* TypeORM's operators, as the set of values they accept.
MoreThan(x) == {v \in Texts : Rank(v) > Rank(x)}
LessThan(x) == {v \in Texts : Rank(v) < Rank(x)}
Like(x)     == {v \in Texts : <<x, v>> \in Contained}

\* FilterService.parseOperatorsObject
ParseOperator(operator, x) ==
    CASE operator = "in"   -> x
      [] operator = "nin"  -> Values \ x
      [] operator = "ne"   -> Values \ {x}
      [] operator = "gt"   -> MoreThan(x)
      [] operator = "gte"  -> MoreThan(x) \cup {x}
      [] operator = "lt"   -> LessThan(x)
      [] operator = "lte"  -> LessThan(x) \cup {x}
      [] operator = "like" -> Like(x)

\* And(...parsedOperators)
ConvertOperators(operators) ==
    {v \in Values : \A o \in DOMAIN operators :
                        v \in ParseOperator(o, Operand(o, operators[o]))}

ParseKeyValue(condition) ==
    Leaf(condition.path,
         IF Plain(condition) THEN {GetDateOrValue(condition.value)}
         ELSE ConvertOperators(condition.operators))

\* parseBaseFilter, and the part of parseFilter that is not about "or".
ParseBaseFilter(conditions) ==
    AssignAll(<<>>, [i \in DOMAIN conditions |-> ParseKeyValue(conditions[i])])

\* Fault: the branches go without the conditions beside them.
ParseFilter_BranchesOnly(filter, or) ==
    IF or = <<>> THEN <<ParseBaseFilter(filter)>>
    ELSE [i \in DOMAIN or |-> ParseBaseFilter(or[i])]

\* parseFilter: one object, or one per branch of "or".
ParseFilter(filter, or) ==
    IF or = <<>> THEN <<ParseBaseFilter(filter)>>
    ELSE [i \in DOMAIN or |-> Spread(ParseBaseFilter(or[i]), ParseBaseFilter(filter))]

ParseSelect(select) ==
    AssignAll(<<>>, [i \in DOMAIN select |-> Leaf(select[i].path, select[i].value = "1")])

ToUpperCase(text) == CASE text = "asc" -> "ASC" [] text = "desc" -> "DESC" [] OTHER -> text

Directions(sort) ==
    [i \in DOMAIN sort |-> Leaf(sort[i].path, ToUpperCase(sort[i].value))]

\* Fault: the keys are reduced from the right.
ParseSort_FromRight(sort) == AssignAll(<<>>, Reverse(Directions(sort)))

ParseSort(sort) == AssignAll(<<>>, Directions(sort))

\* +limit and +skip, a number named by its text: the empty text is 0, and NaN
\* is left out.  A number need not be a possible count of rows.
Numbers == {"", "2", "-1", "1.5", "Infinity"}
Number(text) == CASE text = "" -> "0" [] text \in Numbers \ {""} -> text [] OTHER -> None

\* convertOperators calls what it looks up, the sort what it takes for a
\* text: both throw when it is something else, wherever in the query.
Throws(q) ==
    LET known(c) == Plain(c) \/ DOMAIN c.operators \subseteq FilterOperatorEnum
    IN  \/ \E i \in DOMAIN q.filter : ~known(q.filter[i])
        \/ \E b \in DOMAIN q.or : \E i \in DOMAIN q.or[b] : ~known(q.or[b][i])
        \/ \E i \in DOMAIN q.sort : q.sort[i].value = None

\* An absent where is the empty list: both find everything.
ParseFilterRequestQuery(q) ==
    IF Throws(q) THEN None ELSE
    [where  |-> IF q.filter = <<>> /\ q.or = <<>> THEN <<>> ELSE ParseFilter(q.filter, q.or),
     select |-> ParseSelect(q.select),
     order  |-> ParseSort(q.sort),
     take   |-> Number(q.limit),
     skip   |-> Number(q.skip),
     relations |-> {}]
-----------------------------------------------------------------------------
\* Fault: the names the caller selects win.
GetSelectQuery_CallerWins(select) ==
    IF select = <<>> THEN select
    ELSE Spread(<<Leaf(<<"id">>, TRUE), Leaf(<<"createdAt">>, TRUE),
                  Leaf(<<"updatedAt">>, TRUE)>>, select)

GetSelectQuery(select) ==
    IF select = <<>> THEN select
    ELSE Spread(select, <<Leaf(<<"id">>, TRUE), Leaf(<<"createdAt">>, TRUE),
                          Leaf(<<"updatedAt">>, TRUE)>>)

\* Fault: only a branch that names no user gets one.
OwnBranches_Absent(where, user) ==
    LET own == Leaf(UserId, {user})
    IN  IF where = <<>> THEN <<<<own>>>>
        ELSE [i \in DOMAIN where |-> Spread(<<own>>, where[i])]

\* The user's own id in every branch.
OwnBranches(where, user) ==
    LET own == Leaf(UserId, {user})
    IN  IF where = <<>> THEN <<<<own>>>>
        ELSE [i \in DOMAIN where |-> Assign(where[i], own)]

\* CrudService.findByUserId: what it hands to BaseService.find.
FindByUserId(filter, user) ==
    [filter EXCEPT !.where = OwnBranches(@, user), !.relations = {"user"}]

\* A row is a function of paths: the repository finds it when one object of
\* the list accepts it.
Finds(where, row) ==
    where # <<>> => \E i \in DOMAIN where : \A l \in ToSet(where[i]) : row[l.path] \in l.value

\* The columns that the repository reads for a select: what it names with
\* TRUE, of a relation only when that is joined.  A joined relation that it
\* does not name at all is read as a whole.
Fields(select, relations) ==
    {l.path : l \in {k \in ToSet(select) :
                        k.value /\ (k.path \in UserColumns => Head(k.path) \in relations)}}
    \cup {path \in UserColumns :
             /\ Head(path) \in relations
             /\ \A l \in ToSet(select) : Head(l.path) # Head(path)}

\* BaseService.find
Read(filter) == Fields(GetSelectQuery(filter.select), filter.relations)
-----------------------------------------------------------------------------
NoQuery == [filter |-> <<>>, or |-> <<>>, select |-> <<>>, sort |-> <<>>,
            limit |-> None, skip |-> None]

Init == query = NoQuery /\ search = ParseFilterRequestQuery(query)

Count(q) ==
    Len(q.filter) + FoldLeft(LAMBDA n, b : n + Len(b), 0, q.or)
        + Len(q.select) + Len(q.sort)
        + Cardinality({p \in {"limit", "skip"} : q[p] # None})

\* An object has a key once.
New(object, path) == \A l \in ToSet(object) : l.path # path

AddCondition(c) ==
    /\ New(query.filter, c.path)
    /\ query' = [query EXCEPT !.filter = Append(@, c)]

AddBranch(c) == query' = [query EXCEPT !.or = Append(@, <<c>>)]

AddToBranch(b, c) ==
    /\ New(query.or[b], c.path)
    /\ query' = [query EXCEPT !.or[b] = Append(@, c)]

AddSelect(path) ==
    /\ New(query.select, path)
    /\ \E v \in {"0", "1"} : query' = [query EXCEPT !.select = Append(@, Leaf(path, v))]

\* None: a nested object instead of a direction.
AddSort(path) ==
    /\ New(query.sort, path)
    /\ \E v \in {"asc", "DESC", None} : query' = [query EXCEPT !.sort = Append(@, Leaf(path, v))]

\* "x": a text that is no number.
AddNumber(parameter) ==
    /\ query[parameter] = None
    /\ \E t \in Numbers \cup {"x"} : query' = [query EXCEPT ![parameter] = t]

\* The next request has one parameter more.
Next ==
    /\ Count(query) < MaxParams
    /\ \/ \E c \in Conditions :
            AddCondition(c) \/ AddBranch(c) \/ (\E b \in DOMAIN query.or : AddToBranch(b, c))
       \/ \E path \in Selects : AddSelect(path)
       \/ \E path \in Sorts : AddSort(path)
       \/ \E parameter \in {"limit", "skip"} : AddNumber(parameter)
    /\ search' = ParseFilterRequestQuery(query')

Spec == Init /\ [][Next]_<<query, search>>

(***************************************************************************)
(* Properties                                                              *)
(***************************************************************************)
DistinctHeads(object) ==
    \A i, j \in DOMAIN object : Head(object[i].path) = Head(object[j].path) => i = j

\* Every object names a column or a relation once, and the list is empty or
\* has an object per branch: what TypeORM takes for a search.
ParsedOK ==
    search # None =>
        /\ \A object \in ToSet(search.where) : DistinctHeads(object)
        /\ DistinctHeads(search.select) /\ DistinctHeads(search.order)
        /\ query.or # <<>> => Len(search.where) = Len(query.or)

Row(createdAt, displayName, email, userName, userId) ==
    [path \in Columns |->
        CASE path = CreatedAt -> createdAt
          [] path = UserId -> userId
          [] path = <<"displayName">> -> displayName
          [] path = <<"user", "email">> -> email
          [] path = <<"user", "username">> -> userName]

Rows ==
    {Row(c, d, e, n, u) : c \in {"2024Z", "2025Z"}, d \in {"2024", "a", "ab"},
                          e \in {"a", "ab"}, n \in {"a", "ab"}, u \in Users}

\* What a caller means by an operator: value against operand.
Holds(operator, value, x) ==
    CASE operator = "in"   -> value \in x
      [] operator = "nin"  -> value \notin x
      [] operator = "ne"   -> value # x
      [] operator = "gt"   -> Rank(value) > Rank(x)
      [] operator = "gte"  -> Rank(value) >= Rank(x)
      [] operator = "lt"   -> Rank(value) < Rank(x)
      [] operator = "lte"  -> Rank(value) <= Rank(x)
      [] operator = "like" -> <<x, value>> \in Contained

Typed(path, text) == IF path = CreatedAt THEN Instant[text] ELSE text

TypedOperand(path, operator, x) ==
    IF operator \in {"in", "nin"} THEN {Typed(path, t) : t \in x} ELSE Typed(path, x)

Meets(row, c) ==
    IF Plain(c) THEN row[c.path] = Typed(c.path, c.value)
    ELSE \A o \in DOMAIN c.operators :
             Holds(o, row[c.path], TypedOperand(c.path, o, c.operators[o]))

\* The rows that a filter asks for: all the conditions beside "or", and all
\* those of one of its branches.
Asked(row) ==
    /\ \A c \in ToSet(query.filter) : Meets(row, c)
    /\ query.or # <<>> => \E b \in ToSet(query.or) : \A c \in ToSet(b) : Meets(row, c)

AllConditions == ToSet(query.filter) \cup UNION {ToSet(b) : b \in ToSet(query.or)}

\* No text column is compared with a text that reads as a date.
DatesForDates ==
    \A c \in AllConditions :
        c.path # CreatedAt => OperandTexts(c) \cap DOMAIN Instant = {}

\* No two conditions that apply together begin with the same name.
HeadsApart ==
    /\ DistinctHeads(query.filter)
    /\ \A b \in ToSet(query.or) : DistinctHeads(query.filter \o b)

\* However its keys collide, and wherever a condition stands, a filter finds
\* every row it asks for: conditions get lost, none is invented or narrowed.
NeverNarrower ==
    search # None /\ DatesForDates =>
        \A row \in Rows : Asked(row) => Finds(search.where, row)

\* With keys apart it finds these rows and no other, branches distributed.
Faithful ==
    search # None /\ DatesForDates /\ HeadsApart =>
        \A row \in Rows : Asked(row) <=> Finds(search.where, row)

\* findByUserId finds own rows only, whatever users the branches name, and
\* among them all that the filter itself finds.
OwnRows ==
    search # None =>
        \A user \in Users : \A row \in Rows :
            LET own == row[UserId] = user
                found == Finds(FindByUserId(search, user).where, row)
            IN  /\ found => own
                /\ own /\ Finds(search.where, row) => found

Identity == {<<"id">>, <<"createdAt">>, <<"updatedAt">>}

\* What find reads for a select has the row's identity, whatever the select
\* says of it, and no column that was not selected; what findByUserId reads
\* has the row's user besides, all of it when the select names none of its
\* columns.  With keys apart, all that was selected is read.
SelectKeepsIdentity ==
    search # None /\ query.select # <<>> =>
        \A user \in Users :
            LET selected == {s.path : s \in {t \in ToSet(query.select) : t.value = "1"}}
                joined == IF \E s \in ToSet(query.select) : s.path \in UserColumns
                          THEN selected \cap UserColumns ELSE UserColumns
                found == Read(search)
                own == Read(FindByUserId(search, user))
            IN  /\ Identity \subseteq found
                /\ found \subseteq Identity \cup (selected \ UserColumns)
                /\ found \subseteq own /\ own \subseteq found \cup joined
                /\ DistinctHeads(query.select) =>
                      /\ found = Identity \cup (selected \ UserColumns)
                      /\ own = found \cup joined

\* Rows are ordered by the first key that was asked for, then by the next.
\* Of colliding keys the last one decides, at the place of the first.
SortKeepsPriority ==
    search # None =>
        LET sort == query.sort
        IN  /\ DistinctHeads(sort) =>
                 search.order = [i \in DOMAIN sort |->
                                    Leaf(sort[i].path, ToUpperCase(sort[i].value))]
            /\ sort # <<>> => Head(search.order[1].path) = Head(sort[1].path)
=============================================================================
