--------------------------- MODULE QueryCompiler ---------------------------
(***************************************************************************)
(* How the queries of a GetFeature request become querysets.  First every  *)
(* query is bound to its feature type and the permissions are checked      *)
(* (BaseWFSGetDataOperation.validate_request), then one query after the    *)
(* other is compiled: a CompiledQuery collects annotations, lookups and    *)
(* the ordering while the nodes of the filter build themselves             *)
(* (parsers/fes20), and get_queryset() applies what was collected.         *)
(*                                                                         *)
(* A filter is the sequence of its nodes in the order in which they build: *)
(* operands come before the And, Or or Not that names their positions.  A  *)
(* Q object is what the database makes of it, and the answer to a query is *)
(* how often each feature is in the result.                                *)
(*                                                                         *)
(* The extra lookups of a CompiledQuery are left out: XPathMatch never has *)
(* orm_filters, so nothing is ever stashed.                                *)
(***************************************************************************)
EXTENDS Integers, SequencesExt

CONSTANTS
    TypeNames,     \* the full names of the feature types
    Spellings,     \* the type names a request may use, as parse_qname() returns them
    Fixed,         \* what fix_type_name() makes of each
    NoName,        \* a QName that was empty
    Denied,        \* the types the user may not see
    Elements,      \* the elements of a feature
    Kind,          \* each is "plain", "array", "many" or "geometry"
    MainGeometry,  \* main_geometry_element
    Table,         \* the features of each type
    Null,          \* the value of an element that has none
    NoObject,      \* the related object of a feature that has none
    BadValue,      \* a key or literal that is not of the element's type
    Requests       \* the sequences of queries to try

VARIABLES
    request,
    phase,         \* "bind", "compile", "done", "refused" or "crashed"
    at,            \* the query it is at
    node,          \* how many nodes of its filter were built; -1 before it starts
    types,         \* query.feature_types of the queries that were bound
    compiler,      \* the CompiledQuery
    q,             \* the Q objects of the nodes that were built
    answers        \* what the querysets return

vars == <<request, phase, at, node, types, compiler, q, answers>>

ASSUME NamesAssumption ==
    NoName \notin Spellings /\ DOMAIN Fixed = Spellings /\ Denied \subseteq TypeNames
ASSUME ElementsAssumption ==
    /\ Kind \in [Elements -> {"plain", "array", "many", "geometry"}]
    /\ MainGeometry \in Elements /\ Kind[MainGeometry] = "geometry"
    /\ "pk" \notin Elements

(* Values are numbers; an array has no NULLs in it.                        *)
ASSUME ValuesAssumption == Null \notin Int /\ BadValue \notin Int /\ Null # BadValue
ASSUME TableAssumption ==
    /\ DOMAIN Table = TypeNames
    /\ \A t \in TypeNames : \A f \in Table[t] :
          /\ IsFiniteSet(f.related) /\ NoObject \notin f.related
          /\ \A e \in Elements :
                CASE Kind[e] = "array" -> f.value[e] \subseteq Int
                  [] Kind[e] = "many" -> \A s \in f.related : s[e] = Null \/ s[e] \in Int
                  [] OTHER -> f.value[e] = Null \/ f.value[e] \in Int

query == request[at]

-----------------------------------------------------------------------------
(* Expressions, their values, and what SQL makes of a lookup.  Where joins *)
(* are involved a row is a feature and one of its related objects.         *)

Ref(e) == [kind |-> "ref", of |-> e, add |-> 0]
Literal(v) == [kind |-> "literal", of |-> v, add |-> 0]
Add(e, n) == [kind |-> "function", of |-> e, add |-> n]
IsRef(x) == x.kind = "ref"

Objects(f) == IF f.related = {} THEN {NoObject} ELSE f.related
Many(e) == e \in Elements /\ Kind[e] = "many"
ManyRef(x) == IsRef(x) /\ Many(x.of)

ElementOf(e, f, s) ==
    IF e = "pk" THEN f.pk
    ELSE IF ~Many(e) THEN f.value[e]
    ELSE IF s = NoObject THEN Null ELSE s[e]

Value(x, f, s) ==
    IF x.kind = "literal" THEN x.of
    ELSE LET v == ElementOf(x.of, f, s)
         IN  IF x.kind = "function" /\ v # Null THEN v + x.add ELSE v

Compared(lookup, a, b) ==
    a # Null /\ b # Null /\
    CASE lookup = "exact" -> a = b
      [] lookup = "fes_notequal" -> a # b
      [] lookup = "lt" -> a < b
      [] lookup = "lte" -> a <= b
      [] lookup = "gt" -> a > b
      [] lookup = "gte" -> a >= b

(* The array lookups write their operands the other way round: "field <    *)
(* value" becomes "value > ANY(field)" (lookups.py).                       *)
AnyOperators == [fes_anyexact |-> "exact", fes_anynotequal |-> "fes_notequal",
                 fes_anygt |-> "lt", fes_anygte |-> "lte",
                 fes_anylt |-> "gt", fes_anylte |-> "gte"]

Sql(lookup, a, b) ==
    CASE lookup \in DOMAIN AnyOperators -> \E v \in a : Compared(AnyOperators[lookup], b[1], v)
      [] lookup = "range" -> Compared("gte", a, b[1]) /\ Compared("lte", a, b[2])
      [] lookup = "isnull" -> a = Null
      [] lookup \in {"in", "intersects"} -> a \in b[1]
      [] OTHER -> Compared(lookup, a, b[1])

-----------------------------------------------------------------------------
(* A Q object.  Outside every Not it shares one join to the related        *)
(* objects with the rest of filter(): "row" has the rows where it is true. *)
(* Under a Not, Django gives each lookup through to-many relations a       *)
(* subquery of its own: "sub" has the rows where the Q is true then, and   *)
(* "neg" the rows where its negation is.  This subquery is about all       *)
(* related objects, unless a lookup outside every Not has joined them when *)
(* filter() comes to it: then it is about the object of the row only       *)
(* (Query.split_exclude).  All three are functions of whether they were    *)
(* joined by then.  Only lookups of a column are guarded against NULL in a *)
(* Not; a comparison of an annotation with NULL is neither true nor false. *)

Rows == [t \in TypeNames |-> UNION {{<<f, s>> : s \in Objects(f)} : f \in Table[t]}]

LookupQ(lhs, lookup, values, type) ==
    LET Operands(f, s) == [i \in DOMAIN values |-> Value(values[i], f, s)]
        unprepared == ~IsRef(lhs) /\ Literal(BadValue) \in ToSet(values)
        True(f, s) == ~unprepared /\ Sql(lookup, Value(lhs, f, s), Operands(f, s))
        Decided(f, s) ==
            IsRef(lhs) \/ Null \notin {Value(lhs, f, s)} \union ToSet(Operands(f, s))
        sub == [joined \in BOOLEAN |->
                  {r \in Rows[type] :
                     \E s \in IF joined /\ ManyRef(lhs) THEN {r[2]} ELSE Objects(r[1]) :
                        True(r[1], s)}]
    IN  [row |-> [joined \in BOOLEAN |-> {r \in Rows[type] : True(r[1], r[2])}],
         sub |-> sub,
         neg |-> [joined \in BOOLEAN |->
                    {r \in Rows[type] \ sub[joined] : Decided(r[1], r[2])}],
         joins |-> ManyRef(lhs),
         unprepared |-> unprepared]

All(sets, type) == {r \in Rows[type] : \A m \in sets : r \in m}

(* Q & Q, Q | Q and ~Q.  The operands are those of a node, by position, in *)
(* the order in which filter() comes to them; what is under a Not joins    *)
(* nothing for those after it.                                             *)
Joined(qs, k, joined) == joined \/ \E j \in DOMAIN qs : j < k /\ qs[j].joins
RowsOf(qs, joined) == {qs[k].row[Joined(qs, k, joined)] : k \in DOMAIN qs}
SubsOf(qs, joined) == {qs[k].sub[joined] : k \in DOMAIN qs}
NegsOf(qs, joined) == {qs[k].neg[joined] : k \in DOMAIN qs}

AndQ(qs, type) == [row |-> [joined \in BOOLEAN |-> All(RowsOf(qs, joined), type)],
                   sub |-> [joined \in BOOLEAN |-> All(SubsOf(qs, joined), type)],
                   neg |-> [joined \in BOOLEAN |-> UNION NegsOf(qs, joined)],
                   joins |-> \E k \in DOMAIN qs : qs[k].joins,
                   unprepared |-> \E k \in DOMAIN qs : qs[k].unprepared]
OrQ(qs, type) == [row |-> [joined \in BOOLEAN |-> UNION RowsOf(qs, joined)],
                  sub |-> [joined \in BOOLEAN |-> UNION SubsOf(qs, joined)],
                  neg |-> [joined \in BOOLEAN |-> All(NegsOf(qs, joined), type)],
                  joins |-> \E k \in DOMAIN qs : qs[k].joins,
                  unprepared |-> \E k \in DOMAIN qs : qs[k].unprepared]
NotQ(p) == [row |-> p.neg, sub |-> p.neg, neg |-> p.sub,
            joins |-> FALSE, unprepared |-> p.unprepared]

-----------------------------------------------------------------------------
(* CompiledQuery.                                                          *)

NewCompiler == [lookups |-> {}, typed |-> {}, ordering |-> <<>>,
                empty |-> FALSE, distinct |-> FALSE]

(* filter(), order_by() and distinct() of the queryset.  DISTINCT compares *)
(* the columns of the ordering, too.                                       *)
Result(c, type) ==
    LET where == c.lookups \union c.typed
        rows == All({p.row[FALSE] : p \in where}, type)
        joined == (\E p \in where : p.joins) \/ \E i \in DOMAIN c.ordering : Many(c.ordering[i])
        columns(s) == [i \in DOMAIN c.ordering |->
                         IF Many(c.ordering[i]) /\ s # NoObject THEN s[c.ordering[i]] ELSE Null]
        copies(f) == {IF c.distinct THEN columns(r[2]) ELSE r[2] :
                        r \in {x \in rows : x[1] = f}}
    IN  [f \in Table[type] |-> IF joined THEN Cardinality(copies(f))
                               ELSE IF copies(f) = {} THEN 0 ELSE 1]

-----------------------------------------------------------------------------
(* Comparisons: NonIdOperator.build_compare(), build_compare_between().    *)

ComparisonLookup == [PropertyIsEqualTo |-> "exact", PropertyIsNotEqualTo |-> "fes_notequal",
                     PropertyIsLessThan |-> "lt", PropertyIsGreaterThan |-> "gt",
                     PropertyIsLessThanOrEqualTo |-> "lte",
                     PropertyIsGreaterThanOrEqualTo |-> "gte"]

(* Mutation: <= and >= are not turned.                                     *)
REVERSE_LOOKUPS_Strict == [gt |-> "lt", lt |-> "gt"]

REVERSE_LOOKUPS == [gt |-> "lt", gte |-> "lte", lt |-> "gt", lte |-> "gte"]
ARRAY_LOOKUPS == [exact |-> "fes_anyexact", fes_notequal |-> "fes_anynotequal",
                  lt |-> "fes_anylt", lte |-> "fes_anylte",
                  gt |-> "fes_anygt", gte |-> "fes_anygte"]

Mapped(lookup, table) == IF lookup \in DOMAIN table THEN table[lookup] ELSE lookup

(* Literals are compared from the right: "lhs and rhs are allowed to be    *)
(* reversed".                                                              *)
Turned(n) == /\ n.op = "compare"
             /\ n.args[1].kind = "literal" /\ IsRef(n.args[2])

Lhs(n) ==
    CASE n.args = <<>> -> Ref(MainGeometry)
      [] Turned(n) -> n.args[2]
      [] OTHER -> n.args[1]
Rhs(n) ==
    CASE Turned(n) -> <<n.args[1]>>
      [] n.op = "bbox" -> <<n.box>>
      [] OTHER -> Tail(n.args)
WrittenLookup(n) ==
    CASE n.op = "compare" ->
           Mapped(ComparisonLookup[n.name], IF Turned(n) THEN REVERSE_LOOKUPS ELSE <<>>)
      [] n.op = "between" -> "range"
      [] n.op = "null" -> "isnull"
      [] n.op = "bbox" -> "intersects"

(* validate_comparison() takes the reference of the two for the element.   *)
Validated(a, b) == IF a.kind = "literal" /\ IsRef(b) THEN <<b, a>> ELSE <<a, b>>

IsLogic(n) == n.op \in {"And", "Or", "Not"}

Refuses(n, a, b) ==
    /\ IsRef(a)
    /\ \/ Kind[a.of] = "geometry" /\ n.op \notin {"bbox", "null"}
       \/ Kind[a.of] = "array" /\ WrittenLookup(n) \notin DOMAIN ARRAY_LOOKUPS
       \/ b = Literal(BadValue)

RefusesNode(n) ==
    /\ ~IsLogic(n)
    /\ \/ Refuses(n, Lhs(n), Lhs(n))
       \/ \E i \in DOMAIN Rhs(n) :
             LET pair == Validated(Lhs(n), Rhs(n)[i]) IN Refuses(n, pair[1], pair[2])

(* XPathMatch.build_lhs() and build_rhs(): what an element tells the       *)
(* compiler when it is used.  Mutation: it tells nothing.                  *)
Used_Silent(c, xs) == c

Used(c, xs) ==
    [c EXCEPT !.distinct =
        @ \/ \E x \in xs : x.kind # "literal" /\ Kind[x.of] \in {"many", "array"}]

AllUsed(n, c) == Used(c, {Lhs(n)} \union ToSet(Rhs(n)))

(* What is tried.  Repeated elements are compared as they are: functions   *)
(* and the right-hand side are of plain elements, and PropertyIsNull, for  *)
(* which the code has a TODO, of elements that do not join.  A literal     *)
(* that stays on the left is a number.  There is no Not of a Not: ~Q only  *)
(* turns a flag, so that it is its operand's operand.                      *)
IsPlain(x) ==
    \/ x = Literal(x.of) /\ (x.of = BadValue \/ x.of \in Int)
    \/ /\ x = Ref(x.of) \/ (x = Add(x.of, x.add) /\ x.add \in Int)
       /\ x.of \in Elements /\ Kind[x.of] = "plain"
IsElement(x) == x = Ref(x.of) /\ x.of \in Elements
Arity == [compare |-> {2}, between |-> {3}, null |-> {1}, bbox |-> {0, 1}]
IsComparison(n) ==
    /\ n.op \in DOMAIN Arity
    /\ n.args \in Seq(ToSet(n.args)) /\ Len(n.args) \in Arity[n.op]
    /\ n.op = "compare" => n.name \in DOMAIN ComparisonLookup
    /\ IsElement(Lhs(n)) \/ (IsPlain(Lhs(n)) /\ Lhs(n).of # BadValue)
    /\ n.op = "null" => ~ManyRef(Lhs(n))
    /\ IF n.op = "bbox"
       THEN n.box.kind = "literal" /\ n.box.of \subseteq Int /\ n.box.of \notin {Null, BadValue}
       ELSE \A i \in DOMAIN Rhs(n) : IsPlain(Rhs(n)[i])
IsNode(n, k) ==
    IF IsLogic(n)
    THEN n.of # {} /\ n.of \subseteq 1..k-1 /\ (n.op = "Not" => \E p \in n.of : n.of = {p})
    ELSE IsComparison(n)
IsId(id) == id.type = NoName \/ (id.type \in Spellings /\ id.dot)
IsQuery(qr) ==
    /\ qr.kind \in {"all", "ids", "stored", "filter"}
    /\ qr.typeNames \in Seq(Spellings \union {NoName})
    /\ qr.sortBy \in Seq(Elements)
    /\ qr.kind = "stored" => IsId(qr.id)
    /\ qr.kind = "ids" =>
          /\ qr.ids # {} /\ IsFiniteSet(qr.ids)
          /\ \A id \in qr.ids : IsId(id) /\ id.text \in Int
    /\ qr.kind = "filter" =>
          /\ qr.filter # <<>> /\ qr.filter \in Seq(ToSet(qr.filter))
          /\ \A k \in DOMAIN qr.filter :
                /\ IsNode(qr.filter[k], k)
                /\ qr.filter[k].op = "Not" => \A i \in qr.filter[k].of : qr.filter[i].op # "Not"
ASSUME RequestsAssumption ==
    \A r \in Requests : r # <<>> /\ r \in Seq(ToSet(r)) /\ \A i \in DOMAIN r : IsQuery(r[i])

ElementLookup(n) ==
    IF IsRef(Lhs(n)) /\ Kind[Lhs(n).of] = "array" THEN Mapped(WrittenLookup(n), ARRAY_LOOKUPS)
    ELSE WrittenLookup(n)

Comparison(n, type) == LookupQ(Lhs(n), ElementLookup(n), Rhs(n), type)

-----------------------------------------------------------------------------
(* Identifiers: IdOperator and ResourceId.                                 *)

(* The ids are sorted by their text.  itertools.groupby() starts a group   *)
(* whenever the type name changes; the dict keeps the last group of a      *)
(* name, at the place of its first.                                        *)
GroupNames(ids) == {id.type : id \in ids}
Before(ids, a, b) ==
    \E x \in ids : x.type = a /\ \A y \in ids : y.type = b => x.text < y.text
InOrder(ids, names) ==
    [i \in 1..Cardinality(names) |->
        CHOOSE n \in names : Cardinality({m \in names : Before(ids, m, n)}) = i - 1]
Group(ids, name) ==
    {id \in ids : id.type = name /\
        ~\E other, next \in ids : /\ other.type # name /\ next.type = name
                                  /\ id.text < other.text /\ other.text < next.text}

(* What becomes of the group of a name.  Mutations: the name is not fixed; *)
(* a key is not tried before it is used.                                   *)
GroupOutcome_NotFixed(ids, name) ==
    CASE name = NoName -> "crashed"
      [] name \notin ToSet(types[at]) -> "refused"
      [] \E id \in Group(ids, name) : id.key = BadValue -> "refused"
      [] OTHER -> "compile"
GroupOutcome(ids, name) ==
    CASE name = NoName -> "crashed"
      [] Fixed[name] \notin ToSet(types[at]) -> "refused"
      [] \E id \in Group(ids, name) : id.key = BadValue -> "refused"
      [] OTHER -> "compile"

IdLookup(ids, type) == LookupQ(Ref("pk"), "in", <<Literal({id.key : id \in ids})>>, type)

-----------------------------------------------------------------------------
Init ==
    /\ request \in Requests
    /\ phase = "bind"
    /\ at = 1
    /\ node = -1
    /\ types = <<>>
    /\ compiler = NewCompiler
    /\ q = <<>>
    /\ answers = <<>>

(* The type names of a query, and what becomes of binding it to them.      *)
GetTypeNames ==
    CASE query.kind = "stored" -> <<query.id.type>>
      [] query.kind = "ids" /\ query.typeNames = <<>> ->
           InOrder(query.ids, GroupNames(query.ids) \ {NoName})
      [] OTHER -> query.typeNames

(* resolve_feature_type(), bind() and check_permissions().  GetFeatureById *)
(* wants an id with a dot, and there is no srsName without a type.         *)
(* Mutation: permission is asked for the first type of the query.          *)
Known(name) == name # NoName /\ Fixed[name] \in TypeNames
Bindable_OneType ==
    /\ query.kind = "stored" => query.id.dot
    /\ \A i \in DOMAIN GetTypeNames : Known(GetTypeNames[i])
    /\ query.srsName # "unknown" /\ (GetTypeNames = <<>> => query.srsName = "none")
    /\ GetTypeNames # <<>> => Fixed[GetTypeNames[1]] \notin Denied

Bindable ==
    /\ query.kind = "stored" => query.id.dot
    /\ \A i \in DOMAIN GetTypeNames : Known(GetTypeNames[i])
    /\ query.srsName # "unknown" /\ (GetTypeNames = <<>> => query.srsName = "none")
    /\ \A i \in DOMAIN GetTypeNames : Fixed[GetTypeNames[i]] \notin Denied

(* What an empty name does depends on the names before it.                 *)
BindFailure ==
    LET names == GetTypeNames
        unknown == SelectInSeq(names, LAMBDA name : ~Known(name))
    IN  IF /\ query.kind = "stored" => query.id.dot
           /\ \/ unknown # 0 /\ names[unknown] = NoName
              \/ names = <<>> /\ query.srsName # "none"
        THEN "crashed" ELSE "refused"

Stop(outcome) ==
    /\ phase' = outcome
    /\ UNCHANGED <<request, at, node, types, compiler, q, answers>>

(* AdhocQuery.__post_init__(), while the request is parsed.                *)
Joins == \E i \in DOMAIN request : Len(request[i].typeNames) > 1

Bind ==
    /\ phase = "bind"
    /\ ~Joins
    /\ Bindable
    /\ types' = Append(types, [i \in DOMAIN GetTypeNames |-> Fixed[GetTypeNames[i]]])
    /\ IF at < Len(request) THEN at' = at + 1 /\ phase' = phase
       ELSE at' = 1 /\ phase' = "compile"
    /\ UNCHANGED <<request, node, compiler, q, answers>>

BindFails ==
    /\ phase = "bind"
    /\ Joins \/ ~Bindable
    /\ Stop(IF Joins THEN "refused" ELSE BindFailure)

(* QueryExpression.get_queryset() begins: a new CompiledQuery, the order.  *)
Start ==
    /\ phase = "compile" /\ node = -1
    /\ Len(types[at]) <= 1
    /\ types[at] = <<>> => query.sortBy = <<>>
    /\ compiler' = [NewCompiler EXCEPT !.ordering = query.sortBy]
    /\ q' = <<>>
    /\ node' = 0
    /\ UNCHANGED <<request, phase, at, types, answers>>

StartFails ==
    /\ phase = "compile" /\ node = -1
    /\ Len(types[at]) > 1 \/ (types[at] = <<>> /\ query.sortBy # <<>>)
    /\ Stop(IF types[at] = <<>> THEN "crashed" ELSE "refused")

Nodes == IF query.kind = "filter" THEN Len(query.filter)
         ELSE IF query.kind \in {"ids", "stored"} THEN 1 ELSE 0
Building(kind) == phase = "compile" /\ node >= 0 /\ node < Nodes /\ query.kind = kind

(* One node is built.                                                      *)
Built == node' = node + 1 /\ UNCHANGED <<request, phase, at, types, answers>>

(* IdOperator.build_query() adds the lookups itself.                       *)
BuildIds ==
    LET names == GroupNames(query.ids)
        bad == {n \in names : GroupOutcome(query.ids, n) # "compile"}
    IN  /\ Building("ids")
        /\ IF names = {NoName} THEN
              compiler' = [compiler EXCEPT !.empty = TRUE] /\ UNCHANGED q /\ Built
           ELSE IF bad = {} THEN
              /\ compiler' = [compiler EXCEPT !.typed =
                                {IdLookup(Group(query.ids, n), types[at][1]) : n \in names}]
              /\ UNCHANGED q /\ Built
           ELSE \E n \in bad : /\ \A m \in bad : ~Before(query.ids, m, n)
                              /\ Stop(GroupOutcome(query.ids, n))

(* GetFeatureById.build_query()                                            *)
BuildStored ==
    /\ Building("stored")
    /\ IF query.id.key = BadValue THEN Stop("refused")
       ELSE q' = <<IdLookup({query.id}, types[at][1])>> /\ UNCHANGED compiler /\ Built

(* One node of the filter builds its Q, after its operands.                *)
BuildLogic ==
    LET n == query.filter[node + 1]
        operands == [i \in n.of |-> q[i]]
        type == types[at][1]
    IN  /\ Building("filter")
        /\ IsLogic(n)
        /\ q' = Append(q, CASE n.op = "And" -> AndQ(operands, type)
                            [] n.op = "Or" -> OrQ(operands, type)
                            [] n.op = "Not" -> NotQ(q[CHOOSE i \in n.of : TRUE]))
        /\ Built
        /\ UNCHANGED compiler

BuildComparison ==
    LET n == query.filter[node + 1]
    IN  /\ Building("filter")
        /\ ~IsLogic(n)
        /\ IF types[at] = <<>> THEN Stop("crashed")
           ELSE IF RefusesNode(n) THEN Stop("refused")
           ELSE /\ q' = Append(q, Comparison(n, types[at][1]))
                /\ compiler' = AllUsed(n, compiler)
                /\ Built

(* add_lookups(), and CompiledQuery.get_queryset().  A literal was not     *)
(* checked when no element is compared: the ORM raises a ValueError, which *)
(* wrap_filter_errors() raises again.                                      *)
Complete == phase = "compile" /\ node = Nodes
WithLookups == [compiler EXCEPT !.lookups = IF q = <<>> THEN @ ELSE @ \union {Last(q)}]
Queryset ==
    IF compiler.empty THEN [f \in Table[types[at][1]] |-> 0]
    ELSE Result(WithLookups, types[at][1])
Usable == types[at] # <<>> /\ (q # <<>> => ~Last(q).unprepared)

(* Mutation: the next query goes on with the same compiler.                *)
GetQueryset_SameCompiler ==
    /\ Complete
    /\ Usable
    /\ answers' = Append(answers, Queryset)
    /\ IF at < Len(request) THEN at' = at + 1 /\ phase' = phase
       ELSE at' = at /\ phase' = "done"
    /\ UNCHANGED <<node, request, types, compiler, q>>

GetQueryset ==
    /\ Complete
    /\ Usable
    /\ answers' = Append(answers, Queryset)
    /\ IF at < Len(request) THEN at' = at + 1 /\ phase' = phase
       ELSE at' = at /\ phase' = "done"
    /\ node' = -1
    /\ UNCHANGED <<request, types, compiler, q>>

GetQuerysetFails ==
    /\ Complete
    /\ ~Usable
    /\ Stop("crashed")

Next ==
    \/ Bind \/ BindFails \/ Start \/ StartFails
    \/ BuildIds \/ BuildStored \/ BuildLogic \/ BuildComparison
    \/ GetQueryset \/ GetQuerysetFails

(* A worker runs the request to its end.                                   *)
Spec == Init /\ [][Next]_vars /\ WF_vars(Next)

-----------------------------------------------------------------------------
(* What a query asks for, read from the request and the Filter Encoding    *)
(* standard: a comparison holds for a feature when it holds for one of the *)
(* values of the element ("the whole object is returned when one of the    *)
(* sub-objects match", lookups.py).                                        *)

Stored(e, f) ==
    CASE Kind[e] = "array" -> f.value[e]
      [] Kind[e] = "many" -> {s[e] : s \in f.related}
      [] OTHER -> {f.value[e]}
Values(x, f) ==
    IF x.kind = "literal" THEN {x.of} ELSE {v + x.add : v \in Stored(x.of, f) \ {Null}}

Satisfies(n, f) ==
    LET Of(i) == Values(n.args[i], f)
    IN  CASE n.op = "null" -> Of(1) = {}
          [] n.op = "between" -> \E a \in Of(1), b \in Of(2), c \in Of(3) : b <= a /\ a <= c
          [] n.op = "bbox" -> Values(Lhs(n), f) \intersect n.box.of # {}
          [] n.op = "compare" -> \E a \in Of(1), b \in Of(2) :
               CASE n.name = "PropertyIsEqualTo" -> a = b
                 [] n.name = "PropertyIsNotEqualTo" -> a # b
                 [] n.name = "PropertyIsLessThan" -> a < b
                 [] n.name = "PropertyIsGreaterThan" -> a > b
                 [] n.name = "PropertyIsLessThanOrEqualTo" -> a <= b
                 [] n.name = "PropertyIsGreaterThanOrEqualTo" -> a >= b

(* The truth of every node follows from the truth of its operands.         *)
Truth(filter, f, truth, i) ==
    CASE filter[i].op = "And" -> \A k \in filter[i].of : truth[k]
      [] filter[i].op = "Or" -> \E k \in filter[i].of : truth[k]
      [] filter[i].op = "Not" -> \A k \in filter[i].of : ~truth[k]
      [] OTHER -> Satisfies(filter[i], f)
Matches(filter, f) ==
    \E truth \in [DOMAIN filter -> BOOLEAN] :
        /\ Last(truth)
        /\ \A i \in DOMAIN filter : truth[i] = Truth(filter, f, truth, i)

Named(id, f) == id.type # NoName /\ f \in Table[Fixed[id.type]] /\ f.pk = id.key

Asked(qr, f) ==
    CASE qr.kind = "all" -> TRUE
      [] qr.kind = "ids" -> \E id \in qr.ids : Named(id, f)
      [] qr.kind = "stored" -> Named(qr.id, f)
      [] qr.kind = "filter" -> Matches(qr.filter, f)

(* Queries for which the code has its own answer.  The ids of one type     *)
(* were written in two ways: both groups have to match.  An And, outside   *)
(* every Not, of several comparisons of repeated elements: they have to    *)
(* match the same related object.  A Not of a comparison of an expression  *)
(* that is NULL: it does not match.  A comparison of a repeated element    *)
(* and, later in the same And or Or, a Not of another: one related object  *)
(* has to match both, and the others may match what is negated.            *)
SpelledInTwoWays(qr) == qr.kind = "ids" /\ \E a, b \in qr.ids : a.type # b.type
OfRepeated(n) == ~IsLogic(n) /\ \E i \in DOMAIN n.args : ManyRef(n.args[i])
OutsideNot(filter) ==
    UNION {path \in SUBSET DOMAIN filter :
             \A i \in path : /\ filter[i].op # "Not"
                             /\ \/ i = Len(filter)
                                \/ \E k \in path : IsLogic(filter[k]) /\ i \in filter[k].of}
OfOneObject(qr) ==
    qr.kind = "filter" /\
    \E k \in OutsideNot(qr.filter) :
        /\ qr.filter[k].op = "And"
        /\ \E i, j \in 1..k : i # j /\ OfRepeated(qr.filter[i]) /\ OfRepeated(qr.filter[j])
NotOfNull(qr, f) ==
    qr.kind = "filter" /\
    \E i, k \in DOMAIN qr.filter :
        /\ i < k /\ qr.filter[k].op = "Not"
        /\ ~IsLogic(qr.filter[i]) /\ ~IsRef(Lhs(qr.filter[i]))
        /\ \E a \in DOMAIN qr.filter[i].args : Values(qr.filter[i].args[a], f) = {}
Reached(filter, k, ops) ==
    UNION {path \in SUBSET (1..k) :
             \A i \in path : i = k \/ \E m \in path : filter[m].op \in ops /\ i \in filter[m].of}
JoinsAt(filter, k) == \E i \in Reached(filter, k, {"And", "Or"}) : OfRepeated(filter[i])
NegatesAt(filter, k) ==
    \E m \in Reached(filter, k, {"And", "Or"}) :
        /\ filter[m].op = "Not"
        /\ \E i \in Reached(filter, m, {"And", "Or", "Not"}) : OfRepeated(filter[i])
NotOfJoined(qr) ==
    qr.kind = "filter" /\
    \E k \in OutsideNot(qr.filter) :
        /\ IsLogic(qr.filter[k])
        /\ \E a, b \in qr.filter[k].of :
              a < b /\ JoinsAt(qr.filter, a) /\ NegatesAt(qr.filter, b)

(* A literal that no element says the type of.                             *)
UncheckedLiteral(n) ==
    n.op \in {"compare", "between"} /\ ~IsRef(Lhs(n)) /\ Literal(BadValue) \in ToSet(Rhs(n))

(* A request that every part of the server can take as it is.              *)
Typed(name) == name # NoName /\ Fixed[name] \in TypeNames \ Denied
Answerable(qr) ==
    /\ Len(qr.typeNames) <= 1 /\ qr.srsName # "unknown"
    /\ \A i \in DOMAIN qr.typeNames : Typed(qr.typeNames[i])
    /\ qr.typeNames = <<>> => qr.kind \in {"ids", "stored"}
    /\ LET ids == IF qr.kind = "ids" THEN qr.ids ELSE IF qr.kind = "stored" THEN {qr.id} ELSE {}
       IN  /\ \A id \in ids : Typed(id.type) /\ id.key # BadValue
           /\ qr.typeNames = <<>> =>
                 \A a, b \in ids : a.type = b.type
           /\ qr.typeNames # <<>> =>
                 \A id \in ids : Fixed[id.type] = Fixed[qr.typeNames[1]]
    /\ qr.kind = "filter" =>
         \A i \in DOMAIN qr.filter : ~RefusesNode(qr.filter[i]) /\ ~UncheckedLiteral(qr.filter[i])

-----------------------------------------------------------------------------
(* The query of a request returns the features that it asks for, whatever  *)
(* the queries before it put into their compilers; it returns none else    *)
(* even where the code has its own answer, but for the last of the cases   *)
(* above.                                                                  *)
AnswersAreWhatWasAsked ==
    \A i \in DOMAIN answers : NotOfJoined(request[i]) \/ \A f \in DOMAIN answers[i] :
        /\ answers[i][f] > 0 => Asked(request[i], f)
        /\ \/ answers[i][f] > 0
           \/ ~Asked(request[i], f)
           \/ SpelledInTwoWays(request[i]) \/ OfOneObject(request[i]) \/ NotOfNull(request[i], f)

(* "Enforce SELECT DISTINCT on the query, used when joining 1-N or N-M     *)
(* relationships" (CompiledQuery.add_distinct): the answer has no feature  *)
(* twice, as long as the order does not join related objects.              *)
FilterRepeatsNoFeature ==
    \A i \in DOMAIN answers : \A f \in DOMAIN answers[i] :
        (\E k \in DOMAIN request[i].sortBy : Many(request[i].sortBy[k])) \/ answers[i][f] <= 1

(* When the compiling begins, every query of the request has its type, and *)
(* check_permissions() has let all of them pass.                           *)
PermissionsComeFirst ==
    phase \in {"compile", "done"} =>
        /\ Len(types) = Len(request)
        /\ \A i \in DOMAIN types : ToSet(types[i]) \intersect Denied = {}

(* A request that can be answered is neither refused nor does it crash: no *)
(* lookup is left behind, and none ends in the query of another type.      *)
AnswerableIsAnswered ==
    (\A i \in DOMAIN request : Answerable(request[i])) => phase \notin {"refused", "crashed"}

=============================================================================
