------------------------ MODULE QueryCompilerProofs ------------------------
(***************************************************************************)
(* Theorems about QueryCompiler, for any requests, types and tables.       *)
(***************************************************************************)
EXTENDS QueryCompiler, SequenceTheorems, FiniteSetTheorems, TLAPS

(* The queries before "at" are bound while the request is validated, and   *)
(* all of them are afterwards; no bound query has a type that is denied.   *)
Bound ==
    /\ request \in Requests
    /\ at \in 1..Len(request)
    /\ types \in Seq(ToSet(types))
    /\ phase = "bind" => Len(types) = at - 1
    /\ phase \in {"compile", "done"} => Len(types) = Len(request)
    /\ \A i \in 1..Len(types) : ToSet(types[i]) \intersect Denied = {}

LEMMA RequestsHaveQueries ==
    ASSUME NEW r \in Requests
    PROVE  Len(r) \in Nat /\ Len(r) >= 1
<1>1. r # <<>> /\ r \in Seq(ToSet(r))
  BY RequestsAssumption
<1> QED
  BY <1>1, EmptySeq, LenProperties

LEMMA AppendKeeps ==
    ASSUME NEW s, s \in Seq(ToSet(s)), NEW e
    PROVE  /\ Append(s, e) \in Seq(ToSet(Append(s, e)))
           /\ Len(Append(s, e)) = Len(s) + 1
           /\ \A i \in 1..Len(s) : Append(s, e)[i] = s[i]
           /\ Append(s, e)[Len(s) + 1] = e
<1> DEFINE T == ToSet(s) \union {e}
           t == Append(s, e)
<1>1. s \in Seq(T)
  BY DEF ToSet
<1>2. /\ t \in Seq(T)
      /\ Len(t) = Len(s) + 1
      /\ \A i \in 1..Len(s) : t[i] = s[i]
      /\ t[Len(s) + 1] = e
  BY <1>1, AppendProperties
<1>3. t \in Seq(ToSet(t))
  <2> HIDE DEF t
  <2>1. t \in [1..Len(t) -> T] /\ Len(t) \in Nat
    BY <1>2, LenProperties
  <2>2. t = [i \in 1..Len(t) |-> t[i]] /\ DOMAIN t = 1..Len(t)
    BY <2>1
  <2>3. \A i \in 1..Len(t) : t[i] \in ToSet(t)
    BY <2>2 DEF ToSet
  <2>4. t \in [1..Len(t) -> ToSet(t)]
    BY <2>2, <2>3
  <2> QED
    BY <2>1, <2>4, SeqDef
<1> QED
  BY <1>2, <1>3

LEMMA BoundInvariant == Spec => []Bound
<1>1. Init => Bound
  BY RequestsHaveQueries DEF Init, Bound, ToSet
<1>2. Bound /\ [Next]_vars => Bound'
  <2> SUFFICES ASSUME Bound, [Next]_vars PROVE Bound'
    OBVIOUS
  <2>0. Len(request) \in Nat /\ Len(request) >= 1 /\ at \in Nat
    BY RequestsHaveQueries DEF Bound
  <2>1. CASE Bind
    <3> DEFINE bound == [i \in DOMAIN GetTypeNames |-> Fixed[GetTypeNames[i]]]
    <3>1. ToSet(bound) \intersect Denied = {}
      BY <2>1 DEF Bind, Bindable, ToSet
    <3>2. types' = Append(types, bound) /\ request' = request /\ phase = "bind"
      BY <2>1 DEF Bind
    <3>3. /\ types' \in Seq(ToSet(types'))
          /\ Len(types') = Len(types) + 1
          /\ \A i \in 1..Len(types) : types'[i] = types[i]
          /\ types'[Len(types) + 1] = bound
      BY <3>2, AppendKeeps DEF Bound
    <3>4. \A i \in 1..Len(types') : ToSet(types'[i]) \intersect Denied = {}
      <4> SUFFICES ASSUME NEW i \in 1..Len(types')
                   PROVE  ToSet(types'[i]) \intersect Denied = {}
        OBVIOUS
      <4>1. Len(types) \in Nat
        BY LenProperties DEF Bound
      <4>2. CASE i = Len(types) + 1
        BY <3>1, <3>3, <4>2
      <4>3. CASE i \in 1..Len(types)
        BY <3>3, <4>3 DEF Bound
      <4> QED
        BY <3>3, <4>1, <4>2, <4>3
    <3>5. CASE at < Len(request)
      BY <2>0, <2>1, <3>2, <3>3, <3>4, <3>5 DEF Bind, Bound
    <3>6. CASE ~(at < Len(request))
      BY <2>0, <2>1, <3>2, <3>3, <3>4, <3>6 DEF Bind, Bound
    <3> QED
      BY <3>5, <3>6
  <2>2. CASE UNCHANGED <<request, types>> /\ at' = at
             /\ (phase' = phase \/ phase' \in {"refused", "crashed"})
    BY <2>2 DEF Bound
  <2>3. CASE GetQueryset
    BY <2>0, <2>3 DEF GetQueryset, Complete, Bound
  <2>4. BindFails \/ StartFails \/ GetQuerysetFails => UNCHANGED <<request, types>> /\ at' = at
          /\ (phase' = phase \/ phase' \in {"refused", "crashed"})
    <3>1. BindFailure \in {"refused", "crashed"}
      BY DEF BindFailure
    <3> QED
      BY <3>1 DEF BindFails, StartFails, GetQuerysetFails, Stop
  <2>5. Start \/ UNCHANGED vars => UNCHANGED <<request, types>> /\ at' = at /\ phase' = phase
    BY DEF Start, vars
  <2>6. BuildStored \/ BuildLogic \/ BuildComparison =>
          UNCHANGED <<request, types>> /\ at' = at
          /\ (phase' = phase \/ phase' \in {"refused", "crashed"})
    BY DEF BuildStored, BuildLogic, BuildComparison, Stop, Built
  <2>7. CASE BuildIds
    <3>1. CASE Built
      BY <2>2, <3>1 DEF Built
    <3>2. CASE \E name : Stop(GroupOutcome(query.ids, name))
      <4>1. PICK name : Stop(GroupOutcome(query.ids, name))
        BY <3>2
      <4>2. GroupOutcome(query.ids, name) \in {"crashed", "refused", "compile"}
        BY DEF GroupOutcome
      <4>3. phase = "compile"
        BY <2>7 DEF BuildIds, Building
      <4> QED
        BY <2>2, <4>1, <4>2, <4>3 DEF Stop
    <3> QED
      BY <2>7, <3>1, <3>2 DEF BuildIds
  <2> QED
    BY <2>1, <2>2, <2>3, <2>4, <2>5, <2>6, <2>7 DEF Next
<1> QED
  BY <1>1, <1>2, PTL DEF Spec

(* All queries of a request have their types, and check_permissions() has  *)
(* let every type pass, before the first of them is compiled.              *)
THEOREM PermissionsAreChecked == Spec => []PermissionsComeFirst
<1>1. Bound => PermissionsComeFirst
  BY DEF Bound, PermissionsComeFirst
<1> QED
  BY <1>1, BoundInvariant, PTL

-----------------------------------------------------------------------------
(* The state of a query while it is compiled, in the phases before, and    *)
(* what is known of its request.                                           *)

Compiling == phase = "compile" /\ node >= 0

IsCompiler(c) ==
    /\ c = [lookups |-> c.lookups, typed |-> c.typed, ordering |-> c.ordering,
            empty |-> c.empty, distinct |-> c.distinct]
    /\ c.empty \in BOOLEAN /\ c.distinct \in BOOLEAN

Compiled ==
    /\ node \in Int
    /\ q \in Seq(ToSet(q)) /\ answers \in Seq(ToSet(answers))
    /\ IsCompiler(compiler)
    /\ phase = "bind" => answers = <<>> /\ node = -1
    /\ phase = "compile" => Len(answers) = at - 1
    /\ Compiling => /\ compiler.ordering = query.sortBy
                    /\ compiler.lookups = {}
                    /\ query.kind # "ids" => compiler.typed = {} /\ ~compiler.empty
                    /\ query.kind = "filter" => Len(q) = node /\ node <= Len(query.filter)
                    /\ query.kind # "filter" => node \in 0..1

LEMMA QueryIsWritten ==
    ASSUME Bound
    PROVE  IsQuery(query)
<1>1. request \in Seq(ToSet(request)) /\ \A i \in DOMAIN request : IsQuery(request[i])
  BY RequestsAssumption DEF Bound
<1>2. at \in DOMAIN request
  BY <1>1, LenProperties DEF Bound
<1>. QED
  BY <1>1, <1>2 DEF query

LEMMA FilterIsWritten ==
    ASSUME Bound, query.kind = "filter"
    PROVE  /\ Len(query.filter) \in Nat /\ Len(query.filter) >= 1
           /\ DOMAIN query.filter = 1..Len(query.filter)
           /\ \A k \in 1..Len(query.filter) : IsNode(query.filter[k], k)
<1>1. /\ query.filter # <<>> /\ query.filter \in Seq(ToSet(query.filter))
      /\ \A k \in DOMAIN query.filter : IsNode(query.filter[k], k)
  BY QueryIsWritten DEF IsQuery
<1>. QED
  BY <1>1, LenProperties, EmptySeq

LEMMA NewCompilerIsOne == IsCompiler(NewCompiler)
BY DEF IsCompiler, NewCompiler

LEMMA InitCompiled == Init => Compiled
BY NewCompilerIsOne, EmptySeq DEF Init, Compiled, Compiling, ToSet

LEMMA UsedIsCompiler ==
    ASSUME NEW c, IsCompiler(c), NEW xs
    PROVE  /\ IsCompiler(Used(c, xs))
           /\ Used(c, xs).lookups = c.lookups /\ Used(c, xs).typed = c.typed
           /\ Used(c, xs).ordering = c.ordering /\ Used(c, xs).empty = c.empty
           /\ c.distinct => Used(c, xs).distinct
           /\ \A x \in xs : x.kind # "literal" /\ Kind[x.of] = "many" => Used(c, xs).distinct
<1>. DEFINE some == \E x \in xs : x.kind # "literal" /\ Kind[x.of] \in {"many", "array"}
            d == c.distinct \/ some
<1>1. Used(c, xs) = [c EXCEPT !.distinct = d]
  BY DEF Used
<1>2. /\ d \in BOOLEAN /\ (c.distinct => d)
      /\ \A x \in xs : x.kind # "literal" /\ Kind[x.of] = "many" => d
  BY DEF IsCompiler
<1>. HIDE DEF d
<1>3. [c EXCEPT !.distinct = d] = [lookups |-> c.lookups, typed |-> c.typed, ordering |-> c.ordering,
                                   empty |-> c.empty, distinct |-> d]
  BY DEF IsCompiler
<1>. QED
  BY <1>1, <1>2, <1>3 DEF IsCompiler

LEMMA StopKeeps ==
    ASSUME Compiled, NEW outcome, outcome \in {"refused", "crashed"}, Stop(outcome)
    PROVE  Compiled'
BY DEF Compiled, Compiling, Stop

(* One more node of a filter, or the only one of another query.            *)
LEMMA BuiltKeeps ==
    ASSUME Bound, Compiled, Compiling, node < Nodes, Built, IsCompiler(compiler'),
           compiler'.ordering = compiler.ordering, compiler'.lookups = compiler.lookups,
           query.kind # "ids" => compiler'.typed = compiler.typed /\ compiler'.empty = compiler.empty,
           q' \in Seq(ToSet(q')), query.kind = "filter" => Len(q') = Len(q) + 1
    PROVE  Compiled'
<1>1. query' = query
  BY DEF Built, query
<1>2. /\ node \in Int /\ answers \in Seq(ToSet(answers)) /\ Len(answers) = at - 1
      /\ compiler.ordering = query.sortBy /\ compiler.lookups = {}
      /\ query.kind # "ids" => compiler.typed = {} /\ ~compiler.empty
      /\ query.kind = "filter" => Len(q) = node
      /\ phase = "compile" /\ node >= 0
  BY DEF Compiled, Compiling
<1>3. /\ node' = node + 1 /\ node' \in Int /\ phase' = phase /\ at' = at /\ answers' = answers
  BY <1>2 DEF Built
<1>4. query.kind = "filter" => Len(q') = node' /\ node' <= Len(query.filter)
  BY <1>2, <1>3, FilterIsWritten DEF Nodes
<1>5. query.kind # "filter" => node' \in 0..1
  BY <1>2, <1>3 DEF Nodes
<1>. QED
  BY <1>1, <1>2, <1>3, <1>4, <1>5 DEF Compiled, Compiling

(* The Q of an And, Or or Not.                                             *)
NewQ(n, qs, type) ==
    LET operands == [i \in n.of |-> qs[i]]
    IN  CASE n.op = "And" -> AndQ(operands, type)
          [] n.op = "Or" -> OrQ(operands, type)
          [] n.op = "Not" -> NotQ(qs[CHOOSE i \in n.of : TRUE])

LEMMA CompiledIsKept == Bound /\ Compiled /\ [Next]_vars => Compiled'
<1>. SUFFICES ASSUME Bound, Compiled, [Next]_vars PROVE Compiled'
  OBVIOUS
<1>0. /\ Len(request) \in Nat /\ Len(request) >= 1 /\ at \in Nat /\ at >= 1 /\ at <= Len(request)
      /\ query.kind \in {"all", "ids", "stored", "filter"}
  BY RequestsHaveQueries, QueryIsWritten DEF Bound, IsQuery
<1>1. CASE Bind
  <2>1. /\ answers = <<>> /\ node = -1 /\ phase = "bind" /\ UNCHANGED <<node, compiler, q, answers>>
        /\ phase' = "bind" \/ (phase' = "compile" /\ at' = 1)
    BY <1>1 DEF Bind, Compiled
  <2>. QED
    BY <2>1 DEF Compiled, Compiling
<1>2. CASE BindFails
  BY <1>2, StopKeeps DEF BindFails, BindFailure
<1>3. CASE Start
  <2>1. query' = query
    BY <1>3 DEF Start, query
  <2>2. /\ IsCompiler(compiler') /\ compiler'.ordering = query.sortBy /\ compiler'.lookups = {}
        /\ compiler'.typed = {} /\ ~compiler'.empty
    BY <1>3 DEF Start, NewCompiler, IsCompiler
  <2>3. /\ q' = <<>> /\ q' \in Seq(ToSet(q')) /\ Len(q') = 0
        /\ node' = 0 /\ phase = "compile" /\ UNCHANGED <<phase, at, answers>>
    BY <1>3, EmptySeq DEF Start, ToSet
  <2>. QED
    BY <2>1, <2>2, <2>3, FilterIsWritten DEF Compiled, Compiling
<1>4. CASE StartFails
  BY <1>4, StopKeeps DEF StartFails
<1>5. CASE BuildIds
  <2>1. CASE Built
    <3>1. /\ IsCompiler(compiler') /\ compiler'.ordering = compiler.ordering
          /\ compiler'.lookups = compiler.lookups /\ q' = q
      BY <1>5, <2>1 DEF BuildIds, Built, Stop, Compiled, IsCompiler
    <3>. QED
      BY <1>5, <2>1, <3>1, BuiltKeeps DEF BuildIds, Building, Compiling, Compiled
  <2>2. CASE ~Built
    <3>1. PICK n : GroupOutcome(query.ids, n) # "compile" /\ Stop(GroupOutcome(query.ids, n))
      BY <1>5, <2>2 DEF BuildIds
    <3>2. GroupOutcome(query.ids, n) \in {"crashed", "refused"}
      BY <3>1 DEF GroupOutcome
    <3>. QED
      BY <3>1, <3>2, StopKeeps
  <2>. QED
    BY <2>1, <2>2
<1>6. CASE BuildStored
  <2>1. CASE query.id.key = BadValue
    BY <1>6, <2>1, StopKeeps DEF BuildStored
  <2>2. CASE query.id.key # BadValue
    <3>1. /\ compiler' = compiler /\ Built /\ Compiling /\ node < Nodes /\ query.kind = "stored"
          /\ q' = <<IdLookup({query.id}, types[at][1])>>
      BY <1>6, <2>2 DEF BuildStored, Building, Compiling
    <3>2. q' \in Seq(ToSet(q'))
      BY <3>1 DEF ToSet
    <3>. QED
      BY <3>1, <3>2, BuiltKeeps DEF Compiled
  <2>. QED
    BY <2>1, <2>2
<1>7. CASE BuildLogic
  <2>. DEFINE new == NewQ(query.filter[node + 1], q, types[at][1])
  <2>1. /\ compiler' = compiler /\ Built /\ Compiling /\ node < Nodes /\ query.kind = "filter"
        /\ q' = Append(q, new)
    BY <1>7 DEF BuildLogic, Building, Compiling, NewQ
  <2>. HIDE DEF new
  <2>2. q' \in Seq(ToSet(q')) /\ Len(q') = Len(q) + 1
    BY <2>1, AppendKeeps DEF Compiled
  <2>. QED
    BY <2>1, <2>2, BuiltKeeps DEF Compiled
<1>8. CASE BuildComparison
  <2>. DEFINE n == query.filter[node + 1]
              new == Comparison(n, types[at][1])
              xs == {Lhs(n)} \union ToSet(Rhs(n))
  <2>1. CASE types[at] = <<>> \/ RefusesNode(n)
    BY <1>8, <2>1, StopKeeps DEF BuildComparison
  <2>2. CASE ~(types[at] = <<>> \/ RefusesNode(n))
    <3>1. /\ compiler' = Used(compiler, xs) /\ Built /\ Compiling /\ node < Nodes
          /\ query.kind = "filter" /\ q' = Append(q, new)
      BY <1>8, <2>2 DEF BuildComparison, Building, Compiling, AllUsed
    <3>. HIDE DEF new, xs
    <3>2. q' \in Seq(ToSet(q')) /\ Len(q') = Len(q) + 1
      BY <3>1, AppendKeeps DEF Compiled
    <3>3. IsCompiler(compiler)
      BY DEF Compiled
    <3>. QED
      BY <3>1, <3>2, <3>3, UsedIsCompiler, BuiltKeeps
  <2>. QED
    BY <2>1, <2>2
<1>9. CASE GetQueryset
  <2>. HIDE DEF Queryset
  <2>1. /\ answers' = Append(answers, Queryset) /\ phase = "compile" /\ node' = -1
        /\ UNCHANGED <<q, compiler>>
        /\ (phase' = "compile" /\ at' = at + 1) \/ phase' = "done"
    BY <1>9 DEF GetQueryset, Complete
  <2>2. answers' \in Seq(ToSet(answers')) /\ Len(answers') = Len(answers) + 1
    BY <2>1, AppendKeeps DEF Compiled
  <2>. QED
    BY <1>0, <2>1, <2>2 DEF Compiled, Compiling
<1>10. CASE GetQuerysetFails
  BY <1>10, StopKeeps DEF GetQuerysetFails
<1>11. CASE UNCHANGED vars
  BY <1>11 DEF vars, Compiled, Compiling, query
<1>. QED
  BY <1>1, <1>2, <1>3, <1>4, <1>5, <1>6, <1>7, <1>8, <1>9, <1>10, <1>11 DEF Next

(* The rows of a Q when nothing is joined before it, and when something is.*)
Row(p) == p.row[FALSE]
RowJoined(p) == p.row[TRUE]
Sub(p) == p.sub[FALSE]
SubJoined(p) == p.sub[TRUE]
Neg(p) == p.neg[FALSE]
NegJoined(p) == p.neg[TRUE]

-----------------------------------------------------------------------------
(* A query joins related objects only if its elements said so.             *)

Distinct ==
    /\ \A i \in DOMAIN q : q[i].joins => compiler.distinct
    /\ \A p \in compiler.typed : ~p.joins
DistinctInv == (Compiling => Distinct) /\ FilterRepeatsNoFeature

LEMMA IdsDoNotJoin ==
    ASSUME NEW ids, NEW type
    PROVE  ~IdLookup(ids, type).joins
BY ElementsAssumption DEF IdLookup, LookupQ, ManyRef, Many, IsRef, Ref

(* Copies that are compared without the joined columns are one.            *)
LEMMA ResultIsDistinct ==
    ASSUME NEW c, NEW type, c.distinct \in BOOLEAN,
           \A p \in c.lookups \union c.typed : p.joins => c.distinct,
           \A i \in DOMAIN c.ordering : ~Many(c.ordering[i]),
           NEW f \in Table[type]
    PROVE  Result(c, type)[f] <= 1
<1>. DEFINE where == c.lookups \union c.typed
            rows == All({Row(p) : p \in where}, type)
            joined == (\E p \in where : p.joins) \/ \E i \in DOMAIN c.ordering : Many(c.ordering[i])
            columns(s) == [i \in DOMAIN c.ordering |->
                             IF Many(c.ordering[i]) /\ s # NoObject THEN s[c.ordering[i]] ELSE Null]
            copies == {IF c.distinct THEN columns(r[2]) ELSE r[2] : r \in {x \in rows : x[1] = f}}
            none == [i \in DOMAIN c.ordering |-> Null]
<1>1. Result(c, type)[f] = IF joined THEN Cardinality(copies) ELSE IF copies = {} THEN 0 ELSE 1
  BY DEF Result, Row
<1>2. joined => c.distinct
  OBVIOUS
<1>3. \A s : columns(s) = none
  OBVIOUS
<1>4. c.distinct => copies = {} \/ copies = {none}
  <2>. HIDE DEF rows, none
  <2>1. c.distinct => \A x \in copies : x = none
    BY <1>3
  <2>. HIDE DEF copies
  <2>. QED
    BY <2>1
<1>5. c.distinct => Cardinality(copies) <= 1
  <2>. HIDE DEF copies, none
  <2>1. Cardinality({}) = 0 /\ Cardinality({none}) = 1
    BY FS_EmptySet, FS_Singleton
  <2>. QED
    BY <1>4, <2>1
<1>. HIDE DEF joined, copies
<1>. QED
  BY <1>1, <1>2, <1>5

LEMMA QuerysetIsDistinct ==
    ASSUME Bound, Compiled, Compiling, Distinct, NEW f \in DOMAIN Queryset
    PROVE  (\E k \in DOMAIN query.sortBy : Many(query.sortBy[k])) \/ Queryset[f] <= 1
<1>. SUFFICES ASSUME \A k \in DOMAIN query.sortBy : ~Many(query.sortBy[k])
              PROVE  Queryset[f] <= 1
  OBVIOUS
<1>. DEFINE c == WithLookups
            type == types[at][1]
<1>1. IsCompiler(compiler) /\ compiler.ordering = query.sortBy /\ compiler.lookups = {}
      /\ q \in Seq(ToSet(q))
  BY DEF Compiled
<1>2. /\ c.distinct = compiler.distinct /\ c.ordering = query.sortBy /\ c.typed = compiler.typed
      /\ c.lookups \subseteq {Last(q)} /\ (q = <<>> => c.lookups = {})
      /\ c.distinct \in BOOLEAN
  BY <1>1 DEF WithLookups, IsCompiler
<1>3. q # <<>> => Last(q) = q[Len(q)] /\ Len(q) \in DOMAIN q
  BY <1>1, LenProperties, EmptySeq DEF Last
<1>4. \A p \in c.lookups \union c.typed : p.joins => c.distinct
  BY <1>2, <1>3 DEF Distinct
<1>5. CASE compiler.empty
  BY <1>5 DEF Queryset
<1>6. CASE ~compiler.empty
  <2>1. Queryset = Result(c, type)
    BY <1>6 DEF Queryset
  <2>2. f \in Table[type]
    BY <2>1 DEF Result
  <2>. HIDE DEF c, type
  <2>. QED
    BY <1>2, <1>4, <2>1, <2>2, ResultIsDistinct
<1>. QED
  BY <1>5, <1>6

(* What Append adds is the only new element.                               *)
LEMMA AppendedIs ==
    ASSUME NEW s, s \in Seq(ToSet(s)), NEW e, NEW i \in DOMAIN Append(s, e)
    PROVE  \/ i \in DOMAIN s /\ Append(s, e)[i] = s[i]
           \/ i = Len(s) + 1 /\ Append(s, e)[i] = e
<1>1. Append(s, e) \in Seq(ToSet(Append(s, e))) /\ Len(s) \in Nat
  BY AppendKeeps, LenProperties
<1>2. i \in 1..Len(s) + 1 /\ DOMAIN s = 1..Len(s)
  BY <1>1, AppendKeeps, LenProperties
<1>. QED
  BY <1>1, <1>2, AppendKeeps

LEMMA DistinctIsKept == Bound /\ Compiled /\ DistinctInv /\ [Next]_vars => DistinctInv'
<1>. SUFFICES ASSUME Bound, Compiled, DistinctInv, [Next]_vars PROVE DistinctInv'
  OBVIOUS
<1>0. at \in Nat /\ at \in 1..Len(request) /\ q \in Seq(ToSet(q)) /\ IsCompiler(compiler)
  BY RequestsHaveQueries DEF Bound, Compiled
<1>1. answers' = answers /\ request' = request => FilterRepeatsNoFeature'
  BY DEF DistinctInv, FilterRepeatsNoFeature
<1>2. CASE Bind \/ BindFails \/ StartFails \/ GetQuerysetFails
  <2>1. ~Compiling' /\ answers' = answers /\ request' = request
    BY <1>2 DEF Bind, BindFails, BindFailure, StartFails, GetQuerysetFails, Stop, Compiling, Compiled
  <2>. QED
    BY <1>1, <2>1 DEF DistinctInv
<1>3. CASE Start
  <2>1. q' = <<>> /\ compiler'.typed = {} /\ answers' = answers /\ request' = request
    BY <1>3 DEF Start, NewCompiler
  <2>. QED
    BY <1>1, <2>1 DEF DistinctInv, Distinct
<1>4. CASE BuildIds
  <2>1. answers' = answers /\ request' = request /\ Compiling
    BY <1>4 DEF BuildIds, Built, Stop, Building, Compiling
  <2>2. CASE Built
    <3>1. q' = q /\ compiler'.distinct = compiler.distinct
      BY <1>0, <1>4, <2>2 DEF BuildIds, Built, Stop, IsCompiler
    <3>2. \A p \in compiler'.typed : ~p.joins
      <4>1. \/ compiler'.typed = compiler.typed
            \/ compiler'.typed = {IdLookup(Group(query.ids, n), types[at][1]) : n \in GroupNames(query.ids)}
        BY <1>0, <1>4, <2>2 DEF BuildIds, Built, Stop, IsCompiler
      <4>. QED
        BY <2>1, <4>1, IdsDoNotJoin DEF DistinctInv, Distinct
    <3>. QED
      BY <1>1, <2>1, <3>1, <3>2 DEF DistinctInv, Distinct
  <2>3. CASE ~Built
    <3>1. compiler' = compiler /\ q' = q
      BY <1>4, <2>3 DEF BuildIds, Stop
    <3>. QED
      BY <1>1, <2>1, <3>1 DEF DistinctInv, Distinct
  <2>. QED
    BY <2>2, <2>3
<1>5. CASE BuildStored
  <2>1. answers' = answers /\ request' = request /\ Compiling /\ compiler' = compiler
        /\ (q' = q \/ q' = <<IdLookup({query.id}, types[at][1])>>)
    BY <1>5 DEF BuildStored, Built, Stop, Building, Compiling
  <2>2. \A i \in DOMAIN q' : q'[i].joins => compiler.distinct
    BY <2>1, IdsDoNotJoin DEF DistinctInv, Distinct
  <2>. QED
    BY <1>1, <2>1, <2>2 DEF DistinctInv, Distinct
<1>6. CASE BuildLogic
  <2>. DEFINE n == query.filter[node + 1]
              operands == [i \in n.of |-> q[i]]
              new == NewQ(n, q, types[at][1])
  <2>1. /\ answers' = answers /\ request' = request /\ Compiling /\ compiler' = compiler
        /\ q' = Append(q, new) /\ IsLogic(n) /\ query.kind = "filter" /\ node < Nodes
    BY <1>6 DEF BuildLogic, Built, Building, Compiling, NewQ
  <2>2. n.of \subseteq DOMAIN q
    <3>1. node + 1 \in 1..Len(query.filter) /\ Len(q) = node /\ DOMAIN q = 1..Len(q)
      BY <1>0, <2>1, FilterIsWritten, LenProperties DEF Compiled, Compiling, Nodes
    <3>2. IsNode(n, node + 1)
      BY <2>1, <3>1, FilterIsWritten
    <3>. HIDE DEF n
    <3>. QED
      BY <2>1, <3>1, <3>2 DEF IsNode, Compiled
  <2>3. DOMAIN operands = n.of /\ \A i \in n.of : operands[i].joins => compiler.distinct
    BY <2>1, <2>2 DEF DistinctInv, Distinct
  <2>4. new.joins => compiler.distinct
    <3>0. new = CASE n.op = "And" -> AndQ(operands, types[at][1])
                  [] n.op = "Or" -> OrQ(operands, types[at][1])
                  [] n.op = "Not" -> NotQ(q[CHOOSE i \in n.of : TRUE])
      BY DEF NewQ
    <3>. HIDE DEF operands, n, new
    <3>1. CASE n.op = "And"
      BY <2>3, <3>0, <3>1 DEF AndQ
    <3>2. CASE n.op = "Or"
      BY <2>3, <3>0, <3>2 DEF OrQ
    <3>3. CASE n.op = "Not"
      BY <3>0, <3>3 DEF NotQ
    <3>. QED
      BY <2>1, <3>1, <3>2, <3>3 DEF IsLogic
  <2>. HIDE DEF new
  <2>5. \A i \in DOMAIN q' : q'[i].joins => compiler.distinct
    BY <1>0, <2>1, <2>4, AppendedIs DEF DistinctInv, Distinct
  <2>. QED
    BY <1>1, <2>1, <2>5 DEF DistinctInv, Distinct
<1>7. CASE BuildComparison
  <2>. DEFINE n == query.filter[node + 1]
              new == Comparison(n, types[at][1])
              xs == {Lhs(n)} \union ToSet(Rhs(n))
  <2>1. answers' = answers /\ request' = request /\ Compiling
    BY <1>7 DEF BuildComparison, Built, Stop, Building, Compiling
  <2>2. CASE types[at] = <<>> \/ RefusesNode(n)
    <3>1. UNCHANGED <<q, compiler>>
      BY <1>7, <2>2 DEF BuildComparison, Stop
    <3>. QED
      BY <1>1, <2>1, <3>1 DEF DistinctInv, Distinct
  <2>3. CASE ~(types[at] = <<>> \/ RefusesNode(n))
    <3>1. compiler' = Used(compiler, xs) /\ q' = Append(q, new)
      BY <1>7, <2>3 DEF BuildComparison, AllUsed
    <3>2. new.joins => Lhs(n) \in xs /\ Lhs(n).kind # "literal" /\ Kind[Lhs(n).of] = "many"
      BY DEF Comparison, LookupQ, ManyRef, Many, IsRef
    <3>. HIDE DEF new, xs
    <3>3. /\ compiler'.typed = compiler.typed /\ (compiler.distinct => compiler'.distinct)
          /\ new.joins => compiler'.distinct
      BY <1>0, <3>1, <3>2, UsedIsCompiler
    <3>4. \A i \in DOMAIN q' : q'[i].joins => compiler'.distinct
      BY <1>0, <2>1, <3>1, <3>3, AppendedIs DEF DistinctInv, Distinct
    <3>. QED
      BY <1>1, <2>1, <3>3, <3>4 DEF DistinctInv, Distinct
  <2>. QED
    BY <2>2, <2>3
<1>8. CASE GetQueryset
  <2>. HIDE DEF Queryset
  <2>1. /\ answers' = Append(answers, Queryset) /\ ~Compiling' /\ Compiling
        /\ request' = request /\ Len(answers) = at - 1 /\ answers \in Seq(ToSet(answers))
    BY <1>8, FilterIsWritten DEF GetQueryset, Complete, Compiling, Compiled, Nodes
  <2>2. ASSUME NEW i \in DOMAIN answers', NEW f \in DOMAIN answers'[i]
        PROVE  (\E k \in DOMAIN request[i].sortBy : Many(request[i].sortBy[k])) \/ answers'[i][f] <= 1
    <3>1. CASE i \in DOMAIN answers /\ answers'[i] = answers[i]
      BY <2>2, <3>1 DEF DistinctInv, FilterRepeatsNoFeature
    <3>2. CASE i = at /\ answers'[i] = Queryset
      BY <2>1, <2>2, <3>2, QuerysetIsDistinct DEF DistinctInv, query
    <3>. QED
      BY <1>0, <2>1, <2>2, <3>1, <3>2, AppendedIs
  <2>. QED
    BY <2>1, <2>2 DEF DistinctInv, FilterRepeatsNoFeature
<1>9. CASE UNCHANGED vars
  BY <1>9 DEF vars, DistinctInv, Distinct, Compiling, FilterRepeatsNoFeature
<1>. QED
  BY <1>2, <1>3, <1>4, <1>5, <1>6, <1>7, <1>8, <1>9 DEF Next

(* A filter that joins related objects makes its query DISTINCT, and the   *)
(* copies of a feature are then one, whatever else it compares; another    *)
(* query of the request starts afresh (add_distinct and get_queryset of    *)
(* CompiledQuery).                                                         *)
THEOREM DistinctIsEnforced == Spec => []FilterRepeatsNoFeature
<1>1. Init => DistinctInv
  BY DEF Init, DistinctInv, Compiling, FilterRepeatsNoFeature
<1>2. DistinctInv => FilterRepeatsNoFeature
  BY DEF DistinctInv
<1>. QED
  BY <1>1, <1>2, BoundInvariant, InitCompiled, CompiledIsKept, DistinctIsKept, PTL DEF Spec
-----------------------------------------------------------------------------
(* A request that can be answered as it is: every query has one type, its  *)
(* identifiers are of this type, and no literal is left unchecked.         *)

OneType(qr, ts) ==
    /\ qr.kind = "stored" => ts = <<Fixed[qr.id.type]>>
    /\ Answerable(qr) => /\ Len(ts) = 1 /\ ts = <<ts[1]>>
                         /\ qr.kind = "ids" => \A id \in qr.ids : Fixed[id.type] = ts[1]
Prepared ==
    \A i \in DOMAIN q : q[i].unprepared =>
        query.kind = "filter" /\ \E k \in DOMAIN query.filter : UncheckedLiteral(query.filter[k])
AnswerableInv ==
    /\ \A i \in 1..Len(types) : OneType(request[i], types[i])
    /\ Compiling => Prepared
    /\ AnswerableIsAnswered

(* The names of identifiers that have one name.                            *)
LEMMA OneNameInOrder ==
    ASSUME NEW ids, \A id \in ids : id.text \in Int, NEW n
    PROVE  InOrder(ids, {n}) = <<n>>
<1>1. ~Before(ids, n, n)
  BY DEF Before
<1>2. Cardinality({n}) = 1 /\ Cardinality({}) = 0
  BY FS_EmptySet, FS_Singleton
<1>3. {m \in {n} : Before(ids, m, n)} = {}
  BY <1>1
<1>4. (CHOOSE x \in {n} : Cardinality({m \in {n} : Before(ids, m, x)}) = 0) = n
  BY <1>2, <1>3
<1>5. InOrder(ids, {n}) = [i \in 1..1 |-> CHOOSE x \in {n} : Cardinality({m \in {n} : Before(ids, m, x)}) = i - 1]
  BY <1>2 DEF InOrder
<1>6. \A i \in 1..1 : i = 1 /\ i - 1 = 0
  OBVIOUS
<1>7. InOrder(ids, {n}) = [i \in 1..1 |-> n]
  BY <1>4, <1>5, <1>6
<1>8. [i \in 1..1 |-> n] = <<n>>
  OBVIOUS
<1>. QED
  BY <1>7, <1>8

LEMMA AnswerableHasOneName ==
    ASSUME IsQuery(query), Answerable(query)
    PROVE  /\ GetTypeNames = <<GetTypeNames[1]>> /\ Typed(GetTypeNames[1])
           /\ query.kind = "stored" => GetTypeNames[1] = query.id.type
           /\ query.kind = "ids" => \A id \in query.ids : Fixed[id.type] = Fixed[GetTypeNames[1]]
<1>1. /\ query.typeNames \in Seq(Spellings \union {NoName}) /\ Len(query.typeNames) <= 1
      /\ \A i \in DOMAIN query.typeNames : Typed(query.typeNames[i])
  BY DEF IsQuery, Answerable
<1>2. query.typeNames # <<>> => query.typeNames = <<query.typeNames[1]>> /\ Typed(query.typeNames[1])
  BY <1>1
<1>3. CASE query.kind = "stored"
  BY <1>3 DEF GetTypeNames, Answerable
<1>4. CASE query.kind = "ids" /\ query.typeNames = <<>>
  <2>1. PICK x \in query.ids : TRUE
    BY <1>4 DEF IsQuery
  <2>2. \A id \in query.ids : id.type = x.type /\ Typed(id.type) /\ id.text \in Int
    BY <1>4 DEF IsQuery, Answerable
  <2>3. GroupNames(query.ids) \ {NoName} = {x.type}
    BY <2>1, <2>2 DEF GroupNames, Typed
  <2>4. GetTypeNames = <<x.type>>
    BY <1>4, <2>2, <2>3, OneNameInOrder DEF GetTypeNames
  <2>. QED
    BY <1>4, <2>1, <2>2, <2>4
<1>5. CASE query.kind # "stored" /\ ~(query.kind = "ids" /\ query.typeNames = <<>>)
  <2>1. query.typeNames # <<>> /\ GetTypeNames = query.typeNames
    BY <1>5 DEF GetTypeNames, Answerable
  <2>. QED
    BY <1>2, <1>5, <2>1 DEF Answerable
<1>. QED
  BY <1>3, <1>4, <1>5

LEMMA AnswerableIsBindable ==
    ASSUME IsQuery(query), Answerable(query)
    PROVE  Bindable
<1>1. GetTypeNames = <<GetTypeNames[1]>> /\ Typed(GetTypeNames[1])
  BY AnswerableHasOneName
<1>2. \A i \in DOMAIN GetTypeNames : Typed(GetTypeNames[i])
  BY <1>1
<1>3. GetTypeNames # <<>>
  BY <1>1
<1>4. query.kind = "stored" => query.id.dot
  BY DEF IsQuery, IsId, Answerable, Typed
<1>. QED
  BY <1>2, <1>3, <1>4 DEF Bindable, Typed, Known, Answerable

LEMMA BoundHasOneType ==
    ASSUME IsQuery(query)
    PROVE  OneType(query, [i \in DOMAIN GetTypeNames |-> Fixed[GetTypeNames[i]]])
<1>. DEFINE ts == [i \in DOMAIN GetTypeNames |-> Fixed[GetTypeNames[i]]]
<1>1. query.kind = "stored" => ts = <<Fixed[query.id.type]>>
  BY DEF GetTypeNames
<1>2. ASSUME Answerable(query)
      PROVE  /\ Len(ts) = 1 /\ ts = <<ts[1]>>
             /\ query.kind = "ids" => \A id \in query.ids : Fixed[id.type] = ts[1]
  <2>1. GetTypeNames = <<GetTypeNames[1]>>
        /\ (query.kind = "ids" => \A id \in query.ids : Fixed[id.type] = Fixed[GetTypeNames[1]])
    BY <1>2, AnswerableHasOneName
  <2>2. ts = <<Fixed[GetTypeNames[1]]>>
    BY <2>1
  <2>. HIDE DEF ts
  <2>. QED
    BY <2>1, <2>2
<1>. QED
  BY <1>1, <1>2 DEF OneType

(* A comparison is prepared unless it has an unchecked literal.            *)
LEMMA ComparisonIsPrepared ==
    ASSUME NEW n, IsComparison(n), NEW type, ~UncheckedLiteral(n)
    PROVE  ~Comparison(n, type).unprepared
<1>. SUFFICES ASSUME ~IsRef(Lhs(n)), Literal(BadValue) \in ToSet(Rhs(n)) PROVE FALSE
  BY DEF Comparison, LookupQ
<1>1. n.op \in {"null", "bbox"}
  BY DEF UncheckedLiteral, IsComparison, Arity
<1>2. n.args \in Seq(ToSet(n.args)) /\ Len(n.args) \in Arity[n.op]
  BY DEF IsComparison
<1>3. CASE n.op = "null"
  <2>1. Len(n.args) = 1 /\ n.args # <<>>
    <3>1. Arity["null"] = {1}
      BY DEF Arity
    <3>2. Len(n.args) \in {1}
      BY <1>2, <1>3, <3>1
    <3>3. Len(n.args) = 1
      BY <3>2
    <3>4. n.args # <<>>
      BY <3>3
    <3>. QED
      BY <3>3, <3>4
  <2>2. Rhs(n) = Tail(n.args)
    BY <1>3 DEF Rhs, Turned
  <2>3. Rhs(n) = <<>>
    BY <1>2, <2>1, <2>2
  <2>. QED
    BY <2>3 DEF ToSet
<1>4. CASE n.op = "bbox"
  <2>1. Rhs(n) = <<n.box>>
    BY <1>4 DEF Rhs, Turned
  <2>2. n.box = Literal(BadValue)
    BY <2>1 DEF ToSet
  <2>. QED
    BY <1>4, <2>2 DEF IsComparison, Literal
<1>. QED
  BY <1>1, <1>3, <1>4

LEMMA TypesAreOne ==
    ASSUME Bound, AnswerableInv, phase = "compile", Answerable(query)
    PROVE  /\ Len(types[at]) = 1 /\ types[at] # <<>> /\ types[at] = <<types[at][1]>>
           /\ query.kind = "ids" => \A id \in query.ids : Fixed[id.type] = types[at][1]
<1>1. at \in 1..Len(types)
  BY DEF Bound
<1>2. OneType(query, types[at])
  BY <1>1 DEF AnswerableInv, query
<1>. QED
  BY <1>2 DEF OneType

(* No action that refuses a query can be taken.                            *)
LEMMA AnswerableIsNotStopped ==
    ASSUME Bound, Compiled, AnswerableInv, Next, \A i \in DOMAIN request : Answerable(request[i])
    PROVE  phase' \notin {"refused", "crashed"}
<1>0. /\ IsQuery(query) /\ Answerable(query)
      /\ phase \notin {"refused", "crashed"}
  <2>1. at \in DOMAIN request
    BY RequestsAssumption, LenProperties DEF Bound
  <2>. QED
    BY <2>1, QueryIsWritten DEF AnswerableInv, AnswerableIsAnswered, query
<1>1. ~BindFails
  <2>1. ~Joins
    BY RequestsAssumption DEF Joins, Answerable, Bound, IsQuery
  <2>. QED
    BY <1>0, <2>1, AnswerableIsBindable DEF BindFails
<1>2. ~StartFails
  <2>. SUFFICES ASSUME StartFails PROVE FALSE
    OBVIOUS
  <2>1. phase = "compile" /\ (Len(types[at]) > 1 \/ types[at] = <<>>)
    BY DEF StartFails
  <2>2. Len(types[at]) = 1 /\ types[at] # <<>>
    BY <1>0, <2>1, TypesAreOne
  <2>. QED
    BY <2>1, <2>2
<1>3. BuildIds => Built
  <2>. SUFFICES ASSUME BuildIds PROVE Built
    OBVIOUS
  <2>1. phase = "compile" /\ query.kind = "ids"
    BY DEF BuildIds, Building
  <2>2. \A id \in query.ids : /\ Typed(id.type) /\ id.key # BadValue
                              /\ Fixed[id.type] \in ToSet(types[at])
    <3>1. types[at] = <<types[at][1]>> /\ \A id \in query.ids : Fixed[id.type] = types[at][1]
      BY <1>0, <2>1, TypesAreOne
    <3>. QED
      BY <1>0, <2>1, <3>1 DEF Answerable, ToSet
  <2>3. \A n \in GroupNames(query.ids) : GroupOutcome(query.ids, n) = "compile"
    <3>. TAKE n \in GroupNames(query.ids)
    <3>1. n # NoName /\ Fixed[n] \in ToSet(types[at])
      BY <2>2 DEF GroupNames, Typed
    <3>2. \A id \in Group(query.ids, n) : id.key # BadValue
      BY <2>2 DEF Group
    <3>. QED
      BY <3>1, <3>2 DEF GroupOutcome
  <2>4. {n \in GroupNames(query.ids) : GroupOutcome(query.ids, n) # "compile"} = {}
    BY <2>3
  <2>. QED
    BY <2>4 DEF BuildIds
<1>4. BuildStored => Built
  BY <1>0 DEF BuildStored, Building, Answerable
<1>5. BuildComparison => Built
  <2>. SUFFICES ASSUME BuildComparison PROVE Built
    OBVIOUS
  <2>1. phase = "compile" /\ query.kind = "filter" /\ node >= 0 /\ node < Nodes
    BY DEF BuildComparison, Building
  <2>2. node + 1 \in DOMAIN query.filter
    BY <2>1, FilterIsWritten DEF Nodes, Compiled
  <2>3. ~RefusesNode(query.filter[node + 1])
    BY <1>0, <2>1, <2>2 DEF Answerable
  <2>. QED
    BY <1>0, <2>1, <2>3, TypesAreOne DEF BuildComparison
<1>6. ~GetQuerysetFails
  <2>. SUFFICES ASSUME Complete PROVE Usable
    BY DEF GetQuerysetFails
  <2>1. Compiling /\ q \in Seq(ToSet(q))
    BY FilterIsWritten DEF Complete, Compiling, Compiled, Nodes
  <2>2. q # <<>> => Last(q) = q[Len(q)] /\ Len(q) \in DOMAIN q
    BY <2>1, LenProperties, EmptySeq DEF Last
  <2>3. \A i \in DOMAIN q : ~q[i].unprepared
    BY <1>0, <2>1 DEF AnswerableInv, Prepared, Answerable
  <2>. QED
    BY <1>0, <2>1, <2>2, <2>3, TypesAreOne DEF Usable, Compiling
<1>. QED
  BY <1>0, <1>1, <1>2, <1>3, <1>4, <1>5, <1>6
     DEF Next, Bind, Start, BuildLogic, GetQueryset, Built

LEMMA AnswerableIsKept == Bound /\ Compiled /\ AnswerableInv /\ [Next]_vars => AnswerableInv'
<1>. SUFFICES ASSUME Bound, Compiled, AnswerableInv, [Next]_vars PROVE AnswerableInv'
  OBVIOUS
<1>0. /\ at \in Nat /\ at \in 1..Len(request) /\ q \in Seq(ToSet(q))
      /\ types \in Seq(ToSet(types)) /\ IsQuery(query)
  BY RequestsHaveQueries, QueryIsWritten DEF Bound, Compiled
<1>1. AnswerableIsAnswered'
  <2>1. CASE Next
    <3>1. request' = request
      BY <2>1 DEF Next, Bind, BindFails, Start, StartFails, BuildIds, BuildStored, BuildLogic,
                  BuildComparison, GetQueryset, GetQuerysetFails, Built, Stop
    <3>. QED
      BY <2>1, <3>1, AnswerableIsNotStopped DEF AnswerableIsAnswered
  <2>2. CASE UNCHANGED vars
    BY <2>2 DEF vars, AnswerableInv, AnswerableIsAnswered
  <2>. QED
    BY <2>1, <2>2
<1>2. (\A i \in 1..Len(types) : OneType(request[i], types[i]))'
  <2>1. CASE Bind
    <3>. DEFINE ts == [i \in DOMAIN GetTypeNames |-> Fixed[GetTypeNames[i]]]
    <3>1. types' = Append(types, ts) /\ request' = request /\ Len(types) = at - 1
      BY <2>1 DEF Bind, Bound
    <3>2. OneType(query, ts)
      BY <1>0, BoundHasOneType
    <3>. HIDE DEF ts
    <3>3. ASSUME NEW i \in 1..Len(types') PROVE OneType(request[i], types'[i])
      <4>1. /\ Len(types') = Len(types) + 1 /\ types'[Len(types) + 1] = ts
            /\ \A k \in 1..Len(types) : types'[k] = types[k]
        BY <1>0, <3>1, AppendKeeps
      <4>2. CASE i = at
        BY <3>1, <3>2, <4>1, <4>2 DEF query
      <4>3. CASE i # at
        <5>1. i \in 1..Len(types)
          BY <1>0, <3>1, <4>1, <4>3
        <5>. QED
          BY <4>1, <5>1 DEF AnswerableInv
      <4>. QED
        BY <4>2, <4>3
    <3>. QED
      BY <3>1, <3>3 DEF OneType
  <2>2. CASE ~Bind
    <3>1. types' = types /\ request' = request
      BY <2>2 DEF Next, vars, BindFails, Start, StartFails, BuildIds, BuildStored, BuildLogic,
                  BuildComparison, GetQueryset, GetQuerysetFails, Built, Stop
    <3>. QED
      BY <3>1 DEF AnswerableInv, OneType
  <2>. QED
    BY <2>1, <2>2
<1>3. ASSUME UNCHANGED <<request, at>>, Compiling' => Compiling \/ q' = <<>>,
             \A i \in DOMAIN q' : (i \in DOMAIN q /\ q'[i] = q[i]) \/ ~q'[i].unprepared
                 \/ (query.kind = "filter" /\ \E k \in DOMAIN query.filter : UncheckedLiteral(query.filter[k]))
      PROVE  (Compiling => Prepared)'
  BY <1>3 DEF AnswerableInv, Prepared, query
<1>4. (Compiling => Prepared)'
  <2>1. CASE Bind \/ BindFails \/ StartFails \/ GetQuerysetFails \/ GetQueryset
    <3>1. ~Compiling'
      BY <2>1 DEF Bind, BindFails, BindFailure, StartFails, GetQuerysetFails, GetQueryset, Stop,
                  Compiling, Compiled
    <3>. QED
      BY <3>1
  <2>2. CASE Start
    BY <2>2, <1>3 DEF Start
  <2>3. CASE BuildIds \/ UNCHANGED vars
    <3>1. UNCHANGED <<request, at, q>> /\ (Compiling' => Compiling)
      BY <2>3 DEF BuildIds, Building, Built, Stop, vars, Compiling
    <3>. QED
      BY <1>3, <3>1
  <2>4. CASE BuildStored
    <3>1. UNCHANGED <<request, at>> /\ Compiling
          /\ (q' = q \/ q' = <<IdLookup({query.id}, types[at][1])>>)
      BY <2>4 DEF BuildStored, Building, Built, Stop, Compiling
    <3>2. ~IdLookup({query.id}, types[at][1]).unprepared
      BY DEF IdLookup, LookupQ, IsRef, Ref
    <3>. QED
      BY <1>3, <3>1, <3>2
  <2>5. CASE BuildLogic
    <3>. DEFINE n == query.filter[node + 1]
                operands == [i \in n.of |-> q[i]]
                new == NewQ(n, q, types[at][1])
    <3>1. /\ UNCHANGED <<request, at>> /\ Compiling /\ q' = Append(q, new) /\ IsLogic(n)
          /\ query.kind = "filter" /\ node < Nodes
      BY <2>5 DEF BuildLogic, Built, Building, Compiling, NewQ
    <3>2. n.of \subseteq DOMAIN q /\ n.of # {}
      <4>1. node + 1 \in 1..Len(query.filter) /\ Len(q) = node /\ DOMAIN q = 1..Len(q)
        BY <1>0, <3>1, FilterIsWritten, LenProperties DEF Compiled, Compiling, Nodes
      <4>2. IsNode(n, node + 1)
        BY <3>1, <4>1, FilterIsWritten
      <4>. HIDE DEF n
      <4>. QED
        BY <3>1, <4>1, <4>2 DEF IsNode, Compiled
    <3>3. new.unprepared => \E i \in DOMAIN q : q[i].unprepared
      <4>1. DOMAIN operands = n.of /\ (CHOOSE i \in n.of : TRUE) \in n.of
        BY <3>2
      <4>2. new.unprepared => \E i \in n.of : q[i].unprepared
        <5>0. new = CASE n.op = "And" -> AndQ(operands, types[at][1])
                      [] n.op = "Or" -> OrQ(operands, types[at][1])
                      [] n.op = "Not" -> NotQ(q[CHOOSE i \in n.of : TRUE])
          BY DEF NewQ
        <5>4. \A i \in n.of : operands[i] = q[i]
          OBVIOUS
        <5>. HIDE DEF operands, n, new
        <5>1. CASE n.op = "And"
          BY <4>1, <5>0, <5>1, <5>4 DEF AndQ
        <5>2. CASE n.op = "Or"
          BY <4>1, <5>0, <5>2, <5>4 DEF OrQ
        <5>3. CASE n.op = "Not"
          BY <4>1, <5>0, <5>3 DEF NotQ
        <5>. QED
          BY <3>1, <5>1, <5>2, <5>3 DEF IsLogic
      <4>. HIDE DEF new
      <4>. QED
        BY <3>2, <4>2
    <3>. HIDE DEF new
    <3>. QED
      BY <1>0, <1>3, <3>1, <3>3, AppendedIs DEF AnswerableInv, Prepared
  <2>6. CASE BuildComparison
    <3>. DEFINE n == query.filter[node + 1]
                new == Comparison(n, types[at][1])
    <3>1. /\ UNCHANGED <<request, at>> /\ Compiling /\ (q' = q \/ q' = Append(q, new)) /\ ~IsLogic(n)
          /\ query.kind = "filter" /\ node < Nodes
      BY <2>6 DEF BuildComparison, Built, Building, Compiling, Stop
    <3>2. node + 1 \in DOMAIN query.filter /\ IsNode(n, node + 1)
      BY <1>0, <3>1, FilterIsWritten DEF Compiled, Compiling, Nodes
    <3>3. new.unprepared => UncheckedLiteral(n)
      BY <3>1, <3>2, ComparisonIsPrepared DEF IsNode
    <3>. HIDE DEF new
    <3>4. CASE q' = q
      BY <1>3, <3>1, <3>4
    <3>5. CASE q' = Append(q, new)
      BY <1>0, <1>3, <3>1, <3>2, <3>3, <3>5, AppendedIs
    <3>. QED
      BY <3>1, <3>4, <3>5
  <2>. QED
    BY <2>1, <2>2, <2>3, <2>4, <2>5, <2>6 DEF Next
<1>. QED
  BY <1>1, <1>2, <1>4 DEF AnswerableInv

(* Whatever the request, no query that can be answered is refused, and     *)
(* nothing that its parts leave in the compiler makes it crash             *)
(* (build_query of the operators, CompiledQuery.get_queryset).             *)
THEOREM NothingIsLeftBehind == Spec => []AnswerableIsAnswered
<1>1. Init => AnswerableInv
  BY DEF Init, AnswerableInv, Compiling, AnswerableIsAnswered
<1>2. AnswerableInv => AnswerableIsAnswered
  BY DEF AnswerableInv
<1>. QED
  BY <1>1, <1>2, BoundInvariant, InitCompiled, CompiledIsKept, AnswerableIsKept, PTL DEF Spec
-----------------------------------------------------------------------------
(* A comparison that builds itself is true for a row of some related       *)
(* object exactly if the feature satisfies it.                             *)

Operands(n, f, s) == [i \in DOMAIN Rhs(n) |-> Value(Rhs(n)[i], f, s)]
Holds(n, f, s) == Sql(ElementLookup(n), Value(Lhs(n), f, s), Operands(n, f, s))
Decided(n, f, s) ==
    IsRef(Lhs(n)) \/ Null \notin {Value(Lhs(n), f, s)} \union ToSet(Operands(n, f, s))

LEMMA RowsAre ==
    ASSUME NEW type \in TypeNames, NEW f, NEW s
    PROVE  <<f, s>> \in Rows[type] <=> f \in Table[type] /\ s \in Objects(f)
BY DEF Rows

LEMMA FeaturesAre ==
    ASSUME NEW type \in TypeNames, NEW f \in Table[type]
    PROVE  /\ IsFiniteSet(Objects(f)) /\ Objects(f) # {}
           /\ f.related = {} => Objects(f) = {NoObject}
           /\ f.related # {} => Objects(f) = f.related /\ NoObject \notin Objects(f)
           /\ \A e \in Elements :
                /\ Kind[e] = "array" => f.value[e] \subseteq Int
                /\ Kind[e] = "many" => \A s \in f.related : s[e] = Null \/ s[e] \in Int
                /\ Kind[e] \in {"plain", "geometry"} => f.value[e] = Null \/ f.value[e] \in Int
<1>1. /\ IsFiniteSet(f.related) /\ NoObject \notin f.related
      /\ \A e \in Elements :
            CASE Kind[e] = "array" -> f.value[e] \subseteq Int
              [] Kind[e] = "many" -> \A s \in f.related : s[e] = Null \/ s[e] \in Int
              [] OTHER -> f.value[e] = Null \/ f.value[e] \in Int
  BY TableAssumption
<1>2. IsFiniteSet({NoObject})
  BY FS_Singleton
<1>. QED
  BY <1>1, <1>2 DEF Objects

(* What a plain expression is worth does not depend on the related object. *)
LEMMA PlainValues ==
    ASSUME NEW type \in TypeNames, NEW f \in Table[type], NEW x, IsPlain(x)
    PROVE  /\ \A s : Value(x, f, s) = Value(x, f, NoObject)
           /\ Value(x, f, NoObject) = Null \/ Value(x, f, NoObject) \in Int \/ x = Literal(BadValue)
           /\ Values(x, f) = {Value(x, f, NoObject)} \ {Null}
<1>1. CASE x = Literal(x.of) /\ (x.of = BadValue \/ x.of \in Int)
  <2>1. \A s : Value(x, f, s) = x.of
    BY <1>1 DEF Value, Literal
  <2>2. Values(x, f) = {x.of}
    BY <1>1 DEF Values, Literal
  <2>3. x.of # Null
    BY <1>1, ValuesAssumption
  <2>. QED
    BY <1>1, <2>1, <2>2, <2>3
<1>2. CASE /\ x = Ref(x.of) \/ (x = Add(x.of, x.add) /\ x.add \in Int)
           /\ x.of \in Elements /\ Kind[x.of] = "plain"
  <2>. DEFINE v == f.value[x.of]
  <2>1. /\ x.kind # "literal" /\ x.add \in Int /\ x.kind \in {"ref", "function"}
        /\ x.kind # "function" => x.add = 0
    BY <1>2 DEF Ref, Add
  <2>2. v = Null \/ v \in Int
    BY <1>2, FeaturesAre
  <2>3. \A s : ElementOf(x.of, f, s) = v
    BY <1>2, ElementsAssumption DEF ElementOf, Many
  <2>4. \A s : Value(x, f, s) = IF x.kind = "function" /\ v # Null THEN v + x.add ELSE v
    BY <2>1, <2>3 DEF Value
  <2>5. Values(x, f) = {w + x.add : w \in {v} \ {Null}}
    BY <1>2, <2>1 DEF Values, Stored
  <2>. HIDE DEF v
  <2>6. CASE v = Null
    <3>1. Values(x, f) = {}
      BY <2>5, <2>6
    <3>. QED
      BY <2>4, <2>6, <3>1
  <2>7. CASE v \in Int
    <3>1. v # Null /\ v + x.add \in Int /\ v + x.add # Null
      BY <2>1, <2>7, ValuesAssumption
    <3>2. Values(x, f) = {v + x.add}
      BY <2>5, <3>1
    <3>3. \A s : Value(x, f, s) = v + x.add
      BY <2>1, <2>4, <2>7, <3>1
    <3>. QED
      BY <3>1, <3>2, <3>3
  <2>. QED
    BY <2>2, <2>6, <2>7
<1>. QED
  BY <1>1, <1>2 DEF IsPlain

(* What an element is worth.                                               *)
LEMMA ElementValues ==
    ASSUME NEW type \in TypeNames, NEW f \in Table[type], NEW e \in Elements
    PROVE  /\ Kind[e] = "array" => /\ Values(Ref(e), f) = f.value[e]
                                   /\ \A s : Value(Ref(e), f, s) = f.value[e]
           /\ Kind[e] # "array" =>
                /\ \A s \in Objects(f) : Value(Ref(e), f, s) = Null \/ Value(Ref(e), f, s) \in Int
                /\ Values(Ref(e), f) = {Value(Ref(e), f, s) : s \in Objects(f)} \ {Null}
           /\ Kind[e] # "many" => \A s : Value(Ref(e), f, s) = f.value[e]
<1>1. /\ e # "pk" /\ Kind[e] \in {"plain", "array", "many", "geometry"}
      /\ Ref(e).kind = "ref" /\ Ref(e).of = e /\ Ref(e).add = 0
  BY ElementsAssumption DEF Ref
<1>2. \A s : Value(Ref(e), f, s) = ElementOf(e, f, s)
  BY <1>1 DEF Value
<1>3. \A s : ElementOf(e, f, s) = IF Kind[e] # "many" THEN f.value[e]
                                  ELSE IF s = NoObject THEN Null ELSE s[e]
  BY <1>1 DEF ElementOf, Many
<1>4. ASSUME \A v \in Stored(e, f) \ {Null} : v \in Int
      PROVE  Values(Ref(e), f) = Stored(e, f) \ {Null}
  <2>1. Values(Ref(e), f) = {v + 0 : v \in Stored(e, f) \ {Null}}
    BY <1>1 DEF Values
  <2>2. \A v \in Stored(e, f) \ {Null} : v + 0 = v
    BY <1>4
  <2>. QED
    BY <2>1, <2>2
<1>5. CASE Kind[e] = "array"
  <2>1. f.value[e] \subseteq Int /\ Null \notin f.value[e]
    BY <1>5, FeaturesAre, ValuesAssumption
  <2>2. Stored(e, f) = f.value[e]
    BY <1>5 DEF Stored
  <2>. QED
    BY <1>2, <1>3, <1>4, <1>5, <2>1, <2>2
<1>6. CASE Kind[e] = "many"
  <2>1. Stored(e, f) = {s[e] : s \in f.related}
    BY <1>6 DEF Stored
  <2>2. \A s \in f.related : s[e] = Null \/ s[e] \in Int
    BY <1>6, FeaturesAre
  <2>3. Values(Ref(e), f) = {s[e] : s \in f.related} \ {Null}
    BY <1>4, <2>1, <2>2
  <2>4. {Value(Ref(e), f, s) : s \in Objects(f)} \ {Null} = {s[e] : s \in f.related} \ {Null}
    BY <1>2, <1>3, <1>6, FeaturesAre
  <2>. QED
    BY <1>2, <1>3, <1>6, <2>2, <2>3, <2>4, FeaturesAre
<1>7. CASE Kind[e] \in {"plain", "geometry"}
  <2>1. Stored(e, f) = {f.value[e]}
    BY <1>7 DEF Stored
  <2>2. f.value[e] = Null \/ f.value[e] \in Int
    BY <1>7, FeaturesAre
  <2>3. Values(Ref(e), f) = {f.value[e]} \ {Null}
    BY <1>4, <2>1, <2>2
  <2>4. {Value(Ref(e), f, s) : s \in Objects(f)} = {f.value[e]}
    BY <1>2, <1>3, <1>7, FeaturesAre
  <2>. QED
    BY <1>2, <1>3, <1>7, <2>2, <2>3, <2>4
<1>. QED
  BY <1>1, <1>5, <1>6, <1>7

ColumnLookups == {"exact", "fes_notequal", "lt", "lte", "gt", "gte"}

LEMMA SqlOfColumn ==
    ASSUME NEW lookup \in ColumnLookups, NEW a, NEW b
    PROVE  Sql(lookup, a, b) = Compared(lookup, a, b[1])
<1>1. lookup \notin DOMAIN AnyOperators /\ lookup \notin {"range", "isnull", "in", "intersects"}
  BY DEF ColumnLookups, AnyOperators
<1>. QED
  BY <1>1 DEF Sql

LEMMA SqlOfArray ==
    ASSUME NEW lookup \in ColumnLookups, NEW a \in SUBSET Int, NEW b, b[1] = Null \/ b[1] \in Int
    PROVE  /\ lookup \in DOMAIN ARRAY_LOOKUPS
           /\ Sql(ARRAY_LOOKUPS[lookup], a, b) <=> \E v \in a : Compared(lookup, v, b[1])
<1>. DEFINE any == ARRAY_LOOKUPS[lookup]
<1>1. lookup \in DOMAIN ARRAY_LOOKUPS /\ any \in DOMAIN AnyOperators
  BY DEF ColumnLookups, AnyOperators, ARRAY_LOOKUPS
<1>2. Sql(any, a, b) <=> \E v \in a : Compared(AnyOperators[any], b[1], v)
  <2>1. any \notin {"range", "isnull", "in", "intersects"}
    BY <1>1 DEF AnyOperators
  <2>. HIDE DEF any
  <2>. QED
    BY <1>1, <2>1 DEF Sql
<1>3. \A v \in a : Compared(AnyOperators[any], b[1], v) <=> Compared(lookup, v, b[1])
  <2>. TAKE v \in a
  <2>0. v \in Int /\ v # Null
    BY ValuesAssumption
  <2>1. CASE lookup = "exact"
    BY <2>0, <2>1 DEF Compared, AnyOperators, ARRAY_LOOKUPS
  <2>2. CASE lookup = "fes_notequal"
    BY <2>0, <2>2 DEF Compared, AnyOperators, ARRAY_LOOKUPS
  <2>3. CASE lookup = "lt"
    BY <2>0, <2>3 DEF Compared, AnyOperators, ARRAY_LOOKUPS
  <2>4. CASE lookup = "lte"
    BY <2>0, <2>4 DEF Compared, AnyOperators, ARRAY_LOOKUPS
  <2>5. CASE lookup = "gt"
    BY <2>0, <2>5 DEF Compared, AnyOperators, ARRAY_LOOKUPS
  <2>6. CASE lookup = "gte"
    BY <2>0, <2>6 DEF Compared, AnyOperators, ARRAY_LOOKUPS
  <2>. QED
    BY <2>1, <2>2, <2>3, <2>4, <2>5, <2>6 DEF ColumnLookups
<1>. HIDE DEF any
<1>4. Sql(any, a, b) <=> \E v \in a : Compared(lookup, v, b[1])
  BY <1>2, <1>3
<1>. QED
  BY <1>1, <1>4 DEF any

LEMMA SqlOfOthers ==
    ASSUME NEW a, NEW b
    PROVE  /\ Sql("range", a, b) <=> Compared("gte", a, b[1]) /\ Compared("lte", a, b[2])
           /\ Sql("isnull", a, b) <=> a = Null
           /\ Sql("intersects", a, b) <=> a \in b[1]
           /\ Sql("in", a, b) <=> a \in b[1]
<1>1. {"range", "isnull", "intersects", "in"} \intersect DOMAIN AnyOperators = {}
  BY DEF AnyOperators
<1>. QED
  BY <1>1 DEF Sql

(* What a comparison of two operands says, and what is written of it.      *)
Relation(name, a, b) ==
    CASE name = "PropertyIsEqualTo" -> a = b
      [] name = "PropertyIsNotEqualTo" -> a # b
      [] name = "PropertyIsLessThan" -> a < b
      [] name = "PropertyIsGreaterThan" -> a > b
      [] name = "PropertyIsLessThanOrEqualTo" -> a <= b
      [] name = "PropertyIsGreaterThanOrEqualTo" -> a >= b

LEMMA LookupsAreRelations ==
    ASSUME NEW name \in DOMAIN ComparisonLookup, NEW a \in Int, NEW b \in Int
    PROVE  LET written == ComparisonLookup[name]
               turned == Mapped(written, REVERSE_LOOKUPS)
           IN  /\ written \in ColumnLookups /\ turned \in ColumnLookups
               /\ Mapped(written, <<>>) = written
               /\ Compared(written, a, b) <=> Relation(name, a, b)
               /\ Compared(turned, b, a) <=> Relation(name, a, b)
<1>. DEFINE written == ComparisonLookup[name]
            turned == Mapped(written, REVERSE_LOOKUPS)
<1>0. a # Null /\ b # Null /\ DOMAIN <<>> = {}
  BY ValuesAssumption
<1>1. CASE name = "PropertyIsEqualTo"
  <2>1. written = "exact" /\ turned = "exact"
    BY <1>1 DEF ComparisonLookup, Mapped, REVERSE_LOOKUPS
  <2>. QED
    BY <1>0, <1>1, <2>1 DEF Compared, Relation, ColumnLookups, Mapped
<1>2. CASE name = "PropertyIsNotEqualTo"
  <2>1. written = "fes_notequal" /\ turned = "fes_notequal"
    BY <1>2 DEF ComparisonLookup, Mapped, REVERSE_LOOKUPS
  <2>. QED
    BY <1>0, <1>2, <2>1 DEF Compared, Relation, ColumnLookups, Mapped
<1>3. CASE name = "PropertyIsLessThan"
  <2>1. written = "lt" /\ turned = "gt"
    BY <1>3 DEF ComparisonLookup, Mapped, REVERSE_LOOKUPS
  <2>. QED
    BY <1>0, <1>3, <2>1 DEF Compared, Relation, ColumnLookups, Mapped
<1>4. CASE name = "PropertyIsGreaterThan"
  <2>1. written = "gt" /\ turned = "lt"
    BY <1>4 DEF ComparisonLookup, Mapped, REVERSE_LOOKUPS
  <2>. QED
    BY <1>0, <1>4, <2>1 DEF Compared, Relation, ColumnLookups, Mapped
<1>5. CASE name = "PropertyIsLessThanOrEqualTo"
  <2>1. written = "lte" /\ turned = "gte"
    BY <1>5 DEF ComparisonLookup, Mapped, REVERSE_LOOKUPS
  <2>. QED
    BY <1>0, <1>5, <2>1 DEF Compared, Relation, ColumnLookups, Mapped
<1>6. CASE name = "PropertyIsGreaterThanOrEqualTo"
  <2>1. written = "gte" /\ turned = "lte"
    BY <1>6 DEF ComparisonLookup, Mapped, REVERSE_LOOKUPS
  <2>. QED
    BY <1>0, <1>6, <2>1 DEF Compared, Relation, ColumnLookups, Mapped
<1>7. name \in {"PropertyIsEqualTo", "PropertyIsNotEqualTo", "PropertyIsLessThan",
                "PropertyIsGreaterThan", "PropertyIsLessThanOrEqualTo",
                "PropertyIsGreaterThanOrEqualTo"}
  BY DEF ComparisonLookup
<1>. QED
  BY <1>1, <1>2, <1>3, <1>4, <1>5, <1>6, <1>7

(* A left-hand side of one value per row is true for a row exactly if one  *)
(* of its values is.                                                       *)
LEMMA LeftValues ==
    ASSUME NEW type \in TypeNames, NEW f \in Table[type], NEW n, IsComparison(n),
           IsRef(Lhs(n)) => Kind[Lhs(n).of] # "array"
    PROVE  LET x == Lhs(n)
           IN  /\ \A s \in Objects(f) : Value(x, f, s) = Null \/ Value(x, f, s) \in Int
               /\ Values(x, f) = {Value(x, f, s) : s \in Objects(f)} \ {Null}
<1>. DEFINE x == Lhs(n)
<1>1. CASE IsElement(x)
  <2>1. x = Ref(x.of) /\ x.of \in Elements /\ Kind[x.of] # "array"
    BY <1>1 DEF IsElement, IsRef, Ref
  <2>. QED
    BY <2>1, ElementValues
<1>2. CASE IsPlain(x) /\ x.of # BadValue
  <2>1. x # Literal(BadValue)
    BY <1>2 DEF Literal
  <2>2. {Value(x, f, s) : s \in Objects(f)} = {Value(x, f, NoObject)}
    BY <1>2, PlainValues, FeaturesAre
  <2>. QED
    BY <1>2, <2>1, <2>2, PlainValues
<1>. QED
  BY <1>1, <1>2 DEF IsComparison

LEMMA ComparisonIsNoLogic ==
    ASSUME NEW n, IsComparison(n)
    PROVE  ~IsLogic(n) /\ n.op \in {"compare", "between", "null", "bbox"}
BY DEF IsComparison, IsLogic, Arity

LEMMA ShortTails ==
    ASSUME NEW S, NEW s \in Seq(S)
    PROVE  /\ Len(s) = 1 => DOMAIN s = {1} /\ s # <<>> /\ Tail(s) = <<>>
           /\ Len(s) = 2 => DOMAIN s = {1, 2} /\ s # <<>> /\ Tail(s) = <<s[2]>>
           /\ Len(s) = 3 => DOMAIN s = {1, 2, 3} /\ s # <<>> /\ Tail(s) = <<s[2], s[3]>>
<1>. DEFINE t == Tail(s)
<1>1. DOMAIN s = 1..Len(s) /\ (Len(s) # 0 => s # <<>>)
  BY LenProperties, EmptySeq
<1>2. s # <<>> => /\ t \in Seq(S) /\ Len(t) = Len(s) - 1
                  /\ \A i \in 1..Len(t) : t[i] = s[i + 1]
  BY HeadTailProperties
<1>0. t = Tail(s)
  OBVIOUS
<1>. HIDE DEF t
<1>3. CASE Len(s) = 1
  <2>1. t \in Seq(S) /\ Len(t) = 0 /\ DOMAIN s = {1} /\ s # <<>>
    BY <1>1, <1>2, <1>3
  <2>2. t = <<>>
    BY <2>1, EmptySeq
  <2>. QED
    BY <1>0, <1>3, <2>1, <2>2
<1>4. CASE Len(s) = 2
  <2>1. t \in Seq(S) /\ Len(t) = 1 /\ t[1] = s[2] /\ DOMAIN s = {1, 2} /\ s # <<>>
    <3>1. DOMAIN s = {1, 2} /\ s # <<>>
      BY <1>1, <1>4
    <3>2. t \in Seq(S) /\ Len(t) = 1 /\ \A i \in 1..Len(t) : t[i] = s[i + 1]
      BY <1>2, <1>4, <3>1
    <3>3. t[1] = s[1 + 1]
      BY <3>2
    <3>. QED
      BY <3>1, <3>2, <3>3
  <2>2. t = <<t[1]>>
    BY <2>1
  <2>. QED
    BY <1>0, <1>4, <2>1, <2>2
<1>5. CASE Len(s) = 3
  <2>1. t \in Seq(S) /\ Len(t) = 2 /\ t[1] = s[2] /\ t[2] = s[3] /\ s # <<>>
    <3>1. s # <<>>
      BY <1>1, <1>5
    <3>2. t \in Seq(S) /\ Len(t) = 2 /\ \A i \in 1..Len(t) : t[i] = s[i + 1]
      BY <1>2, <1>5, <3>1
    <3>3. t[1] = s[1 + 1] /\ t[2] = s[2 + 1]
      BY <3>2
    <3>. QED
      BY <3>1, <3>2, <3>3
  <2>2. DOMAIN s = {1, 2, 3}
    BY <1>1, <1>5
  <2>3. t = <<t[1], t[2]>>
    BY <2>1
  <2>. QED
    BY <1>0, <1>5, <2>1, <2>2, <2>3
<1>. QED
  BY <1>3, <1>4, <1>5

(* The operands of each kind of comparison.                                *)
LEMMA ComparedOperands ==
    ASSUME NEW n, IsComparison(n)
    PROVE  /\ n.op = "compare" =>
                /\ Rhs(n) = <<Rhs(n)[1]>>
                /\ \/ Turned(n) /\ Lhs(n) = n.args[2] /\ Rhs(n)[1] = n.args[1]
                   \/ ~Turned(n) /\ Lhs(n) = n.args[1] /\ Rhs(n)[1] = n.args[2]
           /\ n.op = "between" =>
                /\ Rhs(n) = <<Rhs(n)[1], Rhs(n)[2]>> /\ Lhs(n) = n.args[1]
                /\ Rhs(n)[1] = n.args[2] /\ Rhs(n)[2] = n.args[3]
           /\ n.op = "null" => Rhs(n) = <<>> /\ Lhs(n) = n.args[1]
           /\ n.op = "bbox" => Rhs(n) = <<n.box>>
           /\ \A i \in DOMAIN n.args : n.args[i] = Lhs(n) \/ \E k \in DOMAIN Rhs(n) : n.args[i] = Rhs(n)[k]
           /\ n.op # "bbox" => \A k \in DOMAIN Rhs(n) : \E i \in DOMAIN n.args : Rhs(n)[k] = n.args[i]
           /\ IF n.args = <<>> THEN Lhs(n) = Ref(MainGeometry) ELSE \E i \in DOMAIN n.args : Lhs(n) = n.args[i]
<1>1. n.args \in Seq(ToSet(n.args)) /\ Len(n.args) \in Arity[n.op]
  BY DEF IsComparison
<1>2. CASE n.op = "compare"
  <2>1. Len(n.args) \in {2}
    BY <1>1, <1>2 DEF Arity
  <2>2. Len(n.args) = 2 /\ DOMAIN n.args = {1, 2} /\ n.args # <<>>
    BY <1>1, <2>1, ShortTails
  <2>3. Tail(n.args) = <<n.args[2]>>
    BY <1>1, <2>2, ShortTails
  <2>4. CASE Turned(n)
    BY <1>2, <2>2, <2>4 DEF Lhs, Rhs
  <2>5. CASE ~Turned(n)
    BY <1>2, <2>2, <2>3, <2>5 DEF Lhs, Rhs
  <2>. QED
    BY <1>2, <2>2, <2>4, <2>5
<1>3. CASE n.op = "between"
  <2>1. Len(n.args) \in {3}
    BY <1>1, <1>3 DEF Arity
  <2>2. Len(n.args) = 3 /\ DOMAIN n.args = {1, 2, 3} /\ n.args # <<>>
    BY <1>1, <2>1, ShortTails
  <2>3. Tail(n.args) = <<n.args[2], n.args[3]>>
    BY <1>1, <2>2, ShortTails
  <2>4. Lhs(n) = n.args[1] /\ Rhs(n) = <<n.args[2], n.args[3]>>
    BY <1>3, <2>2, <2>3 DEF Lhs, Rhs, Turned
  <2>. QED
    BY <1>3, <2>2, <2>4
<1>4. CASE n.op = "null"
  <2>1. Len(n.args) \in {1}
    BY <1>1, <1>4 DEF Arity
  <2>2. Len(n.args) = 1 /\ DOMAIN n.args = {1} /\ n.args # <<>>
    BY <1>1, <2>1, ShortTails
  <2>3. Tail(n.args) = <<>>
    BY <1>1, <2>2, ShortTails
  <2>4. Lhs(n) = n.args[1] /\ Rhs(n) = <<>>
    BY <1>4, <2>2, <2>3 DEF Lhs, Rhs, Turned
  <2>. QED
    BY <1>4, <2>2, <2>4
<1>5. CASE n.op = "bbox"
  <2>1. Len(n.args) \in {0, 1}
    BY <1>1, <1>5 DEF Arity
  <2>2. (Len(n.args) = 1 /\ DOMAIN n.args = {1} /\ n.args # <<>>) \/ n.args = <<>>
    BY <1>1, <2>1
  <2>3. Rhs(n) = <<n.box>> /\ Lhs(n) = IF n.args = <<>> THEN Ref(MainGeometry) ELSE n.args[1]
    BY <1>5 DEF Lhs, Rhs, Turned
  <2>. QED
    BY <1>5, <2>2, <2>3
<1>. QED
  BY <1>2, <1>3, <1>4, <1>5, ComparisonIsNoLogic

LEMMA NotRefused ==
    ASSUME NEW n, IsComparison(n), ~RefusesNode(n), NEW type, ~Comparison(n, type).unprepared
    PROVE  /\ n.op # "bbox" => \A i \in DOMAIN Rhs(n) :
                                  IsPlain(Rhs(n)[i]) /\ Rhs(n)[i] # Literal(BadValue)
           /\ IsRef(Lhs(n)) /\ Kind[Lhs(n).of] = "array" => WrittenLookup(n) \in DOMAIN ARRAY_LOOKUPS
<1>1. ~IsLogic(n)
  BY ComparisonIsNoLogic
<1>2. ~Refuses(n, Lhs(n), Lhs(n))
  BY <1>1 DEF RefusesNode
<1>3. ASSUME NEW i \in DOMAIN Rhs(n), IsRef(Lhs(n))
      PROVE  Rhs(n)[i] # Literal(BadValue)
  <2>1. Validated(Lhs(n), Rhs(n)[i]) = <<Lhs(n), Rhs(n)[i]>>
    BY <1>3 DEF Validated, IsRef
  <2>2. ~Refuses(n, Lhs(n), Rhs(n)[i])
    BY <1>1, <2>1 DEF RefusesNode
  <2>. QED
    BY <1>3, <2>2 DEF Refuses
<1>4. ASSUME NEW i \in DOMAIN Rhs(n), ~IsRef(Lhs(n))
      PROVE  Rhs(n)[i] # Literal(BadValue)
  BY <1>4 DEF Comparison, LookupQ, ToSet
<1>. QED
  BY <1>2, <1>3, <1>4 DEF Refuses, IsComparison

(* The lookup of two operands, whichever side the element is on.           *)
LEMMA WrittenIsRelation ==
    ASSUME NEW n, IsComparison(n), n.op = "compare", NEW v \in Int, NEW c \in Int
    PROVE  /\ WrittenLookup(n) \in ColumnLookups
           /\ Compared(WrittenLookup(n), v, c) <=>
                IF Turned(n) THEN Relation(n.name, c, v) ELSE Relation(n.name, v, c)
<1>1. n.name \in DOMAIN ComparisonLookup
  BY DEF IsComparison
<1>2. WrittenLookup(n) = Mapped(ComparisonLookup[n.name], IF Turned(n) THEN REVERSE_LOOKUPS ELSE <<>>)
  BY DEF WrittenLookup
<1>. QED
  BY <1>1, <1>2, LookupsAreRelations

LEMMA CompareIsSatisfied ==
    ASSUME NEW type \in TypeNames, NEW f \in Table[type], NEW n, IsComparison(n), n.op = "compare",
           ~RefusesNode(n), ~Comparison(n, type).unprepared
    PROVE  Satisfies(n, f) <=> \E s \in Objects(f) : Holds(n, f, s)
<1>. DEFINE x == Lhs(n)
            y == Rhs(n)[1]
            c == Value(y, f, NoObject)
            w == WrittenLookup(n)
<1>1. /\ Rhs(n) = <<y>> /\ IsPlain(y) /\ y # Literal(BadValue)
      /\ \/ Turned(n) /\ x = n.args[2] /\ y = n.args[1]
         \/ ~Turned(n) /\ x = n.args[1] /\ y = n.args[2]
  BY ComparedOperands, NotRefused
<1>2. /\ \A s : Value(y, f, s) = c
      /\ c = Null \/ c \in Int
      /\ Values(y, f) = {c} \ {Null}
  BY <1>1, PlainValues
<1>3. \A s : Operands(n, f, s) = <<c>>
  <2>. TAKE s
  <2>1. DOMAIN Rhs(n) = 1..1
    BY <1>1
  <2>2. Operands(n, f, s) = [i \in 1..1 |-> Value(y, f, s)]
    BY <2>1 DEF Operands
  <2>. HIDE DEF y, c
  <2>. QED
    BY <1>2, <2>2
<1>4. \A v \in Values(x, f) : v \in Int
  <2>1. CASE IsRef(x) /\ Kind[x.of] = "array"
    <3>1. x = Ref(x.of) /\ x.of \in Elements
      BY <2>1 DEF IsComparison, IsElement, IsPlain, Literal, IsRef, Add
    <3>2. Values(x, f) = f.value[x.of] /\ f.value[x.of] \subseteq Int
      BY <2>1, <3>1, ElementValues, FeaturesAre
    <3>. QED
      BY <3>2
  <2>2. CASE ~(IsRef(x) /\ Kind[x.of] = "array")
    BY <2>2, LeftValues
  <2>. QED
    BY <2>1, <2>2
<1>5. Satisfies(n, f) <=> \E v \in Values(x, f) : c # Null /\ Compared(w, v, c)
  <2>1. Satisfies(n, f) <=> \E a \in Values(n.args[1], f), b \in Values(n.args[2], f) : Relation(n.name, a, b)
    BY DEF Satisfies, Relation
  <2>2. \A v \in Values(x, f) : c # Null =>
          (Compared(w, v, c) <=> IF Turned(n) THEN Relation(n.name, c, v) ELSE Relation(n.name, v, c))
    BY <1>2, <1>4, WrittenIsRelation
  <2>. HIDE DEF x, y, c, w
  <2>3. \A b : b \in Values(y, f) <=> b = c /\ c # Null
    BY <1>2
  <2>4. CASE Turned(n)
    <3>1. x = n.args[2] /\ y = n.args[1]
      BY <1>1, <2>4
    <3>. QED
      BY <2>1, <2>2, <2>3, <2>4, <3>1
  <2>5. CASE ~Turned(n)
    <3>1. x = n.args[1] /\ y = n.args[2]
      BY <1>1, <2>5
    <3>. QED
      BY <2>1, <2>2, <2>3, <2>5, <3>1
  <2>. QED
    BY <2>4, <2>5
<1>6. w \in ColumnLookups
  BY 0 \in Int, WrittenIsRelation
<1>7. CASE IsRef(x) /\ Kind[x.of] = "array"
  <2>1. x = Ref(x.of) /\ x.of \in Elements
    BY <1>7 DEF IsComparison, IsElement, IsPlain, Literal, IsRef, Add
  <2>2. /\ Values(x, f) = f.value[x.of] /\ f.value[x.of] \in SUBSET Int
        /\ \A s : Value(x, f, s) = f.value[x.of]
    BY <1>7, <2>1, ElementValues, FeaturesAre
  <2>3. ElementLookup(n) = ARRAY_LOOKUPS[w]
    BY <1>6, <1>7, SqlOfArray, {} \in SUBSET Int DEF ElementLookup, Mapped, ColumnLookups, ARRAY_LOOKUPS
  <2>. HIDE DEF x, y, c, w
  <2>4. <<c>>[1] = c
    OBVIOUS
  <2>5. Sql(ARRAY_LOOKUPS[w], f.value[x.of], <<c>>) <=> \E v \in f.value[x.of] : Compared(w, v, c)
    BY <1>2, <1>6, <2>2, <2>4, SqlOfArray
  <2>6. \A s : Holds(n, f, s) <=> \E v \in f.value[x.of] : Compared(w, v, c)
    BY <1>3, <2>2, <2>3, <2>5 DEF Holds, x
  <2>7. \A v : Compared(w, v, c) => c # Null
    BY DEF Compared
  <2>. QED
    BY <1>5, <2>2, <2>6, <2>7, FeaturesAre
<1>8. CASE ~(IsRef(x) /\ Kind[x.of] = "array")
  <2>1. ElementLookup(n) = w
    BY <1>8 DEF ElementLookup
  <2>2. Values(x, f) = {Value(x, f, s) : s \in Objects(f)} \ {Null}
    BY <1>8, LeftValues
  <2>3. \A s : Holds(n, f, s) <=> Compared(w, Value(x, f, s), c)
    <3>. TAKE s
    <3>1. Holds(n, f, s) <=> Sql(w, Value(x, f, s), <<c>>)
      BY <1>3, <2>1 DEF Holds
    <3>. HIDE DEF x, y, c, w
    <3>. QED
      BY <1>6, <3>1, SqlOfColumn
  <2>. HIDE DEF x, y, c, w
  <2>4. \A v : Compared(w, v, c) => v # Null /\ c # Null
    BY DEF Compared
  <2>. QED
    BY <1>5, <2>2, <2>3, <2>4
<1>. QED
  BY <1>7, <1>8

LEMMA BetweenIsSatisfied ==
    ASSUME NEW type \in TypeNames, NEW f \in Table[type], NEW n, IsComparison(n), n.op = "between",
           ~RefusesNode(n), ~Comparison(n, type).unprepared
    PROVE  Satisfies(n, f) <=> \E s \in Objects(f) : Holds(n, f, s)
<1>. DEFINE x == Lhs(n)
            y == Rhs(n)[1]
            z == Rhs(n)[2]
            c == Value(y, f, NoObject)
            d == Value(z, f, NoObject)
<1>1. /\ Rhs(n) = <<y, z>> /\ x = n.args[1] /\ y = n.args[2] /\ z = n.args[3]
      /\ IsPlain(y) /\ y # Literal(BadValue) /\ IsPlain(z) /\ z # Literal(BadValue)
  <2>1. Rhs(n) = <<y, z>> /\ x = n.args[1] /\ y = n.args[2] /\ z = n.args[3]
    BY ComparedOperands
  <2>2. DOMAIN Rhs(n) = {1, 2}
    BY <2>1
  <2>. QED
    BY <2>1, <2>2, NotRefused
<1>2. /\ \A s : Value(y, f, s) = c /\ Value(z, f, s) = d
      /\ c = Null \/ c \in Int
      /\ d = Null \/ d \in Int
      /\ Values(y, f) = {c} \ {Null} /\ Values(z, f) = {d} \ {Null}
  BY <1>1, PlainValues
<1>3. \A s : Operands(n, f, s)[1] = c /\ Operands(n, f, s)[2] = d
  <2>1. 1 \in DOMAIN Rhs(n) /\ 2 \in DOMAIN Rhs(n)
    BY <1>1
  <2>. QED
    BY <1>2, <2>1 DEF Operands
<1>4. WrittenLookup(n) = "range"
  BY DEF WrittenLookup
<1>5. ~(IsRef(x) /\ Kind[x.of] = "array")
  BY <1>4, NotRefused DEF ARRAY_LOOKUPS
<1>6. ElementLookup(n) = "range"
  BY <1>4, <1>5 DEF ElementLookup
<1>7. /\ \A s \in Objects(f) : Value(x, f, s) = Null \/ Value(x, f, s) \in Int
      /\ Values(x, f) = {Value(x, f, s) : s \in Objects(f)} \ {Null}
  BY <1>5, LeftValues
<1>8. \A s : Holds(n, f, s) <=> Compared("gte", Value(x, f, s), c) /\ Compared("lte", Value(x, f, s), d)
  BY <1>3, <1>6, SqlOfOthers DEF Holds
<1>9. Satisfies(n, f) <=> \E v \in Values(x, f), b \in Values(y, f), e \in Values(z, f) : b <= v /\ v <= e
  BY <1>1 DEF Satisfies
<1>. HIDE DEF x, y, z, c, d
<1>10. Satisfies(n, f) <=> \E v \in Values(x, f) : c # Null /\ d # Null /\ c <= v /\ v <= d
  BY <1>2, <1>9
<1>11. \A v : v = Null \/ v \in Int =>
         (Compared("gte", v, c) /\ Compared("lte", v, d)
            <=> v # Null /\ c # Null /\ d # Null /\ c <= v /\ v <= d)
  BY <1>2, ValuesAssumption DEF Compared
<1>. QED
  BY <1>7, <1>8, <1>10, <1>11

LEMMA NullIsSatisfied ==
    ASSUME NEW type \in TypeNames, NEW f \in Table[type], NEW n, IsComparison(n), n.op = "null",
           ~RefusesNode(n), ~Comparison(n, type).unprepared
    PROVE  Satisfies(n, f) <=> \E s \in Objects(f) : Holds(n, f, s)
<1>. DEFINE x == Lhs(n)
<1>1. WrittenLookup(n) = "isnull" /\ x = n.args[1]
  BY ComparedOperands DEF WrittenLookup
<1>2. ~(IsRef(x) /\ Kind[x.of] = "array")
  BY <1>1, NotRefused DEF ARRAY_LOOKUPS
<1>3. ElementLookup(n) = "isnull"
  BY <1>1, <1>2 DEF ElementLookup
<1>4. Values(x, f) = {Value(x, f, s) : s \in Objects(f)} \ {Null}
  BY <1>2, LeftValues
<1>5. \A s : Holds(n, f, s) <=> Value(x, f, s) = Null
  BY <1>3, SqlOfOthers DEF Holds
<1>6. \A s, r : Value(x, f, s) = Value(x, f, r)
  <2>1. CASE IsElement(x)
    <3>1. x = Ref(x.of) /\ x.of \in Elements /\ Kind[x.of] # "many"
      BY <2>1 DEF IsElement, IsComparison, ManyRef, Many, IsRef, Ref
    <3>. QED
      BY <3>1, ElementValues
  <2>2. CASE IsPlain(x)
    BY <2>2, PlainValues
  <2>. QED
    BY <2>1, <2>2 DEF IsComparison
<1>7. Satisfies(n, f) <=> Values(x, f) = {}
  BY <1>1 DEF Satisfies
<1>. HIDE DEF x
<1>. QED
  BY <1>4, <1>5, <1>6, <1>7, FeaturesAre

LEMMA BoxIsSatisfied ==
    ASSUME NEW type \in TypeNames, NEW f \in Table[type], NEW n, IsComparison(n), n.op = "bbox",
           ~RefusesNode(n), ~Comparison(n, type).unprepared
    PROVE  Satisfies(n, f) <=> \E s \in Objects(f) : Holds(n, f, s)
<1>. DEFINE x == Lhs(n)
<1>1. WrittenLookup(n) = "intersects" /\ Rhs(n) = <<n.box>>
  BY ComparedOperands DEF WrittenLookup
<1>2. ~(IsRef(x) /\ Kind[x.of] = "array")
  BY <1>1, NotRefused DEF ARRAY_LOOKUPS
<1>3. ElementLookup(n) = "intersects"
  BY <1>1, <1>2 DEF ElementLookup
<1>4. Values(x, f) = {Value(x, f, s) : s \in Objects(f)} \ {Null}
  BY <1>2, LeftValues
<1>5. n.box.kind = "literal" /\ Null \notin n.box.of
  BY ValuesAssumption DEF IsComparison
<1>6. \A s : Operands(n, f, s)[1] = n.box.of
  <2>1. 1 \in DOMAIN Rhs(n) /\ Rhs(n)[1] = n.box
    BY <1>1
  <2>. QED
    BY <1>5, <2>1 DEF Operands, Value
<1>7. \A s : Holds(n, f, s) <=> Value(x, f, s) \in n.box.of
  BY <1>3, <1>6, SqlOfOthers DEF Holds
<1>8. Satisfies(n, f) <=> Values(x, f) \intersect n.box.of # {}
  BY DEF Satisfies
<1>. HIDE DEF x
<1>. QED
  BY <1>4, <1>5, <1>7, <1>8

LEMMA ComparisonIsSatisfied ==
    ASSUME NEW type \in TypeNames, NEW f \in Table[type], NEW n, IsComparison(n),
           ~RefusesNode(n), ~Comparison(n, type).unprepared
    PROVE  Satisfies(n, f) <=> \E s \in Objects(f) : Holds(n, f, s)
BY ComparisonIsNoLogic, CompareIsSatisfied, BetweenIsSatisfied, NullIsSatisfied, BoxIsSatisfied

-----------------------------------------------------------------------------
(* A Q whose negated lookups are all about all related objects of a        *)
(* feature, whatever was joined: what the code builds when NotOfJoined     *)
(* does not hold.                                                          *)

Apart(p) == [row |-> Row(p), sub |-> Sub(p), neg |-> Neg(p),
             unprepared |-> p.unprepared]
Alone(n, type) == Apart(Comparison(n, type))
AndApart(ds, type) ==
    [row |-> All({d.row : d \in ds}, type), sub |-> All({d.sub : d \in ds}, type),
     neg |-> UNION {d.neg : d \in ds}, unprepared |-> \E d \in ds : d.unprepared]
OrApart(ds, type) ==
    [row |-> UNION {d.row : d \in ds}, sub |-> UNION {d.sub : d \in ds},
     neg |-> All({d.neg : d \in ds}, type), unprepared |-> \E d \in ds : d.unprepared]
NotApart(d) == [row |-> d.neg, sub |-> d.neg, neg |-> d.sub, unprepared |-> d.unprepared]
NewApart(n, ds, type) ==
    LET operands == {ds[i] : i \in n.of}
    IN  CASE n.op = "And" -> AndApart(operands, type)
          [] n.op = "Or" -> OrApart(operands, type)
          [] n.op = "Not" -> NotApart(CHOOSE d \in operands : TRUE)

(* What is known of the Q of a node and the truth of this node for a       *)
(* feature.  Its rows are true ones; but for the exceptions that the       *)
(* property names, a true node has all rows of the feature in "sub", one   *)
(* that is negated later all of them in "neg", and one outside every Not   *)
(* some row.                                                               *)

IsTruth(filter, f, t, k) == \A i \in 1..k : t[i] = Truth(filter, f, t, i)
Negated(filter, i) == \E k \in DOMAIN filter : i < k /\ filter[k].op = "Not"

Sound(f, p, b) ==
    \A s : /\ <<f, s>> \in p.row => b
           /\ <<f, s>> \in p.sub => b
           /\ <<f, s>> \in p.neg => ~b
Exhaustive(qr, f, p, b, i) ==
    /\ b => \A s \in Objects(f) : <<f, s>> \in p.sub
    /\ ~b /\ Negated(qr.filter, i) => \A s \in Objects(f) : <<f, s>> \in p.neg
    /\ b /\ ~OfOneObject(qr) /\ i \in OutsideNot(qr.filter) => \E s \in Objects(f) : <<f, s>> \in p.row
Means(qr, f, p, b, i) ==
    /\ qr.filter[i].op = "Not" => p.row = p.sub
    /\ ~p.unprepared => /\ Sound(f, p, b)
                        /\ ~NotOfNull(qr, f) => Exhaustive(qr, f, p, b, i)

(* Without two comparisons of repeated elements, one related object is     *)
(* good for all nodes so far; without any, each is.                        *)
Repeated(filter, k) == {i \in 1..k : OfRepeated(filter[i])}
GoodRow(f, t, qs, s) == \A i \in 1..Len(qs) : ~qs[i].unprepared /\ t[i] => <<f, s>> \in qs[i].row
OneRow(qr, f, t, qs) ==
    ~NotOfNull(qr, f) =>
        /\ (\A i, j \in Repeated(qr.filter, Len(qs)) : i = j) => \E s \in Objects(f) : GoodRow(f, t, qs, s)
        /\ Repeated(qr.filter, Len(qs)) = {} => \A s \in Objects(f) : GoodRow(f, t, qs, s)

Agree(qr, type, qs) ==
    \A f \in Table[type] : \A t : IsTruth(qr.filter, f, t, Len(qs)) =>
        /\ \A i \in 1..Len(qs) : Means(qr, f, qs[i], t[i], i)
        /\ OneRow(qr, f, t, qs)
TruthExists(filter, type, k) ==
    \A f \in Table[type] : \E t \in [1..k -> BOOLEAN] : IsTruth(filter, f, t, k)

(* The Q of a comparison.                                                  *)
LEMMA ComparisonRows ==
    ASSUME NEW n, NEW type, ~Alone(n, type).unprepared
    PROVE  LET p == Alone(n, type)
           IN  /\ p.row = {r \in Rows[type] : Holds(n, r[1], r[2])}
               /\ p.sub = {r \in Rows[type] : \E s \in Objects(r[1]) : Holds(n, r[1], s)}
               /\ p.neg = {r \in Rows[type] \ p.sub : Decided(n, r[1], r[2])}
               /\ ~Comparison(n, type).unprepared
<1>. DEFINE unprepared == ~IsRef(Lhs(n)) /\ Literal(BadValue) \in ToSet(Rhs(n))
            c == Comparison(n, type)
            p == Alone(n, type)
            True(f, s) == ~unprepared /\ Sql(ElementLookup(n), Value(Lhs(n), f, s),
                                    [i \in DOMAIN Rhs(n) |-> Value(Rhs(n)[i], f, s)])
<1>0. /\ p.row = Row(c) /\ p.sub = Sub(c) /\ p.neg = Neg(c)
      /\ p.unprepared = c.unprepared /\ c.unprepared = unprepared
  BY DEF Alone, Apart, Comparison, LookupQ, Row, Sub, Neg
<1>1. ~unprepared
  BY <1>0
<1>2. \A f, s : True(f, s) <=> Holds(n, f, s)
  BY <1>1 DEF Holds, Operands
<1>3. Row(c) = {r \in Rows[type] : True(r[1], r[2])}
  BY DEF Comparison, LookupQ, Row
<1>4. Sub(c) = {r \in Rows[type] : \E s \in Objects(r[1]) : True(r[1], s)}
  BY DEF Comparison, LookupQ, Sub
<1>5. Neg(c) = {r \in Rows[type] \ Sub(c) : Decided(n, r[1], r[2])}
  BY DEF Comparison, LookupQ, Decided, Operands, Neg, Sub
<1>. HIDE DEF True, c, p, unprepared
<1>6. p.row = {r \in Rows[type] : Holds(n, r[1], r[2])}
  BY <1>0, <1>2, <1>3
<1>7. p.sub = {r \in Rows[type] : \E s \in Objects(r[1]) : Holds(n, r[1], s)}
  BY <1>0, <1>2, <1>4
<1>. QED
  BY <1>0, <1>1, <1>5, <1>6, <1>7 DEF c, p

(* A comparison without an exception of NULL is decided.                   *)
LEMMA ComparisonIsDecided ==
    ASSUME NEW type \in TypeNames, NEW f \in Table[type], NEW n, IsComparison(n),
           ~RefusesNode(n), ~Alone(n, type).unprepared,
           IsRef(Lhs(n)) \/ \A a \in DOMAIN n.args : Values(n.args[a], f) # {},
           NEW s \in Objects(f)
    PROVE  Decided(n, f, s)
<1>. SUFFICES ASSUME ~IsRef(Lhs(n)) PROVE Null \notin {Value(Lhs(n), f, s)} \union ToSet(Operands(n, f, s))
  BY DEF Decided
<1>1. IsPlain(Lhs(n))
  BY DEF IsComparison, IsElement, IsRef, Ref
<1>2. ASSUME NEW x, IsPlain(x), Values(x, f) # {} PROVE Value(x, f, s) # Null
  BY <1>2, PlainValues
<1>3. Value(Lhs(n), f, s) # Null
  <2>1. PICK i \in DOMAIN n.args : Lhs(n) = n.args[i]
    BY ComparedOperands DEF IsRef, Ref
  <2>. QED
    BY <1>1, <1>2, <2>1
<1>4. ASSUME NEW k \in DOMAIN Rhs(n) PROVE Operands(n, f, s)[k] # Null
  <2>1. Operands(n, f, s)[k] = Value(Rhs(n)[k], f, s)
    BY DEF Operands
  <2>2. CASE n.op = "bbox"
    <3>1. Rhs(n) = <<n.box>>
      BY <2>2, ComparedOperands
    <3>2. Rhs(n)[k] = n.box
      BY <3>1
    <3>. QED
      BY <2>1, <2>2, <3>2 DEF IsComparison, Value
  <2>3. CASE n.op # "bbox"
    <3>1. IsPlain(Rhs(n)[k])
      BY <2>3 DEF IsComparison
    <3>2. \E i \in DOMAIN n.args : Rhs(n)[k] = n.args[i]
      BY <2>3, ComparedOperands
    <3>. QED
      BY <1>2, <2>1, <3>1, <3>2
  <2>. QED
    BY <2>2, <2>3
<1>5. DOMAIN Operands(n, f, s) = DOMAIN Rhs(n)
  BY DEF Operands
<1>. QED
  BY <1>3, <1>4, <1>5 DEF ToSet

(* One of elements that do not repeat is true for each row or for none.    *)
LEMMA SingleIsOfTheFeature ==
    ASSUME NEW type \in TypeNames, NEW f \in Table[type], NEW n, IsComparison(n), ~OfRepeated(n),
           NEW s, NEW r
    PROVE  Holds(n, f, s) = Holds(n, f, r)
<1>1. ~ManyRef(Lhs(n))
  <2>1. CASE n.args = <<>>
    BY <2>1, ComparedOperands, ElementsAssumption DEF ManyRef, Many, Ref
  <2>2. CASE n.args # <<>>
    BY <2>2, ComparedOperands, ComparisonIsNoLogic DEF OfRepeated
  <2>. QED
    BY <2>1, <2>2
<1>2. Value(Lhs(n), f, s) = Value(Lhs(n), f, r)
  <2>1. CASE IsElement(Lhs(n))
    <3>1. Lhs(n) = Ref(Lhs(n).of) /\ Lhs(n).of \in Elements /\ Kind[Lhs(n).of] # "many"
      BY <1>1, <2>1 DEF IsElement, ManyRef, Many, IsRef, Ref
    <3>. QED
      BY <3>1, ElementValues
  <2>2. CASE IsPlain(Lhs(n))
    BY <2>2, PlainValues
  <2>. QED
    BY <2>1, <2>2 DEF IsComparison
<1>3. Operands(n, f, s) = Operands(n, f, r)
  <2>1. \A k \in DOMAIN Rhs(n) : Value(Rhs(n)[k], f, s) = Value(Rhs(n)[k], f, r)
    <3>1. CASE n.op = "bbox"
      <4>1. Rhs(n) = <<n.box>>
        BY <3>1, ComparedOperands
      <4>2. \A k \in DOMAIN Rhs(n) : Rhs(n)[k] = n.box
        BY <4>1
      <4>. QED
        BY <3>1, <4>2 DEF IsComparison, Value
    <3>2. CASE n.op # "bbox"
      BY <3>2, PlainValues DEF IsComparison
    <3>. QED
      BY <3>1, <3>2
  <2>. QED
    BY <2>1 DEF Operands
<1>. QED
  BY <1>2, <1>3 DEF Holds

LEMMA ComparisonMeans ==
    ASSUME NEW type \in TypeNames, NEW f \in Table[type], NEW qr, qr.kind = "filter",
           NEW i \in DOMAIN qr.filter, i \in Int, DOMAIN qr.filter \subseteq Int,
           IsComparison(qr.filter[i]), ~RefusesNode(qr.filter[i]),
           NEW b, b <=> Satisfies(qr.filter[i], f)
    PROVE  Means(qr, f, Alone(qr.filter[i], type), b, i)
<1>. DEFINE n == qr.filter[i]
            p == Alone(n, type)
<1>1. n.op # "Not" /\ ~IsLogic(n)
  BY ComparisonIsNoLogic
<1>. SUFFICES ASSUME ~p.unprepared
              PROVE  Sound(f, p, b) /\ (~NotOfNull(qr, f) => Exhaustive(qr, f, p, b, i))
  BY <1>1 DEF Means
<1>2. b <=> \E s \in Objects(f) : Holds(n, f, s)
  <2>1. ~Comparison(n, type).unprepared
    BY DEF Alone, Apart
  <2>. QED
    BY <2>1, ComparisonIsSatisfied
<1>3. \A s : /\ <<f, s>> \in p.row <=> s \in Objects(f) /\ Holds(n, f, s)
             /\ <<f, s>> \in p.sub <=> s \in Objects(f) /\ b
             /\ <<f, s>> \in p.neg <=> s \in Objects(f) /\ ~b /\ Decided(n, f, s)
  <2>. TAKE s
  <2>. DEFINE r == <<f, s>>
  <2>1. r \in Rows[type] <=> s \in Objects(f)
    BY RowsAre
  <2>2. r[1] = f /\ r[2] = s
    OBVIOUS
  <2>3. /\ p.row = {x \in Rows[type] : Holds(n, x[1], x[2])}
        /\ p.sub = {x \in Rows[type] : \E u \in Objects(x[1]) : Holds(n, x[1], u)}
        /\ p.neg = {x \in Rows[type] \ p.sub : Decided(n, x[1], x[2])}
    BY ComparisonRows
  <2>. HIDE DEF p, n, r
  <2>4. r \in p.sub <=> s \in Objects(f) /\ b
    BY <1>2, <2>1, <2>2, <2>3
  <2>5. r \in p.row <=> s \in Objects(f) /\ Holds(n, f, s)
    BY <2>1, <2>2, <2>3
  <2>6. r \in p.neg <=> s \in Objects(f) /\ ~b /\ Decided(n, f, s)
    BY <2>1, <2>2, <2>3, <2>4
  <2>. QED
    BY <2>4, <2>5, <2>6 DEF r
<1>4. Sound(f, p, b)
  BY <1>2, <1>3 DEF Sound
<1>5. ASSUME ~NotOfNull(qr, f), Negated(qr.filter, i), NEW s \in Objects(f) PROVE Decided(n, f, s)
  <2>1. IsRef(Lhs(n)) \/ \A a \in DOMAIN n.args : Values(n.args[a], f) # {}
    BY <1>1, <1>5 DEF NotOfNull, Negated
  <2>. QED
    BY <2>1, ComparisonIsDecided
<1>. HIDE DEF p, n
<1>. QED
  BY <1>2, <1>3, <1>4, <1>5 DEF Exhaustive

(* The Q of an And, Or or Not, from what is known of its operands.         *)
OperandsAre(P, qs, of) ==
    /\ of \subseteq 1..Len(qs)
    /\ \A k \in of : qs[k] \in P
    /\ \A x \in P : \E k \in of : x = qs[k]
Agreed(qr, f, t, qs) == \A j \in 1..Len(qs) : Means(qr, f, qs[j], t[j], j)

LEMMA AndMeans ==
    ASSUME NEW type \in TypeNames, NEW f \in Table[type], NEW qr, NEW qs, NEW t, NEW of,
           Len(qs) \in Nat, Agreed(qr, f, t, qs),
           DOMAIN qr.filter \subseteq Int, NEW i, i = Len(qs) + 1,
           NEW P, OperandsAre(P, qs, of),
           NEW p, p = AndApart(P, type), ~p.unprepared,
           NEW b, b <=> \A k \in of : t[k]
    PROVE  /\ Sound(f, p, b)
           /\ ~NotOfNull(qr, f) =>
                /\ b => \A s \in Objects(f) : <<f, s>> \in p.sub
                /\ ~b /\ Negated(qr.filter, i) => \A s \in Objects(f) : <<f, s>> \in p.neg
           /\ \A s \in Objects(f) : b /\ GoodRow(f, t, qs, s) => <<f, s>> \in p.row
<1>0. /\ of \subseteq 1..Len(qs) /\ \A k \in of : qs[k] \in P
      /\ \A x \in P : \E k \in of : x = qs[k]
  BY DEF OperandsAre
<1>1. \A s : /\ <<f, s>> \in p.row <=> s \in Objects(f) /\ \A k \in of : <<f, s>> \in qs[k].row
             /\ <<f, s>> \in p.sub <=> s \in Objects(f) /\ \A k \in of : <<f, s>> \in qs[k].sub
             /\ <<f, s>> \in p.neg <=> \E k \in of : <<f, s>> \in qs[k].neg
  <2>. TAKE s
  <2>. DEFINE r == <<f, s>>
  <2>1. r \in Rows[type] <=> s \in Objects(f)
    BY RowsAre
  <2>. HIDE DEF r
  <2>. QED
    BY SMTT(30), <1>0, <2>1 DEF AndApart, All, r
<1>2. \A k \in of : ~qs[k].unprepared
  BY <1>0 DEF AndApart
<1>3. \A k \in of : /\ Sound(f, qs[k], t[k])
                    /\ ~NotOfNull(qr, f) => Exhaustive(qr, f, qs[k], t[k], k)
  BY <1>0, <1>2 DEF Agreed, Means
<1>4. Negated(qr.filter, i) => \A k \in of : Negated(qr.filter, k)
  BY <1>0 DEF Negated
<1>5. ASSUME NEW s
      PROVE  /\ <<f, s>> \in p.row => b
             /\ <<f, s>> \in p.sub => b
             /\ <<f, s>> \in p.neg => ~b
  BY <1>1, <1>3 DEF Sound
<1>6. ASSUME ~NotOfNull(qr, f), NEW s \in Objects(f)
      PROVE  /\ b => <<f, s>> \in p.sub
             /\ ~b /\ Negated(qr.filter, i) => <<f, s>> \in p.neg
  BY <1>1, <1>3, <1>4, <1>6 DEF Exhaustive
<1>7. ASSUME NEW s \in Objects(f), b, GoodRow(f, t, qs, s) PROVE <<f, s>> \in p.row
  BY <1>0, <1>1, <1>2, <1>7 DEF GoodRow
<1>8. Sound(f, p, b)
  BY <1>5 DEF Sound
<1>. QED
  BY <1>6, <1>7, <1>8

LEMMA OrMeans ==
    ASSUME NEW type \in TypeNames, NEW f \in Table[type], NEW qr, NEW qs, NEW t, NEW of,
           Len(qs) \in Nat, Agreed(qr, f, t, qs),
           DOMAIN qr.filter \subseteq Int, NEW i, i = Len(qs) + 1,
           NEW P, OperandsAre(P, qs, of),
           NEW p, p = OrApart(P, type), ~p.unprepared,
           NEW b, b <=> \E k \in of : t[k]
    PROVE  /\ Sound(f, p, b)
           /\ ~NotOfNull(qr, f) =>
                /\ b => \A s \in Objects(f) : <<f, s>> \in p.sub
                /\ ~b /\ Negated(qr.filter, i) => \A s \in Objects(f) : <<f, s>> \in p.neg
           /\ \A s \in Objects(f) : b /\ GoodRow(f, t, qs, s) => <<f, s>> \in p.row
<1>0. /\ of \subseteq 1..Len(qs) /\ \A k \in of : qs[k] \in P
      /\ \A x \in P : \E k \in of : x = qs[k]
  BY DEF OperandsAre
<1>1. \A s : /\ <<f, s>> \in p.row <=> \E k \in of : <<f, s>> \in qs[k].row
             /\ <<f, s>> \in p.sub <=> \E k \in of : <<f, s>> \in qs[k].sub
             /\ <<f, s>> \in p.neg <=> s \in Objects(f) /\ \A k \in of : <<f, s>> \in qs[k].neg
  <2>. TAKE s
  <2>. DEFINE r == <<f, s>>
  <2>1. r \in Rows[type] <=> s \in Objects(f)
    BY RowsAre
  <2>. HIDE DEF r
  <2>2. r \in p.row <=> \E x \in P : r \in x.row
    BY DEF OrApart
  <2>3. r \in p.sub <=> \E x \in P : r \in x.sub
    BY DEF OrApart
  <2>4. r \in p.neg <=> r \in Rows[type] /\ \A x \in P : r \in x.neg
    BY DEF OrApart, All
  <2>. QED
    BY <1>0, <2>1, <2>2, <2>3, <2>4 DEF r
<1>2. \A k \in of : ~qs[k].unprepared
  BY <1>0 DEF OrApart
<1>3. \A k \in of : /\ Sound(f, qs[k], t[k])
                    /\ ~NotOfNull(qr, f) => Exhaustive(qr, f, qs[k], t[k], k)
  BY <1>0, <1>2 DEF Agreed, Means
<1>4. Negated(qr.filter, i) => \A k \in of : Negated(qr.filter, k)
  BY <1>0 DEF Negated
<1>5. ASSUME NEW s
      PROVE  /\ <<f, s>> \in p.row => b
             /\ <<f, s>> \in p.sub => b
             /\ <<f, s>> \in p.neg => ~b
  BY <1>1, <1>3 DEF Sound
<1>6. ASSUME ~NotOfNull(qr, f), NEW s \in Objects(f)
      PROVE  /\ b => <<f, s>> \in p.sub
             /\ ~b /\ Negated(qr.filter, i) => <<f, s>> \in p.neg
  BY <1>1, <1>3, <1>4, <1>6 DEF Exhaustive
<1>7. ASSUME NEW s \in Objects(f), b, GoodRow(f, t, qs, s) PROVE <<f, s>> \in p.row
  BY <1>0, <1>1, <1>2, <1>7 DEF GoodRow
<1>8. Sound(f, p, b)
  BY <1>5 DEF Sound
<1>. QED
  BY <1>6, <1>7, <1>8

LEMMA NotMeans ==
    ASSUME NEW type \in TypeNames, NEW f \in Table[type], NEW qr, NEW qs, NEW t,
           NEW j \in 1..Len(qs), Len(qs) \in Nat, Agreed(qr, f, t, qs),
           DOMAIN qr.filter \subseteq Int, Len(qs) + 1 \in DOMAIN qr.filter,
           qr.filter[Len(qs) + 1].op = "Not", ~qs[j].unprepared
    PROVE  LET p == NotApart(qs[j])
           IN  /\ Sound(f, p, ~t[j]) /\ p.row = p.sub
               /\ ~NotOfNull(qr, f) => /\ ~t[j] => \A s \in Objects(f) : <<f, s>> \in p.sub
                                       /\ t[j] => \A s \in Objects(f) : <<f, s>> \in p.neg
<1>1. Sound(f, qs[j], t[j]) /\ (~NotOfNull(qr, f) => Exhaustive(qr, f, qs[j], t[j], j))
  BY DEF Agreed, Means
<1>2. Negated(qr.filter, j)
  BY DEF Negated
<1>. QED
  BY <1>1, <1>2 DEF NotApart, Sound, Exhaustive

LEMMA LogicMeans ==
    ASSUME NEW type \in TypeNames, NEW f \in Table[type], NEW qr, qr.kind = "filter",
           NEW qs, NEW t, Len(qs) \in Nat, Agreed(qr, f, t, qs), OneRow(qr, f, t, qs),
           DOMAIN qr.filter = 1..Len(qr.filter), Len(qr.filter) \in Nat,
           NEW i, i = Len(qs) + 1, i \in DOMAIN qr.filter,
           IsLogic(qr.filter[i]), IsNode(qr.filter[i], i), t[i] = Truth(qr.filter, f, t, i)
    PROVE  /\ Means(qr, f, NewApart(qr.filter[i], qs, type), t[i], i)
           /\ ~NewApart(qr.filter[i], qs, type).unprepared /\ ~NotOfNull(qr, f) /\ t[i] =>
                \A s \in Objects(f) :
                    GoodRow(f, t, qs, s) => <<f, s>> \in NewApart(qr.filter[i], qs, type).row
<1>. DEFINE n == qr.filter[i]
            p == NewApart(n, qs, type)
            operands == {qs[k] : k \in n.of}
<1>1. n.of # {} /\ n.of \subseteq 1..Len(qs) /\ n.op \in {"And", "Or", "Not"}
  BY DEF IsNode, IsLogic
<1>2. Objects(f) # {}
  BY FeaturesAre
<1>3. CASE n.op = "And"
  <2>1. p = AndApart(operands, type)
    BY <1>3 DEF NewApart
  <2>2. t[i] <=> \A k \in n.of : t[k]
    BY <1>3 DEF Truth
  <2>. SUFFICES ASSUME ~p.unprepared
                PROVE  /\ Means(qr, f, p, t[i], i)
                       /\ ~NotOfNull(qr, f) /\ t[i] =>
                            \A s \in Objects(f) : GoodRow(f, t, qs, s) => <<f, s>> \in p.row
    BY <1>3 DEF Means
  <2>3. /\ Sound(f, p, t[i])
        /\ ~NotOfNull(qr, f) =>
             /\ t[i] => \A s \in Objects(f) : <<f, s>> \in p.sub
             /\ ~t[i] /\ Negated(qr.filter, i) => \A s \in Objects(f) : <<f, s>> \in p.neg
        /\ \A s \in Objects(f) : t[i] /\ GoodRow(f, t, qs, s) => <<f, s>> \in p.row
    <3>1. DOMAIN qr.filter \subseteq Int
      OBVIOUS
    <3>2. OperandsAre(operands, qs, n.of)
      BY <1>1 DEF OperandsAre
    <3>. HIDE DEF p, n, operands
    <3>. QED
      BY ZenonT(30), <1>1, <2>1, <2>2, <3>1, <3>2, AndMeans
  <2>4. ASSUME ~NotOfNull(qr, f), t[i], ~OfOneObject(qr), i \in OutsideNot(qr.filter)
        PROVE  \E s \in Objects(f) : <<f, s>> \in p.row
    <3>1. \A j, k \in Repeated(qr.filter, Len(qs)) : j = k
      BY <1>3, <2>4 DEF OfOneObject, Repeated
    <3>2. \E s \in Objects(f) : GoodRow(f, t, qs, s)
      BY <2>4, <3>1 DEF OneRow
    <3>. QED
      BY <2>3, <2>4, <3>2
  <2>. HIDE DEF p
  <2>. QED
    BY <1>3, <2>3, <2>4 DEF Means, Exhaustive
<1>4. CASE n.op = "Or"
  <2>1. p = OrApart(operands, type)
    BY <1>4 DEF NewApart
  <2>2. t[i] <=> \E k \in n.of : t[k]
    BY <1>4 DEF Truth
  <2>. SUFFICES ASSUME ~p.unprepared
                PROVE  /\ Means(qr, f, p, t[i], i)
                       /\ ~NotOfNull(qr, f) /\ t[i] =>
                            \A s \in Objects(f) : GoodRow(f, t, qs, s) => <<f, s>> \in p.row
    BY <1>4 DEF Means
  <2>3. /\ Sound(f, p, t[i])
        /\ ~NotOfNull(qr, f) =>
             /\ t[i] => \A s \in Objects(f) : <<f, s>> \in p.sub
             /\ ~t[i] /\ Negated(qr.filter, i) => \A s \in Objects(f) : <<f, s>> \in p.neg
        /\ \A s \in Objects(f) : t[i] /\ GoodRow(f, t, qs, s) => <<f, s>> \in p.row
    <3>1. DOMAIN qr.filter \subseteq Int
      OBVIOUS
    <3>2. OperandsAre(operands, qs, n.of)
      BY <1>1 DEF OperandsAre
    <3>. HIDE DEF p, n, operands
    <3>. QED
      BY <1>1, <2>1, <2>2, <3>1, <3>2, OrMeans
  <2>4. ASSUME ~NotOfNull(qr, f), t[i], ~OfOneObject(qr), i \in OutsideNot(qr.filter),
               NEW k \in n.of, t[k]
        PROVE  \E s \in Objects(f) : <<f, s>> \in qs[k].row
    <3>1. ~qs[k].unprepared
      BY <2>1 DEF OrApart
    <3>2. Means(qr, f, qs[k], t[k], k) /\ k \in 1..Len(qs)
      BY <1>1 DEF Agreed
    <3>3. Exhaustive(qr, f, qs[k], t[k], k)
      BY <2>4, <3>1, <3>2 DEF Means
    <3>4. CASE qr.filter[k].op = "Not"
      BY <1>2, <2>4, <3>2, <3>3, <3>4 DEF Means, Exhaustive
    <3>5. CASE qr.filter[k].op # "Not"
      <4>1. k \in OutsideNot(qr.filter)
        <5>1. PICK path \in SUBSET DOMAIN qr.filter :
                     /\ i \in path
                     /\ \A j \in path : /\ qr.filter[j].op # "Not"
                                        /\ \/ j = Len(qr.filter)
                                           \/ \E m \in path : IsLogic(qr.filter[m]) /\ j \in qr.filter[m].of
          BY <2>4 DEF OutsideNot
        <5>. DEFINE longer == path \union {k}
        <5>2. k \in DOMAIN qr.filter
          BY <3>2
        <5>3. longer \in SUBSET DOMAIN qr.filter
          BY <5>2
        <5>4. \A j \in longer : /\ qr.filter[j].op # "Not"
                                /\ \/ j = Len(qr.filter)
                                   \/ \E m \in longer : IsLogic(qr.filter[m]) /\ j \in qr.filter[m].of
          BY <3>5, <5>1
        <5>5. k \in longer
          OBVIOUS
        <5>. HIDE DEF longer
        <5>. QED
          BY <5>3, <5>4, <5>5 DEF OutsideNot
      <4>. QED
        BY <2>4, <3>3, <4>1 DEF Exhaustive
    <3>. QED
      BY <3>4, <3>5
  <2>5. \A k \in n.of : \A s : <<f, s>> \in qs[k].row => <<f, s>> \in p.row
    BY <2>1 DEF OrApart
  <2>. HIDE DEF p, n
  <2>. QED
    BY <1>4, <2>2, <2>3, <2>4, <2>5 DEF Means, Exhaustive, n
<1>5. CASE n.op = "Not"
  <2>1. PICK j \in n.of : n.of = {j}
    BY <1>5 DEF IsNode, IsLogic
  <2>2. p = NotApart(qs[j])
    <3>1. operands = {qs[j]}
      BY <2>1
    <3>2. (CHOOSE x \in operands : TRUE) = qs[j]
      BY <3>1
    <3>. QED
      BY <1>5, <3>2 DEF NewApart
  <2>3. t[i] = ~t[j]
    BY <1>5, <2>1 DEF Truth
  <2>4. p.row = p.sub /\ (p.unprepared = qs[j].unprepared) /\ j \in 1..Len(qs)
    BY <1>1, <2>2 DEF NotApart
  <2>. SUFFICES ASSUME ~p.unprepared
                PROVE  /\ Means(qr, f, p, t[i], i)
                       /\ ~NotOfNull(qr, f) /\ t[i] =>
                            \A s \in Objects(f) : GoodRow(f, t, qs, s) => <<f, s>> \in p.row
    BY <2>4 DEF Means
  <2>5. /\ Sound(f, p, ~t[j])
        /\ ~NotOfNull(qr, f) => /\ ~t[j] => \A s \in Objects(f) : <<f, s>> \in p.sub
                                /\ t[j] => \A s \in Objects(f) : <<f, s>> \in p.neg
    <3>. HIDE DEF p
    <3>. QED
      BY <1>5, <2>2, <2>4, NotMeans
  <2>. HIDE DEF p
  <2>. QED
    BY <1>2, <1>5, <2>3, <2>4, <2>5 DEF Means, Sound, Exhaustive
<1>. QED
  BY <1>1, <1>3, <1>4, <1>5

(* One more node.                                                          *)
Longer(qs, p, more) ==
    /\ Len(qs) \in Nat /\ Len(more) = Len(qs) + 1
    /\ \A j \in 1..Len(qs) : more[j] = qs[j]
    /\ more[Len(qs) + 1] = p

LEMMA GoodRowGrows ==
    ASSUME NEW qs, NEW p, NEW more, Longer(qs, p, more), NEW f, NEW t, NEW s, GoodRow(f, t, qs, s),
           ~p.unprepared /\ t[Len(qs) + 1] => <<f, s>> \in p.row
    PROVE  GoodRow(f, t, more, s)
<1>. SUFFICES ASSUME NEW i \in 1..Len(more), ~more[i].unprepared, t[i]
              PROVE  <<f, s>> \in more[i].row
  BY DEF GoodRow
<1>1. CASE i \in 1..Len(qs)
  BY <1>1 DEF Longer, GoodRow
<1>2. CASE i = Len(qs) + 1
  BY <1>2 DEF Longer
<1>. QED
  BY <1>1, <1>2 DEF Longer

LEMMA OneRowOfOthers ==
    ASSUME NEW qs, NEW p, NEW more, Longer(qs, p, more), NEW f, NEW t, NEW qr,
           OneRow(qr, f, t, qs), ~OfRepeated(qr.filter[Len(qs) + 1]),
           ~p.unprepared /\ ~NotOfNull(qr, f) /\ t[Len(qs) + 1] =>
                \A s \in Objects(f) : GoodRow(f, t, qs, s) => <<f, s>> \in p.row
    PROVE  OneRow(qr, f, t, more)
<1>. SUFFICES ASSUME ~NotOfNull(qr, f)
              PROVE  /\ (\A i, j \in Repeated(qr.filter, Len(more)) : i = j) =>
                            \E s \in Objects(f) : GoodRow(f, t, more, s)
                     /\ Repeated(qr.filter, Len(more)) = {} => \A s \in Objects(f) : GoodRow(f, t, more, s)
  BY DEF OneRow
<1>1. Repeated(qr.filter, Len(more)) = Repeated(qr.filter, Len(qs))
  BY DEF Repeated, Longer
<1>2. \A s \in Objects(f) : GoodRow(f, t, qs, s) => GoodRow(f, t, more, s)
  BY GoodRowGrows
<1>. QED
  BY <1>1, <1>2 DEF OneRow

LEMMA OneRowOfRepeated ==
    ASSUME NEW qs, NEW p, NEW more, Longer(qs, p, more), NEW f, NEW t, NEW qr, Objects(f) # {},
           OneRow(qr, f, t, qs), OfRepeated(qr.filter[Len(qs) + 1]),
           ~p.unprepared /\ t[Len(qs) + 1] => \E s \in Objects(f) : <<f, s>> \in p.row
    PROVE  OneRow(qr, f, t, more)
<1>. DEFINE i == Len(qs) + 1
<1>1. i \in Repeated(qr.filter, Len(more))
  BY DEF Repeated, Longer
<1>. SUFFICES ASSUME ~NotOfNull(qr, f), \A j, k \in Repeated(qr.filter, Len(more)) : j = k
              PROVE  \E s \in Objects(f) : GoodRow(f, t, more, s)
  BY <1>1 DEF OneRow
<1>2. Repeated(qr.filter, Len(qs)) = {}
  BY <1>1 DEF Repeated, Longer
<1>3. \A s \in Objects(f) : GoodRow(f, t, qs, s)
  BY <1>2 DEF OneRow
<1>4. PICK s \in Objects(f) : ~p.unprepared /\ t[i] => <<f, s>> \in p.row
  OBVIOUS
<1>. QED
  BY <1>3, <1>4, GoodRowGrows

BuiltApart(n, qs, type, p) ==
    IF IsLogic(n) THEN p = NewApart(n, qs, type) ELSE p = Alone(n, type) /\ ~RefusesNode(n)

LEMMA AgreeGrows ==
    ASSUME NEW type \in TypeNames, NEW qr, qr.kind = "filter",
           NEW qs, NEW p, NEW more, Longer(qs, p, more),
           DOMAIN qr.filter = 1..Len(qr.filter), Len(qr.filter) \in Nat, Len(more) \in DOMAIN qr.filter,
           IsNode(qr.filter[Len(more)], Len(more)), BuiltApart(qr.filter[Len(more)], qs, type, p),
           Agree(qr, type, qs)
    PROVE  Agree(qr, type, more)
<1>. DEFINE i == Len(more)
            n == qr.filter[i]
<1>. SUFFICES ASSUME NEW f \in Table[type], NEW t, IsTruth(qr.filter, f, t, i)
              PROVE  (\A j \in 1..i : Means(qr, f, more[j], t[j], j)) /\ OneRow(qr, f, t, more)
  BY DEF Agree
<1>1. i = Len(qs) + 1 /\ Len(qs) \in Nat /\ i \in Int /\ i \in 1..i /\ DOMAIN qr.filter \subseteq Int
      /\ more[i] = p
  BY DEF Longer
<1>2. IsTruth(qr.filter, f, t, Len(qs)) /\ t[i] = Truth(qr.filter, f, t, i)
  BY <1>1 DEF IsTruth
<1>3. Agreed(qr, f, t, qs) /\ OneRow(qr, f, t, qs)
  BY <1>2 DEF Agree, Agreed
<1>4. Means(qr, f, p, t[i], i) /\ OneRow(qr, f, t, more)
  <2>1. CASE IsLogic(n)
    <3>1. p = NewApart(n, qs, type)
      BY <2>1 DEF BuiltApart
    <3>. HIDE DEF i
    <3>2. /\ Means(qr, f, p, t[i], i)
          /\ ~p.unprepared /\ ~NotOfNull(qr, f) /\ t[i] =>
                \A s \in Objects(f) : GoodRow(f, t, qs, s) => <<f, s>> \in p.row
      BY <1>1, <1>2, <1>3, <2>1, <3>1, LogicMeans DEF i
    <3>3. ~OfRepeated(n)
      BY <2>1 DEF OfRepeated
    <3>. QED
      BY <1>1, <1>3, <3>2, <3>3, OneRowOfOthers
  <2>2. CASE ~IsLogic(n)
    <3>1. p = Alone(n, type) /\ ~RefusesNode(n) /\ IsComparison(n)
      BY <2>2 DEF BuiltApart, IsNode
    <3>2. t[i] <=> Satisfies(n, f)
      <4>1. n.op \notin {"And", "Or", "Not"}
        BY <2>2 DEF IsLogic
      <4>. QED
        BY <1>2, <4>1 DEF Truth
    <3>3. Means(qr, f, p, t[i], i)
      <4>. HIDE DEF i
      <4>. QED
        BY <1>1, <3>1, <3>2, ComparisonMeans DEF i
    <3>4. ASSUME ~p.unprepared
          PROVE  /\ t[i] <=> \E s \in Objects(f) : Holds(n, f, s)
                 /\ \A s \in Objects(f) : Holds(n, f, s) => <<f, s>> \in p.row
      <4>0. ~Comparison(n, type).unprepared
        BY <3>1, <3>4 DEF Alone, Apart
      <4>1. Satisfies(n, f) <=> \E s \in Objects(f) : Holds(n, f, s)
        BY <3>1, <4>0, ComparisonIsSatisfied
      <4>2. p.row = {r \in Rows[type] : Holds(n, r[1], r[2])}
        BY <3>1, <3>4, ComparisonRows
      <4>3. \A s \in Objects(f) : <<f, s>> \in Rows[type]
        BY RowsAre
      <4>. HIDE DEF n, i
      <4>. QED
        BY <3>2, <4>1, <4>2, <4>3
    <3>5. CASE OfRepeated(n)
      <4>1. Objects(f) # {}
        BY FeaturesAre
      <4>. HIDE DEF n
      <4>. QED
        BY <1>1, <1>3, <3>3, <3>4, <3>5, <4>1, OneRowOfRepeated DEF n
    <3>6. CASE ~OfRepeated(n)
      <4>1. \A r, s : Holds(n, f, s) = Holds(n, f, r)
        BY <3>1, <3>6, SingleIsOfTheFeature
      <4>2. ~p.unprepared /\ t[i] => \A s \in Objects(f) : <<f, s>> \in p.row
        <5>. HIDE DEF n, i
        <5>. QED
          BY <3>4, <4>1
      <4>. QED
        BY <1>1, <1>3, <3>3, <3>6, <4>2, OneRowOfOthers
    <3>. QED
      BY <3>5, <3>6
  <2>. QED
    BY <2>1, <2>2
<1>5. ASSUME NEW j \in 1..i PROVE Means(qr, f, more[j], t[j], j)
  <2>1. CASE j = i
    BY <1>1, <1>4, <2>1
  <2>2. CASE j # i
    <3>1. j \in 1..Len(qs)
      BY <1>1, <2>2
    <3>. QED
      BY <1>3, <3>1 DEF Agreed, Longer
  <2>. QED
    BY <2>1, <2>2
<1>. QED
  BY <1>4, <1>5

(* Every feature has a truth of the nodes so far.                          *)
LEMMA TruthIsBoolean ==
    ASSUME NEW filter, NEW f, NEW t, NEW i, IsNode(filter[i], i)
    PROVE  Truth(filter, f, t, i) \in BOOLEAN
<1>. DEFINE n == filter[i]
<1>1. CASE IsLogic(n)
  BY <1>1 DEF IsLogic, Truth
<1>2. CASE ~IsLogic(n)
  <2>1. Truth(filter, f, t, i) = Satisfies(n, f)
    BY <1>2 DEF IsLogic, Truth
  <2>2. IsComparison(n)
    BY <1>2 DEF IsNode
  <2>3. /\ n.op \in {"compare", "between", "null", "bbox"}
        /\ n.op = "compare" => n.name \in DOMAIN ComparisonLookup
    BY <2>2, ComparisonIsNoLogic DEF IsComparison
  <2>4. Satisfies(n, f) \in BOOLEAN
    <3>. HIDE DEF n
    <3>1. CASE n.op = "compare"
      BY <3>1 DEF Satisfies
    <3>2. CASE n.op # "compare"
      BY <2>3, <3>2 DEF Satisfies
    <3>. QED
      BY <3>1, <3>2
  <2>. QED
    BY <2>1, <2>4
<1>. QED
  BY <1>1, <1>2

LEMMA TruthDepends ==
    ASSUME NEW filter, NEW f, NEW t, NEW u, NEW i \in Nat, IsNode(filter[i], i),
           \A k \in 1..i-1 : t[k] = u[k]
    PROVE  Truth(filter, f, t, i) = Truth(filter, f, u, i)
<1>. DEFINE n == filter[i]
<1>1. CASE IsLogic(n)
  <2>1. \A k \in n.of : t[k] = u[k]
    BY <1>1 DEF IsNode
  <2>. QED
    BY <1>1, <2>1 DEF IsLogic, Truth
<1>2. CASE ~IsLogic(n)
  BY <1>2 DEF IsLogic, Truth
<1>. QED
  BY <1>1, <1>2

LEMMA TruthGrows ==
    ASSUME NEW type, NEW filter, NEW k \in Nat, \A i \in 1..k+1 : IsNode(filter[i], i),
           TruthExists(filter, type, k)
    PROVE  TruthExists(filter, type, k + 1)
<1>. SUFFICES ASSUME NEW f \in Table[type]
              PROVE  \E u \in [1..k+1 -> BOOLEAN] : IsTruth(filter, f, u, k + 1)
  BY DEF TruthExists
<1>1. PICK t \in [1..k -> BOOLEAN] : IsTruth(filter, f, t, k)
  BY DEF TruthExists
<1>. DEFINE last == Truth(filter, f, t, k + 1)
            u == [i \in 1..k+1 |-> IF i = k + 1 THEN last ELSE t[i]]
<1>2. last \in BOOLEAN
  BY TruthIsBoolean
<1>. HIDE DEF last
<1>3. u \in [1..k+1 -> BOOLEAN] /\ (\A i \in 1..k : u[i] = t[i]) /\ u[k + 1] = last
  BY <1>2
<1>. HIDE DEF u
<1>4. ASSUME NEW i \in 1..k+1 PROVE u[i] = Truth(filter, f, u, i)
  <2>1. Truth(filter, f, u, i) = Truth(filter, f, t, i)
    BY <1>3, TruthDepends
  <2>2. CASE i = k + 1
    BY <1>3, <2>1, <2>2 DEF last
  <2>3. CASE i \in 1..k
    BY <1>1, <1>3, <2>1, <2>3 DEF IsTruth
  <2>. QED
    BY <2>2, <2>3
<1>. QED
  BY <1>3, <1>4 DEF IsTruth

-----------------------------------------------------------------------------
(* How the Q objects of a filter differ from those that are apart: only in *)
(* what is negated after a comparison that joins.  So the Q of a filter is *)
(* the one that is apart, unless NotOfJoined holds.                        *)

BuiltQ(n, qs, type, p) ==
    IF IsLogic(n) THEN p = NewQ(n, qs, type) ELSE p = Comparison(n, type) /\ ~RefusesNode(n)

RepeatsAt(filter, k) == \E i \in Reached(filter, k, {"And", "Or", "Not"}) : OfRepeated(filter[i])

Fits(qr, i, p, d) ==
    /\ d.unprepared = p.unprepared /\ d.sub = Sub(p) /\ d.neg = Neg(p)
    /\ p.joins => JoinsAt(qr.filter, i)
    /\ ~RepeatsAt(qr.filter, i) => SubJoined(p) = Sub(p) /\ NegJoined(p) = Neg(p)
    /\ ~NegatesAt(qr.filter, i) => RowJoined(p) = Row(p)
    /\ ~NotOfJoined(qr) /\ (qr.filter[i].op = "Not" \/ i \in OutsideNot(qr.filter)) =>
          d.row = Row(p)
IsApart(qr, qs, ds) == Len(ds) = Len(qs) /\ \A i \in 1..Len(qs) : Fits(qr, i, qs[i], ds[i])

(* What is reached from an operand is reached from the node.               *)
LEMMA ReachedGrows ==
    ASSUME NEW filter, NEW i \in Nat, NEW k \in 1..i-1, NEW ops,
           filter[i].op \in ops, k \in filter[i].of
    PROVE  Reached(filter, k, ops) \subseteq Reached(filter, i, ops)
<1>. SUFFICES ASSUME NEW x \in Reached(filter, k, ops) PROVE x \in Reached(filter, i, ops)
  OBVIOUS
<1>1. PICK path \in SUBSET (1..k) :
         /\ x \in path
         /\ \A j \in path : j = k \/ \E m \in path : filter[m].op \in ops /\ j \in filter[m].of
  BY DEF Reached
<1>. DEFINE longer == path \union {i}
<1>2. longer \in SUBSET (1..i) /\ x \in longer
  BY <1>1
<1>3. \A j \in longer : j = i \/ \E m \in longer : filter[m].op \in ops /\ j \in filter[m].of
  BY <1>1
<1>. HIDE DEF longer
<1>. QED
  BY <1>2, <1>3 DEF Reached

LEMMA ReachesItself ==
    ASSUME NEW filter, NEW i \in Nat \ {0}, NEW ops
    PROVE  i \in Reached(filter, i, ops)
<1>1. {i} \in SUBSET (1..i) /\ \A j \in {i} : j = i
  OBVIOUS
<1>. QED
  BY <1>1 DEF Reached

(* The operands of a node outside every Not are outside it, too, or they   *)
(* are a Not.                                                              *)
LEMMA OperandIsOutside ==
    ASSUME NEW filter, NEW i \in OutsideNot(filter), IsLogic(filter[i]),
           NEW k \in DOMAIN filter, k \in filter[i].of, filter[k].op # "Not"
    PROVE  k \in OutsideNot(filter)
<1>1. PICK path \in SUBSET DOMAIN filter :
        /\ i \in path
        /\ \A j \in path : /\ filter[j].op # "Not"
                           /\ \/ j = Len(filter)
                              \/ \E m \in path : IsLogic(filter[m]) /\ j \in filter[m].of
  BY DEF OutsideNot
<1>. DEFINE longer == path \union {k}
<1>2. longer \in SUBSET DOMAIN filter /\ k \in longer
  OBVIOUS
<1>3. \A j \in longer : /\ filter[j].op # "Not"
                        /\ \/ j = Len(filter)
                           \/ \E m \in longer : IsLogic(filter[m]) /\ j \in filter[m].of
  BY <1>1
<1>. HIDE DEF longer
<1>. QED
  BY <1>2, <1>3 DEF OutsideNot

LEMMA ComparisonFits ==
    ASSUME NEW qr, NEW type, NEW i \in Nat \ {0}, IsComparison(qr.filter[i])
    PROVE  Fits(qr, i, Comparison(qr.filter[i], type), Alone(qr.filter[i], type))
<1>. DEFINE n == qr.filter[i]
            p == Comparison(n, type)
            d == Alone(n, type)
<1>1. d.unprepared = p.unprepared /\ d.sub = Sub(p) /\ d.neg = Neg(p) /\ d.row = Row(p)
  BY DEF Alone, Apart
<1>2. ManyRef(Lhs(n)) => OfRepeated(n)
  <2>1. CASE n.args = <<>>
    BY <2>1, ComparedOperands, ElementsAssumption DEF ManyRef, Many, Ref
  <2>2. CASE n.args # <<>>
    BY <2>2, ComparedOperands, ComparisonIsNoLogic DEF OfRepeated
  <2>. QED
    BY <2>1, <2>2
<1>3. \A ops : i \in Reached(qr.filter, i, ops)
  BY ReachesItself
<1>4. p.joins => JoinsAt(qr.filter, i)
  BY <1>2, <1>3 DEF Comparison, LookupQ, JoinsAt
<1>5. ~RepeatsAt(qr.filter, i) => ~ManyRef(Lhs(n))
  BY <1>2, <1>3 DEF RepeatsAt
<1>6. ~ManyRef(Lhs(n)) => SubJoined(p) = Sub(p)
  BY DEF Comparison, LookupQ, SubJoined, Sub
<1>7. SubJoined(p) = Sub(p) => NegJoined(p) = Neg(p)
  BY DEF Comparison, LookupQ, SubJoined, Sub, NegJoined, Neg
<1>8. RowJoined(p) = Row(p)
  BY DEF Comparison, LookupQ, RowJoined, Row
<1>. HIDE DEF p, d, n
<1>. QED
  BY <1>1, <1>4, <1>5, <1>6, <1>7, <1>8 DEF Fits, p, d, n

LEMMA NodesBelow ==
    ASSUME NEW qr, NEW i \in Nat, NEW k \in 1..i-1, k \in qr.filter[i].of, IsLogic(qr.filter[i])
    PROVE  /\ RepeatsAt(qr.filter, k) => RepeatsAt(qr.filter, i)
           /\ qr.filter[i].op # "Not" => /\ JoinsAt(qr.filter, k) => JoinsAt(qr.filter, i)
                                         /\ NegatesAt(qr.filter, k) => NegatesAt(qr.filter, i)
           /\ qr.filter[i].op = "Not" /\ RepeatsAt(qr.filter, k) => NegatesAt(qr.filter, i)
<1>. DEFINE filter == qr.filter
<1>1. filter[i].op \in {"And", "Or", "Not"}
  BY DEF IsLogic
<1>2. Reached(filter, k, {"And", "Or", "Not"}) \subseteq Reached(filter, i, {"And", "Or", "Not"})
  BY <1>1, ReachedGrows
<1>3. filter[i].op # "Not" => Reached(filter, k, {"And", "Or"}) \subseteq Reached(filter, i, {"And", "Or"})
  BY <1>1, ReachedGrows
<1>4. i \in Reached(filter, i, {"And", "Or"})
  BY ReachesItself
<1>5. RepeatsAt(filter, k) => RepeatsAt(filter, i)
  BY <1>2 DEF RepeatsAt
<1>6. filter[i].op # "Not" => /\ JoinsAt(filter, k) => JoinsAt(filter, i)
                              /\ NegatesAt(filter, k) => NegatesAt(filter, i)
  BY <1>3 DEF JoinsAt, NegatesAt
<1>7. filter[i].op = "Not" /\ RepeatsAt(filter, i) => NegatesAt(filter, i)
  BY <1>4 DEF NegatesAt, RepeatsAt
<1>. QED
  BY <1>5, <1>6, <1>7

(* What And and Or combine.                                                *)
Combines(operands, of) ==
    /\ SubsOf(operands, FALSE) = {Sub(operands[k]) : k \in of}
    /\ SubsOf(operands, TRUE) = {SubJoined(operands[k]) : k \in of}
    /\ NegsOf(operands, FALSE) = {Neg(operands[k]) : k \in of}
    /\ NegsOf(operands, TRUE) = {NegJoined(operands[k]) : k \in of}
    /\ RowsOf(operands, TRUE) = {RowJoined(operands[k]) : k \in of}
    /\ RowsOf(operands, FALSE) =
         {IF \E j \in of : j < k /\ operands[j].joins THEN RowJoined(operands[k])
          ELSE Row(operands[k]) : k \in of}

LEMMA CombinedSets ==
    ASSUME NEW operands, NEW of, DOMAIN operands = of
    PROVE  Combines(operands, of)
<1>1. \A k \in of : Joined(operands, k, TRUE) = TRUE
  BY DEF Joined
<1>2. \A k \in of : operands[k].row[Joined(operands, k, FALSE)] =
         IF \E j \in of : j < k /\ operands[j].joins THEN RowJoined(operands[k]) ELSE Row(operands[k])
  <2>. TAKE k \in of
  <2>1. CASE \E j \in of : j < k /\ operands[j].joins
    <3>1. Joined(operands, k, FALSE) = TRUE
      BY <2>1 DEF Joined
    <3>. QED
      BY Zenon, <2>1, <3>1 DEF RowJoined
  <2>2. CASE ~\E j \in of : j < k /\ operands[j].joins
    <3>1. Joined(operands, k, FALSE) = FALSE
      BY <2>2 DEF Joined
    <3>. QED
      BY Zenon, <2>2, <3>1 DEF Row
  <2>. QED
    BY <2>1, <2>2
<1>3. \A k \in of : operands[k].row[Joined(operands, k, TRUE)] = RowJoined(operands[k])
  BY Zenon, <1>1 DEF RowJoined
<1>4. RowsOf(operands, TRUE) = {RowJoined(operands[k]) : k \in of}
  BY Zenon, <1>3 DEF RowsOf
<1>5. RowsOf(operands, FALSE) =
        {IF \E j \in of : j < k /\ operands[j].joins THEN RowJoined(operands[k])
         ELSE Row(operands[k]) : k \in of}
  BY Zenon, <1>2 DEF RowsOf
<1>6. /\ SubsOf(operands, FALSE) = {Sub(operands[k]) : k \in of}
      /\ SubsOf(operands, TRUE) = {SubJoined(operands[k]) : k \in of}
  BY Zenon DEF SubsOf, Sub, SubJoined
<1>7. /\ NegsOf(operands, FALSE) = {Neg(operands[k]) : k \in of}
      /\ NegsOf(operands, TRUE) = {NegJoined(operands[k]) : k \in of}
  BY Zenon DEF NegsOf, Neg, NegJoined
<1>. QED
  BY Zenon, <1>4, <1>5, <1>6, <1>7 DEF Combines

Corresponds(qr, i, operands, aparts) ==
    /\ SubsOf(operands, FALSE) = {d.sub : d \in aparts}
    /\ NegsOf(operands, FALSE) = {d.neg : d \in aparts}
    /\ ~RepeatsAt(qr.filter, i) => /\ SubsOf(operands, TRUE) = SubsOf(operands, FALSE)
                                   /\ NegsOf(operands, TRUE) = NegsOf(operands, FALSE)
    /\ ~NegatesAt(qr.filter, i) => RowsOf(operands, TRUE) = RowsOf(operands, FALSE)
    /\ ~NotOfJoined(qr) /\ qr.kind = "filter" /\ i \in OutsideNot(qr.filter) =>
         RowsOf(operands, FALSE) = {d.row : d \in aparts}

LEMMA OperandSets ==
    ASSUME NEW qr, NEW i \in Nat, IsLogic(qr.filter[i]), qr.filter[i].op # "Not",
           NEW of, of = qr.filter[i].of, of \subseteq 1..i-1, 1..i \subseteq DOMAIN qr.filter,
           NEW qs, NEW ds, \A k \in of : Fits(qr, k, qs[k], ds[k]),
           NEW operands, operands = [k \in of |-> qs[k]],
           NEW aparts, aparts = {ds[k] : k \in of}
    PROVE  Corresponds(qr, i, operands, aparts)
<1>. DEFINE RowIn(k) == IF \E j \in of : j < k /\ qs[j].joins THEN RowJoined(qs[k]) ELSE Row(qs[k])
<1>1. DOMAIN operands = of /\ \A k \in of : operands[k] = qs[k]
  OBVIOUS
<1>2. Combines(operands, of)
  BY <1>1, CombinedSets
<1>3. /\ SubsOf(operands, FALSE) = {Sub(qs[k]) : k \in of}
      /\ SubsOf(operands, TRUE) = {SubJoined(qs[k]) : k \in of}
      /\ NegsOf(operands, FALSE) = {Neg(qs[k]) : k \in of}
      /\ NegsOf(operands, TRUE) = {NegJoined(qs[k]) : k \in of}
      /\ RowsOf(operands, TRUE) = {RowJoined(qs[k]) : k \in of}
      /\ RowsOf(operands, FALSE) = {RowIn(k) : k \in of}
  BY <1>1, <1>2 DEF Combines
<1>4. /\ {d.sub : d \in aparts} = {ds[k].sub : k \in of}
      /\ {d.neg : d \in aparts} = {ds[k].neg : k \in of}
      /\ {d.row : d \in aparts} = {ds[k].row : k \in of}
  OBVIOUS
<1>5. \A k \in of : ds[k].sub = Sub(qs[k]) /\ ds[k].neg = Neg(qs[k])
  BY DEF Fits
<1>6. ASSUME NEW k \in of
      PROVE  /\ RepeatsAt(qr.filter, k) => RepeatsAt(qr.filter, i)
             /\ NegatesAt(qr.filter, k) => NegatesAt(qr.filter, i)
  BY NodesBelow
<1>7. ASSUME ~RepeatsAt(qr.filter, i)
      PROVE  \A k \in of : SubJoined(qs[k]) = Sub(qs[k]) /\ NegJoined(qs[k]) = Neg(qs[k])
  BY <1>6, <1>7 DEF Fits
<1>8. ASSUME ~NegatesAt(qr.filter, i)
      PROVE  \A k \in of : RowJoined(qs[k]) = RowIn(k)
  BY <1>6, <1>8 DEF Fits
<1>9. ASSUME ~NotOfJoined(qr), qr.kind = "filter", i \in OutsideNot(qr.filter)
      PROVE  \A k \in of : RowIn(k) = ds[k].row
  <2>. TAKE k \in of
  <2>1. ds[k].row = Row(qs[k])
    <3>1. qr.filter[k].op = "Not" \/ k \in OutsideNot(qr.filter)
      BY <1>9, OperandIsOutside
    <3>. QED
      BY <1>9, <3>1 DEF Fits
  <2>2. ASSUME NEW j \in of, j < k, qs[j].joins PROVE RowJoined(qs[k]) = Row(qs[k])
    <3>1. JoinsAt(qr.filter, j)
      BY <2>2 DEF Fits
    <3>2. ~NegatesAt(qr.filter, k)
      BY <1>9, <2>2, <3>1 DEF NotOfJoined
    <3>. QED
      BY <3>2 DEF Fits
  <2>. QED
    BY <2>1, <2>2
<1>. HIDE DEF RowIn
<1>10. /\ SubsOf(operands, FALSE) = {d.sub : d \in aparts}
       /\ NegsOf(operands, FALSE) = {d.neg : d \in aparts}
  <2>1. {Sub(qs[k]) : k \in of} = {ds[k].sub : k \in of} /\ {Neg(qs[k]) : k \in of} = {ds[k].neg : k \in of}
    BY <1>5
  <2>. QED
    BY <1>3, <1>4, <2>1
<1>11. ASSUME ~RepeatsAt(qr.filter, i)
       PROVE  /\ SubsOf(operands, TRUE) = SubsOf(operands, FALSE)
              /\ NegsOf(operands, TRUE) = NegsOf(operands, FALSE)
  <2>1. \A k \in of : SubJoined(qs[k]) = Sub(qs[k]) /\ NegJoined(qs[k]) = Neg(qs[k])
    BY <1>7, <1>11
  <2>2. /\ {SubJoined(qs[k]) : k \in of} = {Sub(qs[k]) : k \in of}
        /\ {NegJoined(qs[k]) : k \in of} = {Neg(qs[k]) : k \in of}
    BY <2>1
  <2>. QED
    BY <1>3, <2>2
<1>12. ASSUME ~NegatesAt(qr.filter, i)
       PROVE  RowsOf(operands, TRUE) = RowsOf(operands, FALSE)
  BY <1>3, <1>8, <1>12
<1>13. ASSUME ~NotOfJoined(qr), qr.kind = "filter", i \in OutsideNot(qr.filter)
       PROVE  RowsOf(operands, FALSE) = {d.row : d \in aparts}
  <2>1. \A k \in of : RowIn(k) = ds[k].row
    BY <1>9, <1>13
  <2>2. {RowIn(k) : k \in of} = {ds[k].row : k \in of}
    BY <2>1
  <2>. QED
    BY <1>3, <1>4, <2>2
<1>. QED
  BY <1>10, <1>11, <1>12, <1>13 DEF Corresponds

LEMMA LogicFits ==
    ASSUME NEW qr, qr.kind = "filter", NEW type, NEW i \in Nat, 1..i \subseteq DOMAIN qr.filter,
           IsLogic(qr.filter[i]), IsNode(qr.filter[i], i),
           NEW qs, NEW ds, \A k \in 1..i-1 : Fits(qr, k, qs[k], ds[k])
    PROVE  Fits(qr, i, NewQ(qr.filter[i], qs, type), NewApart(qr.filter[i], ds, type))
<1>. DEFINE n == qr.filter[i]
            of == n.of
            operands == [k \in of |-> qs[k]]
            aparts == {ds[k] : k \in of}
            p == NewQ(n, qs, type)
            d == NewApart(n, ds, type)
<1>1. of # {} /\ of \subseteq 1..i-1 /\ n.op \in {"And", "Or", "Not"}
  BY DEF IsNode, IsLogic
<1>2. \A k \in of : Fits(qr, k, qs[k], ds[k])
  BY <1>1
<1>3. \A k \in of : qs[k].joins => JoinsAt(qr.filter, k)
  BY <1>2 DEF Fits
<1>4. n.op # "Not" => /\ (\E k \in of : qs[k].joins) => JoinsAt(qr.filter, i)
  BY <1>1, <1>3, NodesBelow
<1>5. (\E k \in of : qs[k].unprepared) <=> \E x \in aparts : x.unprepared
  BY <1>2 DEF Fits
<1>6. n.op # "Not" =>
      /\ SubsOf(operands, FALSE) = {x.sub : x \in aparts}
      /\ NegsOf(operands, FALSE) = {x.neg : x \in aparts}
      /\ ~RepeatsAt(qr.filter, i) => /\ SubsOf(operands, TRUE) = SubsOf(operands, FALSE)
                                     /\ NegsOf(operands, TRUE) = NegsOf(operands, FALSE)
      /\ ~NegatesAt(qr.filter, i) => RowsOf(operands, TRUE) = RowsOf(operands, FALSE)
      /\ ~NotOfJoined(qr) /\ i \in OutsideNot(qr.filter) => RowsOf(operands, FALSE) = {x.row : x \in aparts}
  <2>. HIDE DEF operands, aparts
  <2>1. operands = [k \in of |-> qs[k]] /\ aparts = {ds[k] : k \in of}
    BY DEF operands, aparts
  <2>2. ASSUME n.op # "Not" PROVE Corresponds(qr, i, operands, aparts)
    BY <1>1, <1>2, <2>1, <2>2, OperandSets
  <2>. QED
    BY <2>2 DEF Corresponds
<1>7. DOMAIN operands = of /\ \A k \in of : operands[k] = qs[k]
  OBVIOUS
<1>8. CASE n.op = "And"
  <2>1. p = AndQ(operands, type) /\ d = AndApart(aparts, type)
    BY <1>8 DEF NewQ, NewApart
  <2>. HIDE DEF n, of, operands, aparts, p, d
  <2>2. /\ p.row = [joined \in BOOLEAN |-> All(RowsOf(operands, joined), type)]
        /\ p.sub = [joined \in BOOLEAN |-> All(SubsOf(operands, joined), type)]
        /\ p.neg = [joined \in BOOLEAN |-> UNION NegsOf(operands, joined)]
        /\ p.joins = (\E k \in of : qs[k].joins) /\ p.unprepared = (\E k \in of : qs[k].unprepared)
    BY <1>7, <2>1 DEF AndQ
  <2>3. /\ Row(p) = All(RowsOf(operands, FALSE), type) /\ RowJoined(p) = All(RowsOf(operands, TRUE), type)
        /\ Sub(p) = All(SubsOf(operands, FALSE), type) /\ SubJoined(p) = All(SubsOf(operands, TRUE), type)
        /\ Neg(p) = UNION NegsOf(operands, FALSE) /\ NegJoined(p) = UNION NegsOf(operands, TRUE)
    BY <2>2 DEF Row, RowJoined, Sub, SubJoined, Neg, NegJoined
  <2>4. /\ d.row = All({x.row : x \in aparts}, type) /\ d.sub = All({x.sub : x \in aparts}, type)
        /\ d.neg = UNION {x.neg : x \in aparts} /\ d.unprepared = \E x \in aparts : x.unprepared
    BY <2>1 DEF AndApart
  <2>5. n.op # "Not" /\ n = qr.filter[i]
    BY <1>8 DEF n
  <2>6. Fits(qr, i, p, d)
    BY <1>4, <1>5, <1>6, <2>2, <2>3, <2>4, <2>5 DEF Fits
  <2>. QED
    BY <2>6 DEF p, d, n
<1>9. CASE n.op = "Or"
  <2>1. p = OrQ(operands, type) /\ d = OrApart(aparts, type)
    BY <1>9 DEF NewQ, NewApart
  <2>. HIDE DEF n, of, operands, aparts, p, d
  <2>2. /\ p.row = [joined \in BOOLEAN |-> UNION RowsOf(operands, joined)]
        /\ p.sub = [joined \in BOOLEAN |-> UNION SubsOf(operands, joined)]
        /\ p.neg = [joined \in BOOLEAN |-> All(NegsOf(operands, joined), type)]
        /\ p.joins = (\E k \in of : qs[k].joins) /\ p.unprepared = (\E k \in of : qs[k].unprepared)
    BY <1>7, <2>1 DEF OrQ
  <2>3. /\ Row(p) = UNION RowsOf(operands, FALSE) /\ RowJoined(p) = UNION RowsOf(operands, TRUE)
        /\ Sub(p) = UNION SubsOf(operands, FALSE) /\ SubJoined(p) = UNION SubsOf(operands, TRUE)
        /\ Neg(p) = All(NegsOf(operands, FALSE), type) /\ NegJoined(p) = All(NegsOf(operands, TRUE), type)
    BY <2>2 DEF Row, RowJoined, Sub, SubJoined, Neg, NegJoined
  <2>4. /\ d.row = UNION {x.row : x \in aparts} /\ d.sub = UNION {x.sub : x \in aparts}
        /\ d.neg = All({x.neg : x \in aparts}, type) /\ d.unprepared = \E x \in aparts : x.unprepared
    BY <2>1 DEF OrApart
  <2>5. n.op # "Not" /\ n = qr.filter[i]
    BY <1>9 DEF n
  <2>6. Fits(qr, i, p, d)
    BY <1>4, <1>5, <1>6, <2>2, <2>3, <2>4, <2>5 DEF Fits
  <2>. QED
    BY <2>6 DEF p, d, n
<1>10. CASE n.op = "Not"
  <2>1. PICK k \in of : of = {k}
    BY <1>10 DEF IsNode, IsLogic
  <2>2. p = NotQ(qs[k]) /\ d = NotApart(ds[k])
    <3>1. (CHOOSE x \in of : TRUE) = k
      BY <2>1
    <3>2. aparts = {ds[k]}
      BY <2>1
    <3>3. (CHOOSE x \in aparts : TRUE) = ds[k]
      BY <3>2
    <3>. QED
      BY <1>10, <3>1, <3>3 DEF NewQ, NewApart
  <2>3. Fits(qr, k, qs[k], ds[k])
    BY <1>2
  <2>4. /\ RepeatsAt(qr.filter, k) => RepeatsAt(qr.filter, i)
        /\ RepeatsAt(qr.filter, k) => NegatesAt(qr.filter, i)
    BY <1>1, <1>10, NodesBelow
  <2>5. /\ p.row = qs[k].neg /\ p.sub = qs[k].neg /\ p.neg = qs[k].sub /\ p.joins = FALSE
        /\ p.unprepared = qs[k].unprepared
        /\ d.row = ds[k].neg /\ d.sub = ds[k].neg /\ d.neg = ds[k].sub
        /\ d.unprepared = ds[k].unprepared
    BY <2>2 DEF NotQ, NotApart
  <2>. HIDE DEF p, d, n, of
  <2>6. Fits(qr, i, p, d)
    BY <2>3, <2>4, <2>5 DEF Fits, Row, RowJoined, Sub, SubJoined, Neg, NegJoined
  <2>. QED
    BY <2>6 DEF p, d, n
<1>. QED
  BY <1>1, <1>8, <1>9, <1>10

LEMMA ApartGrows ==
    ASSUME NEW qr, qr.kind = "filter", NEW type,
           NEW qs, NEW p, NEW more, Longer(qs, p, more),
           NEW ds, NEW d, NEW longer, Longer(ds, d, longer), IsApart(qr, qs, ds),
           DOMAIN qr.filter = 1..Len(qr.filter), Len(qr.filter) \in Nat, Len(more) \in DOMAIN qr.filter,
           IsNode(qr.filter[Len(more)], Len(more)), BuiltQ(qr.filter[Len(more)], qs, type, p),
           BuiltApart(qr.filter[Len(more)], ds, type, d)
    PROVE  IsApart(qr, more, longer)
<1>. DEFINE i == Len(more)
            n == qr.filter[i]
<1>1. i = Len(qs) + 1 /\ Len(qs) \in Nat /\ Len(ds) = Len(qs) /\ Len(longer) = i
      /\ more[i] = p /\ longer[i] = d
  BY DEF Longer, IsApart
<1>2. ASSUME NEW k \in 1..Len(qs) PROVE Fits(qr, k, more[k], longer[k])
  BY <1>1, <1>2 DEF Longer, IsApart
<1>3. Fits(qr, i, p, d)
  <2>1. CASE IsLogic(n)
    <3>1. p = NewQ(n, qs, type) /\ d = NewApart(n, ds, type)
      BY <2>1 DEF BuiltQ, BuiltApart
    <3>2. i \in Nat /\ 1..i \subseteq DOMAIN qr.filter
      BY <1>1
    <3>3. \A k \in 1..i-1 : Fits(qr, k, qs[k], ds[k])
      BY <1>1 DEF IsApart
    <3>. HIDE DEF i
    <3>4. Fits(qr, i, NewQ(qr.filter[i], qs, type), NewApart(qr.filter[i], ds, type))
      BY <2>1, <3>2, <3>3, LogicFits DEF i
    <3>. QED
      BY <3>1, <3>4
  <2>2. CASE ~IsLogic(n)
    <3>1. p = Comparison(n, type) /\ d = Alone(n, type) /\ IsComparison(n) /\ i \in Nat \ {0}
      BY <1>1, <2>2 DEF BuiltQ, BuiltApart, IsNode
    <3>. HIDE DEF i
    <3>. QED
      BY <3>1, ComparisonFits
  <2>. QED
    BY <2>1, <2>2
<1>4. ASSUME NEW k \in 1..i PROVE Fits(qr, k, more[k], longer[k])
  <2>1. CASE k = i
    BY <1>1, <1>3, <2>1
  <2>2. CASE k # i
    BY <1>1, <1>2, <2>2
  <2>. QED
    BY <2>1, <2>2
<1>. QED
  BY <1>1, <1>4 DEF IsApart

LEMMA LastIsApart ==
    ASSUME NEW qr, qr.kind = "filter", NEW qs, NEW ds, IsApart(qr, qs, ds), ~NotOfJoined(qr),
           NEW k, k \in Nat, k >= 1, Len(qs) = k, Len(qr.filter) = k, DOMAIN qr.filter = 1..k
    PROVE  Len(ds) = k /\ ds[k].unprepared = qs[k].unprepared /\ ds[k].row = Row(qs[k])
<1>1. Len(ds) = k /\ Fits(qr, k, qs[k], ds[k])
  BY DEF IsApart
<1>2. qr.filter[k].op = "Not" \/ k \in OutsideNot(qr.filter)
  <2>1. {k} \in SUBSET DOMAIN qr.filter /\ \A j \in {k} : j = Len(qr.filter)
    OBVIOUS
  <2>. QED
    BY <2>1 DEF OutsideNot
<1>. QED
  BY <1>1, <1>2 DEF Fits

-----------------------------------------------------------------------------
(* The queryset of a query: a feature is in its result exactly if the Q    *)
(* objects share a row of it.                                              *)

LEMMA ImageIsFinite ==
    ASSUME NEW S, IsFiniteSet(S), NEW g, DOMAIN g = S
    PROVE  IsFiniteSet({g[x] : x \in S})
<1>. DEFINE T == {g[x] : x \in S}
            h == [x \in S |-> g[x]]
<1>1. h \in Surjection(S, T)
  BY DEF Surjection
<1>. HIDE DEF h, T
<1>2. IsFiniteSet(T)
  BY <1>1, FS_Surjection
<1>. QED
  BY <1>2 DEF T

LEMMA FeatureRowsAreFinite ==
    ASSUME NEW type \in TypeNames, NEW f \in Table[type]
    PROVE  IsFiniteSet({r \in Rows[type] : r[1] = f})
<1>. DEFINE g == [s \in Objects(f) |-> <<f, s>>]
<1>1. IsFiniteSet({g[s] : s \in Objects(f)})
  <2>1. IsFiniteSet(Objects(f)) /\ DOMAIN g = Objects(f)
    BY FeaturesAre
  <2>. HIDE DEF g
  <2>. QED
    BY <2>1, ImageIsFinite
<1>2. {r \in Rows[type] : r[1] = f} \subseteq {g[s] : s \in Objects(f)}
  BY DEF Rows
<1>. HIDE DEF g
<1>. QED
  BY <1>1, <1>2, FS_Subset

LEMMA ResultCounts ==
    ASSUME NEW type \in TypeNames, NEW c, NEW f \in Table[type]
    PROVE  /\ DOMAIN Result(c, type) = Table[type]
           /\ Result(c, type)[f] > 0 <=>
                \E s \in Objects(f) : \A p \in c.lookups \union c.typed : <<f, s>> \in Row(p)
<1>. DEFINE where == All({Row(p) : p \in c.lookups \union c.typed}, type)
            joined == (\E p \in c.lookups \union c.typed : p.joins) \/ \E i \in DOMAIN c.ordering : Many(c.ordering[i])
            columns(s) == [i \in DOMAIN c.ordering |->
                             IF Many(c.ordering[i]) /\ s # NoObject THEN s[c.ordering[i]] ELSE Null]
            rows == {x \in where : x[1] = f}
            copies == {IF c.distinct THEN columns(r[2]) ELSE r[2] : r \in rows}
            g == [r \in rows |-> IF c.distinct THEN columns(r[2]) ELSE r[2]]
<1>1. /\ DOMAIN Result(c, type) = Table[type]
      /\ Result(c, type)[f] = IF joined THEN Cardinality(copies) ELSE IF copies = {} THEN 0 ELSE 1
  BY DEF Result, Row
<1>2. where = {r \in Rows[type] : \A p \in c.lookups \union c.typed : r \in Row(p)}
  BY DEF All
<1>3. IsFiniteSet(copies)
  <2>1. rows \subseteq {r \in Rows[type] : r[1] = f}
    <3>. HIDE DEF where
    <3>. QED
      BY <1>2
  <2>2. copies = {g[r] : r \in rows} /\ DOMAIN g = rows
    OBVIOUS
  <2>. HIDE DEF rows, copies, g
  <2>3. IsFiniteSet(rows)
    <3>. DEFINE S == {r \in Rows[type] : r[1] = f}
    <3>1. IsFiniteSet(S) /\ rows \in SUBSET S
      BY <2>1, FeatureRowsAreFinite
    <3>. HIDE DEF S
    <3>. QED
      BY <3>1, FS_Subset
  <2>. QED
    BY <2>2, <2>3, ImageIsFinite
<1>4. copies # {} <=> rows # {}
  BY ZenonT(30)
<1>5. rows # {} <=> \E s \in Objects(f) : \A p \in c.lookups \union c.typed : <<f, s>> \in Row(p)
  <2>1. ASSUME NEW r \in rows PROVE \E s \in Objects(f) : \A p \in c.lookups \union c.typed : <<f, s>> \in Row(p)
    <3>1. r \in Rows[type] /\ r[1] = f /\ \A p \in c.lookups \union c.typed : r \in Row(p)
      BY <1>2
    <3>2. r = <<f, r[2]>> /\ r[2] \in Objects(f)
      BY <3>1 DEF Rows
    <3>. QED
      BY <3>1, <3>2
  <2>2. ASSUME NEW s \in Objects(f), \A p \in c.lookups \union c.typed : <<f, s>> \in Row(p)
        PROVE  rows # {}
    <3>1. <<f, s>> \in Rows[type]
      BY RowsAre
    <3>2. <<f, s>> \in rows
      BY <1>2, <2>2, <3>1
    <3>. QED
      BY <3>2
  <2>. HIDE DEF rows
  <2>. QED
    BY <2>1, <2>2
<1>. HIDE DEF copies, rows, joined
<1>6. Cardinality(copies) \in Nat /\ (Cardinality(copies) = 0 <=> copies = {})
  BY <1>3, FS_EmptySet, FS_CardinalityType
<1>. QED
  BY <1>1, <1>4, <1>5, <1>6

LEMMA IdRows ==
    ASSUME NEW type \in TypeNames, NEW f \in Table[type], NEW s \in Objects(f), NEW ids
    PROVE  <<f, s>> \in Row(IdLookup(ids, type)) <=> \E id \in ids : f.pk = id.key
<1>. DEFINE values == <<Literal({id.key : id \in ids})>>
            True(g, r) == Sql("in", Value(Ref("pk"), g, r), [i \in DOMAIN values |-> Value(values[i], g, r)])
<1>1. Row(IdLookup(ids, type)) = {x \in Rows[type] : True(x[1], x[2])}
  BY DEF IdLookup, LookupQ, IsRef, Ref, Row
<1>2. <<f, s>> \in Rows[type]
  BY RowsAre
<1>3. True(f, s) <=> \E id \in ids : f.pk = id.key
  <2>1. Value(Ref("pk"), f, s) = f.pk
    BY DEF Value, Ref, ElementOf
  <2>2. [i \in DOMAIN values |-> Value(values[i], f, s)][1] = {id.key : id \in ids}
    BY DEF Value, Literal
  <2>. HIDE DEF values
  <2>. QED
    BY <2>1, <2>2, SqlOfOthers
<1>. HIDE DEF True
<1>. QED
  BY <1>1, <1>2, <1>3

(* The last Q of a filter is the Q of the filter.                          *)
LEMMA FilterAnswers ==
    ASSUME NEW type \in TypeNames, NEW f \in Table[type], NEW qr, qr.kind = "filter",
           NEW qs, NEW k, k \in Nat, k >= 1, Len(qs) = k, Len(qr.filter) = k, DOMAIN qr.filter = 1..k,
           Agree(qr, type, qs), TruthExists(qr.filter, type, k), ~qs[k].unprepared
    PROVE  /\ (\E s \in Objects(f) : <<f, s>> \in qs[k].row) => Matches(qr.filter, f)
           /\ Matches(qr.filter, f) /\ ~OfOneObject(qr) /\ ~NotOfNull(qr, f) =>
                \E s \in Objects(f) : <<f, s>> \in qs[k].row
<1>1. \A t \in [1..k -> BOOLEAN] : Len(t) = k /\ Last(t) = t[k]
  <2>. TAKE t \in [1..k -> BOOLEAN]
  <2>1. t \in Seq(BOOLEAN)
    BY SeqDef
  <2>2. Len(t) = k
    BY <2>1, LenProperties
  <2>. QED
    BY <2>2 DEF Last
<1>2. Matches(qr.filter, f) <=> \E t \in [1..k -> BOOLEAN] : t[k] /\ IsTruth(qr.filter, f, t, k)
  BY <1>1 DEF Matches, IsTruth
<1>3. ASSUME NEW t, IsTruth(qr.filter, f, t, k)
      PROVE  /\ qr.filter[k].op = "Not" => qs[k].row = qs[k].sub
             /\ Sound(f, qs[k], t[k])
             /\ ~NotOfNull(qr, f) => Exhaustive(qr, f, qs[k], t[k], k)
  <2>1. Means(qr, f, qs[k], t[k], k)
    BY <1>3 DEF Agree
  <2>. QED
    BY <2>1 DEF Means
<1>4. ASSUME NEW s, <<f, s>> \in qs[k].row PROVE Matches(qr.filter, f)
  <2>1. PICK t \in [1..k -> BOOLEAN] : IsTruth(qr.filter, f, t, k)
    BY DEF TruthExists
  <2>2. t[k]
    BY <1>3, <1>4, <2>1 DEF Sound
  <2>. QED
    BY <1>2, <2>1, <2>2
<1>5. ASSUME Matches(qr.filter, f), ~OfOneObject(qr), ~NotOfNull(qr, f)
      PROVE  \E s \in Objects(f) : <<f, s>> \in qs[k].row
  <2>1. PICK t \in [1..k -> BOOLEAN] : t[k] /\ IsTruth(qr.filter, f, t, k)
    BY <1>2, <1>5
  <2>2. /\ qr.filter[k].op = "Not" => qs[k].row = qs[k].sub
        /\ Exhaustive(qr, f, qs[k], t[k], k)
    BY <1>3, <1>5, <2>1
  <2>3. CASE qr.filter[k].op = "Not"
    <3>1. Objects(f) # {}
      BY FeaturesAre
    <3>. QED
      BY <2>1, <2>2, <2>3, <3>1 DEF Exhaustive
  <2>4. CASE qr.filter[k].op # "Not"
    <3>1. {k} \in SUBSET DOMAIN qr.filter
      OBVIOUS
    <3>2. k \in OutsideNot(qr.filter)
      BY <2>4, <3>1 DEF OutsideNot
    <3>. QED
      BY <1>5, <2>1, <2>2, <3>2 DEF Exhaustive
  <2>. QED
    BY <2>3, <2>4
<1>. QED
  BY <1>4, <1>5

(* What the types of a query are, and what is built of it so far.          *)
Typing(qr, ts) == ts \in Seq(TypeNames) /\ (qr.kind = "stored" => qr.id.type # NoName)

SoFar ==
    /\ Len(types[at]) <= 1
    /\ query.kind \in {"all", "ids"} => q = <<>>
    /\ query.kind = "ids" /\ node = 0 => ~compiler.empty
    /\ query.kind = "ids" /\ node = 1 =>
          IF compiler.empty THEN GroupNames(query.ids) = {NoName}
          ELSE /\ compiler.typed = {IdLookup(Group(query.ids, n), types[at][1]) : n \in GroupNames(query.ids)}
               /\ \A n \in GroupNames(query.ids) : GroupOutcome(query.ids, n) = "compile"
    /\ query.kind = "stored" /\ node = 1 => q = <<IdLookup({query.id}, types[at][1])>>
    /\ query.kind = "filter" /\ types[at] # <<>> =>
          (\E ds : IsApart(query, q, ds) /\ Agree(query, types[at][1], ds))
          /\ TruthExists(query.filter, types[at][1], node)

AnswersInv ==
    /\ \A i \in 1..Len(types) : Typing(request[i], types[i])
    /\ Compiling => SoFar
    /\ AnswersAreWhatWasAsked

Answered(qr, f, n) ==
    \/ NotOfJoined(qr)
    \/ /\ n > 0 => Asked(qr, f)
       /\ n > 0 \/ ~Asked(qr, f) \/ SpelledInTwoWays(qr) \/ OfOneObject(qr) \/ NotOfNull(qr, f)

LEMMA QuerysetAnswers ==
    ASSUME Bound, Compiled, AnswerableInv, AnswersInv, Complete, Usable, NEW f \in DOMAIN Queryset
    PROVE  Answered(query, f, Queryset[f])
<1>. DEFINE type == types[at][1]
            c == WithLookups
            Found(p) == \E s \in Objects(f) : <<f, s>> \in Row(p)
<1>1. /\ IsQuery(query) /\ Compiling /\ phase = "compile" /\ node = Nodes /\ node \in Int
      /\ at \in 1..Len(types) /\ q \in Seq(ToSet(q)) /\ IsCompiler(compiler) /\ compiler.lookups = {}
      /\ query.kind # "ids" => compiler.typed = {} /\ ~compiler.empty
      /\ query.kind = "filter" => Len(q) = node
  BY QueryIsWritten, FilterIsWritten DEF Complete, Compiling, Compiled, Bound, Nodes
<1>2. SoFar /\ Typing(query, types[at]) /\ OneType(query, types[at])
  BY <1>1 DEF AnswersInv, AnswerableInv, query
<1>3. types[at] = <<type>> /\ type \in TypeNames /\ ToSet(types[at]) = {type}
  <2>1. types[at] \in Seq(TypeNames) /\ Len(types[at]) <= 1 /\ types[at] # <<>>
    BY <1>2 DEF SoFar, Typing, Usable
  <2>2. types[at] = <<type>> /\ type \in TypeNames
    BY <2>1
  <2>. HIDE DEF type
  <2>3. DOMAIN types[at] = {1} /\ types[at][1] = type
    BY <2>2
  <2>. QED
    BY <2>2, <2>3 DEF ToSet
<1>4. /\ c.typed = compiler.typed
      /\ c.lookups = IF q = <<>> THEN {} ELSE {Last(q)}
  BY <1>1 DEF WithLookups, IsCompiler
<1>. HIDE DEF type, c
<1>5. /\ compiler.empty => Queryset[f] = 0 /\ f \in Table[type]
      /\ ~compiler.empty =>
           /\ Queryset = Result(c, type) /\ f \in Table[type]
           /\ Queryset[f] > 0 <=>
                \E s \in Objects(f) : \A p \in c.lookups \union c.typed : <<f, s>> \in Row(p)
  <2>1. CASE compiler.empty
    BY <2>1 DEF Queryset, type
  <2>2. CASE ~compiler.empty
    <3>1. Queryset = Result(c, type)
      BY <2>2 DEF Queryset, type, c
    <3>2. f \in Table[type]
      BY <3>1 DEF Result
    <3>. QED
      BY <1>3, <2>2, <3>1, <3>2, ResultCounts
  <2>. QED
    BY <2>1, <2>2
<1>6. f \in Table[type] /\ Objects(f) # {}
  BY <1>3, <1>5, FeaturesAre
<1>7. CASE query.kind = "all"
  <2>1. c.lookups \union c.typed = {} /\ ~compiler.empty
    BY <1>1, <1>2, <1>4, <1>7 DEF SoFar
  <2>. QED
    BY <1>5, <1>6, <1>7, <2>1 DEF Answered, Asked
<1>8. CASE query.kind = "ids"
  <2>1. node = 1 /\ query.ids # {}
    BY <1>1, <1>8 DEF Nodes, IsQuery
  <2>2. CASE compiler.empty
    <3>1. \A id \in query.ids : id.type = NoName
      BY <1>2, <1>8, <2>1, <2>2 DEF SoFar, GroupNames
    <3>2. ~Asked(query, f) /\ Queryset[f] = 0
      BY <1>5, <1>8, <2>2, <3>1 DEF Asked, Named
    <3>. QED
      BY <3>2 DEF Answered
  <2>3. CASE ~compiler.empty
    <3>. DEFINE names == GroupNames(query.ids)
    <3>1. /\ compiler.typed = {IdLookup(Group(query.ids, n), type) : n \in names}
          /\ \A n \in names : GroupOutcome(query.ids, n) = "compile"
      BY <1>2, <1>8, <2>1, <2>3 DEF SoFar, type
    <3>2. \A n \in names : n # NoName /\ Fixed[n] = type
      <4>. TAKE n \in names
      <4>1. n # NoName /\ Fixed[n] \in ToSet(types[at])
        BY <3>1 DEF GroupOutcome
      <4>. QED
        BY <1>3, <4>1
    <3>3. c.lookups \union c.typed = {IdLookup(Group(query.ids, n), type) : n \in names}
      BY <1>2, <1>4, <1>8, <3>1 DEF SoFar
    <3>4. Queryset[f] > 0 <=>
            \E s \in Objects(f) : \A n \in names : <<f, s>> \in Row(IdLookup(Group(query.ids, n), type))
      BY <1>5, <2>3, <3>3
    <3>5. Queryset[f] > 0 <=> \A n \in names : \E id \in Group(query.ids, n) : f.pk = id.key
      <4>1. \A s \in Objects(f) : \A n \in names :
              <<f, s>> \in Row(IdLookup(Group(query.ids, n), type)) <=>
                \E id \in Group(query.ids, n) : f.pk = id.key
        BY <1>3, <1>6, IdRows
      <4>. HIDE DEF names
      <4>. QED
        BY <1>6, <3>4, <4>1
    <3>6. \A id \in query.ids : Named(id, f) <=> f.pk = id.key
      BY <1>6, <3>2 DEF Named, GroupNames
    <3>7. Queryset[f] > 0 => Asked(query, f)
      <4>1. PICK n : n \in names
        BY <2>1 DEF GroupNames
      <4>2. Group(query.ids, n) \subseteq query.ids
        BY DEF Group
      <4>. HIDE DEF names
      <4>. QED
        BY <1>8, <3>5, <3>6, <4>1, <4>2 DEF Asked
    <3>8. Asked(query, f) /\ ~SpelledInTwoWays(query) => Queryset[f] > 0
      <4>. SUFFICES ASSUME Asked(query, f), ~SpelledInTwoWays(query), NEW n \in names
                    PROVE  \E id \in Group(query.ids, n) : f.pk = id.key
        BY <3>5
      <4>1. PICK id \in query.ids : f.pk = id.key
        BY <1>8, <3>6 DEF Asked
      <4>2. \A other \in query.ids : other.type = n
        BY <1>8 DEF SpelledInTwoWays, GroupNames
      <4>3. id \in Group(query.ids, n)
        BY <4>1, <4>2 DEF Group
      <4>. QED
        BY <4>1, <4>3
    <3>. QED
      BY <3>7, <3>8 DEF Answered
  <2>. QED
    BY <2>2, <2>3
<1>9. CASE query.kind = "stored"
  <2>1. q = <<IdLookup({query.id}, type)>> /\ ~compiler.empty /\ compiler.typed = {}
    BY <1>1, <1>2, <1>9 DEF SoFar, type, Nodes
  <2>2. c.lookups \union c.typed = {IdLookup({query.id}, type)}
    BY <1>4, <2>1 DEF Last
  <2>3. Queryset[f] > 0 <=> \E s \in Objects(f) : <<f, s>> \in Row(IdLookup({query.id}, type))
    BY <1>5, <2>1, <2>2
  <2>4. Queryset[f] > 0 <=> f.pk = query.id.key
    <3>1. \A s \in Objects(f) : <<f, s>> \in Row(IdLookup({query.id}, type)) <=>
                                  \E id \in {query.id} : f.pk = id.key
      BY <1>3, <1>6, IdRows
    <3>. QED
      BY <1>6, <2>3, <3>1
  <2>5. query.id.type # NoName /\ Fixed[query.id.type] = type
    BY <1>2, <1>3, <1>9 DEF Typing, OneType
  <2>. QED
    BY <1>6, <1>9, <2>4, <2>5 DEF Answered, Asked, Named
<1>10. CASE query.kind = "filter"
  <2>1. /\ Len(query.filter) \in Nat /\ Len(query.filter) >= 1
        /\ DOMAIN query.filter = 1..Len(query.filter)
        /\ Len(q) = Len(query.filter) /\ node = Len(q)
    BY <1>1, <1>10, FilterIsWritten DEF Nodes
  <2>. DEFINE k == Len(q)
  <2>2. q # <<>> /\ Last(q) = q[k]
    BY <1>1, <2>1, EmptySeq DEF Last
  <2>3. c.lookups \union c.typed = {q[k]} /\ ~compiler.empty /\ ~q[k].unprepared
    BY <1>1, <1>4, <1>10, <2>2 DEF Usable
  <2>4. Queryset[f] > 0 <=> Found(q[k])
    BY <1>5, <2>3
  <2>0. PICK ds : IsApart(query, q, ds) /\ Agree(query, type, ds)
    BY <1>2, <1>3, <1>10 DEF SoFar, type
  <2>5. TruthExists(query.filter, type, k)
    BY <1>2, <1>3, <1>10, <2>1 DEF SoFar, type
  <2>7. CASE NotOfJoined(query)
    BY <2>7 DEF Answered
  <2>8. CASE ~NotOfJoined(query)
    <3>1. Len(ds) = k /\ ds[k].unprepared = q[k].unprepared /\ ds[k].row = Row(q[k])
      BY <1>10, <2>0, <2>1, <2>8, LastIsApart
    <3>2. /\ (\E s \in Objects(f) : <<f, s>> \in ds[k].row) => Matches(query.filter, f)
          /\ Matches(query.filter, f) /\ ~OfOneObject(query) /\ ~NotOfNull(query, f) =>
                \E s \in Objects(f) : <<f, s>> \in ds[k].row
      BY <1>3, <1>6, <1>10, <2>0, <2>1, <2>3, <2>5, <3>1, FilterAnswers
    <3>. QED
      BY <1>10, <2>4, <3>1, <3>2 DEF Answered, Asked
  <2>. QED
    BY <2>7, <2>8
<1>. QED
  BY <1>1, <1>7, <1>8, <1>9, <1>10 DEF IsQuery

(* Names that are bound are names of types.                                *)
LEMMA NamesAreTyped ==
    ASSUME IsQuery(query), Bindable
    PROVE  Typing(query, [i \in DOMAIN GetTypeNames |-> Fixed[GetTypeNames[i]]])
<1>. DEFINE ts == [i \in DOMAIN GetTypeNames |-> Fixed[GetTypeNames[i]]]
<1>1. \A i \in DOMAIN GetTypeNames : Known(GetTypeNames[i])
  BY DEF Bindable
<1>2. \E k \in Nat : DOMAIN GetTypeNames = 1..k
  <2>1. CASE query.kind = "stored"
    <3>1. GetTypeNames = <<query.id.type>>
      BY <2>1 DEF GetTypeNames
    <3>. QED
      BY <3>1
  <2>2. CASE query.kind = "ids" /\ query.typeNames = <<>>
    <3>. DEFINE names == GroupNames(query.ids)
                g == [id \in query.ids |-> id.type]
    <3>1. IsFiniteSet(query.ids)
      BY <2>2 DEF IsQuery
    <3>2. IsFiniteSet(names)
      <4>1. names = {g[id] : id \in query.ids} /\ DOMAIN g = query.ids
        BY DEF GroupNames
      <4>. HIDE DEF g, names
      <4>. QED
        BY <3>1, <4>1, ImageIsFinite
    <3>. HIDE DEF names
    <3>3. Cardinality(names \ {NoName}) \in Nat
      <4>. DEFINE T == names \ {NoName}
      <4>1. T \in SUBSET names
        OBVIOUS
      <4>. HIDE DEF T
      <4>2. Cardinality(T) \in Nat
        BY <3>2, <4>1, FS_Subset, FS_CardinalityType
      <4>. QED
        BY <4>2 DEF T
    <3>4. GetTypeNames = InOrder(query.ids, names \ {NoName})
      BY <2>2 DEF GetTypeNames, names
    <3>. QED
      BY <3>3, <3>4 DEF InOrder
  <2>3. CASE query.kind # "stored" /\ ~(query.kind = "ids" /\ query.typeNames = <<>>)
    <3>1. GetTypeNames = query.typeNames /\ query.typeNames \in Seq(Spellings \union {NoName})
      BY <2>3 DEF GetTypeNames, IsQuery
    <3>2. DOMAIN query.typeNames = 1..Len(query.typeNames) /\ Len(query.typeNames) \in Nat
      BY <3>1, LenProperties
    <3>. QED
      BY <3>1, <3>2
  <2>. QED
    BY <2>1, <2>2, <2>3
<1>3. ts \in Seq(TypeNames)
  <2>1. PICK k \in Nat : DOMAIN GetTypeNames = 1..k
    BY <1>2
  <2>2. ts \in [1..k -> TypeNames]
    BY <1>1, <2>1 DEF Known
  <2>. QED
    BY <2>1, <2>2, SeqDef
<1>4. query.kind = "stored" => query.id.type # NoName
  <2>. SUFFICES ASSUME query.kind = "stored" PROVE query.id.type # NoName
    OBVIOUS
  <2>1. GetTypeNames = <<query.id.type>>
    BY DEF GetTypeNames
  <2>2. Known(GetTypeNames[1])
    BY <1>1, <2>1
  <2>. QED
    BY <2>1, <2>2 DEF Known
<1>. QED
  BY <1>3, <1>4 DEF Typing

(* Nothing is known of an empty filter, and there is one truth of it.      *)
LEMMA NothingBuiltYet ==
    ASSUME NEW type \in TypeNames, NEW qr
    PROVE  Agree(qr, type, <<>>) /\ TruthExists(qr.filter, type, 0)
<1>1. Len(<<>>) = 0 /\ 1..0 = {}
  OBVIOUS
<1>2. Agree(qr, type, <<>>)
  <2>1. \A f, t, s : GoodRow(f, t, <<>>, s)
    BY <1>1 DEF GoodRow
  <2>2. \A f \in Table[type] : Objects(f) # {}
    BY FeaturesAre
  <2>. QED
    BY <1>1, <2>1, <2>2 DEF Agree, OneRow
<1>3. TruthExists(qr.filter, type, 0)
  <2>1. [i \in 1..0 |-> TRUE] \in [1..0 -> BOOLEAN]
    OBVIOUS
  <2>. QED
    BY <1>1, <2>1 DEF TruthExists, IsTruth
<1>. QED
  BY <1>2, <1>3

LEMMA NodeIsAgreed ==
    ASSUME Bound, Compiled, AnswersInv, Compiling, query.kind = "filter", node < Nodes, NEW p,
           types[at] # <<>>, BuiltQ(query.filter[node + 1], q, types[at][1], p),
           NEW more, more = Append(q, p)
    PROVE  /\ \E ds : IsApart(query, more, ds) /\ Agree(query, types[at][1], ds)
           /\ TruthExists(query.filter, types[at][1], node + 1)
<1>. DEFINE type == types[at][1]
<1>1. /\ q \in Seq(ToSet(q)) /\ Len(q) = node /\ node \in Int /\ node >= 0
      /\ node + 1 \in 1..Len(query.filter)
      /\ at \in 1..Len(types) /\ Len(query.filter) \in Nat
      /\ DOMAIN query.filter = 1..Len(query.filter)
      /\ \A k \in 1..Len(query.filter) : IsNode(query.filter[k], k)
  BY FilterIsWritten DEF Compiled, Compiling, Bound, Nodes
<1>2. SoFar /\ Typing(query, types[at])
  BY <1>1 DEF AnswersInv, query
<1>3. type \in TypeNames
  BY <1>2 DEF SoFar, Typing
<1>4. PICK ds : IsApart(query, q, ds) /\ Agree(query, type, ds)
  BY <1>2 DEF SoFar
<1>9. TruthExists(query.filter, type, node)
  BY <1>2 DEF SoFar
<1>5. Longer(q, p, more) /\ Len(more) = node + 1
  BY <1>1, AppendKeeps DEF Longer
<1>. HIDE DEF type
<1>6. BuiltQ(query.filter[node + 1], q, type, p)
  BY DEF type
<1>. DEFINE d == IF IsLogic(query.filter[node + 1]) THEN NewApart(query.filter[node + 1], ds, type)
                 ELSE Alone(query.filter[node + 1], type)
            longer == [k \in 1..node+1 |-> IF k = node + 1 THEN d ELSE ds[k]]
<1>10. BuiltApart(query.filter[node + 1], ds, type, d)
  BY <1>6 DEF BuiltQ, BuiltApart
<1>. HIDE DEF d
<1>11. longer \in Seq(ToSet(longer)) /\ Len(longer) = node + 1 /\ Len(ds) = node
       /\ Longer(ds, d, longer)
  <2>1. Len(ds) = node
    BY <1>1, <1>4 DEF IsApart
  <2>2. DOMAIN longer = 1..node+1 /\ node + 1 \in Nat
    BY <1>1
  <2>3. longer \in [1..node+1 -> ToSet(longer)]
    BY <2>2 DEF ToSet
  <2>4. longer \in Seq(ToSet(longer))
    BY <2>2, <2>3, SeqDef
  <2>5. Len(longer) = node + 1
    BY <2>2, <2>4, LenProperties
  <2>. QED
    BY <1>1, <2>1, <2>4, <2>5 DEF Longer
<1>. HIDE DEF longer
<1>7. Agree(query, type, longer)
  BY <1>1, <1>3, <1>4, <1>10, <1>11, AgreeGrows
<1>12. IsApart(query, more, longer)
  BY <1>1, <1>4, <1>5, <1>6, <1>10, <1>11, ApartGrows
<1>8. TruthExists(query.filter, type, node + 1)
  <2>1. node \in Nat /\ \A i \in 1..node+1 : IsNode(query.filter[i], i)
    BY <1>1
  <2>. QED
    BY <1>9, <2>1, TruthGrows
<1>. QED
  BY <1>7, <1>8, <1>12 DEF type

LEMMA AnswersAreKept ==
    Bound /\ Compiled /\ AnswerableInv /\ AnswersInv /\ [Next]_vars => AnswersInv'
<1>. SUFFICES ASSUME Bound, Compiled, AnswerableInv, AnswersInv, [Next]_vars PROVE AnswersInv'
  OBVIOUS
<1>0. /\ at \in Nat /\ at \in 1..Len(request) /\ q \in Seq(ToSet(q)) /\ IsCompiler(compiler)
      /\ types \in Seq(ToSet(types)) /\ IsQuery(query)
  BY RequestsHaveQueries, QueryIsWritten DEF Bound, Compiled
<1>1. (\A i \in 1..Len(types) : Typing(request[i], types[i]))'
  <2>1. CASE Bind
    <3>. DEFINE ts == [i \in DOMAIN GetTypeNames |-> Fixed[GetTypeNames[i]]]
    <3>1. types' = Append(types, ts) /\ request' = request /\ Len(types) = at - 1
      BY <2>1 DEF Bind, Bound
    <3>2. Typing(query, ts)
      BY <1>0, <2>1, NamesAreTyped DEF Bind
    <3>. HIDE DEF ts
    <3>3. ASSUME NEW i \in 1..Len(types') PROVE Typing(request[i], types'[i])
      <4>1. /\ Len(types') = Len(types) + 1 /\ types'[Len(types) + 1] = ts
            /\ \A k \in 1..Len(types) : types'[k] = types[k]
        BY <1>0, <3>1, AppendKeeps
      <4>2. CASE i = at
        BY <3>1, <3>2, <4>1, <4>2 DEF query
      <4>3. CASE i # at
        <5>1. i \in 1..Len(types)
          BY <1>0, <3>1, <4>1, <4>3
        <5>. QED
          BY <4>1, <5>1 DEF AnswersInv
      <4>. QED
        BY <4>2, <4>3
    <3>. QED
      BY <3>1, <3>3 DEF Typing
  <2>2. CASE ~Bind
    <3>1. types' = types /\ request' = request
      BY <2>2 DEF Next, vars, BindFails, Start, StartFails, BuildIds, BuildStored, BuildLogic,
                  BuildComparison, GetQueryset, GetQuerysetFails, Built, Stop
    <3>. QED
      BY <3>1 DEF AnswersInv, Typing
  <2>. QED
    BY <2>1, <2>2
<1>2. CASE GetQueryset
  <2>. HIDE DEF Queryset
  <2>1. /\ answers' = Append(answers, Queryset) /\ ~Compiling' /\ Complete /\ Usable
        /\ request' = request /\ Len(answers) = at - 1 /\ answers \in Seq(ToSet(answers))
    BY <1>2 DEF GetQueryset, Complete, Compiling, Compiled
  <2>2. ASSUME NEW i \in DOMAIN answers', NEW f \in DOMAIN answers'[i]
        PROVE  Answered(request[i], f, answers'[i][f])
    <3>1. CASE i \in DOMAIN answers /\ answers'[i] = answers[i]
      BY <2>2, <3>1 DEF AnswersInv, AnswersAreWhatWasAsked, Answered
    <3>2. CASE i = at /\ answers'[i] = Queryset
      BY <2>1, <2>2, <3>2, QuerysetAnswers DEF query
    <3>. QED
      BY <1>0, <2>1, <2>2, <3>1, <3>2, AppendedIs
  <2>3. AnswersAreWhatWasAsked'
    BY <2>1, <2>2 DEF AnswersAreWhatWasAsked, Answered
  <2>. QED
    BY <1>1, <2>1, <2>3 DEF AnswersInv
<1>3. CASE ~GetQueryset
  <2>1. answers' = answers /\ request' = request
    BY <1>3 DEF Next, vars, Bind, BindFails, Start, StartFails, BuildIds, BuildStored, BuildLogic,
                BuildComparison, GetQuerysetFails, Built, Stop
  <2>2. AnswersAreWhatWasAsked'
    BY <2>1 DEF AnswersInv, AnswersAreWhatWasAsked
  <2>. SUFFICES ASSUME Compiling' PROVE SoFar'
    BY <1>1, <2>2 DEF AnswersInv
  <2>3. ~(Bind \/ BindFails \/ StartFails \/ GetQuerysetFails)
    BY DEF Bind, BindFails, BindFailure, StartFails, GetQuerysetFails, Stop, Compiling, Compiled
  <2>4. CASE Start
    <3>1. /\ query' = query /\ types' = types /\ at' = at /\ q' = <<>> /\ node' = 0 /\ ~compiler'.empty
          /\ Len(types[at]) <= 1 /\ phase = "compile"
      BY <2>4 DEF Start, query, NewCompiler
    <3>2. Typing(query, types[at])
      BY <3>1 DEF AnswersInv, query, Bound
    <3>3. types[at] # <<>> => types[at][1] \in TypeNames
      BY <3>2 DEF Typing
    <3>4. types[at] # <<>> => /\ IsApart(query, <<>>, <<>>) /\ Agree(query, types[at][1], <<>>)
                              /\ TruthExists(query.filter, types[at][1], 0)
      BY <3>3, NothingBuiltYet DEF IsApart
    <3>. QED
      BY <3>1, <3>4 DEF SoFar
  <2>5. ASSUME Built, Compiling, node < Nodes
        PROVE  /\ query' = query /\ types' = types /\ at' = at /\ node' = node + 1 /\ SoFar
               /\ query.kind # "filter" => node = 0 /\ node' = 1
    BY <2>5 DEF Built, query, AnswersInv, Compiled, Compiling, Nodes
  <2>6. CASE BuildIds
    <3>. DEFINE names == GroupNames(query.ids)
    <3>1. Built /\ Compiling /\ node < Nodes /\ query.kind = "ids" /\ q' = q
      <4>1. Compiling /\ node < Nodes /\ query.kind = "ids" /\ phase = "compile"
        BY <2>6 DEF BuildIds, Building, Compiling
      <4>2. ASSUME NEW n, GroupOutcome(query.ids, n) # "compile", Stop(GroupOutcome(query.ids, n)) PROVE FALSE
        BY <4>2 DEF GroupOutcome, Stop, Compiling
      <4>. QED
        BY <2>6, <4>1, <4>2 DEF BuildIds, Built
    <3>2. /\ query' = query /\ types' = types /\ at' = at /\ node = 0 /\ node' = 1
          /\ SoFar /\ ~compiler.empty
      BY <2>5, <3>1 DEF SoFar
    <3>3. \A n : GroupOutcome(query.ids, n)' = GroupOutcome(query.ids, n)
      BY <3>2 DEF GroupOutcome
    <3>4. IF compiler'.empty THEN names = {NoName}
          ELSE /\ compiler'.typed = {IdLookup(Group(query.ids, n), types[at][1]) : n \in names}
               /\ \A n \in names : GroupOutcome(query.ids, n) = "compile"
      <4>1. CASE names = {NoName}
        BY <1>0, <2>6, <4>1 DEF BuildIds, IsCompiler
      <4>2. CASE names # {NoName}
        <5>1. CASE {n \in names : GroupOutcome(query.ids, n) # "compile"} = {}
          BY <1>0, <2>6, <3>2, <4>2, <5>1 DEF BuildIds, IsCompiler
        <5>2. CASE {n \in names : GroupOutcome(query.ids, n) # "compile"} # {}
          BY <2>6, <3>1, <4>2, <5>2 DEF BuildIds, Stop, Built, Compiled
        <5>. QED
          BY <5>1, <5>2
      <4>. QED
        BY <4>1, <4>2
    <3>. QED
      BY <3>1, <3>2, <3>3, <3>4 DEF SoFar
  <2>7. CASE BuildStored
    <3>1. Built /\ Compiling /\ node < Nodes /\ query.kind = "stored"
          /\ q' = <<IdLookup({query.id}, types[at][1])>> /\ compiler' = compiler
      BY <2>7 DEF BuildStored, Building, Stop, Compiling
    <3>. QED
      BY <2>5, <3>1 DEF SoFar
  <2>8. CASE BuildLogic \/ BuildComparison
    <3>. DEFINE n == query.filter[node + 1]
                type == types[at][1]
                p == IF IsLogic(n) THEN NewQ(n, q, type) ELSE Comparison(n, type)
    <3>1. /\ Built /\ Compiling /\ node < Nodes /\ query.kind = "filter"
          /\ q' = Append(q, p) /\ BuiltQ(n, q, type, p)
      <4>1. CASE BuildLogic
        <5>1. q' = Append(q, NewQ(n, q, type)) /\ IsLogic(n) /\ p = NewQ(n, q, type)
          BY <4>1 DEF BuildLogic, NewQ
        <5>. HIDE DEF p
        <5>. QED
          BY <4>1, <5>1 DEF BuildLogic, Building, Compiling, BuiltQ
      <4>2. CASE BuildComparison
        <5>1. Built /\ q' = Append(q, Comparison(n, type)) /\ ~RefusesNode(n) /\ ~IsLogic(n)
          BY <4>2 DEF BuildComparison, Stop, Compiling
        <5>2. p = Comparison(n, type)
          BY <5>1
        <5>. HIDE DEF p
        <5>. QED
          BY <4>2, <5>1, <5>2 DEF BuildComparison, Building, Compiling, BuiltQ
      <4>. QED
        BY <2>8, <4>1, <4>2
    <3>. HIDE DEF p
    <3>2. types[at] # <<>> =>
            /\ \E ds : IsApart(query, q', ds) /\ Agree(query, types[at][1], ds)
            /\ TruthExists(query.filter, types[at][1], node + 1)
      BY <3>1, NodeIsAgreed
    <3>3. /\ query' = query /\ types' = types /\ at' = at /\ node' = node + 1 /\ SoFar
      BY <2>5, <3>1
    <3>. QED
      BY <3>1, <3>2, <3>3 DEF SoFar
  <2>9. CASE UNCHANGED vars
    <3>1. Compiling /\ query' = query
      BY <2>9 DEF vars, Compiling, query
    <3>. QED
      BY <2>9, <3>1 DEF vars, SoFar, AnswersInv, GroupOutcome
  <2>. QED
    BY <1>3, <2>3, <2>4, <2>6, <2>7, <2>8, <2>9 DEF Next
<1>. QED
  BY <1>2, <1>3

(* Each query returns the features that it asks for and no others, for any *)
(* filter: the Q objects of its nodes, the lookups of its identifiers and  *)
(* what they leave in the CompiledQuery mean what the request says, but    *)
(* for the exceptions that the property names (build_query of the          *)
(* operators, CompiledQuery.get_queryset).                                 *)
THEOREM QueriesAnswerWhatWasAsked == Spec => []AnswersAreWhatWasAsked
<1>1. Init => AnswerableInv /\ AnswersInv
  BY DEF Init, AnswerableInv, AnswersInv, Compiling, AnswerableIsAnswered, AnswersAreWhatWasAsked
<1>2. AnswersInv => AnswersAreWhatWasAsked
  BY DEF AnswersInv
<1>. QED
  BY <1>1, <1>2, BoundInvariant, InitCompiled, CompiledIsKept, AnswerableIsKept, AnswersAreKept,
     PTL DEF Spec
=============================================================================
