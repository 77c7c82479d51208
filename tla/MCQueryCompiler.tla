-------------------------- MODULE MCQueryCompiler --------------------------
(***************************************************************************)
(* Values of QueryCompiler's constants for TLC.                            *)
(***************************************************************************)
EXTENDS QueryCompiler

\* A type with and without its prefix, two other types, one unknown.
MCFixed == ("place" :> "place") @@ ("app:place" :> "place")
           @@ ("road" :> "road") @@ ("secret" :> "secret") @@ ("ghost" :> "ghost")

MCElements == {"num", "alt", "arr", "hours", "geo"}
MCKind == [num |-> "plain", alt |-> "plain", arr |-> "array", hours |-> "many",
           geo |-> "geometry"]

Sub(i, v) == [id |-> i, hours |-> v]
Place(k, num, alt, arr, subs, geo) ==
    [pk |-> k, related |-> subs,
     value |-> [num |-> num, alt |-> alt, arr |-> arr, geo |-> geo]]
MCTable ==
    [place |-> {Place(1, 1, 2, {}, {}, 1),
                Place(2, 2, 2, {1}, {Sub(1, 1), Sub(2, 2)}, 2),
                Place(3, Null, 1, {1, 2}, {Sub(3, 1), Sub(4, 1)}, 1),
                Place(4, 1, 1, {2}, {Sub(5, 2)}, Null)},
     road |-> {Place(2, 1, 1, {}, {}, 1)},
     secret |-> {Place(1, 1, 1, {}, {}, 1)}]

-----------------------------------------------------------------------------
Id(text, type, key) == [text |-> text, type |-> type, key |-> key, dot |-> TRUE]
NoDot(text, key) == [text |-> text, type |-> NoName, key |-> key, dot |-> FALSE]

\* The texts sort as the strings do: "5", "app:place.4", "place.2" and so on.
Ids == {NoDot(1, 5), NoDot(6, BadValue), Id(2, "app:place", 4), Id(4, "app:place", BadValue),
        Id(3, "place", 2), Id(5, "place", 3), Id(7, "road", 2), Id(8, "secret", 1),
        Id(9, "ghost", 1), [Id(0, NoName, 5) EXCEPT !.dot = TRUE]}

Query(kind, names, srs, sort) ==
    [kind |-> kind, typeNames |-> names, srsName |-> srs, sortBy |-> sort]
Plain(kind, names) == Query(kind, names, "none", <<>>)

IdSets == {s \in SUBSET Ids : Cardinality(s) \in 1..3}
TypeLists == {<<>>, <<"place">>, <<"app:place">>, <<"road">>}
IdQueries == {Plain("ids", t) @@ [ids |-> s] : t \in TypeLists, s \in IdSets}
StoredQueries == {Plain("stored", <<>>) @@ [id |-> i] : i \in Ids}
AllQueries ==
    {Query("all", t, srs, sort) :
        t \in TypeLists \union {<<NoName>>, <<"secret">>, <<"ghost">>, <<"place", "road">>},
        srs \in {"none", "known", "unknown"}, sort \in {<<>>, <<"num">>, <<"num", "hours">>}}

-----------------------------------------------------------------------------
Binary(name, a, b) == [op |-> "compare", name |-> name, args |-> <<a, b>>]
Between(a, b, c) == [op |-> "between", args |-> <<a, b, c>>]
IsNull(a) == [op |-> "null", args |-> <<a>>]
BBox(args) == [op |-> "bbox", args |-> args, box |-> Literal({1})]

Lefts == {Ref(e) : e \in MCElements} \union {Literal(1), Literal(2), Add("num", 1)}
Rights == {Literal(1), Literal(2), Literal(BadValue), Ref("num"), Ref("alt")}
Turning == {<<Literal(1), Ref(e)>> : e \in MCElements} \union {<<Literal(2), Ref("hours")>>}
Comparisons ==
    {Binary(name, a, b) : name \in DOMAIN ComparisonLookup, a \in Lefts, b \in Rights}
    \union {Binary(name, t[1], t[2]) : name \in DOMAIN ComparisonLookup, t \in Turning}
    \union {Between(a, Literal(v), Literal(2)) : a \in Lefts, v \in {1, 2, BadValue}}
    \union {IsNull(Ref(e)) : e \in {"num", "geo", "arr"}}
    \union {BBox(<<>>), BBox(<<Ref("geo")>>)}

\* The comparisons that larger filters are made of.
Equal(a, b) == Binary("PropertyIsEqualTo", a, b)
Few == {Equal(Ref("hours"), Literal(1)), Binary("PropertyIsNotEqualTo", Ref("hours"), Literal(1)),
        Equal(Ref("hours"), Literal(2)), Equal(Ref("arr"), Literal(2)),
        Binary("PropertyIsLessThan", Ref("num"), Literal(2)),
        Equal(Ref("alt"), Literal(2)), Equal(Add("num", 1), Literal(2)),
        Equal(Literal(1), Literal(2)), BBox(<<>>)}
Four == {Equal(Ref("hours"), Literal(1)), Equal(Ref("hours"), Literal(2)),
         Binary("PropertyIsLessThan", Ref("num"), Literal(2)), Equal(Add("num", 1), Literal(2))}
Logic(op, of) == [op |-> op, of |-> of]
Not(f) == f \o <<Logic("Not", {Len(f)})>>
Moved(f, n) == [i \in DOMAIN f |-> IF IsLogic(f[i]) THEN [f[i] EXCEPT !.of = {k + n : k \in @}] ELSE f[i]]
Both(op, f, g) == f \o Moved(g, Len(f)) \o <<Logic(op, {Len(f), Len(f) + Len(g)})>>
Pairs == {Both(op, <<a>>, <<b>>) : op \in {"And", "Or"}, a \in Few, b \in Few}
Filters ==
    {<<c>> : c \in Comparisons} \union {Not(<<c>>) : c \in Comparisons}
    \union Pairs \union {Not(p) : p \in Pairs}
    \union {Both(op, Not(<<a>>), <<b>>) : op \in {"And", "Or"}, a \in Few, b \in Few}
    \union {Both(o, <<a>>, Not(Both(op, <<b>>, <<c>>))) :
               o \in {"And", "Or"}, op \in {"And", "Or"}, a \in Four, b \in Four, c \in Four}
    \union {Not(Both(op, <<a>>, Not(<<b>>))) : op \in {"And", "Or"}, a \in Few, b \in Few}
    \union {Both(op, <<a>>, Not(<<b>>)) : op \in {"And", "Or"}, a \in Few, b \in Few}
    \union {<<a, b, c, Logic(op, {1, 2, 3})>> : op \in {"And", "Or"}, a \in Four, b \in Four, c \in Four}
    \union {Both(op, Both("And", <<a>>, <<b>>), Not(<<c>>)) :
               op \in {"And", "Or"}, a \in Four, b \in Four, c \in Four}
FilterQueries ==
    {Plain("filter", <<"place">>) @@ [filter |-> f] : f \in Filters}
    \union {Query("filter", <<"place">>, "none", <<"hours">>) @@ [filter |-> <<c>>] : c \in Few}
    \union {Plain("filter", <<>>) @@ [filter |-> <<c>>] : c \in Few}

\* Requests of one query, and of two that could disturb each other.
Second == {Plain("all", <<"road">>), Plain("all", <<"secret">>), Plain("ids", <<"road">>) @@
             [ids |-> {Id(7, "road", 2)}],
           Plain("filter", <<"place">>) @@ [filter |-> <<Equal(Add("num", 1), Literal(3))>>]}
First == {Plain("ids", <<"place">>) @@ [ids |-> s] : s \in {{NoDot(1, 5)}, {Id(3, "place", 2)}}}
         \union {Plain("filter", <<"place">>) @@ [filter |-> <<c>>] : c \in Few}
MCRequests ==
    {<<x>> : x \in IdQueries \union StoredQueries \union AllQueries \union FilterQueries}
    \union {<<x, y>> : x \in First, y \in Second} \union {<<y, x>> : x \in First, y \in Second}
=============================================================================
