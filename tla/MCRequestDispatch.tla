------------------------ MODULE MCRequestDispatch ------------------------
(***************************************************************************)
(* Values for RequestDispatch, and the client: it writes what it means as  *)
(* a URL or as XML.  Three types (one of them denied), pages of two        *)
(* features, up to two queries, one prefix that the server knows and two   *)
(* that the client declares, one of them for the server's own namespace.   *)
(* str() of a duration is no duration.  SlipInputs says nothing that is    *)
(* meant: each of its requests has one thing wrong, or two that meet each  *)
(* other.                                                                  *)
(***************************************************************************)
EXTENDS RequestMeaning

MCLocal == "app" :> "app-uri"
MCStandard == "wfs" :> "wfs-uri"
MCElements == {<<"app-uri", "name">>}
MCXy == {<<"EPSG:", 4326>>, <<"epsg.xml#", 4326>>}
MCTypes == ("town" :> [crs |-> {4326}, denied |-> FALSE, size |-> 3])
           @@ ("road" :> [crs |-> {4326}, denied |-> FALSE, size |-> 2])
           @@ ("mine" :> [crs |-> {4326}, denied |-> TRUE, size |-> 1])
MCStored == ("ById" :> {"ID"}) @@ ("Since" :> {"ID", "PERIOD"})
MCRewritten == <<"", "PT1H">> :> Garbage
MCFormats == [o \in DataOperations \cup {"GetCapabilities", "DescribeFeatureType"} |->
                 CASE o = "GetCapabilities" -> {"text/xml"}
                   [] o = "DescribeFeatureType" -> {"xmlschema", GML}
                   [] OTHER -> {GML, "csv"}]

-----------------------------------------------------------------------------
(* What clients mean.                                                      *)

Query(names, srs, properties, filter, sort) ==
    [stored |-> None, parameters |-> None, typeNames |-> names, srsName |-> srs,
     properties |-> properties, filter |-> filter, sortBy |-> sort]
Name(prefix, uri) == [prefix |-> prefix, name |-> "name", uri |-> uri]
Bare == Name("", "")         \* of the feature type
Known_ == Name("app", "app-uri")
Own == Name("o", "app-uri")  \* the client's prefix for it
Strange == Name("x", "else-uri")
Towns == Query(<<<<"app-uri", "town">>>>, None, <<>>, None, <<>>)
Roads == Query(<<<<"", "road">>>>, <<4326, TRUE>>, <<Bare>>, None, <<Known_>>)
Mines == Query(<<<<"app-uri", "mine">>>>, None, <<>>, None, <<>>)
Other == Query(<<<<"else-uri", "town">>>>, None, <<>>, None, <<>>)
OwnTowns == [Towns EXCEPT !.properties = <<Own, Bare>>, !.sortBy = <<Own>>, !.srsName = <<4326, FALSE>>]
StrangeTowns == [Towns EXCEPT !.properties = <<Bare, Strange>>]
SomeTowns == [Towns EXCEPT !.filter = <<"filter", "f">>]
BadTowns == [Towns EXCEPT !.filter = <<"filter", "unbuildable">>]
BoxedTowns == [Towns EXCEPT !.filter = <<"bbox", "box">>]
TownsById == Query(<<>>, None, <<>>, <<"ids", <<<<"", "town">>, <<"app-uri", "town">>, <<"", "town">>>>>>, <<>>)
ById(name) == StoredQuery("ById", "ID" :> name, Aliases)
Since(name) == StoredQuery("Since", ("ID" :> name) @@ ("PERIOD" :> <<"", "PT1H">>), Aliases)

DataAst(queries, count, start, result) ==
    [NoRequest EXCEPT !.operation = "GetFeature", !.service = "WFS", !.version = 200,
        !.queries = queries, !.count = count, !.startIndex = start, !.outputFormat = GML,
        !.resultType = result]
Values(ast) == [ast EXCEPT !.operation = "GetPropertyValue", !.valueReference = Known_]
Csv(ast) == [ast EXCEPT !.outputFormat = "csv"]

Ast(operation) == [NoRequest EXCEPT !.operation = operation, !.service = "WFS", !.version = 200]
CapabilitiesAst(versions) ==
    [Ast("GetCapabilities") EXCEPT !.version = None, !.acceptVersions = versions]
SchemaAst(names) == [Ast("DescribeFeatureType") EXCEPT !.outputFormat = "xmlschema", !.typeNames = names]
StoredAst(ids) == [Ast("DescribeStoredQueries") EXCEPT !.storedQueryId = ids]

PlainAsts ==
    {CapabilitiesAst(v) : v \in {None, <<200, 202>>, <<202, 200>>, <<100, 200>>, <<100>>}}
    \cup {SchemaAst(n) : n \in {None, Towns.typeNames, Roads.typeNames, Other.typeNames}}
    \cup {Ast("ListStoredQueries"), StoredAst(None), StoredAst(<<"ById">>), StoredAst(<<"ByName">>)}
DataAsts(queries) ==
    LET asts == {DataAst(q, c, s, r) : q \in queries, c \in {None, 0, 1, 3}, s \in {0, 2},
                                       r \in ResultTypes}
    IN  asts \cup {Csv(a) : a \in asts} \cup {Values(a) : a \in {b \in asts : Len(b.queries) = 1}}
UrlAsts == PlainAsts \cup DataAsts({<<Towns>>, <<Roads>>, <<SomeTowns>>, <<BadTowns>>, <<BoxedTowns>>,
    <<TownsById>>, <<Mines>>, <<Other>>, <<Towns, Roads>>, <<Roads, SomeTowns>>, <<Towns, Mines>>,
    <<OwnTowns>>, <<StrangeTowns>>, <<ById(<<"app", "town">>)>>, <<Since(<<"app", "town">>)>>})
    \cup {[Values(DataAst(<<Roads>>, 1, 0, r)) EXCEPT !.valueReference = Own] : r \in ResultTypes}

-----------------------------------------------------------------------------
(* ... as a URL.                                                           *)

Prefix(uri) == CASE uri = "" -> "" [] uri = "app-uri" -> "app" [] uri = "else-uri" -> "x"
Written(names) == [i \in DOMAIN names |-> <<Prefix(names[i][1]), names[i][2]>>]
WrittenCrs(crs) == IF crs = None THEN None ELSE <<IF crs[2] THEN "EPSG:" ELSE "urn", crs[1]>>
Param(name, value) == [name |-> name, spelled |-> name, value |-> value]
If(condition, name, group) == IF condition THEN <<Param(name, <<group>>)>> ELSE <<>>

(* A parameter of each query: left out if no query has it.                 *)
Each(queries, name, GroupOf(_)) ==
    LET groups == [i \in DOMAIN queries |-> GroupOf(queries[i])]
    IN  IF Range(groups) \subseteq {Empty} THEN <<>> ELSE <<Param(name, groups)>>
OrEmpty(value) == IF value \in {None, <<>>} THEN Empty ELSE value
FilterParam(q, kind) == IF q.filter = None \/ q.filter[1] # kind THEN Empty
                        ELSE IF kind = "ids" THEN Written(q.filter[2]) ELSE q.filter[2]
QueryParams(queries) ==
    IF queries = <<>> THEN <<>>
    ELSE Each(queries, "STOREDQUERY_ID", LAMBDA q : OrEmpty(q.stored)) \o
    Each(queries, "ID", LAMBDA q : IF q.stored = None THEN Empty ELSE q.parameters["ID"]) \o
    Each(queries, "PERIOD", LAMBDA q : IF q.stored # "Since" THEN Empty ELSE q.parameters["PERIOD"]) \o
    Each(queries, "TYPENAMES", LAMBDA q : IF q.stored # None THEN Empty ELSE OrEmpty(Written(q.typeNames))) \o
    Each(queries, "SRSNAME", LAMBDA q : OrEmpty(WrittenCrs(q.srsName))) \o
    Each(queries, "PROPERTYNAME", LAMBDA q : IF q.properties = <<>> THEN <<Star>> ELSE Texts(q.properties)) \o
    Each(queries, "FILTER", LAMBDA q : FilterParam(q, "filter")) \o
    Each(queries, "BBOX", LAMBDA q : FilterParam(q, "bbox")) \o
    Each(queries, "RESOURCEID", LAMBDA q : FilterParam(q, "ids")) \o
    Each(queries, "SORTBY", LAMBDA q : OrEmpty(Texts(q.sortBy)))

Declared == ("x" :> "else-uri") @@ ("o" :> "app-uri")
UsesDeclared(ast) ==
    \/ ast.valueReference = Own \/ ast.typeNames = Other.typeNames
    \/ \E q \in Range(ast.queries) : q \in {Other, OwnTowns, StrangeTowns}
UrlOf(ast) ==
    If(TRUE, "SERVICE", "WFS") \o If(ast.version # None, "VERSION", ast.version) \o
    If(TRUE, "REQUEST", ast.operation) \o QueryParams(ast.queries) \o
    If(UsesDeclared(ast), "NAMESPACES", Declared) \o
    If(ast.count # None, "COUNT", ast.count) \o If(ast.startIndex # 0, "STARTINDEX", ast.startIndex) \o
    If(ast.outputFormat \notin {None, GML}, "OUTPUTFORMAT", ast.outputFormat) \o
    If(ast.resultType # "results", "RESULTTYPE", ast.resultType) \o
    If(ast.valueReference # None, "VALUEREFERENCE", Text(ast.valueReference)) \o
    If(ast.acceptVersions # None, "ACCEPTVERSIONS", ast.acceptVersions) \o
    (IF ast.typeNames = None THEN <<>> ELSE If(TRUE, "TYPENAMES", Written(ast.typeNames))) \o
    If(ast.storedQueryId # None, "STOREDQUERY_ID", ast.storedQueryId)

(* Lower case, and the names of WFS 1.                                     *)
Lower == "SERVICE" :> "service" @@ "COUNT" :> "maxfeatures" @@ "STARTINDEX" :> "startIndex"
         @@ "TYPENAMES" :> "typename"
Old == "COUNT" :> "MAXFEATURES" @@ "TYPENAMES" :> "TYPENAME"
Lowered(url) ==
    [i \in DOMAIN url |-> LET n == url[i].name IN
        [url[i] EXCEPT !.name = IF n \in DOMAIN Old THEN Old[n] ELSE n,
                       !.spelled = IF n \in DOMAIN Lower THEN Lower[n] ELSE n]]

GetOf(url, ast) == [method |-> "GET", query |-> url, doc |-> None, meant |-> ast]
UrlInputs == {GetOf(UrlOf(a), a) : a \in UrlAsts} \cup {GetOf(Lowered(UrlOf(a)), a) : a \in UrlAsts}

-----------------------------------------------------------------------------
(* ... as XML.  A declared default namespace of WFS is that of no name.    *)

Attr(condition, name, value) == IF condition THEN name :> value ELSE <<>>
NoAttributes == [n \in {} |-> None]
QueryElement(q) ==
    [tag |-> IF q.stored = None THEN "Query" ELSE "StoredQuery",
     attrs |-> Attr(q.stored # None, "id", q.stored) @@ Attr(q.srsName # None, "srsName", WrittenCrs(q.srsName))
               @@ Attr(q.stored = None, "typeNames", Written(q.typeNames)) @@ NoAttributes,
     properties |-> Texts(q.properties), filter |-> IF q.filter = None THEN None ELSE q.filter[2],
     sortBy |-> Texts(q.sortBy), parameters |-> q.parameters]
OrNone(value) == IF value = None THEN <<>> ELSE value
DocOf(ast) ==
    [ns |-> "wfs20", operation |-> ast.operation,
     namespaces |-> Declared @@ ("" :> "wfs-uri"),
     attrs |-> Attr(TRUE, "service", "WFS") @@ Attr(ast.version # None, "version", ast.version)
        @@ Attr(ast.handle # None, "handle", ast.handle) @@ Attr(ast.count # None, "count", ast.count)
        @@ Attr(ast.startIndex # 0, "startIndex", ast.startIndex)
        @@ Attr(ast.outputFormat \notin {None, GML}, "outputFormat", ast.outputFormat)
        @@ Attr(ast.resultType # "results", "resultType", ast.resultType)
        @@ Attr(ast.valueReference # None, "valueReference", Text(ast.valueReference)),
     children |-> CASE ast.operation = "GetCapabilities" -> OrNone(ast.acceptVersions)
                    [] ast.operation = "DescribeFeatureType" -> Written(OrNone(ast.typeNames))
                    [] ast.operation = "DescribeStoredQueries" -> OrNone(ast.storedQueryId)
                    [] OTHER -> [i \in DOMAIN ast.queries |-> QueryElement(ast.queries[i])]]
PostOf(doc, ast) == [method |-> "POST", query |-> <<>>, doc |-> doc, meant |-> ast]

(* The links of XML requests name their types without a prefix only, and   *)
(* nothing with a prefix that the document declares; a query with a filter *)
(* has no link.                                                            *)
BareTowns == Query(<<<<"", "town">>>>, <<4326, FALSE>>, <<Known_, Bare>>, None, <<>>)
OwnSomeTowns == [OwnTowns EXCEPT !.filter = <<"filter", "f">>]
XmlAsts(queries) == {[a EXCEPT !.handle = h] : a \in PlainAsts \cup DataAsts(queries), h \in {None, "h"}}
XmlInputs == {PostOf(DocOf(a), a) : a \in XmlAsts({<<BareTowns>>, <<Roads>>, <<SomeTowns>>,
    <<BadTowns>>, <<OwnSomeTowns>>, <<BareTowns, Roads>>, <<StrangeTowns, Mines>>, <<ById(<<"app", "town">>)>>})}
PrefixedInputs == {PostOf(DocOf(a), a) : a \in XmlAsts({<<Towns>>})}

-----------------------------------------------------------------------------
(* Slips.                                                                  *)

Town == UrlOf(DataAst(<<Towns>>, 1, 0, "results"))
TownValues == UrlOf(Values(DataAst(<<Towns>>, 1, 0, "results")))
With(url, name, group) ==
    SelectSeq(url, LAMBDA p : p.name # name) \o If(group # None, name, group)
Grouped(url, name, groups) == SelectSeq(url, LAMBDA p : p.name # name) \o <<Param(name, groups)>>
ByIdUrl(value) == With(UrlOf(DataAst(<<ById(<<"app", "town">>)>>, None, 0, "results")), "ID", value)

SlipUrls ==
    {<<>>, If(TRUE, "FOO", "bar"), If(TRUE, "VERSION", 200)}
    \cup {With(Town, n, None) : n \in {"SERVICE", "VERSION", "REQUEST", "TYPENAMES"}}
    \cup {With(Town, n, Empty) : n \in {"SERVICE", "VERSION", "REQUEST", "TYPENAMES", "FILTER", "RESOURCEID"}}
    \cup {With(Town, n, Garbage) : n \in {"SERVICE", "VERSION", "REQUEST", "NAMESPACES", "SRSNAME", "FILTER",
              "FILTER_LANGUAGE", "BBOX", "SORTBY", "COUNT", "STARTINDEX", "RESULTTYPE", "RESOLVE",
              "RESOLVEDEPTH", "RESOLVETIMEOUT", "STOREDQUERY_ID", "OUTPUTFORMAT"}}
    \cup {With(Town, "SERVICE", "wfs"), With(Town, "VERSION", 100), With(Town, "COUNT", -1),
          With(Town, "TYPENAMES", <<<<"y", "town">>>>), With(Town, "TYPENAMES", <<<<"{", "town">>>>),
          With(Town, "TYPENAMES", <<<<"", "town">>, <<"", "road">>>>), With(Town, "TYPENAMES", <<<<"wfs", "town">>>>),
          With(Town, "ALIASES", <<"a">>), With(Town, "SRSNAME", <<"EPSG:", 1>>),
          With(Town, "PROPERTYNAME", <<<<"y", "name">>>>), With(Town, "SORTBY", <<<<"", "moon">>>>),
          With(With(Town, "TYPENAMES", None), "RESOURCEID", Empty),
          With(With(Town, "TYPENAMES", None), "RESOURCEID", <<<<"", "town">>, <<"", "road">>>>),
          With(With(Town, "TYPENAMES", None), "RESOURCEID", <<<<"", "moon">>>>),
          With(With(Town, "TYPENAMES", None), "RESOURCEID", <<<<"y", "town">>>>),
          With(With(Town, "FILTER", "f"), "BBOX", "box"),
          With(With(Town, "BBOX", "box"), "RESOURCEID", <<<<"", "town">>>>),
          With(With(Town, "FILTER", "f"), "RESOURCEID", <<<<"", "town">>>>),
          Grouped(Grouped(Town, "FILTER", <<"f", "f">>), "BBOX", <<"box", Empty>>),
          Grouped(Town, "TYPENAMES", <<Written(Towns.typeNames), Written(Roads.typeNames)>>)
             \o <<Param("FILTER", <<"f", "f", "f">>)>>,
          Grouped(Town, "COUNT", <<1, 1>>),
          With(TownValues, "VALUEREFERENCE", None), With(TownValues, "VALUEREFERENCE", <<"", "moon">>),
          With(TownValues, "RESOLVEPATH", "name"),
          Grouped(TownValues, "TYPENAMES", <<Written(Towns.typeNames), Written(Roads.typeNames)>>),
          ByIdUrl(None), ByIdUrl(Empty), ByIdUrl(Garbage), ByIdUrl(<<None, "town">>), ByIdUrl(<<"y", "town">>),
          With(ByIdUrl(<<"app", "town">>), "BBOX", "box"),
          With(ByIdUrl(<<"app", "town">>), "STOREDQUERY_ID", "ByName")}
    \cup {With(UrlOf(CapabilitiesAst(None)), "SERVICE", "wfs"),
          With(UrlOf(CapabilitiesAst(<<200>>)), "VERSION", 200),
          With(UrlOf(CapabilitiesAst(<<202>>)), "ACCEPTFORMATS", <<"text/html">>),
          With(UrlOf(SchemaAst(None)), "TYPENAMES", Empty),
          With(UrlOf(SchemaAst(None)), "TYPENAMES", <<<<"y", "town">>>>),
          With(UrlOf(SchemaAst(None)), "OUTPUTFORMAT", "csv"),
          With(UrlOf(Ast("ListStoredQueries")), "VERSION", None)}

Document == DocOf([DataAst(<<BareTowns>>, 1, 0, "results") EXCEPT !.handle = "h"])
ValueDocument == DocOf([Values(DataAst(<<BareTowns>>, 1, 0, "results")) EXCEPT !.handle = "h"])
Without(doc, name) == [doc EXCEPT !.attrs = Restrict(@, DOMAIN @ \ {name})]
Attribute_(doc, name, value) == [doc EXCEPT !.attrs = (name :> value) @@ @]
Children(doc, children) == [doc EXCEPT !.children = children]
FirstQuery(doc, field, value) == [doc EXCEPT !.children[1][field] = value]
FirstAttrs(doc, attrs) == [doc EXCEPT !.children[1].attrs = attrs @@ @]
ByIdDocument == DocOf(DataAst(<<ById(<<"app", "town">>)>>, 1, 0, "results"))

SlipDocs ==
    {Garbage, [Document EXCEPT !.ns = "wfs1"], [DocOf(CapabilitiesAst(<<202>>)) EXCEPT !.ns = "wfs1"],
     [Document EXCEPT !.operation = "Transaction"], Children(Document, <<>>)}
    \cup {Without(Document, n) : n \in {"service", "version"}} \cup {Without(ValueDocument, "valueReference")}
    \cup {Attribute_(Document, n, Garbage) : n \in {"service", "version", "resolve", "resolveDepth",
              "resolveTimeout", "count", "resultType", "startIndex", "outputFormat"}}
    \cup {Attribute_(ValueDocument, "resolvePath", "name"), Attribute_(ValueDocument, "valueReference", <<"", "moon">>),
          FirstQuery(Document, "properties", <<<<"y", "name">>>>),
          Children(ValueDocument, <<QueryElement(BareTowns), QueryElement(Roads)>>),
          FirstQuery(Document, "tag", Garbage), FirstQuery(Document, "tag", "Filter"),
          Attribute_(FirstQuery(Document, "tag", Garbage), "service", Garbage),
          FirstQuery(Document, "tag", "StoredQuery"), FirstQuery(Document, "filter", Garbage),
          FirstQuery(ByIdDocument, "tag", "Query"), FirstQuery(ByIdDocument, "parameters", NoAttributes),
          FirstQuery(ByIdDocument, "parameters", "ID" :> Garbage),
          FirstQuery(ByIdDocument, "parameters", "ID" :> <<None, "town">>),
          FirstQuery(ByIdDocument, "parameters", ("ID" :> <<"app", "town">>) @@ ("id" :> "town")),
          FirstAttrs(ByIdDocument, "id" :> "ByName"),
          FirstAttrs(Document, "srsName" :> Garbage), FirstAttrs(Document, "aliases" :> <<"a">>),
          FirstAttrs(Document, "typeNames" :> <<<<"y", "town">>>>),
          FirstAttrs(Document, "typeNames" :> <<<<"", "town">>, <<"", "road">>>>),
          Attribute_(DocOf(CapabilitiesAst(<<200>>)), "version", 200),
          Children(DocOf(SchemaAst(None)), <<Empty>>), Children(DocOf(SchemaAst(None)), <<<<"y", "town">>>>),
          Children(DocOf(Ast("ListStoredQueries")), <<Empty>>), Children(DocOf(StoredAst(None)), <<Empty>>)}

SlipInputs == {GetOf(url, None) : url \in SlipUrls} \cup {PostOf(doc, None) : doc \in SlipDocs}
AllInputs == UrlInputs \cup XmlInputs \cup SlipInputs

(* What LinksKeepTheMeaning supposes of the clients and the constants.     *)
ASSUME MeaningAssumption ==
    /\ TokensDiffer /\ ParametersAreNew /\ NoDefaultNamespace /\ MaxPageSize \in Int
    /\ \A r \in AllInputs : SaysWhatItMeans(r) /\ MeansSomethingAnswerable(r)
=============================================================================
