--------------------------- MODULE RequestParsing ---------------------------
(***************************************************************************)
(* How a WFS request is read: from the parameters of a URL (KVP), from an  *)
(* XML document, and how one that came as XML is written as a URL again    *)
(* for the next link.  Pure definitions; RequestDispatch uses them.        *)
(*                                                                         *)
(* A value of a parameter is a sequence of groups: "(a)(b)" has two, and a *)
(* value without parentheses is one.  A group is a token, or a sequence    *)
(* where the code splits at commas.  Garbage is a text the parser of the   *)
(* parameter refuses, Empty the empty text, None what is not there.  A     *)
(* QName is the pair of its prefix and its local name, "{" being the       *)
(* prefix of a full name in Clark notation, {uri}name.  An XPath is such a *)
(* pair, too, its steps taken together, and a coordinate system the pair   *)
(* of its notation and what it names.                                      *)
(*                                                                         *)
(* Reading stops at the first check that raises: the checks of a parser    *)
(* are listed in the order in which its code makes them.                   *)
(***************************************************************************)
EXTENDS Integers, SequencesExt

CONSTANTS
    None, Empty, Garbage,
    LocalAliases,    \* prefixes of the view's own namespaces: [prefix -> uri]
    StandardAliases, \* prefixes a URL has without a declaration: [prefix -> uri]
    WfsUri,          \* the namespace of WFS 2.0, one of the uris
    XyNotations,     \* <<notation, system>> that are read as having x before y
    StoredQueries,   \* the registry: [id -> set of names of parameters]
    Rewritten        \* str() of a parameter's value, where it is not its text

ASSUME GarbageAssumption == Garbage \notin {"Query", "StoredQuery"}

-----------------------------------------------------------------------------
(* Exceptions: a class, and the parameter it blames.  "Exception" is any   *)
(* that is not an OWSException.                                            *)

Missing(locator) == <<"MissingParameterValue", locator>>
Invalid(locator) == <<"InvalidParameterValue", locator>>
NotSupported(locator) == <<"OperationNotSupported", locator>>
ParsingFailed(locator) == <<"OperationParsingFailed", locator>>
UnknownElement == <<"XmlElementNotSupported", None>>
Crash == <<"Exception", None>>

When(condition, fault) == IF condition THEN fault ELSE None
FirstOf(checks) ==
    LET raised == {i \in DOMAIN checks : checks[i] # None}
    IN  IF raised = {} THEN None ELSE checks[Min(raised)]
FirstFault(checks) ==   \* TLC evaluates the checks once, if they are bound
    CHOOSE fault \in {FirstOf(c) : c \in {checks}} : TRUE

-----------------------------------------------------------------------------
(* QNames.                                                                 *)

Unprefixed(qname, ns) == qname[1] = "" /\ ("" \notin DOMAIN ns \/ ns[""] = WfsUri)
Unresolvable(qname, ns) ==
    qname[1] = "{" \/ (~Unprefixed(qname, ns) /\ qname[1] \notin DOMAIN ns)
ParseQName(qname, ns) == <<IF Unprefixed(qname, ns) THEN "" ELSE ns[qname[1]], qname[2]>>
ParseQNames(qnames, ns) == [i \in DOMAIN qnames |-> ParseQName(qnames[i], ns)]
SomeUnresolvable(qnames, ns) == \E i \in DOMAIN qnames : Unresolvable(qnames[i], ns)

-----------------------------------------------------------------------------
(* An XPath is kept as it is written, with the uri of its prefix: that of  *)
(* a name without a prefix is the namespace of the feature type, and None  *)
(* stands for a prefix that nobody declared, which is an error only when   *)
(* the path is resolved.                                                   *)

XPath(text, ns) ==
    [prefix |-> text[1], name |-> text[2],
     uri |-> IF text[1] = "" THEN "" ELSE IF text[1] \in DOMAIN ns THEN ns[text[1]] ELSE None]
XPaths(texts, ns) == [i \in DOMAIN texts |-> XPath(texts[i], ns)]
Text(xpath) == <<xpath.prefix, xpath.name>>
Texts(xpaths) == [i \in DOMAIN xpaths |-> Text(xpaths[i])]
Star == <<"", "*">>

(* A coordinate system that was read is what it names and whether its axes *)
(* are forced to x/y; it is written as the old URL if they are.            *)
Crs(text) == <<text[2], text \in XyNotations>>
CrsText(crs) == <<IF crs[2] THEN "epsg.xml#" ELSE "urn", crs[1]>>

Str(value) == IF value \in DOMAIN Rewritten THEN Rewritten[value] ELSE value

-----------------------------------------------------------------------------
(* KVPRequest.  A query string is the sequence of its parameters in the    *)
(* order of the dictionary; two spellings of one name are two entries.     *)

KvpNames(query) == {query[i].name : i \in DOMAIN query}
KvpParams(query) ==
    [n \in KvpNames(query) |->
        query[CHOOSE i \in DOMAIN query : query[i].name = n
                /\ \A j \in i + 1 .. Len(query) : query[j].name # n].value]

Whole(params) == [n \in DOMAIN params |-> IF Len(params[n]) = 1 THEN params[n][1] ELSE Garbage]

Pairs(params) == {n \in DOMAIN params : Len(params[n]) > 1}
PairSizes(params) == {Len(params[n]) : n \in Pairs(params)}
SplitFault(params) ==
    When(\E a, b \in PairSizes(params) : a # b, ParsingFailed("pairs"))
SplitParameterLists(params) ==
    IF Pairs(params) = {} THEN <<Whole(params)>>
    ELSE [i \in 1 .. CHOOSE s \in PairSizes(params) : TRUE |->
            [n \in DOMAIN params |-> params[n][IF n \in Pairs(params) THEN i ELSE 1]]]

NamespacesFault(kvp) ==
    When("NAMESPACES" \in DOMAIN kvp /\ kvp["NAMESPACES"] = Garbage, Invalid("NAMESPACES"))
Aliases == LocalAliases @@ StandardAliases
KvpNamespaces(kvp) ==
    IF "NAMESPACES" \in DOMAIN kvp /\ kvp["NAMESPACES"] # Empty
    THEN kvp["NAMESPACES"] @@ Aliases ELSE Aliases

(* get_custom(): empty is as good as missing, but reported differently.    *)
Raw(kvp, name) == IF name \in DOMAIN kvp THEN kvp[name] ELSE None
Value(kvp, name, alias) ==
    IF Raw(kvp, name) \in {None, Empty} /\ alias # "" THEN Raw(kvp, alias) ELSE Raw(kvp, name)
Get(kvp, name, alias, default) ==
    LET v == Value(kvp, name, alias) IN IF v \in {None, Empty} THEN default ELSE v
Required(kvp, name, alias) ==
    LET v == Value(kvp, name, alias)
    IN  IF v = None THEN Missing(name) ELSE When(v = Empty, Invalid(name))
ParsedBy(kvp, name, alias, fault) == When(Value(kvp, name, alias) = Garbage, fault)

-----------------------------------------------------------------------------
(* The queries of a KVP request.                                           *)

(* Mutant: without validate_kvp_exclusions().                              *)
FilterKvpFault_Mixed(kvp, ns) ==
    FirstFault(<<ParsedBy(kvp, "FILTER_LANGUAGE", "", Invalid("filterLanguage")),
                 ParsedBy(kvp, "FILTER", "", ParsingFailed("filter")),
                 When(SomeUnresolvable(Get(kvp, "RESOURCEID", "", <<>>), ns), Crash),
                 ParsedBy(kvp, "BBOX", "", Invalid("bbox"))>>)
FilterKvpFault(kvp, ns) ==
    LET ids == Get(kvp, "RESOURCEID", "", <<>>)
        filter == Get(kvp, "FILTER", "", None) # None
        bbox == Get(kvp, "BBOX", "", None) # None
    IN  FirstFault(<<ParsedBy(kvp, "FILTER_LANGUAGE", "", Invalid("filterLanguage")),
                     ParsedBy(kvp, "FILTER", "", ParsingFailed("filter")),
                     When(SomeUnresolvable(ids, ns), Crash),
                     ParsedBy(kvp, "BBOX", "", Invalid("bbox")),
                     When(filter /\ (bbox \/ ids # <<>>), Invalid("filter")),
                     When(ids # <<>> /\ (bbox \/ filter), Invalid("resourceId"))>>)

FilterFromKvp(kvp, ns) ==
    LET filter == Get(kvp, "FILTER", "", None)
        ids == Get(kvp, "RESOURCEID", "", <<>>)
        bbox == Get(kvp, "BBOX", "", None)
    IN  IF filter # None THEN <<"filter", filter>>
        ELSE IF ids # <<>> THEN <<"ids", ParseQNames(ids, ns)>>
        ELSE IF bbox # None THEN <<"bbox", bbox>> ELSE None

(* AdhocQuery.__post_init__() refuses joins, wherever they came from.      *)
JoinFault(typeNames, aliases) ==
    FirstFault(<<When(Len(typeNames) > 1, NotSupported("typeNames")),
                 When(aliases # None, NotSupported("aliases"))>>)

AdhocKvpFault(kvp, ns) ==
    LET names == Get(kvp, "TYPENAMES", "TYPENAME", <<>>)
    IN  FirstFault(<<When(SomeUnresolvable(names, ns), Crash),
                     ParsedBy(kvp, "SRSNAME", "", Invalid("srsName")),
                     When(names = <<>> /\ "RESOURCEID" \notin DOMAIN kvp, Missing("typeNames")),
                     FilterKvpFault(kvp, ns),
                     ParsedBy(kvp, "SORTBY", "", Invalid("sortby")),
                     JoinFault(names, Get(kvp, "ALIASES", "", None))>>)

AdhocFromKvp(kvp, ns) ==
    LET names == Get(kvp, "PROPERTYNAME", "", <<>>)
        srs == Get(kvp, "SRSNAME", "", None)
    IN  [stored |-> None, parameters |-> None,
         typeNames |-> ParseQNames(Get(kvp, "TYPENAMES", "TYPENAME", <<>>), ns),
         srsName |-> IF srs = None THEN None ELSE Crs(srs),
         properties |-> IF names = <<Star>> THEN <<>> ELSE XPaths(names, ns),
         filter |-> FilterFromKvp(kvp, ns),
         sortBy |-> XPaths(Get(kvp, "SORTBY", "", <<>>), ns)]

(* _parse_parameters(): what is missing, what its type refuses, and what   *)
(* was not asked for; a KVP request has nothing of the last kind.          *)
ParametersFault(id, given) ==
    LET absent == StoredQueries[id] \ DOMAIN given
        unknown == DOMAIN given \ StoredQueries[id]
    IN  FirstFault(<<When(absent # {}, Missing(CHOOSE p \in absent : TRUE)),
                     When(\E p \in DOMAIN given \ unknown : given[p] = Garbage, Invalid(None)),
                     When(unknown # {}, Invalid(CHOOSE p \in unknown : TRUE))>>)

StoredParameters(kvp, id) == [p \in StoredQueries[id] \cap DOMAIN kvp |-> kvp[p]]
StoredKvpFault(kvp) ==
    LET id == Get(kvp, "STOREDQUERY_ID", "", None)
    IN  IF id \notin DOMAIN StoredQueries THEN Invalid("STOREDQUERY_ID")
        ELSE LET given == StoredParameters(kvp, id)
                 empty == {p \in DOMAIN given : given[p] = Empty}
                 Adhoc(n) == When(n \in DOMAIN kvp \ DOMAIN given, Invalid(n))
             IN  FirstFault(<<When(empty # {}, Invalid(CHOOSE p \in empty : TRUE)),
                              Adhoc("FILTER"), Adhoc("BBOX"), Adhoc("RESOURCEID"),
                              ParametersFault(id, given)>>)
(* The type of a stored query is the one its identifier names, read with   *)
(* the prefixes the query came with; it is looked up later.                *)
TypeOfId(parameters, ns) ==
    IF "ID" \in DOMAIN parameters /\ ~Unresolvable(parameters["ID"], ns)
    THEN <<ParseQName(parameters["ID"], ns)>> ELSE <<>>
StoredQuery(id, parameters, ns) ==
    [stored |-> id, parameters |-> parameters, typeNames |-> TypeOfId(parameters, ns),
     srsName |-> None, properties |-> <<>>, filter |-> None, sortBy |-> <<>>]
StoredFromKvp(kvp, ns) ==
    LET id == Get(kvp, "STOREDQUERY_ID", "", None) IN StoredQuery(id, StoredParameters(kvp, id), ns)

IsStored(params) == Get(Whole(params), "STOREDQUERY_ID", "", None) # None
QueriesKvpFault(params, ns) ==
    IF SplitFault(params) # None THEN SplitFault(params)
    ELSE LET variants == SplitParameterLists(params)
         IN  FirstFault([i \in DOMAIN variants |->
                IF IsStored(params) THEN StoredKvpFault(variants[i]) ELSE AdhocKvpFault(variants[i], ns)])
QueriesFromKvp(params, ns) ==
    LET variants == SplitParameterLists(params)
    IN  [i \in DOMAIN variants |->
           IF IsStored(params) THEN StoredFromKvp(variants[i], ns) ELSE AdhocFromKvp(variants[i], ns)]

-----------------------------------------------------------------------------
(* Requests.  Those of every operation have the same fields; the ones an   *)
(* operation does not have keep these values.                              *)

GML == "gml32"
ResultTypes == {"results", "hits"}
ResolveValues == {"local", "remote", "all", "none"}
NoRequest == [operation |-> None, service |-> None, version |-> None, handle |-> None,
              queries |-> <<>>, count |-> None, startIndex |-> 0, outputFormat |-> None,
              resultType |-> "results", valueReference |-> None, typeNames |-> None,
              acceptVersions |-> None, acceptFormats |-> <<>>, storedQueryId |-> None]
DataOperations == {"GetFeature", "GetPropertyValue"}

(* The enums are subscripted: an unknown member is a KeyError.             *)
PropertyValueFault(operation, resolvePath, queries) ==
    When(operation = "GetPropertyValue",
         FirstFault(<<When(resolvePath # None, Invalid("resolvePath")),
                      When(queries > 1, Invalid("filter"))>>))

BaseKvpFaults(kvp) == <<Required(kvp, "SERVICE", ""), Required(kvp, "VERSION", "")>>
DataKvpFault(operation, params, ns) ==
    LET kvp == Whole(params)
    IN  FirstFault(<<QueriesKvpFault(params, ns)>> \o BaseKvpFaults(kvp) \o
            <<When(Get(kvp, "RESOLVE", "", "none") \notin ResolveValues, Crash),
              ParsedBy(kvp, "RESOLVEDEPTH", "", Invalid("resolveDepth")),
              ParsedBy(kvp, "RESOLVETIMEOUT", "", Invalid("resolveTimeout")),
              ParsedBy(kvp, "COUNT", "MAXFEATURES", Invalid("count")),
              When(Get(kvp, "RESULTTYPE", "", "results") \notin ResultTypes, Crash),
              ParsedBy(kvp, "STARTINDEX", "", Invalid("startIndex")),
              When(operation = "GetPropertyValue", Required(kvp, "VALUEREFERENCE", "")),
              PropertyValueFault(operation, Get(kvp, "RESOLVEPATH", "", None),
                                 Len(SplitParameterLists(params)))>>)

TypeNamesGiven(kvp) == {"TYPENAMES", "TYPENAME"} \cap DOMAIN kvp # {}
KvpFault(operation, params, ns) ==
    LET kvp == Whole(params)
        both == Get(kvp, "VERSION", "", None) # None /\ Get(kvp, "ACCEPTVERSIONS", "", None) # None
    IN  FirstFault(<<Required(kvp, "SERVICE", ""),   \* resolve_kvp_parser_class()
          CASE operation = "GetCapabilities" -> When(both, Invalid("AcceptVersions"))
            [] operation = "DescribeFeatureType" ->
                 FirstFault(<<When(TypeNamesGiven(kvp), Required(kvp, "TYPENAMES", "TYPENAME"))>>
                    \o BaseKvpFaults(kvp) \o
                    <<When(SomeUnresolvable(Get(kvp, "TYPENAMES", "TYPENAME", <<>>), ns), Crash)>>)
            [] operation \in DataOperations -> DataKvpFault(operation, params, ns)
            [] OTHER -> FirstFault(BaseKvpFaults(kvp))>>)

DataFromKvp(base, params, ns) ==
    LET kvp == Whole(params)
    IN  [base EXCEPT !.queries = QueriesFromKvp(params, ns),
                     !.count = Get(kvp, "COUNT", "MAXFEATURES", None),
                     !.startIndex = Get(kvp, "STARTINDEX", "", 0),
                     !.outputFormat = Get(kvp, "OUTPUTFORMAT", "", GML),
                     !.resultType = Get(kvp, "RESULTTYPE", "", "results"),
                     !.valueReference = IF base.operation = "GetPropertyValue"
                                        THEN XPath(Get(kvp, "VALUEREFERENCE", "", None), ns) ELSE None]

RequestFromKvp(operation, params, ns) ==
    LET kvp == Whole(params)
        base == [NoRequest EXCEPT !.operation = operation, !.service = kvp["SERVICE"],
                                  !.version = Get(kvp, "VERSION", "", None)]
    IN  CASE operation = "GetCapabilities" ->
               [base EXCEPT !.acceptVersions = Get(kvp, "ACCEPTVERSIONS", "", None),
                            !.acceptFormats = Get(kvp, "ACCEPTFORMATS", "", <<>>)]
          [] operation = "DescribeFeatureType" ->
               [base EXCEPT !.outputFormat = Get(kvp, "OUTPUTFORMAT", "", "xmlschema"),
                            !.typeNames = IF TypeNamesGiven(kvp)
                                          THEN ParseQNames(Get(kvp, "TYPENAMES", "TYPENAME", <<>>), ns)
                                          ELSE None]
          [] operation = "DescribeStoredQueries" ->
               [base EXCEPT !.storedQueryId = Get(kvp, "STOREDQUERY_ID", "", None)]
          [] operation \in DataOperations -> DataFromKvp(base, params, ns)
          [] OTHER -> base

-----------------------------------------------------------------------------
(* XML documents.  A document has the namespace and name of its root, the  *)
(* attributes that are given, the declared prefixes and the children.      *)
(* Only errors that are OWSExceptions are reports: a missing attribute and *)
(* an element in the wrong place are an ExternalParsingError.              *)

Attribute(e, name, default) == IF name \in DOMAIN e.attrs THEN e.attrs[name] ELSE default
RequiredAttribute(e, name) == When(name \notin DOMAIN e.attrs, Crash)
IntAttribute(e, name) == When(Attribute(e, name, 0) = Garbage, Invalid(name))
Members(e, name, members) == When(name \in DOMAIN e.attrs /\ e.attrs[name] \notin members, Crash)
XmlNamespaces(doc) == doc.namespaces @@ LocalAliases

(* resolve_xml_parser_class(): WFS 1 is known for GetCapabilities only.    *)
RootFault(doc) ==
    When(doc.ns # "wfs20" /\ ~(doc.ns = "wfs1" /\ doc.operation = "GetCapabilities"), UnknownElement)

(* QueryExpression.child_from_xml(): registered elements that are no query *)
(* are InvalidXmlElement, others XmlElementNotSupported.                   *)
AdhocXmlFault(q, ns) ==
    LET names == Attribute(q, "typeNames", <<>>)
    IN  FirstFault(<<RequiredAttribute(q, "typeNames"),
                     When(SomeUnresolvable(names, ns), Crash),
                     When(q.filter = Garbage, UnknownElement),
                     When(Attribute(q, "srsName", None) = Garbage, Crash),
                     JoinFault(names, Attribute(q, "aliases", None))>>)
StoredXmlFault(q) ==
    FirstFault(<<RequiredAttribute(q, "id"),
                 When(Attribute(q, "id", None) \notin DOMAIN StoredQueries, Invalid("STOREDQUERY_ID")),
                 IF Attribute(q, "id", None) \in DOMAIN StoredQueries
                 THEN ParametersFault(q.attrs["id"], q.parameters) ELSE None>>)
QueryXmlFault(q, ns) ==
    CASE q.tag = "Query" -> AdhocXmlFault(q, ns)
      [] q.tag = "StoredQuery" -> StoredXmlFault(q)
      [] q.tag = Garbage -> UnknownElement
      [] OTHER -> Crash

AdhocFromXml(q, ns) ==
    LET srs == Attribute(q, "srsName", None)
    IN  [stored |-> None, parameters |-> None, typeNames |-> ParseQNames(q.attrs["typeNames"], ns),
         srsName |-> IF srs = None THEN None ELSE Crs(srs),
         properties |-> XPaths(q.properties, ns),
         filter |-> IF q.filter = None THEN None ELSE <<"filter", q.filter>>,
         sortBy |-> XPaths(q.sortBy, ns)]
QueryFromXml(q, ns) ==
    IF q.tag = "StoredQuery" THEN StoredQuery(q.attrs["id"], q.parameters, ns) ELSE AdhocFromXml(q, ns)

BaseXmlFaults(doc) == <<RequiredAttribute(doc, "service"), RequiredAttribute(doc, "version")>>
DataXmlFault(doc) ==
    FirstFault(BaseXmlFaults(doc) \o
        <<FirstFault([i \in DOMAIN doc.children |-> QueryXmlFault(doc.children[i], XmlNamespaces(doc))]),
          Members(doc, "resolve", ResolveValues),
          When(Attribute(doc, "resolveDepth", None) = Garbage, Invalid("resolveDepth")),
          IntAttribute(doc, "resolveTimeout"), IntAttribute(doc, "count"),
          Members(doc, "resultType", ResultTypes), IntAttribute(doc, "startIndex"),
          When(doc.operation = "GetPropertyValue", RequiredAttribute(doc, "valueReference")),
          PropertyValueFault(doc.operation, Attribute(doc, "resolvePath", None), Len(doc.children))>>)

EmptyChild(doc) == \E i \in DOMAIN doc.children : doc.children[i] = Empty
XmlFault(doc) ==
    FirstFault(<<RootFault(doc),
      CASE doc.operation = "GetCapabilities" ->
             FirstFault(<<RequiredAttribute(doc, "service"),
                          When("version" \in DOMAIN doc.attrs /\ doc.children # <<>>,
                               Invalid("AcceptVersions"))>>)
        [] doc.operation = "DescribeFeatureType" ->
             FirstFault(<<When(EmptyChild(doc), Missing("TypeName"))>> \o BaseXmlFaults(doc) \o
                <<When(~EmptyChild(doc) /\ SomeUnresolvable(doc.children, XmlNamespaces(doc)), Crash)>>)
        [] doc.operation = "ListStoredQueries" ->
             FirstFault(<<When(doc.children # <<>>, Crash)>> \o BaseXmlFaults(doc))
        [] doc.operation = "DescribeStoredQueries" ->
             FirstFault(<<When(EmptyChild(doc), Missing("StoredQuery"))>> \o BaseXmlFaults(doc))
        [] OTHER -> DataXmlFault(doc)>>)

RequestFromXml(doc) ==
    LET ns == XmlNamespaces(doc)
        base == [NoRequest EXCEPT !.operation = doc.operation, !.service = doc.attrs["service"],
                     !.version = Attribute(doc, "version", None),
                     !.handle = Attribute(doc, "handle", None)]
        given == IF doc.children = <<>> THEN None ELSE doc.children
    IN  CASE doc.operation = "GetCapabilities" -> [base EXCEPT !.acceptVersions = given]
          [] doc.operation = "DescribeFeatureType" ->
               [base EXCEPT !.outputFormat = Attribute(doc, "outputFormat", "xmlschema"),
                            !.typeNames = IF given = None THEN None ELSE ParseQNames(given, ns)]
          [] doc.operation = "DescribeStoredQueries" -> [base EXCEPT !.storedQueryId = given]
          [] doc.operation \in DataOperations ->
               [base EXCEPT !.queries = [i \in DOMAIN doc.children |-> QueryFromXml(doc.children[i], ns)],
                            !.count = Attribute(doc, "count", None),
                            !.startIndex = Attribute(doc, "startIndex", 0),
                            !.outputFormat = Attribute(doc, "outputFormat", GML),
                            !.resultType = Attribute(doc, "resultType", "results"),
                            !.valueReference = IF doc.operation = "GetPropertyValue"
                                               THEN XPath(doc.attrs["valueReference"], ns) ELSE None]
          [] OTHER -> base

-----------------------------------------------------------------------------
(* as_kvp(): a request as parameters; their names are spelled as the       *)
(* definitions and the stored query spell them.  A QName that has a        *)
(* namespace is written in Clark notation; an XPath as it was written,     *)
(* without what the document declared; and a value as str() makes it.      *)

Entry(name, group) == [name |-> name, spelled |-> name, value |-> <<group>>]
EntryIf(condition, name, group) == IF condition THEN <<Entry(name, group)>> ELSE <<>>
ClarkName(name) == <<IF name[1] = "" THEN "" ELSE "{", name[2]>>

Untranslatable(request) ==
    \/ Len(request.queries) > 1
    \/ \E i \in DOMAIN request.queries : request.queries[i].filter # None

(* Mutant: AdhocQuery does not call as_kvp() of its base class.            *)
QueryAsKvp_NoProjection(q) ==
    IF q.stored = None
    THEN <<Entry("TYPENAMES", [i \in DOMAIN q.typeNames |-> ClarkName(q.typeNames[i])])>> \o
         EntryIf(q.srsName # None, "SRSNAME", CrsText(q.srsName)) \o
         EntryIf(q.sortBy # <<>>, "SORTBY", Texts(q.sortBy))
    ELSE <<Entry("STOREDQUERY_ID", q.stored)>> \o
         SetToSeq({Entry(p, Str(q.parameters[p])) : p \in DOMAIN q.parameters})
QueryAsKvp(q) ==
    EntryIf(q.properties # <<>>, "PROPERTYNAME", Texts(q.properties)) \o
    (IF q.stored = None
     THEN <<Entry("TYPENAMES", [i \in DOMAIN q.typeNames |-> ClarkName(q.typeNames[i])])>> \o
          EntryIf(q.srsName # None, "SRSNAME", CrsText(q.srsName)) \o
          EntryIf(q.sortBy # <<>>, "SORTBY", Texts(q.sortBy))
     ELSE <<Entry("STOREDQUERY_ID", q.stored)>> \o
          SetToSeq({Entry(p, Str(q.parameters[p])) : p \in DOMAIN q.parameters}))

AsKvp(request) ==
    <<Entry("SERVICE", request.service), Entry("VERSION", request.version),
      Entry("REQUEST", request.operation)>> \o
    QueryAsKvp(request.queries[1]) \o
    EntryIf(request.outputFormat # GML, "OUTPUTFORMAT", request.outputFormat) \o
    EntryIf(request.resultType # "results", "RESULTTYPE", request.resultType) \o
    EntryIf(request.startIndex # 0, "STARTINDEX", request.startIndex) \o
    EntryIf(request.count # None, "COUNT", request.count) \o
    EntryIf(request.valueReference # None, "VALUEREFERENCE", Text(request.valueReference))

(* QueryDict.update() finds the same spelling only; _replace_url_params()  *)
(* replaces whatever the spelling, but only the first of a name.           *)
Updated(query, entries) ==
    LET Latest(i) == {j \in DOMAIN entries : entries[j].spelled = query[i].spelled}
        new == {j \in DOMAIN entries : \A i \in DOMAIN query : query[i].spelled # entries[j].spelled}
    IN  [i \in DOMAIN query |-> IF Latest(i) = {} THEN query[i] ELSE entries[CHOOSE j \in Latest(i) : TRUE]]
        \o [k \in 1 .. Cardinality(new) |->
              entries[CHOOSE j \in new : Cardinality({i \in new : i <= j}) = k]]
Replaced(query, updates) ==
    LET First(i) == \A j \in 1 .. i - 1 : query[j].name # query[i].name
    IN  [i \in DOMAIN query |->
            IF query[i].name \in DOMAIN updates /\ First(i)
            THEN [query[i] EXCEPT !.value = <<updates[query[i].name]>>] ELSE query[i]]
        \o SetToSeq({Entry(n, updates[n]) : n \in DOMAIN updates \ KvpNames(query)})
=============================================================================
