-------------------------- MODULE RequestMeaning --------------------------
(***************************************************************************)
(* What a client says is understood: when the first page of a request is   *)
(* read, without a fault, as what it means.  That every next page is, too, *)
(* is proved in RequestDispatchProofs, from these definitions; TLC         *)
(* evaluates them for the inputs of MCRequestDispatch.                     *)
(***************************************************************************)
EXTENDS RequestDispatch

(* The three tokens are no numbers, and garbage is not an absent value.    *)
TokensDiffer == {None, Empty, Garbage} \intersect Int = {} /\ Garbage \notin {None, Empty}

(* The page is told at most once.                                          *)
PageNames == {"STARTINDEX", "COUNT"}
OnePage(query) ==
    \A i, j \in DOMAIN query : query[i].name = query[j].name /\ query[i].name \in PageNames => i = j

(* A URL that is read, without a fault, as a request for m.                *)
Understood(params, ns, operation, m) ==
    /\ NamespacesFault(Whole(params)) = None
    /\ Get(Whole(params), "SERVICE", "", "WFS") \in Services
    /\ Get(Whole(params), "VERSION", "", None) \in AcceptVersions \union {None, Empty}
    /\ Required(Whole(params), "REQUEST", "") = None /\ operation \in Operations
    /\ KvpFault(operation, params, ns) = None
    /\ RequestFromKvp(operation, params, ns) = m
UrlNamespaces(query) == KvpNamespaces(Whole(KvpParams(query)))
UrlOperation(query) == Get(Whole(KvpParams(query)), "REQUEST", "", None)
UnderstoodUrl(query, m) ==
    /\ IsWritten(query) /\ OnePage(query)
    /\ Understood(KvpParams(query), UrlNamespaces(query), UrlOperation(query), m)

(* A document that is read, without a fault, as a request for m.           *)
UnderstoodDocument(doc, m) ==
    /\ doc # Garbage
    /\ Attribute(doc, "service", "WFS") \in Services
    /\ Attribute(doc, "version", None) \in AcceptVersions \union {None, Empty}
    /\ doc.operation \in Operations
    /\ XmlFault(doc) = None
    /\ RequestFromXml(doc) = m

-----------------------------------------------------------------------------
(* A request that as_kvp() can write: one query, without a filter, for a   *)
(* type without a namespace or for a registered query; its XPaths mean the *)
(* same to a URL that declares no prefixes, its coordinate system is read  *)
(* back from the notation that str() chooses, and str() of a parameter is  *)
(* the text it came from.                                                  *)

IsValue(v) == v \notin {None, Empty, Garbage}
IsReadBack(xpath) == xpath = XPath(Text(xpath), Aliases)
AreReadBack(xpaths) == xpaths # <<>> => IsValue(Texts(xpaths)) /\ xpaths = XPaths(Texts(xpaths), Aliases)
PlainFields(m) ==
    /\ m.operation \in DataOperations
    /\ m.service \in Services /\ m.version \in AcceptVersions
    /\ IsValue(m.service) /\ IsValue(m.operation)
    /\ m.outputFormat # GML => IsValue(m.outputFormat)
    /\ m.resultType \in ResultTypes /\ (m.resultType # "results" => IsValue(m.resultType))
    /\ m.startIndex \in Int /\ m.count \in Int \union {None}
    /\ IF m.operation = "GetPropertyValue"
       THEN IsValue(Text(m.valueReference)) /\ IsReadBack(m.valueReference)
       ELSE m.valueReference = None

AdhocQuery(names, srs, properties, sort) ==
    [stored |-> None, parameters |-> None, typeNames |-> names, srsName |-> srs,
     properties |-> properties, filter |-> None, sortBy |-> sort]
PlainAdhoc(q) ==
    /\ q = AdhocQuery(q.typeNames, q.srsName, q.properties, q.sortBy)
    /\ q.typeNames = <<<<"", q.typeNames[1][2]>>>> /\ IsValue(q.typeNames)
    /\ AreReadBack(q.properties) /\ Texts(q.properties) # <<Star>>
    /\ q.srsName # None => IsValue(CrsText(q.srsName)) /\ q.srsName = Crs(CrsText(q.srsName))
    /\ AreReadBack(q.sortBy)
PlainStored(q) ==
    /\ q = StoredQuery(q.stored, q.parameters, Aliases)
    /\ IsValue(q.stored) /\ q.stored \in DOMAIN StoredQueries
    /\ q.parameters = [p \in StoredQueries[q.stored] |-> q.parameters[p]]
    /\ \A p \in StoredQueries[q.stored] :
          IsValue(q.parameters[p]) /\ Str(q.parameters[p]) = q.parameters[p]
Plain(m) ==
    /\ PlainFields(m)
    /\ Len(m.queries) = 1 /\ m.queries = <<m.queries[1]>>
    /\ IF m.queries[1].stored = None THEN PlainAdhoc(m.queries[1]) ELSE PlainStored(m.queries[1])

(* The parameters of a registered query have names of their own.           *)
RequestNames == {"SERVICE", "VERSION", "REQUEST", "OUTPUTFORMAT", "RESULTTYPE", "STARTINDEX", "COUNT",
                 "VALUEREFERENCE", "NAMESPACES", "RESOLVE", "RESOLVEDEPTH", "RESOLVETIMEOUT", "MAXFEATURES",
                 "RESOLVEPATH"}
QueryNames == {"STOREDQUERY_ID", "TYPENAMES", "TYPENAME", "SRSNAME", "PROPERTYNAME", "SORTBY", "ALIASES",
               "FILTER", "FILTER_LANGUAGE", "BBOX", "RESOURCEID"}
ParametersAreNew ==
    \A id \in DOMAIN StoredQueries :
        IsFiniteSet(StoredQueries[id]) /\ StoredQueries[id] \intersect (RequestNames \union QueryNames) = {}

(* A name without a prefix has no namespace, or that of WFS.               *)
NoDefaultNamespace == "" \in DOMAIN Aliases => Aliases[""] = WfsUri

-----------------------------------------------------------------------------
(* What a client says is understood, when it says it first: its URL is     *)
(* read as what it means; its document, too, which comes without a query   *)
(* string, and as_kvp() can write it as a URL, if it has pages and a link. *)
Says(method, query, doc, m) ==
    /\ m.operation \in DataOperations => m.startIndex \in Int /\ m.count \in Int \union {None}
    /\ IF method = "GET" THEN UnderstoodUrl(query, m)
       ELSE /\ query = <<>> /\ UnderstoodDocument(doc, m)
            /\ m.operation \in DataOperations /\ ~Untranslatable(m) => Plain(m)
SaysWhatItMeans(r) == r.meant # None => Says(r.method, r.query, r.doc, r.meant)
FirstPagesAreUnderstood == \A r \in Requests : SaysWhatItMeans(r)

(* What it means can be answered: each query has a type, or identifiers    *)
(* that have one, or the identifier of a registered query says no type at  *)
(* all, which is reported as not found.                                    *)
AnswerableQuery(q) ==
    /\ IsList(q.properties) /\ IsList(q.sortBy)
    /\ \/ q.typeNames # <<>>
       \/ HasIds(q) /\ q.filter[2] # <<>>
       \/ q.stored # None /\ q.parameters["ID"][1] = None
Answerable(m) ==
    /\ m.operation = "GetCapabilities" => m.service = "WFS"
    /\ m.operation \in DataOperations =>
          /\ m.count \in Nat \union {None} /\ IsList(m.queries)
          /\ \A q \in Range(m.queries) : AnswerableQuery(q)
MeansSomethingAnswerable(r) == r.meant # None => Answerable(r.meant)
FirstPagesAreAnswerable == \A r \in Requests : MeansSomethingAnswerable(r)
=============================================================================
