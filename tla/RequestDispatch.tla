-------------------------- MODULE RequestDispatch --------------------------
(***************************************************************************)
(* One WFS view and the client that uses it: the request arrives as a URL  *)
(* or as XML, its service and version are read, its operation found, the   *)
(* request parsed, validated and processed; any step may raise instead.    *)
(* The client opens the next link of an answer until there is none, and    *)
(* sends its next request.  A view object serves one request only.         *)
(*                                                                         *)
(* "meant" is what the client wants to say, or None if its request says    *)
(* nothing.  What a page holds is the business of GetFeaturePaging: here   *)
(* it is the number of features a query finds.                             *)
(***************************************************************************)
EXTENDS RequestParsing

CONSTANTS
    Requests,        \* what clients send: [method, query, doc, meant]
    Operations,      \* accept_operations of WFS
    AcceptVersions, DefaultVersion,
    UseHtml,         \* use_html_templates
    AppUri, OgcUris, \* the namespace of the view; those of OGC
    Types,           \* [local name -> [crs : SUBSET CRS, denied : BOOLEAN, size : Nat]]
    Formats,         \* [operation -> SUBSET formats]
    ValueReferences, \* <<uri, name>> of the elements that every type has
    MaxPageSize

(* A request is a list of parameters or a document with a list of children.*)
(* A parameter has a list of groups; those that select features say        *)
(* something or are Empty.  A handle is a text.                            *)
Selective == {"FILTER", "BBOX", "RESOURCEID"}
IsList(s) == s \in Seq(Range(s))
IsEntry(e) == DOMAIN e = {"name", "spelled", "value"}
WellWritten(e) ==
    /\ IsEntry(e) /\ IsList(e.value) /\ Len(e.value) > 0
    /\ e.name \in Selective => Range(e.value) \intersect {None, <<>>} = {}
IsWritten(query) == IsList(query) /\ \A i \in DOMAIN query : WellWritten(query[i])

ASSUME VersionsAssumption ==
    AcceptVersions \subseteq Nat /\ IsFiniteSet(AcceptVersions) /\ DefaultVersion \in AcceptVersions
ASSUME RequestsAssumption ==
    \A r \in Requests :
        /\ IsWritten(r.query)
        /\ r.method # "GET" /\ r.doc # Garbage =>
              IsList(r.doc.children) /\ ("handle" \in DOMAIN r.doc.attrs => r.doc.attrs["handle"] # None)

VARIABLES
    http,      \* the HTTP request: [method, query, doc]
    kvp,       \* view.kvp.params
    meant,
    phase,     \* how far it has come
    version,   \* view.version
    request,   \* view.ows_request
    answer     \* [kind, fault, version, next]
vars == <<http, kvp, meant, phase, version, request, answer>>

NotAnswered == [kind |-> "none", fault |-> None, version |-> None, next |-> None]

Init ==
    /\ http = None /\ kvp = None /\ meant = None /\ phase = "idle"
    /\ version = DefaultVersion /\ request = None /\ answer = NotAnswered

-----------------------------------------------------------------------------
(* get() and post(): input, service and version, operation.                *)

IsGet == http.method = "GET"
Kvp == Whole(kvp)
Services == {"WFS", "wfs"}

Service == IF IsGet THEN Get(Kvp, "SERVICE", "", "WFS") ELSE Attribute(http.doc, "service", "WFS")
AskedVersion ==
    IF IsGet THEN Get(Kvp, "VERSION", "", None) ELSE Attribute(http.doc, "version", None)

(* Mutant: any well-formed version is accepted.                            *)
SetVersionFault_Unchecked(asked) ==
    FirstFault(<<When(Service \notin Services, Invalid("service")),
                 When(asked = Garbage, <<"SuspiciousOperation", None>>)>>)
SetVersionFault(asked) ==
    FirstFault(<<When(Service \notin Services, Invalid("service")),
                 When(asked = Garbage, <<"SuspiciousOperation", None>>),
                 When(asked \notin AcceptVersions \cup {None, Empty}, Invalid("version"))>>)
SetVersion(asked) == IF asked \in {None, Empty} THEN version ELSE asked
ReadFault ==
    IF IsGet THEN NamespacesFault(Whole(KvpParams(http.query)))
    ELSE When(http.doc = Garbage, ParsingFailed(None))

IsIndexRequest ==
    /\ IsGet /\ Len(http.query) < 2
    /\ {"REQUEST", "SERVICE", "VERSION", "ACCEPTVERSIONS"} \cap KvpNames(http.query) = {}

Operation == IF IsGet THEN Get(Kvp, "REQUEST", "", None) ELSE http.doc.operation
OperationFault ==
    FirstFault(<<When(IsGet, Required(Kvp, "REQUEST", "")),
                 When(Operation \notin Operations, NotSupported("request"))>>)
ParseFault ==
    IF IsGet THEN KvpFault(Operation, kvp, KvpNamespaces(Kvp)) ELSE XmlFault(http.doc)
Parsed ==
    IF IsGet THEN RequestFromKvp(Operation, kvp, KvpNamespaces(Kvp))
    ELSE RequestFromXml(http.doc)

-----------------------------------------------------------------------------
(* validate_request().                                                     *)

(* fix_type_name() and resolve_feature_type().                             *)
Fixed(name) == IF name[1] \in OgcUris \cup {""} THEN <<AppUri, name[2]>> ELSE name
Known(name) == Fixed(name)[1] = AppUri /\ name[2] \in DOMAIN Types
TypeFault(names, locator) == When(\E n \in Range(names) : ~Known(n), Invalid(locator))
FormatFault(formats, locator) ==
    When(\E f \in formats : f \notin Formats[request.operation], Invalid(locator))

Negotiable == Range(request.acceptVersions) \cap AcceptVersions
Negotiated ==
    IF request.operation = "GetCapabilities" /\ request.acceptVersions # None /\ Negotiable # {}
    THEN Max(Negotiable) ELSE version

(* Which types a query asks for: its names, its identifiers, or what the   *)
(* identifier of GetFeatureById names; <<None, id>> has no dot, no name,   *)
(* and a prefix that is not known is an error here.                        *)
HasIds(q) == q.stored = None /\ q.filter # None /\ q.filter[1] = "ids"
(* Mutant: identifiers name no types.                                      *)
GetTypeNames_Given(q) == q.typeNames
GetTypeNames(q) == IF q.typeNames = <<>> /\ HasIds(q) THEN q.filter[2] ELSE q.typeNames
ImplementationFault(q) ==
    When(q.stored # None,
         FirstFault(<<When(q.parameters["ID"][1] = None, <<"NotFound", "ID">>),
                      When(q.typeNames = <<>>, Crash)>>))
QueryTypes(q) == {Types[n[2]] : n \in Range(GetTypeNames(q))}

BindFault(q) ==
    IF ImplementationFault(q) # None THEN ImplementationFault(q)
    ELSE LET unknown == TypeFault(GetTypeNames(q), IF HasIds(q) THEN "resourceId" ELSE "typeNames")
         IN  IF unknown # None THEN unknown
             ELSE IF GetTypeNames(q) = <<>> THEN When(q.srsName # None, Crash)
             ELSE FirstFault(<<When(q.srsName # None /\ q.srsName[1] \notin Types[Head(GetTypeNames(q))[2]].crs,
                                    Invalid("srsName")),
                               When(\E t \in QueryTypes(q) : t.denied, <<"Denied", "typeNames">>)>>)

ValidateFault ==
    CASE request.operation = "GetCapabilities" ->
           FirstFault(<<When(request.acceptVersions # None /\ Negotiable = {},
                             <<"VersionNegotiationFailed", "acceptversions">>),
                        FormatFault(Range(request.acceptFormats), "AcceptFormats")>>)
      [] request.operation = "DescribeFeatureType" ->
           FirstFault(<<When(request.typeNames # None, TypeFault(request.typeNames, "typeNames")),
                        FormatFault({request.outputFormat}, "outputFormat")>>)
      [] request.operation = "DescribeStoredQueries" ->
           When(request.storedQueryId # None
                /\ \E id \in Range(request.storedQueryId) : id \notin DOMAIN StoredQueries,
                Invalid("STOREDQUERY_ID"))
      [] request.operation \in DataOperations ->
           FirstFault(<<FormatFault({request.outputFormat}, "outputFormat"),
                        FirstFault([i \in DOMAIN request.queries |-> BindFault(request.queries[i])])>>)
      [] OTHER -> None

-----------------------------------------------------------------------------
(* process_request(): pages and links.                                     *)

Matched(q) ==
    IF q.stored # None THEN 1
    ELSE IF HasIds(q) THEN Len(q.filter[2]) ELSE Types[Head(q.typeNames)[2]].size

Hits == request.resultType = "hits"
Start == Max({0, request.startIndex})
Count ==
    Min({MaxPageSize, IF request.count \notin {None, 0} THEN request.count
                      ELSE IF Hits THEN 0 ELSE MaxPageSize})
(* Mutant: the page ends at its size, wherever it starts.                  *)
Stop_FromZero == Count
Stop == Start + Count
HasNext(q) ==
    /\ ~(Start = 0 /\ Stop = 0)
    /\ IF Hits THEN Stop <= Matched(q) ELSE Stop < Matched(q)

(* An XPath is resolved by the type of its query: an unknown prefix is an  *)
(* error of parsing, an unknown element one of the parameter.              *)
Locator(q) ==
    IF q.stored # None THEN "STOREDQUERY_ID" ELSE IF HasIds(q) THEN "resourceId" ELSE "filter"
Element(xpath) == <<IF xpath.uri = "" THEN AppUri ELSE xpath.uri, xpath.name>>
XPathFault(xpath, q, locator) ==
    FirstFault(<<When(xpath.uri = None, <<"OperationParsingFailed", Locator(q)>>),
                 When(Element(xpath) \notin ValueReferences, Invalid(locator))>>)
XPathsFault(xpaths, q) == FirstFault([i \in DOMAIN xpaths |-> XPathFault(xpaths[i], q, Locator(q))])

(* get_queryset(): joins are found late.                                   *)
QueryFault(q) ==
    FirstFault(<<When(Cardinality(QueryTypes(q)) > 1, NotSupported("typeNames")),
                 When(GetTypeNames(q) = <<>>, Crash),
                 XPathsFault(q.sortBy, q),
                 When(q.filter = <<"filter", "unbuildable">>, <<"OperationProcessingFailed", "filter">>),
                 XPathsFault(q.properties, q),
                 IF request.valueReference = None THEN None
                 ELSE XPathFault(request.valueReference, q, "valueReference")>>)

(* A slice with a negative end is a ValueError.                            *)
ProcessFault ==
    CASE request.operation = "GetCapabilities" -> When(request.service # "WFS", Crash)
      [] request.operation \in DataOperations ->
           FirstFault(<<FirstFault([i \in DOMAIN request.queries |-> QueryFault(request.queries[i])]),
                        When(~Hits /\ Count < 0 /\ request.queries # <<>>, Crash)>>)
      [] OTHER -> None

NextUpdates == [n \in {"STARTINDEX", "COUNT"} |-> IF n = "COUNT" THEN Count ELSE Stop]
NextLink ==
    IF \/ request.operation \notin DataOperations
       \/ Hits /\ request.count \in {None, 0}
       \/ \A q \in Range(request.queries) : ~HasNext(q)
       \/ ~IsGet /\ Untranslatable(request)
    THEN None
    ELSE Replaced(IF IsGet THEN http.query ELSE Updated(http.query, AsKvp(request)), NextUpdates)

-----------------------------------------------------------------------------
(* Answers.  An error of the XML parser is one of the operation; the two   *)
(* failures a client can trace are reported with the handle it gave.       *)

(* Mutant: failures keep the parameter they were raised with.              *)
Located_Plain(fault) == IF fault = UnknownElement THEN NotSupported(None) ELSE fault
Located(fault) ==
    IF IsGet \/ phase \notin {"found", "parsed", "validated"} THEN fault
    ELSE CASE fault = UnknownElement -> NotSupported(Attribute(http.doc, "handle", None))
           [] fault[1] \in {"OperationParsingFailed", "OperationProcessingFailed"} ->
                IF request = None THEN Crash
                ELSE <<fault[1], IF request.handle # None THEN request.handle ELSE fault[2]>>
           [] OTHER -> fault
HandleException(fault) ==
    [kind |-> CASE fault[1] \in {"Exception", "SuspiciousOperation"} -> "error"
                [] fault[1] = "Denied" -> "forbidden"
                [] OTHER -> "report",
     fault |-> fault, version |-> version', next |-> None]

StepFault ==
    CASE phase = "received" -> ReadFault
      [] phase = "loaded" -> SetVersionFault(AskedVersion)
      [] phase = "read" -> IF UseHtml /\ IsIndexRequest THEN None ELSE OperationFault
      [] phase = "found" -> ParseFault
      [] phase = "parsed" -> ValidateFault
      [] phase = "validated" -> ProcessFault
      [] OTHER -> None

-----------------------------------------------------------------------------
Fresh ==
    /\ phase' = "received"
    /\ kvp' = None /\ version' = DefaultVersion /\ request' = None /\ answer' = NotAnswered
Send ==
    /\ phase = "idle"
    /\ \E r \in Requests :
          http' = [method |-> r.method, query |-> r.query, doc |-> r.doc] /\ meant' = r.meant
    /\ Fresh
Step(from, to) == phase = from /\ StepFault = None /\ phase' = to /\ UNCHANGED <<http, meant>>

Load ==
    /\ Step("received", "loaded")
    /\ kvp' = IF IsGet THEN KvpParams(http.query) ELSE None
    /\ UNCHANGED <<version, request, answer>>
ReadService ==
    /\ Step("loaded", "read")
    /\ version' = SetVersion(AskedVersion)
    /\ UNCHANGED <<kvp, request, answer>>
RenderIndex ==
    /\ phase = "read" /\ UseHtml /\ IsIndexRequest
    /\ phase' = "answered"
    /\ answer' = [NotAnswered EXCEPT !.kind = "index", !.version = version]
    /\ UNCHANGED <<http, kvp, meant, version, request>>
FindOperation ==
    /\ Step("read", "found") /\ ~(UseHtml /\ IsIndexRequest)
    /\ UNCHANGED <<kvp, version, request, answer>>
ParseRequest ==
    /\ Step("found", "parsed")
    /\ request' = Parsed
    /\ UNCHANGED <<kvp, version, answer>>
Validate ==
    /\ Step("parsed", "validated")
    /\ version' = Negotiated
    /\ UNCHANGED <<kvp, request, answer>>
Process ==
    /\ Step("validated", "answered")
    /\ answer' = [kind |-> "document", fault |-> None, version |-> version, next |-> NextLink]
    /\ UNCHANGED <<kvp, version, request>>
Refuse ==
    /\ StepFault # None
    /\ phase' = "answered"
    /\ version' = IF phase = "parsed" THEN Negotiated ELSE version
    /\ answer' = HandleException(Located(StepFault))
    /\ UNCHANGED <<http, kvp, meant, request>>

(* The next link repeats the request from where this page stopped; it is a *)
(* URL, and has no handle.                                                 *)
FollowNext ==
    /\ phase = "answered" /\ answer.next # None
    /\ http' = [method |-> "GET", query |-> answer.next, doc |-> None]
    /\ meant' = IF meant = None THEN None
                ELSE [meant EXCEPT !.startIndex = Stop, !.count = Count, !.handle = None]
    /\ Fresh
Leave ==
    /\ phase = "answered" /\ answer.next = None
    /\ phase' = "idle" /\ http' = None /\ kvp' = None /\ meant' = None
    /\ version' = DefaultVersion /\ request' = None /\ answer' = NotAnswered

Server ==
    \/ Load \/ ReadService \/ RenderIndex \/ FindOperation \/ ParseRequest \/ Validate \/ Process \/ Refuse
Client == FollowNext \/ Leave
Next == Send \/ Server \/ Client
Spec == Init /\ [][Next]_vars
PatientSpec == Spec /\ WF_vars(Server) /\ WF_vars(Client)

-----------------------------------------------------------------------------
(* Properties.                                                             *)

Phases == {"idle", "received", "loaded", "read", "found", "parsed", "validated", "answered"}

(* A view that has not parsed has no request, one that has not answered no *)
(* answer, and a link is only in a document.                               *)
TypeOK ==
    /\ phase \in Phases
    /\ version \in AcceptVersions
    /\ http = None <=> phase = "idle"
    /\ phase \in {"idle", "received", "loaded", "read", "found"} => request = None
    /\ phase \in {"parsed", "validated"} => request # None
    /\ answer.kind = "none" <=> phase # "answered"
    /\ answer.kind = "document" => request # None /\ answer.fault = None
    /\ answer.next # None => answer.kind = "document"

(* Whatever way a request is written, in capitals or not, grouped or not,  *)
(* with prefixes of its own, as XML, or by the server in a next link, it   *)
(* is parsed as what it means: both encodings have one meaning, and as_kvp *)
(* with _replace_url_params() translates between them.  An XPath means an  *)
(* element of a namespace: the prefixes that a document declares and a     *)
(* link leaves out must mean the same without a declaration.               *)
UnderstoodAsMeant ==
    meant # None /\ phase \in {"parsed", "validated", "answered"} => request = meant

(* A request that means something gets a document or a report, never an    *)
(* internal error, on every page of it.                                    *)
MeaningIsAnswered == meant # None => answer.kind # "error"

(* A next link is a request that this server parses.                       *)
NextLinkIsUnderstood ==
    answer.next # None =>
        LET params == KvpParams(answer.next)
        IN  KvpFault(request.operation, params, KvpNamespaces(Whole(params))) = None

(* No parameter that selects features is dropped: if a URL with FILTER,    *)
(* BBOX or RESOURCEID is answered, every query was restricted by each one. *)
Selects(name) ==
    CASE name = "FILTER" -> "filter" [] name = "BBOX" -> "bbox" [] name = "RESOURCEID" -> "ids"
NothingSelectiveIsIgnored ==
    answer.kind = "document" /\ IsGet /\ request.operation \in DataOperations =>
        \A p \in Selective \cap DOMAIN kvp, q \in Range(request.queries) :
            Empty \notin Range(kvp[p]) => q.filter # None /\ q.filter[1] = Selects(p)

(* A document that cannot be read or processed by its operation is         *)
(* reported with its handle, so that the client knows which one it was.    *)
OperationIsFound == SetVersionFault(AskedVersion) = None /\ OperationFault = None
HandleIsReported ==
    answer.kind = "report" /\ http.method = "POST" /\ http.doc # Garbage
        /\ (answer.fault[1] \in {"OperationParsingFailed", "OperationProcessingFailed"}
            \/ (OperationIsFound /\ XmlFault(http.doc) = UnknownElement))
        /\ "handle" \in DOMAIN http.doc.attrs =>
    answer.fault[2] = http.doc.attrs["handle"]

(* A client that follows the links comes to an end.                        *)
LastPageIsReached == phase = "received" ~> phase = "idle"
=============================================================================
