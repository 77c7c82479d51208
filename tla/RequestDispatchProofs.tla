----------------------- MODULE RequestDispatchProofs -----------------------
(***************************************************************************)
(* Theorems about RequestDispatch, for any registry, feature types,        *)
(* versions and requests: what reaches an operation, what its answer       *)
(* respects of it, how a failure is told, and that each next link means    *)
(* the next page of its request.                                           *)
(***************************************************************************)
EXTENDS RequestMeaning, FiniteSetTheorems, SequenceTheorems, WellFoundedInduction, TLAPS

-----------------------------------------------------------------------------
(* The first check that raises, and the highest version.                   *)

Minimal(b, T) == \A c \in T : c \subseteq b => c = b

LEMMA SubsetsAreWellFounded ==
    ASSUME NEW S, IsFiniteSet(S), NEW T \in SUBSET SUBSET S, T # {}
    PROVE  \E b \in T : Minimal(b, T)
<1>. DEFINE Smaller == StrictSubsetOrdering(S)
<1>1. IsWellFoundedOn(Smaller, SUBSET S)
  <2>1. FiniteSubsetsOf(S) = SUBSET S
    BY FS_FiniteSubsetsOfFinite
  <2>. QED
    BY <2>1, FS_StrictSubsetOrderingWellFounded
<1>2. PICK b \in T : \A c \in T : <<c, b>> \notin Smaller
  <2>. HIDE DEF Smaller
  <2>. QED
    BY <1>1, WFMin
<1>3. ASSUME NEW c \in T, c \subseteq b, c # b PROVE <<c, b>> \in Smaller
  BY <1>3 DEF StrictSubsetOrdering
<1>4. Minimal(b, T)
  <2>. HIDE DEF Smaller
  <2>. QED
    BY <1>2, <1>3 DEF Minimal
<1>. QED
  BY <1>4

LEMMA MinIsLeast ==
    ASSUME NEW S, S \subseteq Int, IsFiniteSet(S), S # {}
    PROVE  Min(S) \in S /\ \A i \in S : Min(S) <= i
<1>. DEFINE Below(x) == {y \in S : y <= x}
            All == {Below(x) : x \in S}
<1>1. PICK b \in All : Minimal(b, All)
  <2>1. All \in SUBSET SUBSET S /\ All # {}
    OBVIOUS
  <2>. HIDE DEF All
  <2>. QED
    BY <2>1, SubsetsAreWellFounded
<1>2. PICK x \in S : b = Below(x)
  OBVIOUS
<1>3. ASSUME NEW y \in S, ~(x <= y) PROVE FALSE
  <2>1. Below(y) \in All
    OBVIOUS
  <2>2. \A z \in Below(y) : z \in Below(x)
    BY <1>3
  <2>3. x \in Below(x) /\ x \notin Below(y)
    BY <1>3
  <2>4. Minimal(Below(x), All)
    BY <1>1, <1>2
  <2>. HIDE DEF All, Below
  <2>. QED
    BY <2>1, <2>2, <2>3, <2>4 DEF Minimal
<1>. QED
  BY <1>3 DEF Min

LEMMA MaxIsGreatest ==
    ASSUME NEW S, S \subseteq Int, IsFiniteSet(S), S # {}
    PROVE  Max(S) \in S /\ \A i \in S : i <= Max(S)
<1>. DEFINE Above(x) == {y \in S : x <= y}
            All == {Above(x) : x \in S}
<1>1. PICK b \in All : Minimal(b, All)
  <2>1. All \in SUBSET SUBSET S /\ All # {}
    OBVIOUS
  <2>. HIDE DEF All
  <2>. QED
    BY <2>1, SubsetsAreWellFounded
<1>2. PICK x \in S : b = Above(x)
  OBVIOUS
<1>3. ASSUME NEW y \in S, ~(y <= x) PROVE FALSE
  <2>1. Above(y) \in All
    OBVIOUS
  <2>2. \A z \in Above(y) : z \in Above(x)
    BY <1>3
  <2>3. x \in Above(x) /\ x \notin Above(y)
    BY <1>3
  <2>4. Minimal(Above(x), All)
    BY <1>1, <1>2
  <2>. HIDE DEF All, Above
  <2>. QED
    BY <2>1, <2>2, <2>3, <2>4 DEF Minimal
<1>4. \A i \in S : x >= i
  BY <1>3
<1>. QED
  BY <1>4 DEF Max

LEMMA FirstFaultIsFirst == ASSUME NEW checks PROVE FirstFault(checks) = FirstOf(checks)
BY DEF FirstFault

(* If no fault is found, no check raises; and the fault that is found is   *)
(* that of a check whose predecessors do not raise.                        *)
LEMMA NothingRaised ==
    ASSUME NEW checks, NEW n \in Nat, DOMAIN checks = 1..n, FirstFault(checks) = None
    PROVE  \A i \in 1..n : checks[i] = None
<1>. DEFINE raised == {i \in 1..n : checks[i] # None}
<1>1. raised # {} => Min(raised) \in raised
  <2>1. raised \subseteq Int /\ IsFiniteSet(raised)
    BY FS_Interval, FS_Subset
  <2>. QED
    BY <2>1, MinIsLeast
<1>2. raised = {}
  BY <1>1, FirstFaultIsFirst DEF FirstOf
<1>. QED
  BY <1>2

LEMMA FaultIsRaised ==
    ASSUME NEW checks, NEW n \in Nat, DOMAIN checks = 1..n, FirstFault(checks) # None
    PROVE  \E i \in 1..n : /\ FirstFault(checks) = checks[i] /\ checks[i] # None
                           /\ \A j \in 1 .. i - 1 : checks[j] = None
<1>. DEFINE raised == {i \in 1..n : checks[i] # None}
<1>1. raised # {} /\ FirstFault(checks) = checks[Min(raised)]
  BY FirstFaultIsFirst DEF FirstOf
<1>2. Min(raised) \in raised /\ \A i \in raised : Min(raised) <= i
  <2>1. raised \subseteq Int /\ IsFiniteSet(raised)
    BY FS_Interval, FS_Subset
  <2>. HIDE DEF raised
  <2>. QED
    BY <1>1, <2>1, MinIsLeast
<1>3. \A j \in 1 .. Min(raised) - 1 : checks[j] = None
  BY <1>2
<1>. QED
  BY <1>1, <1>2, <1>3

(* ... in the lists that the code amounts to.                              *)
LEMMA NothingRaisedIn2 ==
    ASSUME NEW a, NEW b,
           FirstFault(<<a, b>>) = None
    PROVE  a = None /\ b = None
<1>. DEFINE s == <<a, b>>
<1>1. DOMAIN s = 1..2 /\ 2 \in Nat /\ FirstFault(s) = None
  OBVIOUS
<1>2. \A k \in 1..2 : s[k] = None
  <2>. HIDE DEF s
  <2>. QED
    BY <1>1, NothingRaised
<1>3. s[1] = None /\ s[2] = None
  <2>. HIDE DEF s
  <2>. QED
    BY <1>2
<1>. QED
  BY <1>3

LEMMA NothingRaisedIn3 ==
    ASSUME NEW a, NEW b, NEW c,
           FirstFault(<<a, b, c>>) = None
    PROVE  a = None /\ b = None /\ c = None
<1>. DEFINE s == <<a, b, c>>
<1>1. DOMAIN s = 1..3 /\ 3 \in Nat /\ FirstFault(s) = None
  OBVIOUS
<1>2. \A k \in 1..3 : s[k] = None
  <2>. HIDE DEF s
  <2>. QED
    BY <1>1, NothingRaised
<1>3. s[1] = None /\ s[2] = None /\ s[3] = None
  <2>. HIDE DEF s
  <2>. QED
    BY <1>2
<1>. QED
  BY <1>3

LEMMA NothingRaisedIn6 ==
    ASSUME NEW a, NEW b, NEW c, NEW d, NEW e, NEW f,
           FirstFault(<<a, b, c, d, e, f>>) = None
    PROVE  a = None /\ b = None /\ c = None /\ d = None /\ e = None /\ f = None
<1>. DEFINE s == <<a, b, c, d, e, f>>
<1>1. DOMAIN s = 1..6 /\ 6 \in Nat /\ FirstFault(s) = None
  OBVIOUS
<1>2. \A k \in 1..6 : s[k] = None
  <2>. HIDE DEF s
  <2>. QED
    BY <1>1, NothingRaised
<1>3. s[1] = None /\ s[2] = None /\ s[3] = None /\ s[4] = None /\ s[5] = None /\ s[6] = None
  <2>. HIDE DEF s
  <2>. QED
    BY <1>2
<1>. QED
  BY <1>3

LEMMA NothingRaisedIn11 ==
    ASSUME NEW a, NEW b, NEW c, NEW d, NEW e, NEW f, NEW g, NEW h, NEW i, NEW j, NEW l,
           FirstFault(<<a>> \o <<b, c>> \o <<d, e, f, g, h, i, j, l>>) = None
    PROVE  /\ a = None /\ b = None /\ c = None /\ d = None /\ e = None /\ f = None
           /\ g = None /\ h = None /\ i = None /\ j = None /\ l = None
<1>. DEFINE s == <<a>> \o <<b, c>> \o <<d, e, f, g, h, i, j, l>>
<1>1. DOMAIN s = 1..11 /\ 11 \in Nat /\ FirstFault(s) = None
  OBVIOUS
<1>2. \A k \in 1..11 : s[k] = None
  <2>. HIDE DEF s
  <2>. QED
    BY <1>1, NothingRaised
<1>3. s[1] = None /\ s[2] = None /\ s[3] = None /\ s[4] = None /\ s[5] = None /\ s[6] = None /\ s[7] = None /\ s[8] = None /\ s[9] = None /\ s[10] = None /\ s[11] = None
  <2>. HIDE DEF s
  <2>. QED
    BY <1>2
<1>. QED
  BY <1>3

LEMMA RaisedIn2 ==
    ASSUME NEW a, NEW b, FirstFault(<<a, b>>) # None
    PROVE  FirstFault(<<a, b>>) \in {a, b}
<1>. DEFINE s == <<a, b>>
<1>1. DOMAIN s = 1..2 /\ 2 \in Nat /\ FirstFault(s) # None
  OBVIOUS
<1>2. FirstFault(s) = s[1] \/ FirstFault(s) = s[2]
  <2>. HIDE DEF s
  <2>. QED
    BY <1>1, FaultIsRaised
<1>. QED
  BY <1>2

LEMMA RaisedIn3 ==
    ASSUME NEW a, NEW b, NEW c, FirstFault(<<a, b, c>>) # None
    PROVE  FirstFault(<<a, b, c>>) \in {a, b, c}
<1>. DEFINE s == <<a, b, c>>
<1>1. DOMAIN s = 1..3 /\ 3 \in Nat /\ FirstFault(s) # None
  OBVIOUS
<1>2. FirstFault(s) = s[1] \/ FirstFault(s) = s[2] \/ FirstFault(s) = s[3]
  <2>. HIDE DEF s
  <2>1. PICK i \in 1..3 : FirstFault(s) = s[i]
    BY <1>1, FaultIsRaised
  <2>. QED
    BY <2>1
<1>. QED
  BY <1>2

-----------------------------------------------------------------------------
(* None is neither a message, a parsed request, an XPath nor an exception. *)

NoneIsNoValue == DOMAIN None \intersect {"method", "operation", "prefix", 1} = {}

LEMMA FaultsAreNotNone ==
    ASSUME NoneIsNoValue
    PROVE  \A class, locator : <<class, locator>> # None
BY DEF NoneIsNoValue

LEMMA XPathsAreNotNone ==
    ASSUME NoneIsNoValue
    PROVE  \A text, ns : XPath(text, ns) # None
BY DEF NoneIsNoValue, XPath

LEMMA RequestsAreNotNone ==
    ASSUME NoneIsNoValue
    PROVE  /\ \A m, q, d : [method |-> m, query |-> q, doc |-> d] # None
           /\ \A r : "operation" \in DOMAIN r => r # None
BY DEF NoneIsNoValue

-----------------------------------------------------------------------------
(* Type correctness.                                                       *)

LEMMA RequestsHaveFields ==
    /\ \A operation, params, ns : "operation" \in DOMAIN RequestFromKvp(operation, params, ns)
    /\ \A doc : "operation" \in DOMAIN RequestFromXml(doc)
<1>1. "operation" \in DOMAIN NoRequest
  BY DEF NoRequest
<1>2. ASSUME NEW operation, NEW params, NEW ns
      PROVE  "operation" \in DOMAIN RequestFromKvp(operation, params, ns)
  BY <1>1 DEF RequestFromKvp, DataFromKvp
<1>3. ASSUME NEW doc PROVE "operation" \in DOMAIN RequestFromXml(doc)
  BY <1>1 DEF RequestFromXml
<1>. QED
  BY <1>2, <1>3

LEMMA AcceptedVersion ==
    ASSUME NoneIsNoValue, version \in AcceptVersions, NEW asked, SetVersionFault(asked) = None
    PROVE  SetVersion(asked) \in AcceptVersions
<1>2. When(asked \notin AcceptVersions \cup {None, Empty}, Invalid("version")) = None
  BY NothingRaisedIn3 DEF SetVersionFault
<1>3. asked \in AcceptVersions \cup {None, Empty}
  BY <1>2, FaultsAreNotNone DEF When, Invalid
<1>. QED
  BY <1>3 DEF SetVersion

LEMMA NegotiatedVersion ==
    ASSUME version \in AcceptVersions
    PROVE  Negotiated \in AcceptVersions
<1>1. ASSUME Negotiable # {} PROVE Max(Negotiable) \in AcceptVersions
  <2>1. Negotiable \subseteq AcceptVersions
    BY DEF Negotiable
  <2>2. Negotiable \subseteq Int
    BY <2>1, VersionsAssumption
  <2>3. IsFiniteSet(Negotiable)
    BY <2>1, VersionsAssumption, FS_Subset
  <2>. QED
    BY <1>1, <2>1, <2>2, <2>3, MaxIsGreatest
<1>. QED
  BY <1>1 DEF Negotiated

LEMMA InitTypes == Init => TypeOK
BY VersionsAssumption DEF Init, TypeOK, Phases, NotAnswered

LEMMA NextTypes ==
    ASSUME NoneIsNoValue, TypeOK, [Next]_vars
    PROVE  TypeOK'
<1>. USE DEF TypeOK, Phases
<1>1. CASE Send
  BY <1>1, RequestsAreNotNone, VersionsAssumption DEF Send, Fresh, NotAnswered
<1>2. CASE Load
  BY <1>2 DEF Load, Step
<1>3. CASE ReadService
  <2>1. phase = "loaded" /\ SetVersionFault(AskedVersion) = None
    BY <1>3 DEF ReadService, Step, StepFault
  <2>2. version' \in AcceptVersions
    BY <1>3, <2>1, AcceptedVersion DEF ReadService
  <2>. QED
    BY <1>3, <2>2 DEF ReadService, Step
<1>4. CASE RenderIndex
  BY <1>4 DEF RenderIndex, NotAnswered
<1>5. CASE FindOperation
  BY <1>5 DEF FindOperation, Step
<1>6. CASE ParseRequest
  <2>1. request' # None
    BY <1>6, RequestsHaveFields, RequestsAreNotNone DEF ParseRequest, Parsed
  <2>. QED
    BY <1>6, <2>1 DEF ParseRequest, Step
<1>7. CASE Validate
  BY <1>7, NegotiatedVersion DEF Validate, Step
<1>8. CASE Process
  BY <1>8 DEF Process, Step
<1>9. CASE Refuse
  <2>1. phase \notin {"idle", "answered"}
    BY <1>9 DEF Refuse, StepFault
  <2>2. version' \in AcceptVersions
    BY <1>9, NegotiatedVersion DEF Refuse
  <2>3. answer'.kind \in {"error", "forbidden", "report"} /\ answer'.next = None
    BY <1>9 DEF Refuse, HandleException
  <2>. QED
    BY <1>9, <2>1, <2>2, <2>3 DEF Refuse
<1>10. CASE FollowNext
  BY <1>10, RequestsAreNotNone, VersionsAssumption DEF FollowNext, Fresh, NotAnswered
<1>11. CASE Leave
  BY <1>11, VersionsAssumption DEF Leave, NotAnswered
<1>12. CASE UNCHANGED vars
  BY <1>12 DEF vars
<1>. QED
  BY <1>1, <1>2, <1>3, <1>4, <1>5, <1>6, <1>7, <1>8, <1>9, <1>10, <1>11, <1>12
     DEF Next, Server, Client

(* A view serves in an accepted version in every phase, has a request from *)
(* when it parsed one, an answer exactly when it is done, and a link in    *)
(* documents only: for any versions, requests and configuration.           *)
THEOREM TypeCorrect == ASSUME NoneIsNoValue PROVE Spec => []TypeOK
BY InitTypes, NextTypes, PTL DEF Spec

-----------------------------------------------------------------------------
(* Handles.                                                                *)

(* What is known of a document on its way: it came from a client, and what *)
(* was parsed of it has no fault and its handle.                           *)
Posted == http # None /\ http.method = "POST" /\ http.doc # Garbage
Handled ==
    /\ Posted /\ "handle" \in DOMAIN http.doc.attrs => http.doc.attrs["handle"] # None
    /\ Posted /\ phase \in {"parsed", "validated"} =>
          XmlFault(http.doc) = None /\ request.handle = Attribute(http.doc, "handle", None)
HandleInv == TypeOK /\ Handled /\ HandleIsReported

LEMMA RequestHasItsHandle ==
    ASSUME NEW doc
    PROVE  RequestFromXml(doc).handle = Attribute(doc, "handle", None)
BY DEF RequestFromXml, NoRequest

LEMMA NoClassBeforeOperation ==
    ASSUME NoneIsNoValue, Posted, phase \in {"received", "loaded", "read"}, StepFault # None
    PROVE  /\ StepFault[1] \notin {"OperationParsingFailed", "OperationProcessingFailed"}
           /\ ~OperationIsFound
<1>1. ~IsGet
  BY DEF Posted, IsGet
<1>2. CASE phase = "received"
  BY <1>1, <1>2 DEF StepFault, ReadFault, When, Posted
<1>3. CASE phase = "loaded"
  <2>1. StepFault = SetVersionFault(AskedVersion)
    BY <1>3 DEF StepFault
  <2>2. StepFault \in {Invalid("service"), <<"SuspiciousOperation", None>>, Invalid("version")}
    <3>1. \A asked : SetVersionFault(asked) # None => SetVersionFault(asked) \in
             {When(Service \notin Services, Invalid("service")),
              When(asked = Garbage, <<"SuspiciousOperation", None>>),
              When(asked \notin AcceptVersions \cup {None, Empty}, Invalid("version"))}
      BY RaisedIn3 DEF SetVersionFault
    <3>. QED
      BY <2>1, <3>1 DEF When
  <2>. QED
    BY <2>1, <2>2 DEF Invalid, OperationIsFound
<1>4. CASE phase = "read"
  <2>1. StepFault = OperationFault
    BY <1>1, <1>4 DEF StepFault, IsIndexRequest
  <2>2. StepFault = NotSupported("request")
    <3>1. OperationFault \in {When(IsGet, Required(Kvp, "REQUEST", "")),
                              When(Operation \notin Operations, NotSupported("request"))}
      BY <2>1, RaisedIn2 DEF OperationFault
    <3>. QED
      BY <1>1, <2>1, <3>1 DEF When
  <2>. QED
    BY <2>1, <2>2 DEF NotSupported, OperationIsFound
<1>. QED
  BY <1>2, <1>3, <1>4

LEMMA SameOperation ==
    ASSUME http' = http, kvp' = kvp
    PROVE  OperationIsFound' <=> OperationIsFound
BY DEF OperationIsFound, SetVersionFault, OperationFault, Service, Operation, AskedVersion, IsGet, Kvp

LEMMA RefusalNamesHandle ==
    ASSUME NoneIsNoValue, HandleInv, Refuse
    PROVE  HandleIsReported'
<1>. SUFFICES ASSUME answer'.kind = "report", Posted, "handle" \in DOMAIN http.doc.attrs,
                     \/ answer'.fault[1] \in {"OperationParsingFailed", "OperationProcessingFailed"}
                     \/ OperationIsFound /\ XmlFault(http.doc) = UnknownElement
              PROVE  answer'.fault[2] = http.doc.attrs["handle"]
  <2>1. http' = http /\ kvp' = kvp
    BY DEF Refuse
  <2>2. OperationIsFound' <=> OperationIsFound
    BY <2>1, SameOperation
  <2>3. http # None
    BY DEF Refuse, StepFault, HandleInv, TypeOK
  <2>. QED
    BY <2>1, <2>2, <2>3 DEF HandleIsReported, Posted
<1>1. /\ answer'.fault = Located(StepFault) /\ StepFault # None
      /\ answer'.fault[1] \notin {"Exception", "SuspiciousOperation", "Denied"}
  BY DEF Refuse, HandleException
<1>2. ~IsGet /\ http.doc.attrs["handle"] # None
      /\ Attribute(http.doc, "handle", None) = http.doc.attrs["handle"]
  BY DEF Posted, IsGet, HandleInv, Handled, Attribute
<1>3. phase \in {"received", "loaded", "read", "found", "parsed", "validated"}
  BY <1>1 DEF StepFault
<1>4. phase \in {"found", "parsed", "validated"}
  <2>1. SUFFICES ASSUME phase \in {"received", "loaded", "read"} PROVE FALSE
    BY <1>3
  <2>2. Located(StepFault) = StepFault
    BY <2>1 DEF Located
  <2>. QED
    BY <1>1, <2>1, <2>2, NoClassBeforeOperation
<1>5. CASE StepFault = UnknownElement
  <2>1. Located(StepFault) = NotSupported(Attribute(http.doc, "handle", None))
    BY <1>2, <1>4, <1>5 DEF Located, UnknownElement
  <2>2. NotSupported(Attribute(http.doc, "handle", None))[2] = Attribute(http.doc, "handle", None)
    BY DEF NotSupported
  <2>. QED
    BY <1>1, <1>2, <2>1, <2>2
<1>6. CASE StepFault # UnknownElement
          /\ StepFault[1] \in {"OperationParsingFailed", "OperationProcessingFailed"}
  <2>1. request # None
    BY <1>1, <1>2, <1>4, <1>6 DEF Located, Crash
  <2>2. phase \in {"parsed", "validated"}
    BY <1>4, <2>1 DEF HandleInv, TypeOK
  <2>3. request.handle = http.doc.attrs["handle"]
    BY <1>2, <2>2 DEF HandleInv, Handled
  <2>. QED
    BY <1>1, <1>2, <1>4, <1>6, <2>1, <2>3 DEF Located
<1>7. CASE StepFault # UnknownElement
          /\ StepFault[1] \notin {"OperationParsingFailed", "OperationProcessingFailed"}
  <2>1. Located(StepFault) = StepFault
    BY <1>2, <1>4, <1>7 DEF Located
  <2>2. XmlFault(http.doc) # UnknownElement
    <3>1. CASE phase = "found"
      BY <1>2, <1>7, <3>1 DEF StepFault, ParseFault
    <3>2. CASE phase \in {"parsed", "validated"}
      BY <3>2, FaultsAreNotNone DEF HandleInv, Handled, UnknownElement
    <3>. QED
      BY <1>4, <3>1, <3>2
  <2>. QED
    BY <1>1, <1>7, <2>1, <2>2
<1>. QED
  BY <1>5, <1>6, <1>7

LEMMA NextHandles ==
    ASSUME NoneIsNoValue, HandleInv, [Next]_vars
    PROVE  HandleInv'
<1>1. TypeOK /\ TypeOK'
  BY NextTypes DEF HandleInv
<1>2. Handled'
  <2>1. CASE Send
    <3>1. phase' = "received"
      BY <2>1 DEF Send, Fresh
    <3>2. PICK r \in Requests : http' = [method |-> r.method, query |-> r.query, doc |-> r.doc]
      BY <2>1 DEF Send
    <3>. QED
      BY <3>1, <3>2, RequestsAssumption DEF Handled, Posted
  <2>2. CASE ParseRequest
    <3>1. http' = http /\ phase = "found" /\ StepFault = None /\ request' = Parsed
      BY <2>2 DEF ParseRequest, Step
    <3>2. Posted => XmlFault(http.doc) = None /\ request' = RequestFromXml(http.doc)
      BY <3>1 DEF StepFault, ParseFault, Parsed, Posted, IsGet
    <3>. QED
      BY <3>1, <3>2, RequestHasItsHandle DEF HandleInv, Handled, Posted
  <2>3. CASE FollowNext \/ Leave
    BY <2>3 DEF FollowNext, Leave, Fresh, Handled, Posted
  <2>4. CASE Load \/ ReadService \/ RenderIndex \/ FindOperation \/ Process \/ Refuse
    BY <2>4 DEF Load, ReadService, RenderIndex, FindOperation, Process, Refuse, Step,
                HandleInv, Handled, Posted
  <2>5. CASE Validate
    BY <2>5 DEF Validate, Step, HandleInv, Handled, Posted
  <2>6. CASE UNCHANGED vars
    BY <2>6 DEF vars, HandleInv, Handled, Posted
  <2>. QED
    BY <2>1, <2>2, <2>3, <2>4, <2>5, <2>6 DEF Next, Server, Client
<1>3. HandleIsReported'
  <2>1. CASE Refuse
    BY <2>1, RefusalNamesHandle
  <2>2. CASE UNCHANGED vars
    BY <2>2, SameOperation DEF vars, HandleInv, HandleIsReported
  <2>3. CASE Send \/ FollowNext \/ Leave
    BY <2>3 DEF Send, FollowNext, Leave, Fresh, NotAnswered, HandleIsReported
  <2>4. CASE RenderIndex \/ Process
    <3>1. RenderIndex => answer'.kind = "index"
      BY DEF RenderIndex, NotAnswered
    <3>2. Process => answer'.kind = "document"
      BY DEF Process
    <3>. QED
      BY <2>4, <3>1, <3>2 DEF HandleIsReported
  <2>5. CASE Load \/ ReadService \/ FindOperation \/ ParseRequest \/ Validate
    <3>1. answer.kind = "none" /\ answer' = answer
      BY <1>1, <2>5 DEF Load, ReadService, FindOperation, ParseRequest, Validate, Step, TypeOK
    <3>. QED
      BY <3>1 DEF HandleIsReported
  <2>. QED
    BY <2>1, <2>2, <2>3, <2>4, <2>5 DEF Next, Server, Client
<1>. QED
  BY <1>1, <1>2, <1>3 DEF HandleInv

(* Whatever is wrong with a document once its operation is found, a report *)
(* that only the client can trace carries the handle that it gave.         *)
THEOREM FailuresNameTheirHandle ==
    ASSUME NoneIsNoValue
    PROVE  Spec => []HandleIsReported
<1>1. Init => HandleInv
  BY InitTypes DEF Init, HandleInv, Handled, Posted, HandleIsReported, NotAnswered
<1>2. HandleInv /\ [Next]_vars => HandleInv'
  BY NextHandles
<1>3. HandleInv => HandleIsReported
  BY DEF HandleInv
<1>. QED
  BY <1>1, <1>2, <1>3, PTL DEF Spec

-----------------------------------------------------------------------------
(* The course of a request: what is in kvp, in request and in the link     *)
(* came from the HTTP request, without a fault.                            *)

Answered == answer.kind = "document"
Course ==
    /\ TypeOK
    /\ phase \in {"loaded", "read", "found", "parsed", "validated"} \/ Answered =>
          (IsGet => kvp = KvpParams(http.query))
    /\ phase \in {"parsed", "validated"} \/ Answered => ParseFault = None /\ request = Parsed
    /\ answer.next # None => Answered /\ answer.next = NextLink

LEMMA SameRequest ==
    ASSUME http' = http, kvp' = kvp
    PROVE  ParseFault' = ParseFault /\ Parsed' = Parsed /\ (IsGet' <=> IsGet)
<1>1. IsGet' <=> IsGet
  BY DEF IsGet
<1>2. Kvp' = Kvp /\ Operation' = Operation
  BY <1>1 DEF Kvp, Operation
<1>. QED
  BY <1>1, <1>2 DEF ParseFault, Parsed

LEMMA SameLink ==
    ASSUME http' = http, request' = request
    PROVE  NextLink' = NextLink
<1>1. Hits' = Hits /\ Start' = Start /\ (IsGet' <=> IsGet)
  BY DEF Hits, Start, IsGet
<1>2. Count' = Count
  BY <1>1 DEF Count
<1>3. Stop' = Stop
  BY <1>1, <1>2 DEF Stop
<1>4. NextUpdates' = NextUpdates
  BY <1>2, <1>3 DEF NextUpdates
<1>5. ASSUME NEW q PROVE HasNext(q)' <=> HasNext(q)
  BY <1>1, <1>3 DEF HasNext
<1>. QED
  BY <1>1, <1>4, <1>5 DEF NextLink

LEMMA InitCourse == Init => Course
BY InitTypes DEF Init, Course, Answered, NotAnswered

LEMMA NextCourse ==
    ASSUME NoneIsNoValue, Course, [Next]_vars
    PROVE  Course'
<1>1. TypeOK /\ TypeOK'
  BY NextTypes DEF Course
<1>2. CASE Send \/ FollowNext \/ Leave
  <2>1. phase' \in {"received", "idle"} /\ answer' = NotAnswered
    BY <1>2 DEF Send, FollowNext, Leave, Fresh
  <2>. QED
    BY <1>1, <2>1 DEF Course, Answered, NotAnswered
<1>3. CASE Load
  <2>1. phase' = "loaded" /\ http' = http /\ answer' = answer /\ phase = "received"
        /\ kvp' = IF IsGet THEN KvpParams(http.query) ELSE None
    BY <1>3 DEF Load, Step
  <2>2. ~Answered' /\ answer'.next = None
    BY <1>1, <2>1 DEF Answered, TypeOK
  <2>. QED
    BY <1>1, <2>1, <2>2 DEF Course, IsGet
<1>4. CASE ReadService \/ FindOperation
  <2>1. phase' \in {"read", "found"} /\ http' = http /\ kvp' = kvp /\ answer' = answer
        /\ phase \in {"loaded", "read"}
    BY <1>4 DEF ReadService, FindOperation, Step
  <2>2. ~Answered' /\ answer'.next = None
    BY <1>1, <2>1 DEF Answered, TypeOK
  <2>. QED
    BY <1>1, <2>1, <2>2, SameRequest DEF Course
<1>5. CASE RenderIndex
  <2>1. answer'.kind = "index" /\ answer'.next = None /\ phase' = "answered"
    BY <1>5 DEF RenderIndex, NotAnswered
  <2>. QED
    BY <1>1, <2>1 DEF Course, Answered
<1>6. CASE ParseRequest
  <2>1. phase' = "parsed" /\ phase = "found" /\ http' = http /\ kvp' = kvp /\ answer' = answer
        /\ ParseFault = None /\ request' = Parsed
    BY <1>6 DEF ParseRequest, Step, StepFault
  <2>2. ~Answered' /\ answer'.next = None
    BY <1>1, <2>1 DEF Answered, TypeOK
  <2>. QED
    BY <1>1, <2>1, <2>2, SameRequest DEF Course
<1>7. CASE Validate
  <2>1. phase' = "validated" /\ phase = "parsed" /\ http' = http /\ kvp' = kvp /\ answer' = answer
        /\ request' = request
    BY <1>7 DEF Validate, Step
  <2>2. ~Answered' /\ answer'.next = None
    BY <1>1, <2>1 DEF Answered, TypeOK
  <2>. QED
    BY <1>1, <2>1, <2>2, SameRequest DEF Course
<1>8. CASE Process
  <2>1. phase = "validated" /\ http' = http /\ kvp' = kvp /\ request' = request
        /\ answer'.next = NextLink /\ answer'.kind = "document" /\ phase' = "answered"
    BY <1>8 DEF Process, Step
  <2>. QED
    BY <1>1, <2>1, SameRequest, SameLink DEF Course, Answered
<1>9. CASE Refuse
  <2>1. answer'.kind \in {"error", "forbidden", "report"} /\ answer'.next = None /\ phase' = "answered"
    BY <1>9 DEF Refuse, HandleException
  <2>. QED
    BY <1>1, <2>1 DEF Course, Answered
<1>10. CASE UNCHANGED vars
  BY <1>1, <1>10, SameRequest, SameLink DEF vars, Course, Answered
<1>. QED
  BY <1>2, <1>3, <1>4, <1>5, <1>6, <1>7, <1>8, <1>9, <1>10 DEF Next, Server, Client

-----------------------------------------------------------------------------
(* Lists of parameters.                                                    *)

LEMMA ListShape ==
    ASSUME NEW query, IsList(query)
    PROVE  Len(query) \in Nat /\ DOMAIN query = 1 .. Len(query)
BY LenProperties DEF IsList

LEMMA MappingIsList ==
    ASSUME NEW query, NEW n \in Nat, query \in [1..n -> Range(query)]
    PROVE  IsList(query) /\ Len(query) = n
BY SeqDef DEF IsList

LEMMA Concatenation ==
    ASSUME NEW s, NEW t, IsList(s), IsList(t)
    PROVE  /\ IsList(s \o t) /\ Range(s \o t) = Range(s) \union Range(t)
           /\ Len(s \o t) = Len(s) + Len(t)
           /\ \A i \in DOMAIN s : i \in DOMAIN (s \o t) /\ (s \o t)[i] = s[i]
           /\ \A i \in DOMAIN t : i + Len(s) \in DOMAIN (s \o t) /\ (s \o t)[i + Len(s)] = t[i]
           /\ \A i \in DOMAIN (s \o t) :
                 \/ i \in DOMAIN s
                 \/ i - Len(s) \in DOMAIN t /\ i > Len(s)
<1>. DEFINE S == Range(s) \union Range(t)
            st == s \o t
<1>1. s \in Seq(S) /\ t \in Seq(S)
  BY SeqMonotonic DEF IsList
<1>2. /\ st \in Seq(S) /\ Len(st) = Len(s) + Len(t)
      /\ \A i \in 1 .. Len(s) + Len(t) : st[i] = IF i <= Len(s) THEN s[i] ELSE t[i - Len(s)]
  <2>. HIDE DEF S
  <2>. QED
    BY <1>1, ConcatProperties
<1>3. /\ Len(s) \in Nat /\ Len(t) \in Nat /\ DOMAIN s = 1 .. Len(s) /\ DOMAIN t = 1 .. Len(t)
  BY ListShape
<1>4. Len(st) \in Nat /\ DOMAIN st = 1 .. Len(st)
  <2>. HIDE DEF S, st
  <2>. QED
    BY <1>2, LenProperties
<1>. HIDE DEF S, st
<1>5. \A i \in DOMAIN s : i \in DOMAIN st /\ st[i] = s[i]
  BY <1>2, <1>3, <1>4
<1>6. \A i \in DOMAIN t : i + Len(s) \in DOMAIN st /\ st[i + Len(s)] = t[i]
  BY <1>2, <1>3, <1>4
<1>7. \A i \in DOMAIN st :
         \/ i \in DOMAIN s /\ st[i] = s[i]
         \/ i - Len(s) \in DOMAIN t /\ i > Len(s) /\ st[i] = t[i - Len(s)]
  BY <1>2, <1>3, <1>4
<1>8. Range(st) = S
  <2>1. \A x \in Range(st) : x \in S
    BY <1>7 DEF Range, S
  <2>2. \A x \in S : x \in Range(st)
    BY <1>5, <1>6 DEF Range, S
  <2>. QED
    BY <2>1, <2>2
<1>9. IsList(st)
  BY <1>2, <1>8 DEF IsList
<1>. QED
  BY <1>2, <1>5, <1>6, <1>7, <1>8, <1>9 DEF S, st

LEMMA ListOfSet ==
    ASSUME NEW S, IsFiniteSet(S)
    PROVE  /\ IsList(SetToSeq(S)) /\ Range(SetToSeq(S)) = S
           /\ \A i, j \in DOMAIN SetToSeq(S) : SetToSeq(S)[i] = SetToSeq(S)[j] => i = j
<1>. DEFINE n == Cardinality(S)
            L == SetToSeq(S)
<1>1. n \in Nat /\ ExistsBijection(1..n, S)
  BY FS_CardinalityType
<1>2. \E f \in [1..n -> S] : IsInjective(f)
  BY <1>1 DEF ExistsBijection, Bijection, Injection
<1>3. L \in [1..n -> S] /\ IsInjective(L)
  BY <1>2 DEF SetToSeq
<1>. HIDE DEF L
<1>4. L \in Surjection(1..n, S)
  <2>1. IsFiniteSet(1..n) /\ Cardinality(1..n) = n
    BY <1>1, FS_Interval
  <2>2. L \in Injection(1..n, S)
    BY <1>3 DEF Injection
  <2>. QED
    BY <2>1, <2>2, FS_Injection
<1>5. Range(L) = S
  <2>1. DOMAIN L = 1..n /\ \A i \in 1..n : L[i] \in S
    BY <1>3
  <2>2. \A x \in S : \E i \in 1..n : L[i] = x
    BY <1>4 DEF Surjection
  <2>. QED
    BY <2>1, <2>2 DEF Range
<1>6. IsList(L)
  BY <1>1, <1>3, <1>5, MappingIsList
<1>. QED
  BY <1>3, <1>5, <1>6 DEF IsInjective, L

(* Of several parameters of one name, the last is read.                    *)
LEMMA LastParameter ==
    ASSUME NEW query, IsList(query), NEW n \in KvpNames(query)
    PROVE  \E i \in DOMAIN query :
              /\ query[i].name = n /\ KvpParams(query)[n] = query[i].value
              /\ \A j \in DOMAIN query : query[j].name = n => j <= i
<1>. DEFINE S == {i \in DOMAIN query : query[i].name = n}
<1>1. DOMAIN query = 1 .. Len(query) /\ Len(query) \in Nat
  BY ListShape
<1>2. S # {} /\ S \subseteq Int /\ S \in SUBSET (1 .. Len(query))
  BY <1>1 DEF KvpNames
<1>3. IsFiniteSet(S)
  <2>1. IsFiniteSet(1 .. Len(query))
    BY <1>1, FS_Interval
  <2>. HIDE DEF S
  <2>. QED
    BY <1>2, <2>1, FS_Subset
<1>4. Max(S) \in S /\ \A i \in S : i <= Max(S)
  <2>. HIDE DEF S
  <2>. QED
    BY <1>2, <1>3, MaxIsGreatest
<1>5. PICK m \in DOMAIN query : query[m].name = n /\ \A i \in DOMAIN query : query[i].name = n => i <= m
  BY <1>4
<1>6. \A j \in m + 1 .. Len(query) : query[j].name # n
  <2>1. ASSUME NEW j \in m + 1 .. Len(query), query[j].name = n PROVE FALSE
    <3>1. m \in Int /\ j \in Int /\ j > m /\ j \in DOMAIN query
      BY <1>1
    <3>2. j <= m
      BY <1>5, <2>1, <3>1
    <3>. QED
      BY <3>1, <3>2
  <2>. QED
    BY <2>1
<1>. DEFINE last == CHOOSE k \in DOMAIN query : query[k].name = n
                       /\ \A j \in k + 1 .. Len(query) : query[j].name # n
<1>7. last \in DOMAIN query /\ query[last].name = n /\ \A j \in last + 1 .. Len(query) : query[j].name # n
  BY <1>5, <1>6
<1>8. KvpParams(query)[n] = query[last].value
  BY DEF KvpParams
<1>. HIDE DEF last
<1>9. \A j \in DOMAIN query : query[j].name = n => j <= last
  <2>1. ASSUME NEW j \in DOMAIN query, query[j].name = n, ~(j <= last) PROVE FALSE
    <3>1. j \in last + 1 .. Len(query)
      BY <1>1, <1>7, <2>1
    <3>. QED
      BY <1>7, <2>1, <3>1
  <2>. QED
    BY <2>1
<1>. QED
  BY <1>7, <1>8, <1>9

LEMMA ParamsAreNamed == ASSUME NEW query PROVE DOMAIN KvpParams(query) = KvpNames(query)
BY DEF KvpParams

-----------------------------------------------------------------------------
(* Replacing STARTINDEX and COUNT in a URL.                                *)

IsUrl(query) == IsList(query) /\ \A i \in DOMAIN query : IsEntry(query[i])
IsPage(updates) == DOMAIN updates = {"STARTINDEX", "COUNT"}

Appended(query, updates) == SetToSeq({Entry(n, updates[n]) : n \in DOMAIN updates \ KvpNames(query)})

LEMMA AppendedEntries ==
    ASSUME NEW query, NEW updates, IsPage(updates)
    PROVE  /\ IsUrl(Appended(query, updates))
           /\ \A i \in DOMAIN Appended(query, updates) :
                 \E n \in DOMAIN updates \ KvpNames(query) :
                    Appended(query, updates)[i] = Entry(n, updates[n])
           /\ \A n \in DOMAIN updates \ KvpNames(query) :
                 \E i \in DOMAIN Appended(query, updates) :
                    Appended(query, updates)[i] = Entry(n, updates[n])
           /\ \A i, j \in DOMAIN Appended(query, updates) :
                 Appended(query, updates)[i] = Appended(query, updates)[j] => i = j
<1>. DEFINE new == {Entry(n, updates[n]) : n \in DOMAIN updates \ KvpNames(query)}
            A == Appended(query, updates)
<1>1. IsFiniteSet(new)
  <2>1. new \in SUBSET {Entry("STARTINDEX", updates["STARTINDEX"]), Entry("COUNT", updates["COUNT"])}
    BY DEF IsPage
  <2>2. ASSUME NEW x, NEW y PROVE IsFiniteSet({x, y})
    <3>1. IsFiniteSet({x}) /\ IsFiniteSet({x} \union {y})
      BY FS_Singleton, FS_AddElement
    <3>2. {x, y} = {x} \union {y}
      OBVIOUS
    <3>. QED
      BY <3>1, <3>2
  <2>. QED
    BY <2>1, <2>2, FS_Subset
<1>2. /\ IsList(A) /\ Range(A) = new
      /\ \A i, j \in DOMAIN A : A[i] = A[j] => i = j
  <2>. HIDE DEF new
  <2>1. A = SetToSeq(new)
    BY DEF Appended, new
  <2>. QED
    BY <1>1, <2>1, ListOfSet
<1>3. \A i \in DOMAIN A : A[i] \in new
  BY <1>2 DEF Range
<1>4. \A e \in new : \E i \in DOMAIN A : A[i] = e
  BY <1>2 DEF Range
<1>. HIDE DEF A
<1>5. \A e \in new : IsEntry(e)
  BY DEF IsEntry, Entry
<1>. QED
  BY <1>2, <1>3, <1>4, <1>5 DEF IsUrl, A

Kept(query, updates) ==
    [i \in DOMAIN query |->
        IF query[i].name \in DOMAIN updates /\ \A j \in 1 .. i - 1 : query[j].name # query[i].name
        THEN [query[i] EXCEPT !.value = <<updates[query[i].name]>>] ELSE query[i]]

LEMMA KeptEntries ==
    ASSUME NEW query, NEW updates, IsUrl(query)
    PROVE  /\ IsUrl(Kept(query, updates)) /\ DOMAIN Kept(query, updates) = DOMAIN query
           /\ Len(Kept(query, updates)) = Len(query)
           /\ \A i \in DOMAIN query :
                 /\ Kept(query, updates)[i].name = query[i].name
                 /\ query[i].name \notin DOMAIN updates => Kept(query, updates)[i].value = query[i].value
                 /\ query[i].name \in DOMAIN updates
                    /\ (\A j \in 1 .. i - 1 : query[j].name # query[i].name) =>
                       Kept(query, updates)[i].value = <<updates[query[i].name]>>
<1>. DEFINE K == Kept(query, updates)
<1>1. DOMAIN query = 1 .. Len(query) /\ Len(query) \in Nat /\ \A i \in DOMAIN query : IsEntry(query[i])
  BY ListShape DEF IsUrl
<1>2. DOMAIN K = DOMAIN query
  BY DEF Kept
<1>3. ASSUME NEW i \in DOMAIN query
      PROVE  /\ IsEntry(K[i]) /\ K[i].name = query[i].name
             /\ query[i].name \notin DOMAIN updates => K[i].value = query[i].value
             /\ query[i].name \in DOMAIN updates
                /\ (\A j \in 1 .. i - 1 : query[j].name # query[i].name) =>
                   K[i].value = <<updates[query[i].name]>>
  <2>1. IsEntry(query[i])
    BY <1>1
  <2>. QED
    BY <2>1 DEF Kept, IsEntry
<1>4. IsList(K) /\ Len(K) = Len(query)
  <2>1. K \in [1 .. Len(query) -> Range(K)]
    BY <1>1 DEF Kept, Range
  <2>. HIDE DEF K
  <2>. QED
    BY <1>1, <2>1, MappingIsList
<1>. HIDE DEF K
<1>. QED
  BY <1>2, <1>3, <1>4 DEF IsUrl, K

LEMMA ReplacedIsKept ==
    ASSUME NEW query, NEW updates
    PROVE  Replaced(query, updates) = Kept(query, updates) \o Appended(query, updates)
BY DEF Replaced, Kept, Appended

(* What there is in the new URL: each entry of the old one, with its new   *)
(* value at the first of a name, and what was missing.                     *)
LEMMA ReplacedEntries ==
    ASSUME NEW query, NEW updates, IsUrl(query), IsPage(updates)
    PROVE  /\ IsUrl(Replaced(query, updates))
           /\ \A i \in DOMAIN query : i \in DOMAIN Replaced(query, updates)
           /\ \A i \in DOMAIN Replaced(query, updates) :
                 \/ /\ i \in DOMAIN query
                    /\ Replaced(query, updates)[i] = Kept(query, updates)[i]
                 \/ /\ i \notin DOMAIN query
                    /\ \E n \in DOMAIN updates \ KvpNames(query) :
                          Replaced(query, updates)[i] = Entry(n, updates[n])
           /\ \A n \in DOMAIN updates \ KvpNames(query) :
                 \E i \in DOMAIN Replaced(query, updates) :
                    Replaced(query, updates)[i] = Entry(n, updates[n])
           /\ \A i, j \in DOMAIN Replaced(query, updates) :
                 i \notin DOMAIN query /\ j \notin DOMAIN query
                 /\ Replaced(query, updates)[i] = Replaced(query, updates)[j] => i = j
<1>. DEFINE K == Kept(query, updates)
            A == Appended(query, updates)
            R == Replaced(query, updates)
<1>1. /\ IsUrl(K) /\ IsUrl(A) /\ DOMAIN K = DOMAIN query /\ Len(K) = Len(query)
      /\ DOMAIN K = 1 .. Len(K) /\ Len(K) \in Nat
      /\ DOMAIN A = 1 .. Len(A) /\ Len(A) \in Nat
  BY KeptEntries, AppendedEntries, ListShape DEF IsUrl
<1>2. R = K \o A
  BY ReplacedIsKept
<1>. HIDE DEF K, A, R
<1>3. /\ IsList(R)
      /\ \A i \in DOMAIN K : i \in DOMAIN R /\ R[i] = K[i]
      /\ \A i \in DOMAIN A : i + Len(K) \in DOMAIN R /\ R[i + Len(K)] = A[i]
      /\ \A i \in DOMAIN R :
                 \/ i \in DOMAIN K
                 \/ i - Len(K) \in DOMAIN A /\ i > Len(K)
  BY <1>1, <1>2, Concatenation DEF IsUrl
<1>4. ASSUME NEW i \in DOMAIN R, i \notin DOMAIN K
      PROVE  i \in Int /\ i - Len(K) \in DOMAIN A /\ R[i] = A[i - Len(K)]
  <2>1. i \in Int
    BY <1>3, ListShape
  <2>2. i - Len(K) \in DOMAIN A
    BY <1>3, <1>4
  <2>3. (i - Len(K)) + Len(K) = i
    BY <1>1, <2>1
  <2>. QED
    BY <1>3, <2>1, <2>2, <2>3
<1>5. /\ \A i \in DOMAIN A : \E n \in DOMAIN updates \ KvpNames(query) : A[i] = Entry(n, updates[n])
      /\ \A n \in DOMAIN updates \ KvpNames(query) : \E i \in DOMAIN A : A[i] = Entry(n, updates[n])
      /\ \A i, j \in DOMAIN A : A[i] = A[j] => i = j
  BY AppendedEntries DEF A
<1>6. IsUrl(R)
  <2>1. \A i \in DOMAIN R : IsEntry(R[i])
    BY <1>1, <1>3, <1>4 DEF IsUrl
  <2>. QED
    BY <1>3, <2>1 DEF IsUrl
<1>7. ASSUME NEW n \in DOMAIN updates \ KvpNames(query)
      PROVE  \E i \in DOMAIN R : R[i] = Entry(n, updates[n])
  BY <1>3, <1>5
<1>8. ASSUME NEW i \in DOMAIN R, NEW j \in DOMAIN R, i \notin DOMAIN K, j \notin DOMAIN K, R[i] = R[j]
      PROVE  i = j
  <2>1. i - Len(K) = j - Len(K)
    BY <1>4, <1>5, <1>8
  <2>. QED
    BY <1>1, <1>4, <1>8, <2>1
<1>9. ASSUME NEW i \in DOMAIN R, i \notin DOMAIN K
      PROVE  \E n \in DOMAIN updates \ KvpNames(query) : R[i] = Entry(n, updates[n])
  BY <1>4, <1>5, <1>9
<1>. QED
  BY <1>1, <1>3, <1>6, <1>7, <1>8, <1>9 DEF K, R

-----------------------------------------------------------------------------
(* Updating a URL with the parameters of a document.                       *)

LEMMA SmallerSubset ==
    ASSUME NEW S, IsFiniteSet(S), NEW T \in SUBSET S, NEW x \in S, x \notin T
    PROVE  Cardinality(T) # Cardinality(S)
<1>1. Cardinality(S) = Cardinality(T) => S = T
  BY FS_Subset
<1>. QED
  BY <1>1

LEMMA EachRankIsTaken ==
    ASSUME NEW n \in Nat, NEW S \in SUBSET (1..n), NEW k \in 1 .. Cardinality(S)
    PROVE  \E j \in S : Cardinality({i \in S : i <= j}) = k
<1>. DEFINE Upto(j) == {i \in S : i <= j}
            rank == [j \in S |-> Cardinality(Upto(j))]
            c == Cardinality(S)
<1>1. IsFiniteSet(S) /\ c \in Nat
  <2>1. IsFiniteSet(1..n)
    BY FS_Interval
  <2>. QED
    BY <2>1, FS_Subset, FS_CardinalityType
<1>2. ASSUME NEW j \in S
      PROVE  IsFiniteSet(Upto(j)) /\ Cardinality(Upto(j)) \in 1..c
  <2>1. Upto(j) \in SUBSET S /\ j \in Upto(j)
    OBVIOUS
  <2>2. IsFiniteSet(Upto(j)) /\ Cardinality(Upto(j)) <= c
    <3>. HIDE DEF Upto
    <3>. QED
      BY <1>1, <2>1, FS_Subset
  <2>3. Cardinality(Upto(j)) \in Nat /\ Cardinality(Upto(j)) # 0
    <3>. HIDE DEF Upto
    <3>. QED
      BY <2>1, <2>2, FS_CardinalityType, FS_EmptySet
  <2>. HIDE DEF Upto, c
  <2>. QED
    BY <1>1, <2>2, <2>3
<1>3. ASSUME NEW i \in S, NEW j \in S, i < j
      PROVE  Cardinality(Upto(i)) # Cardinality(Upto(j))
  <2>. i \in Int /\ j \in Int
    OBVIOUS
  <2>1. Upto(i) \in SUBSET Upto(j)
    <3>1. \A x \in S : x \in Int /\ (x <= i => x <= j)
      BY <1>3
    <3>. QED
      BY <3>1
  <2>3. j \in Upto(j) /\ j \notin Upto(i)
    BY <1>3
  <2>2. IsFiniteSet(Upto(j))
    BY <1>2
  <2>. HIDE DEF Upto
  <2>. QED
    BY <2>1, <2>2, <2>3, SmallerSubset
<1>4. rank \in [S -> 1..c] /\ \A i, j \in S : rank[i] = rank[j] => i = j
  <2>1. rank \in [S -> 1..c]
    BY <1>2
  <2>2. ASSUME NEW i \in S, NEW j \in S, rank[i] = rank[j] PROVE i = j
    <3>1. i \in Int /\ j \in Int /\ Cardinality(Upto(i)) = Cardinality(Upto(j))
      BY <2>2
    <3>2. ~(i < j) /\ ~(j < i)
      <4>. HIDE DEF Upto, rank
      <4>. QED
        BY <1>3, <3>1
    <3>. QED
      BY <3>1, <3>2
  <2>. QED
    BY <2>1, <2>2
<1>5. IsFiniteSet(1..c) /\ Cardinality(1..c) = c
  <2>. HIDE DEF c
  <2>. QED
    BY <1>1, FS_Interval
<1>6. rank \in Surjection(S, 1..c)
  <2>1. rank \in Injection(S, 1..c)
    BY <1>4 DEF Injection, IsInjective
  <2>. HIDE DEF rank
  <2>. QED
    BY <1>5, <2>1, FS_Injection
<1>7. PICK j \in S : rank[j] = k
  BY <1>6 DEF Surjection
<1>. QED
  BY <1>7

LEMMA UpdatedEntries ==
    ASSUME NEW query, NEW entries, IsUrl(query), IsUrl(entries)
    PROVE  /\ IsUrl(Updated(query, entries))
           /\ \A i \in DOMAIN Updated(query, entries) :
                 Updated(query, entries)[i] \in Range(query) \union Range(entries)
<1>. DEFINE Latest(i) == {j \in DOMAIN entries : entries[j].spelled = query[i].spelled}
            new == {j \in DOMAIN entries : \A i \in DOMAIN query : query[i].spelled # entries[j].spelled}
            old == [i \in DOMAIN query |->
                      IF Latest(i) = {} THEN query[i] ELSE entries[CHOOSE j \in Latest(i) : TRUE]]
            Nth(k) == CHOOSE j \in new : Cardinality({i \in new : i <= j}) = k
            rest == [k \in 1 .. Cardinality(new) |-> entries[Nth(k)]]
            all == Range(query) \union Range(entries)
<1>1. /\ DOMAIN query = 1 .. Len(query) /\ Len(query) \in Nat
      /\ DOMAIN entries = 1 .. Len(entries) /\ Len(entries) \in Nat
  BY ListShape DEF IsUrl
<1>2. new \in SUBSET (1 .. Len(entries))
  BY <1>1
<1>3. Cardinality(new) \in Nat
  <2>1. IsFiniteSet(1 .. Len(entries))
    BY <1>1, FS_Interval
  <2>. HIDE DEF new
  <2>. QED
    BY <1>2, <2>1, FS_Subset, FS_CardinalityType
<1>4. ASSUME NEW k \in 1 .. Cardinality(new) PROVE Nth(k) \in new
  <2>1. \E j \in new : Cardinality({i \in new : i <= j}) = k
    <3>. HIDE DEF new
    <3>. QED
      BY <1>1, <1>2, EachRankIsTaken
  <2>. HIDE DEF new
  <2>. QED
    BY <2>1
<1>5. DOMAIN old = 1 .. Len(query) /\ \A i \in 1 .. Len(query) : old[i] \in all
  <2>1. \A i \in DOMAIN query : Latest(i) # {} => (CHOOSE j \in Latest(i) : TRUE) \in DOMAIN entries
    OBVIOUS
  <2>. HIDE DEF Latest
  <2>. QED
    BY <1>1, <2>1 DEF Range
<1>6. DOMAIN rest = 1 .. Cardinality(new) /\ \A k \in 1 .. Cardinality(new) : rest[k] \in all
  <2>1. \A k \in 1 .. Cardinality(new) : Nth(k) \in DOMAIN entries
    BY <1>4
  <2>. HIDE DEF Nth, new
  <2>. QED
    BY <2>1 DEF Range
<1>7. Updated(query, entries) = old \o rest
  BY DEF Updated
<1>. HIDE DEF old, rest, new
<1>8. /\ IsList(old) /\ IsList(rest)
      /\ Range(old) \subseteq all /\ Range(rest) \subseteq all
  <2>1. old \in [1 .. Len(query) -> Range(old)] /\ Range(old) \subseteq all
    BY <1>5 DEF Range, old
  <2>2. rest \in [1 .. Cardinality(new) -> Range(rest)] /\ Range(rest) \subseteq all
    BY <1>6 DEF Range, rest
  <2>. QED
    BY <1>1, <1>3, <2>1, <2>2, MappingIsList
<1>9. IsList(old \o rest) /\ Range(old \o rest) \subseteq all
  BY <1>8, Concatenation
<1>10. \A e \in all : IsEntry(e)
  BY DEF IsUrl, Range
<1>11. \A i \in DOMAIN (old \o rest) : (old \o rest)[i] \in all
  BY <1>9 DEF Range
<1>. HIDE DEF all
<1>. QED
  BY <1>7, <1>9, <1>10, <1>11 DEF IsUrl, all

-----------------------------------------------------------------------------
(* What restricts a query.                                                 *)

LEMMA WrittenIsUrl ==
    ASSUME NEW query
    PROVE  IsWritten(query) <=> IsUrl(query) /\ \A i \in DOMAIN query : WellWritten(query[i])
BY DEF IsWritten, IsUrl, WellWritten

LEMMA OneGroup ==
    ASSUME NEW group
    PROVE  IsList(<<group>>) /\ Len(<<group>>) = 1 /\ Range(<<group>>) = {group}
<1>. DEFINE s == <<group>>
<1>1. DOMAIN s = 1..1 /\ s[1] = group /\ \A i \in DOMAIN s : i = 1
  OBVIOUS
<1>2. Range(s) = {group} /\ s \in [1..1 -> Range(s)]
  BY <1>1 DEF Range
<1>3. IsList(s) /\ Len(s) = 1
  <2>. HIDE DEF s
  <2>. QED
    BY <1>2, MappingIsList
<1>. QED
  BY <1>2, <1>3

LEMMA HarmlessEntry ==
    ASSUME NEW name, NEW group, name \notin Selective
    PROVE  WellWritten(Entry(name, group))
<1>1. /\ Entry(name, group).name = name /\ Entry(name, group).value = <<group>>
      /\ IsEntry(Entry(name, group))
  BY DEF Entry, IsEntry
<1>. QED
  BY <1>1, OneGroup DEF WellWritten

LEMMA NoList == IsWritten(<<>>)
<1>1. IsList(<<>>) /\ DOMAIN <<>> = {}
  BY DEF IsList
<1>. QED
  BY <1>1 DEF IsWritten, IsUrl

LEMMA OneIsWritten ==
    ASSUME NEW condition, NEW name, NEW group, name \notin Selective
    PROVE  IsWritten(<<Entry(name, group)>>) /\ IsWritten(EntryIf(condition, name, group))
<1>. DEFINE s == <<Entry(name, group)>>
<1>1. IsList(s) /\ Len(s) = 1
  BY OneGroup
<1>2. \A i \in DOMAIN s : s[i] = Entry(name, group)
  OBVIOUS
<1>3. IsWritten(s)
  <2>. HIDE DEF s
  <2>. QED
    BY <1>1, <1>2, HarmlessEntry DEF IsWritten
<1>. QED
  BY <1>3, NoList DEF EntryIf

LEMMA TogetherWritten ==
    ASSUME NEW s, NEW t, IsWritten(s), IsWritten(t)
    PROVE  IsWritten(s \o t)
<1>. DEFINE st == s \o t
<1>1. IsList(st) /\ Range(st) = Range(s) \union Range(t)
  BY Concatenation DEF IsWritten
<1>. HIDE DEF st
<1>2. \A e \in Range(s) \union Range(t) : WellWritten(e)
  BY DEF IsWritten, Range
<1>3. \A i \in DOMAIN st : st[i] \in Range(s) \union Range(t)
  BY <1>1 DEF Range
<1>. QED
  BY <1>1, <1>2, <1>3 DEF IsWritten, st

LEMMA ReplacedIsWritten ==
    ASSUME NEW query, NEW updates, IsWritten(query), IsPage(updates)
    PROVE  IsWritten(Replaced(query, updates))
<1>. DEFINE R == Replaced(query, updates)
<1>1. /\ IsUrl(R)
      /\ \A i \in DOMAIN R :
           \/ i \in DOMAIN query /\ R[i] = Kept(query, updates)[i]
           \/ \E n \in DOMAIN updates \ KvpNames(query) : R[i] = Entry(n, updates[n])
  BY ReplacedEntries, WrittenIsUrl
<1>. HIDE DEF R
<1>2. ASSUME NEW n \in DOMAIN updates PROVE n \notin Selective
  BY DEF IsPage, Selective
<1>3. ASSUME NEW i \in DOMAIN query PROVE WellWritten(Kept(query, updates)[i])
  <2>1. WellWritten(query[i])
    BY DEF IsWritten
  <2>2. CASE query[i].name \in DOMAIN updates /\ \A j \in 1 .. i - 1 : query[j].name # query[i].name
    <3>1. Kept(query, updates)[i] = [query[i] EXCEPT !.value = <<updates[query[i].name]>>]
      BY <2>2 DEF Kept
    <3>2. /\ IsEntry(Kept(query, updates)[i])
          /\ Kept(query, updates)[i].name = query[i].name
          /\ Kept(query, updates)[i].value = <<updates[query[i].name]>>
      BY <2>1, <3>1 DEF WellWritten, IsEntry
    <3>. QED
      BY <1>2, <2>2, <3>2, OneGroup DEF WellWritten
  <2>3. CASE ~(query[i].name \in DOMAIN updates /\ \A j \in 1 .. i - 1 : query[j].name # query[i].name)
    <3>1. Kept(query, updates)[i] = query[i]
      BY <2>3 DEF Kept
    <3>. QED
      BY <2>1, <3>1
  <2>. QED
    BY <2>2, <2>3
<1>4. \A i \in DOMAIN R : WellWritten(R[i])
  BY <1>1, <1>2, <1>3, HarmlessEntry
<1>. QED
  BY <1>1, <1>4, WrittenIsUrl DEF R

LEMMA UpdatedIsWritten ==
    ASSUME NEW query, NEW entries, IsWritten(query), IsWritten(entries)
    PROVE  IsWritten(Updated(query, entries))
<1>1. \A e \in Range(query) \union Range(entries) : WellWritten(e)
  BY DEF IsWritten, Range
<1>. QED
  BY <1>1, UpdatedEntries, WrittenIsUrl

-----------------------------------------------------------------------------
(* From the URL to the queries.                                            *)

LEMMA NothingRaisedIn5 ==
    ASSUME NEW a, NEW b, NEW c, NEW d, NEW e,
           FirstFault(<<a, b, c, d, e>>) = None
    PROVE  a = None /\ b = None /\ c = None /\ d = None /\ e = None
<1>. DEFINE s == <<a, b, c, d, e>>
<1>1. DOMAIN s = 1..5 /\ 5 \in Nat /\ FirstFault(s) = None
  OBVIOUS
<1>2. \A k \in 1..5 : s[k] = None
  <2>. HIDE DEF s
  <2>. QED
    BY <1>1, NothingRaised
<1>3. s[1] = None /\ s[2] = None /\ s[3] = None /\ s[4] = None /\ s[5] = None
  <2>. HIDE DEF s
  <2>. QED
    BY <1>2
<1>. QED
  BY <1>3

LEMMA NotWhen ==
    ASSUME NoneIsNoValue, NEW condition \in BOOLEAN, NEW class, NEW locator,
           When(condition, <<class, locator>>) = None
    PROVE  ~condition
BY FaultsAreNotNone DEF When

AreGroups(params) ==
    \A p \in DOMAIN params :
        /\ IsList(params[p]) /\ Len(params[p]) > 0
        /\ p \in Selective => Range(params[p]) \intersect {None, <<>>} = {}

LEMMA WrittenAreGroups ==
    ASSUME NEW query, IsWritten(query)
    PROVE  AreGroups(KvpParams(query))
<1>1. ASSUME NEW p \in KvpNames(query)
      PROVE  /\ IsList(KvpParams(query)[p]) /\ Len(KvpParams(query)[p]) > 0
             /\ p \in Selective => Range(KvpParams(query)[p]) \intersect {None, <<>>} = {}
  <2>1. PICK i \in DOMAIN query : query[i].name = p /\ KvpParams(query)[p] = query[i].value
    BY LastParameter DEF IsWritten, IsUrl
  <2>. QED
    BY <2>1 DEF IsWritten, WellWritten
<1>. QED
  BY <1>1, ParamsAreNamed DEF AreGroups

LEMMA GroupsOfVariants ==
    ASSUME NoneIsNoValue, NEW params, AreGroups(params), SplitFault(params) = None
    PROVE  /\ \E n \in Nat : DOMAIN SplitParameterLists(params) = 1..n
           /\ \A i \in DOMAIN SplitParameterLists(params) :
                 /\ DOMAIN SplitParameterLists(params)[i] = DOMAIN params
                 /\ \A p \in DOMAIN params : SplitParameterLists(params)[i][p] \in Range(params[p])
<1>1. \A p \in DOMAIN params :
         Len(params[p]) \in Nat /\ Len(params[p]) > 0 /\ DOMAIN params[p] = 1 .. Len(params[p])
  BY ListShape DEF AreGroups
<1>2. \A p \in DOMAIN params, i \in Nat : i >= 1 /\ i <= Len(params[p]) => params[p][i] \in Range(params[p])
  BY <1>1 DEF Range
<1>3. CASE Pairs(params) = {}
  <2>1. SplitParameterLists(params) = <<Whole(params)>>
    BY <1>3 DEF SplitParameterLists
  <2>2. \A p \in DOMAIN params : Len(params[p]) = 1
    <3>1. ASSUME NEW p \in DOMAIN params PROVE Len(params[p]) = 1
      <4>. DEFINE size == Len(params[p])
      <4>1. p \notin {n \in DOMAIN params : Len(params[n]) > 1}
        BY <1>3 DEF Pairs
      <4>2. ~(size > 1)
        BY <4>1
      <4>3. size \in Nat /\ size > 0
        BY <1>1
      <4>. HIDE DEF size
      <4>4. size = 1
        BY <4>2, <4>3
      <4>. QED
        BY <4>4 DEF size
    <3>. QED
      BY <3>1
  <2>3. DOMAIN Whole(params) = DOMAIN params
        /\ \A p \in DOMAIN params : Whole(params)[p] \in Range(params[p])
    BY <1>2, <2>2 DEF Whole
  <2>4. DOMAIN <<Whole(params)>> = 1..1 /\ \A i \in 1..1 : <<Whole(params)>>[i] = Whole(params)
    OBVIOUS
  <2>. QED
    BY <2>1, <2>3, <2>4
<1>4. CASE Pairs(params) # {}
  <2>. DEFINE s == CHOOSE size \in PairSizes(params) : TRUE
  <2>1. s \in PairSizes(params)
    BY <1>4 DEF PairSizes
  <2>2. \A p \in Pairs(params) : Len(params[p]) = s
    <3>1. ~ \E a, b \in PairSizes(params) : a # b
      <4>. DEFINE differ == \E a, b \in PairSizes(params) : a # b
      <4>1. When(differ, ParsingFailed("pairs")) = None /\ differ \in BOOLEAN
        BY DEF SplitFault
      <4>. HIDE DEF differ
      <4>2. ~differ
        BY <4>1, NotWhen DEF ParsingFailed
      <4>. QED
        BY <4>2 DEF differ
    <3>. QED
      BY <2>1, <3>1 DEF PairSizes
  <2>3. s \in Nat
    BY <1>1, <2>1 DEF PairSizes, Pairs
  <2>. HIDE DEF s
  <2>4. SplitParameterLists(params) =
          [i \in 1 .. s |-> [n \in DOMAIN params |-> params[n][IF n \in Pairs(params) THEN i ELSE 1]]]
    BY <1>4 DEF SplitParameterLists, s
  <2>5. ASSUME NEW i \in 1 .. s, NEW p \in DOMAIN params
        PROVE  params[p][IF p \in Pairs(params) THEN i ELSE 1] \in Range(params[p])
    <3>1. CASE p \in Pairs(params)
      BY <1>2, <2>2, <2>3, <3>1
    <3>2. CASE p \notin Pairs(params)
      BY <1>1, <1>2, <3>2
    <3>. QED
      BY <3>1, <3>2
  <2>. QED
    BY <2>3, <2>4, <2>5
<1>. QED
  BY <1>3, <1>4

Restricted(query, p) == query.filter # None /\ query.filter[1] = Selects(p)

LEMMA FilterIsKept ==
    ASSUME NoneIsNoValue, NEW params, NEW ns, FilterKvpFault(params, ns) = None,
           NEW p \in Selective \intersect DOMAIN params, params[p] \notin {None, Empty, <<>>}
    PROVE  FilterFromKvp(params, ns) # None /\ FilterFromKvp(params, ns)[1] = Selects(p)
<1>. DEFINE filter == Get(params, "FILTER", "", None)
            ids == Get(params, "RESOURCEID", "", <<>>)
            bbox == Get(params, "BBOX", "", None)
<1>1. ~(filter # None /\ (bbox # None \/ ids # <<>>)) /\ ~(ids # <<>> /\ (bbox # None \/ filter # None))
  <2>. DEFINE mixed == filter # None /\ (bbox # None \/ ids # <<>>)
              also == ids # <<>> /\ (bbox # None \/ filter # None)
  <2>1. mixed \in BOOLEAN /\ also \in BOOLEAN
    OBVIOUS
  <2>. DEFINE language == ParsedBy(params, "FILTER_LANGUAGE", "", Invalid("filterLanguage"))
              fault == ParsedBy(params, "FILTER", "", ParsingFailed("filter"))
              crash == When(SomeUnresolvable(ids, ns), Crash)
              box == ParsedBy(params, "BBOX", "", Invalid("bbox"))
              one == When(mixed, Invalid("filter"))
              other == When(also, Invalid("resourceId"))
  <2>2. FirstFault(<<language, fault, crash, box, one, other>>) = None
    BY DEF FilterKvpFault
  <2>3. one = None /\ other = None
    <3>. HIDE DEF language, fault, crash, box, one, other
    <3>. QED
      BY <2>2, NothingRaisedIn6
  <2>4. When(mixed, Invalid("filter")) = None /\ When(also, Invalid("resourceId")) = None
    BY <2>3
  <2>. HIDE DEF mixed, also
  <2>5. ~mixed /\ ~also
    BY <2>1, <2>4, FaultsAreNotNone DEF When, Invalid
  <2>. QED
    BY <2>5 DEF mixed, also
<1>2. /\ p = "FILTER" => filter # None
      /\ p = "RESOURCEID" => ids # <<>>
      /\ p = "BBOX" => bbox # None
  BY DEF Get, Value, Raw
<1>3. FilterFromKvp(params, ns) =
        IF filter # None THEN <<"filter", filter>>
        ELSE IF ids # <<>> THEN <<"ids", ParseQNames(ids, ns)>>
        ELSE IF bbox # None THEN <<"bbox", bbox>> ELSE None
  BY DEF FilterFromKvp
<1>. HIDE DEF filter, ids, bbox
<1>. QED
  BY <1>1, <1>2, <1>3, FaultsAreNotNone DEF Selective, Selects

(* The parameters of the registered queries are not those of an ad hoc     *)
(* query, and each has finitely many.                                      *)
ParametersAreOwn ==
    \A id \in DOMAIN StoredQueries :
        IsFiniteSet(StoredQueries[id]) /\ StoredQueries[id] \intersect Selective = {}

LEMMA StoredHasNoFilter ==
    ASSUME NoneIsNoValue, ParametersAreOwn, NEW params, StoredKvpFault(params) = None
    PROVE  Selective \intersect DOMAIN params = {}
<1>. DEFINE id == Get(params, "STOREDQUERY_ID", "", None)
            given == StoredParameters(params, id)
            empty == {p \in DOMAIN given : given[p] = Empty}
            Adhoc(n) == When(n \in DOMAIN params \ DOMAIN given, Invalid(n))
<1>1. id \in DOMAIN StoredQueries
  BY FaultsAreNotNone DEF StoredKvpFault, Invalid
<1>2. Adhoc("FILTER") = None /\ Adhoc("BBOX") = None /\ Adhoc("RESOURCEID") = None
  <2>1. FirstFault(<<When(empty # {}, Invalid(CHOOSE p \in empty : TRUE)),
                     Adhoc("FILTER"), Adhoc("BBOX"), Adhoc("RESOURCEID"),
                     ParametersFault(id, given)>>) = None
    BY <1>1 DEF StoredKvpFault
  <2>. HIDE DEF id, given, empty, Adhoc
  <2>. QED
    BY <2>1, NothingRaisedIn5
<1>3. \A n \in Selective : n \notin DOMAIN params \ DOMAIN given
  <2>. HIDE DEF id, given
  <2>. QED
    BY <1>2, FaultsAreNotNone DEF When, Invalid, Selective
<1>4. DOMAIN given \subseteq StoredQueries[id]
  BY DEF StoredParameters
<1>. HIDE DEF id, given
<1>. QED
  BY <1>1, <1>3, <1>4 DEF ParametersAreOwn

LEMMA QueriesAreRestricted ==
    ASSUME NoneIsNoValue, ParametersAreOwn, NEW params, AreGroups(params), NEW ns,
           QueriesKvpFault(params, ns) = None,
           NEW p \in Selective \intersect DOMAIN params, Empty \notin Range(params[p]),
           NEW q \in Range(QueriesFromKvp(params, ns))
    PROVE  Restricted(q, p)
<1>. DEFINE V == SplitParameterLists(params)
<1>1. SplitFault(params) = None
  BY DEF QueriesKvpFault
<1>2. PICK n \in Nat : DOMAIN V = 1..n
  BY <1>1, GroupsOfVariants
<1>3. \A i \in DOMAIN V : DOMAIN V[i] = DOMAIN params /\ V[i][p] \in Range(params[p])
  BY <1>1, GroupsOfVariants
<1>4. PICK k \in DOMAIN V :
         q = IF IsStored(params) THEN StoredFromKvp(V[k], ns) ELSE AdhocFromKvp(V[k], ns)
  BY DEF QueriesFromKvp, Range
<1>5. (IF IsStored(params) THEN StoredKvpFault(V[k]) ELSE AdhocKvpFault(V[k], ns)) = None
  <2>. DEFINE faults == [i \in DOMAIN V |->
                IF IsStored(params) THEN StoredKvpFault(V[i]) ELSE AdhocKvpFault(V[i], ns)]
  <2>1. DOMAIN faults = 1..n /\ FirstFault(faults) = None
    BY <1>1, <1>2 DEF QueriesKvpFault
  <2>2. faults[k] = None
    <3>. HIDE DEF faults, V
    <3>. QED
      BY <1>2, <1>4, <2>1, NothingRaised
  <2>. QED
    BY <2>2
<1>6. p \in DOMAIN V[k] /\ V[k][p] \notin {None, Empty, <<>>}
  <2>. HIDE DEF V
  <2>. QED
    BY <1>3, <1>4 DEF AreGroups
<1>. HIDE DEF V
<1>7. ~IsStored(params)
  BY <1>5, <1>6, StoredHasNoFilter
<1>8. FilterKvpFault(V[k], ns) = None
  <2>. DEFINE v == V[k]
              names == Get(v, "TYPENAMES", "TYPENAME", <<>>)
              unresolvable == SomeUnresolvable(names, ns)
              missing == names = <<>> /\ "RESOURCEID" \notin DOMAIN v
              a == When(unresolvable, Crash)
              b == ParsedBy(v, "SRSNAME", "", Invalid("srsName"))
              c == When(missing, Missing("typeNames"))
              d == FilterKvpFault(v, ns)
              e == ParsedBy(v, "SORTBY", "", Invalid("sortby"))
              f == JoinFault(names, Get(v, "ALIASES", "", None))
  <2>1. FirstFault(<<a, b, c, d, e, f>>) = None
    BY <1>5, <1>7 DEF AdhocKvpFault
  <2>. HIDE DEF a, b, c, d, e, f
  <2>2. d = None
    BY <2>1, NothingRaisedIn6
  <2>. QED
    BY <2>2 DEF d
<1>9. q.filter = FilterFromKvp(V[k], ns)
  BY <1>4, <1>7 DEF AdhocFromKvp
<1>. QED
  BY <1>6, <1>8, <1>9, FilterIsKept DEF Restricted

-----------------------------------------------------------------------------
(* A document is written as a URL without parameters that select features. *)

LEMMA NothingRaisedInDocument ==
    ASSUME NEW a, NEW b, NEW c, NEW d, NEW e, NEW f, NEW g, NEW h, NEW i, NEW j, NEW k,
           FirstFault(<<a, b>> \o <<c, d, e, f, g, h, i, j, k>>) = None
    PROVE  c = None
<1>. DEFINE s == <<a, b>> \o <<c, d, e, f, g, h, i, j, k>>
<1>1. DOMAIN s = 1..11 /\ 11 \in Nat /\ FirstFault(s) = None /\ s[3] = c
  OBVIOUS
<1>2. \A n \in 1..11 : s[n] = None
  <2>. HIDE DEF s
  <2>. QED
    BY <1>1, NothingRaised
<1>3. s[3] = None
  <2>. HIDE DEF s
  <2>. QED
    BY <1>2
<1>. QED
  BY <1>1, <1>3

LEMMA ParametersAreWritten ==
    ASSUME NEW f, IsFiniteSet(DOMAIN f), DOMAIN f \intersect Selective = {}
    PROVE  IsWritten(SetToSeq({Entry(p, Str(f[p])) : p \in DOMAIN f}))
<1>. DEFINE S == {Entry(p, Str(f[p])) : p \in DOMAIN f}
            L == SetToSeq(S)
            e == [p \in DOMAIN f |-> Entry(p, Str(f[p]))]
<1>1. e \in Surjection(DOMAIN f, S)
  BY DEF Surjection
<1>2. IsFiniteSet(S)
  <2>. HIDE DEF S, e
  <2>. QED
    BY <1>1, FS_Surjection
<1>3. IsList(L) /\ Range(L) = S
  <2>. HIDE DEF S
  <2>. QED
    BY <1>2, ListOfSet
<1>4. \A x \in S : WellWritten(x)
  BY HarmlessEntry
<1>. HIDE DEF L, S
<1>5. \A i \in DOMAIN L : WellWritten(L[i])
  BY <1>3, <1>4 DEF Range
<1>. QED
  BY <1>3, <1>5 DEF IsWritten, IsUrl, WellWritten, L, S

Harmless(q) ==
    q.stored # None => IsFiniteSet(DOMAIN q.parameters) /\ DOMAIN q.parameters \intersect Selective = {}

LEMMA QueryIsWritten ==
    ASSUME NEW q, Harmless(q)
    PROVE  IsWritten(QueryAsKvp(q))
<1>. DEFINE projection == EntryIf(q.properties # <<>>, "PROPERTYNAME", Texts(q.properties))
            types == <<Entry("TYPENAMES", [i \in DOMAIN q.typeNames |-> ClarkName(q.typeNames[i])])>>
            srs == EntryIf(q.srsName # None, "SRSNAME", CrsText(q.srsName))
            sort == EntryIf(q.sortBy # <<>>, "SORTBY", Texts(q.sortBy))
            id == <<Entry("STOREDQUERY_ID", q.stored)>>
            given == SetToSeq({Entry(p, Str(q.parameters[p])) : p \in DOMAIN q.parameters})
<1>1. IsWritten(projection) /\ IsWritten(types) /\ IsWritten(srs) /\ IsWritten(sort) /\ IsWritten(id)
  BY OneIsWritten DEF Selective
<1>2. q.stored # None => IsWritten(given)
  BY ParametersAreWritten DEF Harmless
<1>3. QueryAsKvp(q) = projection \o (IF q.stored = None THEN types \o srs \o sort ELSE id \o given)
  BY DEF QueryAsKvp
<1>. HIDE DEF projection, types, srs, sort, id, given
<1>. QED
  BY <1>1, <1>2, <1>3, TogetherWritten

LEMMA DocumentIsWritten ==
    ASSUME NEW r, Harmless(r.queries[1])
    PROVE  IsWritten(AsKvp(r))
<1>. DEFINE q == QueryAsKvp(r.queries[1])
            base == <<Entry("SERVICE", r.service), Entry("VERSION", r.version),
                      Entry("REQUEST", r.operation)>>
            format == EntryIf(r.outputFormat # GML, "OUTPUTFORMAT", r.outputFormat)
            type == EntryIf(r.resultType # "results", "RESULTTYPE", r.resultType)
            start == EntryIf(r.startIndex # 0, "STARTINDEX", r.startIndex)
            count == EntryIf(r.count # None, "COUNT", r.count)
            value == EntryIf(r.valueReference # None, "VALUEREFERENCE", Text(r.valueReference))
<1>1. /\ IsWritten(format) /\ IsWritten(type) /\ IsWritten(start)
      /\ IsWritten(count) /\ IsWritten(value)
  BY OneIsWritten DEF Selective
<1>2. IsWritten(base)
  <2>1. DOMAIN base = 1..3 /\ \A i \in 1..3 : base[i] \in {Entry("SERVICE", r.service),
                                 Entry("VERSION", r.version), Entry("REQUEST", r.operation)}
    <3>1. base[1] = Entry("SERVICE", r.service) /\ base[2] = Entry("VERSION", r.version)
          /\ base[3] = Entry("REQUEST", r.operation) /\ DOMAIN base = 1..3
      OBVIOUS
    <3>2. \A i \in 1..3 : i = 1 \/ i = 2 \/ i = 3
      OBVIOUS
    <3>. HIDE DEF base
    <3>. QED
      BY <3>1, <3>2
  <2>2. base \in [1..3 -> Range(base)]
    BY DEF Range
  <2>. HIDE DEF base
  <2>3. \A i \in DOMAIN base : WellWritten(base[i])
    BY <2>1, HarmlessEntry DEF Selective
  <2>4. IsList(base)
    BY <2>2, MappingIsList
  <2>. QED
    BY <2>3, <2>4 DEF IsWritten
<1>3. IsWritten(q)
  BY QueryIsWritten
<1>4. AsKvp(r) = base \o q \o format \o type \o start \o count \o value
  BY DEF AsKvp
<1>. HIDE DEF base, q, format, type, start, count, value
<1>. QED
  BY <1>1, <1>2, <1>3, <1>4, TogetherWritten

LEMMA PostedQueryIsHarmless ==
    ASSUME NoneIsNoValue, ParametersAreOwn,
           NEW doc, IsList(doc.children), doc.operation \in DataOperations, XmlFault(doc) = None,
           1 \in DOMAIN doc.children
    PROVE  Harmless(RequestFromXml(doc).queries[1])
<1>. DEFINE ns == XmlNamespaces(doc)
            e == doc.children[1]
            q == RequestFromXml(doc).queries[1]
<1>1. DOMAIN doc.children = 1 .. Len(doc.children) /\ Len(doc.children) \in Nat
  BY ListShape
<1>2. q = QueryFromXml(e, ns)
  <2>. DEFINE queries == [i \in DOMAIN doc.children |-> QueryFromXml(doc.children[i], ns)]
  <2>1. RequestFromXml(doc).queries = queries
    BY DEF RequestFromXml, DataOperations, NoRequest
  <2>. QED
    BY <2>1
<1>3. DataXmlFault(doc) = None
  <2>1. FirstFault(<<RootFault(doc), DataXmlFault(doc)>>) = None
    BY DEF XmlFault, DataOperations
  <2>. QED
    BY <2>1, NothingRaisedIn2
<1>4. QueryXmlFault(e, ns) = None
  <2>. DEFINE faults == [i \in DOMAIN doc.children |-> QueryXmlFault(doc.children[i], ns)]
  <2>1. FirstFault(faults) = None
    <3>. DEFINE a == RequiredAttribute(doc, "service")
                b == RequiredAttribute(doc, "version")
                c == FirstFault(faults)
                d == Members(doc, "resolve", ResolveValues)
                f == When(Attribute(doc, "resolveDepth", None) = Garbage, Invalid("resolveDepth"))
                g == IntAttribute(doc, "resolveTimeout")
                h == IntAttribute(doc, "count")
                i == Members(doc, "resultType", ResultTypes)
                j == IntAttribute(doc, "startIndex")
                k == When(doc.operation = "GetPropertyValue", RequiredAttribute(doc, "valueReference"))
                l == PropertyValueFault(doc.operation, Attribute(doc, "resolvePath", None),
                                        Len(doc.children))
    <3>1. FirstFault(<<a, b>> \o <<c, d, f, g, h, i, j, k, l>>) = None
      BY <1>3 DEF DataXmlFault, BaseXmlFaults
    <3>. HIDE DEF a, b, c, d, f, g, h, i, j, k, l
    <3>2. c = None
      BY <3>1, NothingRaisedInDocument
    <3>. QED
      BY <3>2 DEF c
  <2>2. faults[1] = None
    <3>1. DOMAIN faults = 1 .. Len(doc.children)
      BY <1>1
    <3>. HIDE DEF faults
    <3>. QED
      BY <1>1, <2>1, <3>1, NothingRaised
  <2>. QED
    BY <2>2
<1>. HIDE DEF q, e, ns
<1>5. ASSUME q.stored # None
      PROVE  IsFiniteSet(DOMAIN q.parameters) /\ DOMAIN q.parameters \intersect Selective = {}
  <2>1. e.tag = "StoredQuery"
    BY <1>2, <1>5 DEF QueryFromXml, AdhocFromXml
  <2>2. q.parameters = e.parameters
    BY <1>2, <2>1 DEF QueryFromXml, StoredQuery
  <2>3. StoredXmlFault(e) = None
    BY <1>4, <2>1, GarbageAssumption DEF QueryXmlFault
  <2>. DEFINE id == Attribute(e, "id", None)
              known == When(id \notin DOMAIN StoredQueries, Invalid("STOREDQUERY_ID"))
              given == IF id \in DOMAIN StoredQueries
                       THEN ParametersFault(e.attrs["id"], e.parameters) ELSE None
              required == RequiredAttribute(e, "id")
  <2>4. known = None /\ given = None /\ required = None
    <3>1. FirstFault(<<required, known, given>>) = None
      BY <2>3 DEF StoredXmlFault
    <3>. HIDE DEF required, known, given
    <3>. QED
      BY <3>1, NothingRaisedIn3
  <2>5. id \in DOMAIN StoredQueries
    BY <2>4, FaultsAreNotNone DEF When, Invalid
  <2>6. "id" \in DOMAIN e.attrs
    BY <2>4, FaultsAreNotNone DEF RequiredAttribute, When, Crash
  <2>7. ParametersFault(id, e.parameters) = None
    BY <2>4, <2>5, <2>6 DEF Attribute
  <2>. HIDE DEF id
  <2>8. DOMAIN e.parameters = StoredQueries[id]
    <3>. DEFINE absent == StoredQueries[id] \ DOMAIN e.parameters
                unknown == DOMAIN e.parameters \ StoredQueries[id]
                garbled == \E p \in DOMAIN e.parameters \ unknown : e.parameters[p] = Garbage
                a == When(absent # {}, Missing(CHOOSE p \in absent : TRUE))
                b == When(garbled, Invalid(None))
                c == When(unknown # {}, Invalid(CHOOSE p \in unknown : TRUE))
    <3>1. FirstFault(<<a, b, c>>) = None
      BY <2>7 DEF ParametersFault
    <3>2. a = None /\ c = None
      <4>. HIDE DEF a, b, c
      <4>. QED
        BY <3>1, NothingRaisedIn3
    <3>. HIDE DEF absent, unknown
    <3>3. absent = {} /\ unknown = {}
      BY <3>2, FaultsAreNotNone DEF When, Missing, Invalid
    <3>. QED
      BY <3>3 DEF absent, unknown
  <2>. QED
    BY <2>2, <2>5, <2>8 DEF ParametersAreOwn
<1>. QED
  BY <1>5 DEF Harmless, q

-----------------------------------------------------------------------------
(* What selects features is kept from the URL to the queries, and from     *)
(* page to page.                                                           *)

Selection ==
    /\ Course
    /\ http # None => IsWritten(http.query)
    /\ http # None /\ ~IsGet /\ http.doc # Garbage => IsList(http.doc.children)
    /\ phase \in {"loaded", "read", "found", "parsed", "validated"} => IsGet \/ http.doc # Garbage
    /\ answer.next # None => IsWritten(answer.next)

LEMMA LinkIsWritten ==
    ASSUME NoneIsNoValue, ParametersAreOwn, Selection, phase = "validated", NextLink # None
    PROVE  IsWritten(NextLink)
<1>1. /\ http # None /\ IsWritten(http.query)
      /\ ParseFault = None /\ request = Parsed
      /\ ~IsGet => IsList(http.doc.children)
  BY DEF Selection, Course, TypeOK
<1>2. IsPage(NextUpdates)
  BY DEF NextUpdates, IsPage
<1>3. CASE IsGet
  BY <1>1, <1>2, <1>3, ReplacedIsWritten DEF NextLink
<1>4. CASE ~IsGet
  <2>1. /\ NextLink = Replaced(Updated(http.query, AsKvp(request)), NextUpdates)
        /\ request.operation \in DataOperations
        /\ Range(request.queries) # {}
    BY <1>4 DEF NextLink
  <2>2. request = RequestFromXml(http.doc) /\ XmlFault(http.doc) = None
    BY <1>1, <1>4 DEF Parsed, ParseFault
  <2>3. http.doc.operation \in DataOperations
    <3>1. RequestFromXml(http.doc).operation = http.doc.operation
      BY DEF RequestFromXml, NoRequest
    <3>. QED
      BY <2>1, <2>2, <3>1
  <2>4. 1 \in DOMAIN http.doc.children
    <3>1. DOMAIN request.queries = DOMAIN http.doc.children
      BY <2>2, <2>3 DEF RequestFromXml, DataOperations, NoRequest
    <3>2. DOMAIN http.doc.children # {}
      BY <2>1, <3>1 DEF Range
    <3>3. /\ DOMAIN http.doc.children = 1 .. Len(http.doc.children)
          /\ Len(http.doc.children) \in Nat
      BY <1>1, <1>4, ListShape
    <3>. QED
      BY <3>2, <3>3
  <2>5. Harmless(request.queries[1])
    BY <1>1, <1>4, <2>2, <2>3, <2>4, PostedQueryIsHarmless
  <2>6. IsWritten(Updated(http.query, AsKvp(request)))
    BY <1>1, <2>5, DocumentIsWritten, UpdatedIsWritten
  <2>. QED
    BY <1>2, <2>1, <2>6, ReplacedIsWritten
<1>. QED
  BY <1>3, <1>4

LEMMA InitSelection == Init => Selection
BY InitCourse DEF Init, Selection, NotAnswered

LEMMA NextSelection ==
    ASSUME NoneIsNoValue, ParametersAreOwn, Selection, [Next]_vars
    PROVE  Selection'
<1>1. Course /\ Course' /\ TypeOK
  BY NextCourse DEF Selection, Course
<1>2. CASE Send
  <2>1. PICK r \in Requests : http' = [method |-> r.method, query |-> r.query, doc |-> r.doc]
    BY <1>2 DEF Send
  <2>2. phase' = "received" /\ answer'.next = None
    BY <1>2 DEF Send, Fresh, NotAnswered
  <2>. QED
    BY <1>1, <2>1, <2>2, RequestsAssumption DEF Selection, IsGet
<1>3. CASE Load
  <2>1. http' = http /\ answer' = answer /\ phase = "received" /\ ReadFault = None
    BY <1>3 DEF Load, Step, StepFault
  <2>2. IsGet \/ http.doc # Garbage
    BY <2>1, FaultsAreNotNone DEF ReadFault, When, ParsingFailed
  <2>. QED
    BY <1>1, <2>1, <2>2 DEF Selection, IsGet
<1>4. CASE ReadService \/ FindOperation \/ ParseRequest \/ Validate
  <2>1. http' = http /\ answer' = answer /\ phase \in {"loaded", "read", "found", "parsed"}
    BY <1>4 DEF ReadService, FindOperation, ParseRequest, Validate, Step
  <2>. QED
    BY <1>1, <2>1 DEF Selection, IsGet
<1>5. CASE RenderIndex \/ Refuse
  <2>1. http' = http /\ phase' = "answered" /\ answer'.next = None
    <3>1. RenderIndex => http' = http /\ phase' = "answered" /\ answer'.next = None
      BY DEF RenderIndex, NotAnswered
    <3>2. Refuse => http' = http /\ phase' = "answered" /\ answer'.next = None
      BY DEF Refuse, HandleException
    <3>. QED
      BY <1>5, <3>1, <3>2
  <2>. QED
    BY <1>1, <2>1 DEF Selection, IsGet
<1>6. CASE Process
  <2>1. http' = http /\ phase' = "answered" /\ answer'.next = NextLink /\ phase = "validated"
    BY <1>6 DEF Process, Step
  <2>. QED
    BY <1>1, <2>1, LinkIsWritten DEF Selection, IsGet
<1>7. CASE FollowNext
  <2>1. /\ http' = [method |-> "GET", query |-> answer.next, doc |-> None] /\ answer.next # None
        /\ phase' = "received" /\ answer'.next = None
    BY <1>7 DEF FollowNext, Fresh, NotAnswered
  <2>. QED
    BY <1>1, <2>1 DEF Selection, IsGet
<1>8. CASE Leave
  BY <1>1, <1>8 DEF Leave, Selection, NotAnswered
<1>9. CASE UNCHANGED vars
  BY <1>1, <1>9 DEF vars, Selection, IsGet
<1>. QED
  BY <1>2, <1>3, <1>4, <1>5, <1>6, <1>7, <1>8, <1>9 DEF Next, Server, Client

LEMMA ParsedIsRestricted ==
    ASSUME NoneIsNoValue, ParametersAreOwn, NEW params, AreGroups(params), NEW ns, NEW operation,
           operation \in DataOperations, KvpFault(operation, params, ns) = None,
           NEW p \in Selective \intersect DOMAIN params, Empty \notin Range(params[p]),
           NEW q \in Range(RequestFromKvp(operation, params, ns).queries)
    PROVE  Restricted(q, p)
<1>1. DataKvpFault(operation, params, ns) = None
  <2>. DEFINE a == Required(Whole(params), "SERVICE", "")
              b == DataKvpFault(operation, params, ns)
  <2>1. FirstFault(<<a, b>>) = None
    BY DEF KvpFault, DataOperations
  <2>. HIDE DEF a, b
  <2>2. b = None
    BY <2>1, NothingRaisedIn2
  <2>. QED
    BY <2>2 DEF b
<1>2. QueriesKvpFault(params, ns) = None
  <2>. DEFINE w == Whole(params)
              a == QueriesKvpFault(params, ns)
              b == Required(w, "SERVICE", "")
              c == Required(w, "VERSION", "")
              d == When(Get(w, "RESOLVE", "", "none") \notin ResolveValues, Crash)
              e == ParsedBy(w, "RESOLVEDEPTH", "", Invalid("resolveDepth"))
              k == ParsedBy(w, "RESOLVETIMEOUT", "", Invalid("resolveTimeout"))
              f == ParsedBy(w, "COUNT", "MAXFEATURES", Invalid("count"))
              g == When(Get(w, "RESULTTYPE", "", "results") \notin ResultTypes, Crash)
              h == ParsedBy(w, "STARTINDEX", "", Invalid("startIndex"))
              i == When(operation = "GetPropertyValue", Required(w, "VALUEREFERENCE", ""))
              j == PropertyValueFault(operation, Get(w, "RESOLVEPATH", "", None),
                                      Len(SplitParameterLists(params)))
  <2>1. FirstFault(<<a>> \o <<b, c>> \o <<d, e, k, f, g, h, i, j>>) = None
    BY <1>1 DEF DataKvpFault, BaseKvpFaults
  <2>. HIDE DEF a, b, c, d, e, f, g, h, i, j, k
  <2>2. a = None
    BY <2>1, NothingRaisedIn11
  <2>. QED
    BY <2>2 DEF a
<1>3. RequestFromKvp(operation, params, ns).queries = QueriesFromKvp(params, ns)
  BY DEF RequestFromKvp, DataFromKvp, DataOperations, NoRequest
<1>. QED
  BY <1>2, <1>3, QueriesAreRestricted

LEMMA SelectionIsKept ==
    ASSUME NoneIsNoValue, ParametersAreOwn, Selection
    PROVE  NothingSelectiveIsIgnored
<1>. SUFFICES ASSUME answer.kind = "document", IsGet, request.operation \in DataOperations,
                     NEW p \in Selective \cap DOMAIN kvp, NEW q \in Range(request.queries),
                     Empty \notin Range(kvp[p])
              PROVE  Restricted(q, p)
  BY DEF NothingSelectiveIsIgnored, Restricted
<1>1. /\ http # None /\ kvp = KvpParams(http.query)
      /\ ParseFault = None /\ request = Parsed
  BY DEF Selection, Course, Answered, TypeOK
<1>2. AreGroups(kvp)
  BY <1>1, WrittenAreGroups DEF Selection
<1>3. /\ KvpFault(Operation, kvp, KvpNamespaces(Kvp)) = None
      /\ request = RequestFromKvp(Operation, kvp, KvpNamespaces(Kvp))
  BY <1>1 DEF ParseFault, Parsed
<1>4. ASSUME NEW operation, NEW ns PROVE RequestFromKvp(operation, kvp, ns).operation = operation
  BY DEF RequestFromKvp, DataFromKvp, NoRequest
<1>5. Operation \in DataOperations
  BY <1>3, <1>4
<1>. QED
  BY <1>2, <1>3, <1>5, ParsedIsRestricted

(* No parameter that selects features is dropped on the way to the         *)
(* queries, whatever the encoding of the request, its other parameters,    *)
(* and the page of the answer: a URL that is answered with features was    *)
(* restricted by each one, in each of its queries.                         *)
THEOREM SelectionIsRespected ==
    ASSUME NoneIsNoValue, ParametersAreOwn
    PROVE  Spec => []NothingSelectiveIsIgnored
<1>1. Init => Selection
  BY InitSelection
<1>2. Selection /\ [Next]_vars => Selection'
  BY NextSelection
<1>3. Selection => NothingSelectiveIsIgnored
  BY SelectionIsKept
<1>. QED
  BY <1>1, <1>2, <1>3, PTL DEF Spec
-----------------------------------------------------------------------------
(* Checks that raise nothing.                                              *)

LEMMA NothingToRaise ==
    ASSUME NEW checks, \A i \in DOMAIN checks : checks[i] = None
    PROVE  FirstFault(checks) = None
BY FirstFaultIsFirst DEF FirstOf

LEMMA NothingToRaiseIn2 == FirstFault(<<None, None>>) = None
<1>. DEFINE s == <<None, None>>
<1>1. \A i \in DOMAIN s : s[i] = None
  OBVIOUS
<1>. QED
  BY <1>1, NothingToRaise

LEMMA NothingToRaiseIn3 == FirstFault(<<None, None, None>>) = None
<1>. DEFINE s == <<None, None, None>>
<1>1. \A i \in DOMAIN s : s[i] = None
  OBVIOUS
<1>. QED
  BY <1>1, NothingToRaise

LEMMA NothingToRaiseIn11 ==
    FirstFault(<<None>> \o <<None, None>> \o <<None, None, None, None, None, None, None, None>>) = None
<1>. DEFINE s == <<None>> \o <<None, None>> \o <<None, None, None, None, None, None, None, None>>
<1>1. \A i \in DOMAIN s : s[i] = None
  OBVIOUS
<1>. QED
  BY <1>1, NothingToRaise

-----------------------------------------------------------------------------
(* The parameters of a next link are those of its URL but for the page.    *)
(* From here on, to LinksKeepTheMeaning: what the server writes in a link, *)
(* it reads back.                                                          *)

LEMMA LinkParameters ==
    ASSUME NEW query, NEW updates, IsUrl(query), OnePage(query), IsPage(updates)
    PROVE  LET link == Replaced(query, updates)
           IN  /\ IsUrl(link) /\ OnePage(link)
               /\ KvpNames(link) = KvpNames(query) \union PageNames
               /\ \A n \in KvpNames(query) \ PageNames : KvpParams(link)[n] = KvpParams(query)[n]
               /\ \A n \in PageNames : KvpParams(link)[n] = <<updates[n]>>
<1>. DEFINE link == Replaced(query, updates)
            K == Kept(query, updates)
<1>1. /\ IsUrl(link)
      /\ \A i \in DOMAIN query : i \in DOMAIN link
      /\ \A i \in DOMAIN link :
           \/ i \in DOMAIN query /\ link[i] = K[i]
           \/ i \notin DOMAIN query /\ \E n \in DOMAIN updates \ KvpNames(query) :
                 link[i] = Entry(n, updates[n])
      /\ \A n \in DOMAIN updates \ KvpNames(query) :
           \E i \in DOMAIN link : link[i] = Entry(n, updates[n])
      /\ \A i, j \in DOMAIN link :
           i \notin DOMAIN query /\ j \notin DOMAIN query /\ link[i] = link[j] => i = j
  BY ReplacedEntries
<1>2. \A i \in DOMAIN query :
         /\ K[i].name = query[i].name
         /\ query[i].name \notin DOMAIN updates => K[i].value = query[i].value
         /\ query[i].name \in DOMAIN updates
            /\ (\A j \in 1 .. i - 1 : query[j].name # query[i].name) =>
               K[i].value = <<updates[query[i].name]>>
  BY KeptEntries
<1>3. DOMAIN updates = PageNames
  BY DEF IsPage, PageNames
<1>4. \A n : Entry(n, updates[n]).name = n /\ Entry(n, updates[n]).value = <<updates[n]>>
  BY DEF Entry
<1>5. DOMAIN query = 1 .. Len(query) /\ Len(query) \in Nat
  BY ListShape DEF IsUrl
<1>. HIDE DEF link, K
<1>6. ASSUME NEW i \in DOMAIN query, query[i].name \in PageNames
      PROVE  K[i].value = <<updates[query[i].name]>>
  <2>1. \A j \in 1 .. i - 1 : query[j].name # query[i].name
    <3>1. ASSUME NEW j \in 1 .. i - 1, query[j].name = query[i].name PROVE FALSE
      <4>1. j \in DOMAIN query /\ j # i
        BY <1>5
      <4>. QED
        BY <1>6, <3>1, <4>1 DEF OnePage
    <3>. QED
      BY <3>1
  <2>. QED
    BY <1>2, <1>3, <1>6, <2>1
<1>7. \A i \in DOMAIN link :
        /\ i \in DOMAIN query => link[i].name = query[i].name
        /\ i \in DOMAIN query /\ query[i].name \notin PageNames => link[i].value = query[i].value
        /\ i \notin DOMAIN query => link[i].name \in PageNames \ KvpNames(query)
                                    /\ link[i] = Entry(link[i].name, updates[link[i].name])
        /\ link[i].name \in PageNames => link[i].value = <<updates[link[i].name]>>
  <2>1. ASSUME NEW i \in DOMAIN link, i \in DOMAIN query
        PROVE  /\ link[i].name = query[i].name
               /\ query[i].name \notin PageNames => link[i].value = query[i].value
               /\ query[i].name \in PageNames => link[i].value = <<updates[query[i].name]>>
    BY <1>1, <1>2, <1>3, <1>6, <2>1
  <2>2. ASSUME NEW i \in DOMAIN link, i \notin DOMAIN query
        PROVE  /\ link[i].name \in PageNames \ KvpNames(query)
               /\ link[i] = Entry(link[i].name, updates[link[i].name])
               /\ link[i].value = <<updates[link[i].name]>>
    <3>1. PICK n \in PageNames \ KvpNames(query) : link[i] = Entry(n, updates[n])
      BY <1>1, <1>3, <2>2
    <3>. QED
      BY <1>4, <3>1
  <2>. QED
    BY <2>1, <2>2
<1>8. KvpNames(link) = KvpNames(query) \union PageNames
  <2>1. \A i \in DOMAIN link : link[i].name \in KvpNames(query) \union PageNames
    BY <1>7 DEF KvpNames
  <2>2. \A i \in DOMAIN query : query[i].name \in KvpNames(link)
    BY <1>1, <1>7 DEF KvpNames
  <2>3. \A n \in PageNames : n \in KvpNames(link)
    <3>1. ASSUME NEW n \in PageNames, n \notin KvpNames(query) PROVE n \in KvpNames(link)
      <4>1. PICK i \in DOMAIN link : link[i] = Entry(n, updates[n])
        BY <1>1, <1>3, <3>1
      <4>. QED
        BY <1>4, <4>1 DEF KvpNames
    <3>. QED
      BY <2>2, <3>1 DEF KvpNames
  <2>. QED
    BY <2>1, <2>2, <2>3 DEF KvpNames
<1>9. OnePage(link)
  <2>1. ASSUME NEW i \in DOMAIN link, NEW j \in DOMAIN link, link[i].name = link[j].name,
               link[i].name \in PageNames
        PROVE  i = j
    <3>1. CASE i \in DOMAIN query
      <4>1. link[i].name \in KvpNames(query)
        BY <1>7, <3>1 DEF KvpNames
      <4>2. j \in DOMAIN query
        BY <1>7, <2>1, <4>1
      <4>. QED
        BY <1>7, <2>1, <3>1, <4>2 DEF OnePage
    <3>2. CASE i \notin DOMAIN query
      <4>1. j \notin DOMAIN query
        BY <1>7, <2>1, <3>2 DEF KvpNames
      <4>2. link[i] = link[j]
        BY <1>7, <2>1, <3>2, <4>1
      <4>. QED
        BY <1>1, <3>2, <4>1, <4>2
    <3>. QED
      BY <3>1, <3>2
  <2>. QED
    BY <2>1 DEF OnePage
<1>10. ASSUME NEW n \in KvpNames(query) \ PageNames
       PROVE  KvpParams(link)[n] = KvpParams(query)[n]
  <2>1. PICK i \in DOMAIN query :
           /\ query[i].name = n /\ KvpParams(query)[n] = query[i].value
           /\ \A j \in DOMAIN query : query[j].name = n => j <= i
    BY LastParameter DEF IsUrl
  <2>2. PICK k \in DOMAIN link :
           /\ link[k].name = n /\ KvpParams(link)[n] = link[k].value
           /\ \A j \in DOMAIN link : link[j].name = n => j <= k
    BY <1>1, <1>8, LastParameter DEF IsUrl
  <2>3. k \in DOMAIN query
    BY <1>7, <2>2
  <2>4. k <= i /\ i <= k /\ i \in Int /\ k \in Int
    BY <1>1, <1>5, <1>7, <2>1, <2>2, <2>3
  <2>5. i = k
    BY <2>4
  <2>. QED
    BY <1>7, <2>1, <2>2, <2>5
<1>11. ASSUME NEW n \in PageNames PROVE KvpParams(link)[n] = <<updates[n]>>
  <2>1. PICK k \in DOMAIN link : link[k].name = n /\ KvpParams(link)[n] = link[k].value
    BY <1>1, <1>8, LastParameter DEF IsUrl
  <2>. QED
    BY <1>7, <2>1
<1>. QED
  BY <1>1, <1>8, <1>9, <1>10, <1>11 DEF link

-----------------------------------------------------------------------------
(* Parameters that differ in the page only are read as the same queries.   *)

Alike(k, l) ==
    \A n : n \notin PageNames =>
        (n \in DOMAIN l <=> n \in DOMAIN k) /\ (n \in DOMAIN k => l[n] = k[n])

LEMMA SameValue ==
    ASSUME NEW k, NEW l, Alike(k, l), NEW n, n \notin PageNames, NEW alias, alias \notin PageNames
    PROVE  /\ Value(l, n, alias) = Value(k, n, alias)
           /\ \A default : Get(l, n, alias, default) = Get(k, n, alias, default)
           /\ Required(l, n, alias) = Required(k, n, alias)
           /\ \A fault : ParsedBy(l, n, alias, fault) = ParsedBy(k, n, alias, fault)
<1>1. Raw(l, n) = Raw(k, n)
  BY DEF Raw, Alike
<1>2. Raw(l, alias) = Raw(k, alias)
  BY DEF Raw, Alike
<1>3. Value(l, n, alias) = Value(k, n, alias)
  BY <1>1, <1>2 DEF Value
<1>. QED
  BY <1>3 DEF Get, Required, ParsedBy

LEMMA SameFilter ==
    ASSUME NEW k, NEW l, Alike(k, l), NEW ns
    PROVE  /\ FilterKvpFault(l, ns) = FilterKvpFault(k, ns)
           /\ FilterFromKvp(l, ns) = FilterFromKvp(k, ns)
<1>. DEFINE e == "" i == "RESOURCEID" f == "FILTER" b == "BBOX" g == "FILTER_LANGUAGE"
<1>1. \A n \in {e, i, f, b, g} : n \notin PageNames
  BY DEF PageNames
<1>. HIDE DEF e, i, f, b, g
<1>2. /\ \A default : Get(l, i, e, default) = Get(k, i, e, default)
      /\ \A default : Get(l, f, e, default) = Get(k, f, e, default)
      /\ \A default : Get(l, b, e, default) = Get(k, b, e, default)
  BY <1>1, SameValue
<1>3. /\ \A fault : ParsedBy(l, g, e, fault) = ParsedBy(k, g, e, fault)
      /\ \A fault : ParsedBy(l, f, e, fault) = ParsedBy(k, f, e, fault)
      /\ \A fault : ParsedBy(l, b, e, fault) = ParsedBy(k, b, e, fault)
  BY <1>1, SameValue
<1>4. /\ Get(l, "RESOURCEID", "", <<>>) = Get(k, "RESOURCEID", "", <<>>)
      /\ Get(l, "FILTER", "", None) = Get(k, "FILTER", "", None)
      /\ Get(l, "BBOX", "", None) = Get(k, "BBOX", "", None)
  BY <1>2 DEF e, i, f, b
<1>5. /\ ParsedBy(l, "FILTER_LANGUAGE", "", Invalid("filterLanguage"))
         = ParsedBy(k, "FILTER_LANGUAGE", "", Invalid("filterLanguage"))
      /\ ParsedBy(l, "FILTER", "", ParsingFailed("filter")) = ParsedBy(k, "FILTER", "", ParsingFailed("filter"))
      /\ ParsedBy(l, "BBOX", "", Invalid("bbox")) = ParsedBy(k, "BBOX", "", Invalid("bbox"))
  BY <1>3 DEF e, f, b, g
<1>. QED
  BY <1>4, <1>5 DEF FilterKvpFault, FilterFromKvp

LEMMA SameAdhoc ==
    ASSUME NEW k, NEW l, Alike(k, l), NEW ns
    PROVE  /\ AdhocKvpFault(l, ns) = AdhocKvpFault(k, ns)
           /\ AdhocFromKvp(l, ns) = AdhocFromKvp(k, ns)
<1>. DEFINE e == "" t == "TYPENAMES" u == "TYPENAME" a == "ALIASES" p == "PROPERTYNAME"
            s == "SRSNAME" o == "SORTBY" i == "RESOURCEID"
<1>1. \A n \in {e, t, u, a, p, s, o, i} : n \notin PageNames
  BY DEF PageNames
<1>. HIDE DEF e, t, u, a, p, s, o, i
<1>2. /\ \A default : Get(l, t, u, default) = Get(k, t, u, default)
      /\ \A default : Get(l, a, e, default) = Get(k, a, e, default)
      /\ \A default : Get(l, p, e, default) = Get(k, p, e, default)
      /\ \A default : Get(l, s, e, default) = Get(k, s, e, default)
      /\ \A default : Get(l, o, e, default) = Get(k, o, e, default)
  BY <1>1, SameValue
<1>3. /\ \A fault : ParsedBy(l, s, e, fault) = ParsedBy(k, s, e, fault)
      /\ \A fault : ParsedBy(l, o, e, fault) = ParsedBy(k, o, e, fault)
  BY <1>1, SameValue
<1>4. i \in DOMAIN l <=> i \in DOMAIN k
  BY <1>1 DEF Alike
<1>5. /\ Get(l, "TYPENAMES", "TYPENAME", <<>>) = Get(k, "TYPENAMES", "TYPENAME", <<>>)
      /\ Get(l, "ALIASES", "", None) = Get(k, "ALIASES", "", None)
      /\ Get(l, "PROPERTYNAME", "", <<>>) = Get(k, "PROPERTYNAME", "", <<>>)
      /\ Get(l, "SRSNAME", "", None) = Get(k, "SRSNAME", "", None)
      /\ Get(l, "SORTBY", "", <<>>) = Get(k, "SORTBY", "", <<>>)
  BY <1>2 DEF e, t, u, a, p, s, o
<1>6. /\ ParsedBy(l, "SRSNAME", "", Invalid("srsName")) = ParsedBy(k, "SRSNAME", "", Invalid("srsName"))
      /\ ParsedBy(l, "SORTBY", "", Invalid("sortby")) = ParsedBy(k, "SORTBY", "", Invalid("sortby"))
  BY <1>3 DEF e, s, o
<1>7. "RESOURCEID" \in DOMAIN l <=> "RESOURCEID" \in DOMAIN k
  BY <1>4 DEF i
<1>8. AdhocFromKvp(l, ns) = AdhocFromKvp(k, ns)
  BY <1>5, SameFilter DEF AdhocFromKvp
<1>9. AdhocKvpFault(l, ns) = AdhocKvpFault(k, ns)
  BY <1>5, <1>6, <1>7, SameFilter DEF AdhocKvpFault
<1>. QED
  BY <1>8, <1>9

LEMMA SameStored ==
    ASSUME NoneIsNoValue, NEW k, NEW l, Alike(k, l), NEW ns,
           \A id \in DOMAIN StoredQueries : StoredQueries[id] \intersect PageNames = {}
    PROVE  /\ StoredKvpFault(l) = StoredKvpFault(k)
           /\ StoredKvpFault(k) = None => StoredFromKvp(l, ns) = StoredFromKvp(k, ns)
<1>. DEFINE id == Get(k, "STOREDQUERY_ID", "", None)
            e == "" s == "STOREDQUERY_ID" f == "FILTER" b == "BBOX" i == "RESOURCEID"
<1>1. \A n \in {e, s, f, b, i} : n \notin PageNames
  BY DEF PageNames
<1>2. Get(l, "STOREDQUERY_ID", "", None) = id
  <2>. HIDE DEF e, s, f, b, i
  <2>1. Get(l, s, e, None) = Get(k, s, e, None)
    BY <1>1, SameValue
  <2>. QED
    BY <2>1 DEF e, s
<1>3. /\ "FILTER" \in DOMAIN l <=> "FILTER" \in DOMAIN k
      /\ "BBOX" \in DOMAIN l <=> "BBOX" \in DOMAIN k
      /\ "RESOURCEID" \in DOMAIN l <=> "RESOURCEID" \in DOMAIN k
  <2>. HIDE DEF e, s, f, b, i
  <2>1. \A n \in {f, b, i} : n \in DOMAIN l <=> n \in DOMAIN k
    BY <1>1 DEF Alike
  <2>. QED
    BY <2>1 DEF f, b, i
<1>. HIDE DEF id, e, s, f, b, i
<1>4. ASSUME id \in DOMAIN StoredQueries
      PROVE  StoredParameters(l, id) = StoredParameters(k, id)
  <2>1. \A p \in StoredQueries[id] : p \notin PageNames
    BY <1>4
  <2>2. StoredQueries[id] \intersect DOMAIN l = StoredQueries[id] \intersect DOMAIN k
    BY <2>1 DEF Alike
  <2>3. \A p \in StoredQueries[id] \intersect DOMAIN k : l[p] = k[p]
    BY <2>1 DEF Alike
  <2>. QED
    BY <2>2, <2>3 DEF StoredParameters
<1>5. StoredKvpFault(l) = StoredKvpFault(k)
  <2>1. CASE id \notin DOMAIN StoredQueries
    BY <1>2, <2>1 DEF StoredKvpFault, id
  <2>2. CASE id \in DOMAIN StoredQueries
    <3>. DEFINE given == StoredParameters(k, id)
                empty == {p \in DOMAIN given : given[p] = Empty}
                checks(m) == <<When(empty # {}, Invalid(CHOOSE p \in empty : TRUE)),
                               When("FILTER" \in DOMAIN m \ DOMAIN given, Invalid("FILTER")),
                               When("BBOX" \in DOMAIN m \ DOMAIN given, Invalid("BBOX")),
                               When("RESOURCEID" \in DOMAIN m \ DOMAIN given, Invalid("RESOURCEID")),
                               ParametersFault(id, given)>>
    <3>1. StoredParameters(l, id) = given
      BY <1>4, <2>2
    <3>2. StoredKvpFault(k) = FirstFault(checks(k))
      BY <2>2 DEF StoredKvpFault, id
    <3>3. StoredKvpFault(l) = FirstFault(checks(l))
      <4>. HIDE DEF given
      <4>. QED
        BY <1>2, <2>2, <3>1 DEF StoredKvpFault
    <3>4. checks(l) = checks(k)
      <4>. HIDE DEF given, empty
      <4>. QED
        BY <1>3 DEF When
    <3>. HIDE DEF checks
    <3>. QED
      BY <3>2, <3>3, <3>4
  <2>. QED
    BY <2>1, <2>2
<1>6. ASSUME StoredKvpFault(k) = None, id \notin DOMAIN StoredQueries
      PROVE  StoredFromKvp(l, ns) = StoredFromKvp(k, ns)
  <2>1. Invalid("STOREDQUERY_ID") = None
    BY <1>6 DEF StoredKvpFault, id
  <2>. QED
    BY <2>1, FaultsAreNotNone DEF Invalid
<1>. QED
  BY <1>2, <1>4, <1>5, <1>6 DEF StoredFromKvp, id

LEMMA WholesAreAlike ==
    ASSUME NEW k, NEW l, Alike(k, l)
    PROVE  Alike(Whole(k), Whole(l))
BY DEF Alike, Whole

OwnPages == \A id \in DOMAIN StoredQueries : StoredQueries[id] \intersect PageNames = {}

LEMMA SamePairs ==
    ASSUME NEW k, NEW l, Alike(k, l), Pairs(k) \intersect PageNames = {}, Pairs(l) \intersect PageNames = {}
    PROVE  /\ Pairs(l) = Pairs(k) /\ PairSizes(l) = PairSizes(k)
           /\ SplitFault(l) = SplitFault(k)
           /\ DOMAIN SplitParameterLists(l) = DOMAIN SplitParameterLists(k)
           /\ \A i \in DOMAIN SplitParameterLists(k) :
                 Alike(SplitParameterLists(k)[i], SplitParameterLists(l)[i])
<1>1. Pairs(l) = Pairs(k) /\ \A n \in Pairs(k) : l[n] = k[n]
  BY DEF Alike, Pairs
<1>2. PairSizes(l) = PairSizes(k)
  BY <1>1 DEF PairSizes
<1>3. SplitFault(l) = SplitFault(k)
  BY <1>2 DEF SplitFault
<1>4. CASE Pairs(k) = {}
  <2>. DEFINE kk == Whole(k) ll == Whole(l)
  <2>1. SplitParameterLists(k) = <<kk>> /\ SplitParameterLists(l) = <<ll>>
    BY <1>1, <1>4 DEF SplitParameterLists
  <2>2. Alike(kk, ll)
    BY WholesAreAlike
  <2>. HIDE DEF kk, ll
  <2>3. /\ DOMAIN SplitParameterLists(l) = DOMAIN SplitParameterLists(k)
        /\ \A i \in DOMAIN SplitParameterLists(k) :
              SplitParameterLists(k)[i] = kk /\ SplitParameterLists(l)[i] = ll
    BY <2>1
  <2>. QED
    BY <1>1, <1>2, <1>3, <2>2, <2>3
<1>5. CASE Pairs(k) # {}
  <2>. DEFINE size == CHOOSE s \in PairSizes(k) : TRUE
              At(m, i) == [n \in DOMAIN m |-> m[n][IF n \in Pairs(k) THEN i ELSE 1]]
  <2>1. SplitParameterLists(k) = [i \in 1..size |-> At(k, i)]
    BY <1>5 DEF SplitParameterLists
  <2>2. SplitParameterLists(l) = [i \in 1..size |-> At(l, i)]
    BY <1>1, <1>2, <1>5 DEF SplitParameterLists
  <2>3. \A i : Alike(At(k, i), At(l, i))
    BY DEF Alike
  <2>. HIDE DEF size, At
  <2>4. /\ DOMAIN SplitParameterLists(l) = DOMAIN SplitParameterLists(k)
        /\ \A i \in DOMAIN SplitParameterLists(k) :
              SplitParameterLists(k)[i] = At(k, i) /\ SplitParameterLists(l)[i] = At(l, i)
    BY <2>1, <2>2
  <2>. QED
    BY <1>1, <1>2, <1>3, <2>3, <2>4
<1>. QED
  BY <1>4, <1>5

LEMMA VariantsAreList ==
    ASSUME NEW params
    PROVE  SplitParameterLists(params) =
              [i \in DOMAIN SplitParameterLists(params) |-> SplitParameterLists(params)[i]]
<1>1. CASE Pairs(params) = {}
  <2>. DEFINE w == Whole(params)
  <2>1. SplitParameterLists(params) = <<w>>
    BY <1>1 DEF SplitParameterLists
  <2>. HIDE DEF w
  <2>. QED
    BY <2>1
<1>2. CASE Pairs(params) # {}
  <2>. DEFINE S == 1 .. CHOOSE s \in PairSizes(params) : TRUE
              F(i) == [n \in DOMAIN params |-> params[n][IF n \in Pairs(params) THEN i ELSE 1]]
  <2>1. SplitParameterLists(params) = [i \in S |-> F(i)]
    BY <1>2 DEF SplitParameterLists
  <2>. HIDE DEF S, F
  <2>. QED
    BY <2>1
<1>. QED
  BY <1>1, <1>2

LEMMA SameStoredness ==
    ASSUME NEW k, NEW l, Alike(k, l)
    PROVE  IsStored(l) <=> IsStored(k)
<1>. DEFINE s == "STOREDQUERY_ID" e == ""
<1>1. s \notin PageNames /\ e \notin PageNames
  BY DEF PageNames
<1>. HIDE DEF s, e
<1>2. Get(Whole(l), s, e, None) = Get(Whole(k), s, e, None)
  BY <1>1, WholesAreAlike, SameValue
<1>. QED
  BY <1>2 DEF IsStored, s, e

LEMMA SameQueries ==
    ASSUME NoneIsNoValue, OwnPages, NEW k, NEW l, NEW ns, Alike(k, l), AreGroups(k),
           Pairs(k) \intersect PageNames = {}, Pairs(l) \intersect PageNames = {},
           QueriesKvpFault(k, ns) = None
    PROVE  /\ QueriesKvpFault(l, ns) = None
           /\ QueriesFromKvp(l, ns) = QueriesFromKvp(k, ns)
           /\ Len(SplitParameterLists(l)) = Len(SplitParameterLists(k))
<1>. DEFINE K == SplitParameterLists(k)
            L == SplitParameterLists(l)
            Fault(m) == IF IsStored(k) THEN StoredKvpFault(m) ELSE AdhocKvpFault(m, ns)
            Query(m) == IF IsStored(k) THEN StoredFromKvp(m, ns) ELSE AdhocFromKvp(m, ns)
<1>1. SplitFault(k) = None /\ SplitFault(l) = None
  BY SamePairs DEF QueriesKvpFault
<1>2. PICK n \in Nat : DOMAIN K = 1..n
  BY <1>1, GroupsOfVariants
<1>3. DOMAIN L = DOMAIN K /\ \A i \in DOMAIN K : Alike(K[i], L[i])
  BY SamePairs
<1>4. /\ QueriesKvpFault(k, ns) = FirstFault([i \in DOMAIN K |-> Fault(K[i])])
      /\ QueriesFromKvp(k, ns) = [i \in DOMAIN K |-> Query(K[i])]
  BY <1>1 DEF QueriesKvpFault, QueriesFromKvp
<1>5. /\ QueriesKvpFault(l, ns) = FirstFault([i \in DOMAIN L |-> Fault(L[i])])
      /\ QueriesFromKvp(l, ns) = [i \in DOMAIN L |-> Query(L[i])]
  BY <1>1, SameStoredness DEF QueriesKvpFault, QueriesFromKvp
<1>6. \A a, b : Alike(a, b) => Fault(b) = Fault(a) /\ (Fault(a) = None => Query(b) = Query(a))
  BY SameStored, SameAdhoc DEF OwnPages
<1>. HIDE DEF K, L, Fault, Query
<1>. DEFINE faults == [i \in DOMAIN K |-> Fault(K[i])]
<1>7. \A i \in DOMAIN K : Fault(K[i]) = None
  <2>1. DOMAIN faults = 1..n /\ FirstFault(faults) = None
    BY <1>2, <1>4
  <2>2. \A i \in 1..n : faults[i] = None
    <3>. HIDE DEF faults
    <3>. QED
      BY <2>1, NothingRaised
  <2>. QED
    BY <1>2, <2>2
<1>8. QueriesFromKvp(l, ns) = QueriesFromKvp(k, ns)
  BY <1>3, <1>4, <1>5, <1>6, <1>7
<1>9. QueriesKvpFault(l, ns) = QueriesKvpFault(k, ns)
  BY <1>3, <1>4, <1>5, <1>6, <1>7
<1>10. Len(L) = n /\ Len(K) = n
  <2>1. K = [i \in DOMAIN K |-> K[i]] /\ L = [i \in DOMAIN L |-> L[i]]
    BY VariantsAreList DEF K, L
  <2>2. K \in [1..n -> Range(K)] /\ L \in [1..n -> Range(L)]
    BY <1>2, <1>3, <2>1 DEF Range
  <2>. QED
    BY <2>2, MappingIsList
<1>. QED
  BY <1>8, <1>9, <1>10 DEF K, L

-----------------------------------------------------------------------------
(* A request for data whose parameters differ in the page only.            *)

ResolveFault(read) == When(Get(read, "RESOLVE", "", "none") \notin ResolveValues, Crash)
ResultFault(read) == When(Get(read, "RESULTTYPE", "", "results") \notin ResultTypes, Crash)
ReferenceFault(operation, read) == When(operation = "GetPropertyValue", Required(read, "VALUEREFERENCE", ""))
Reference(operation, read, ns) ==
    IF operation = "GetPropertyValue" THEN XPath(Get(read, "VALUEREFERENCE", "", None), ns) ELSE None
PathFault(operation, read, n) == PropertyValueFault(operation, Get(read, "RESOLVEPATH", "", None), n)
DataIsReadable(operation, params, ns) ==
    LET read == Whole(params)
    IN  /\ Required(read, "SERVICE", "") = None /\ Required(read, "VERSION", "") = None
        /\ QueriesKvpFault(params, ns) = None
        /\ ResolveFault(read) = None
        /\ ParsedBy(read, "RESOLVEDEPTH", "", Invalid("resolveDepth")) = None
        /\ ParsedBy(read, "RESOLVETIMEOUT", "", Invalid("resolveTimeout")) = None
        /\ ParsedBy(read, "COUNT", "MAXFEATURES", Invalid("count")) = None
        /\ ResultFault(read) = None
        /\ ParsedBy(read, "STARTINDEX", "", Invalid("startIndex")) = None
        /\ ReferenceFault(operation, read) = None
        /\ PathFault(operation, read, Len(SplitParameterLists(params))) = None

LEMMA ReadableData ==
    ASSUME NEW operation \in DataOperations, NEW params, NEW ns
    PROVE  KvpFault(operation, params, ns) = None <=> DataIsReadable(operation, params, ns)
<1>. DEFINE kvp_ == Whole(params)
            s == Required(kvp_, "SERVICE", "")
            data == DataKvpFault(operation, params, ns)
            c1 == QueriesKvpFault(params, ns)
            c3 == Required(kvp_, "VERSION", "")
            c4 == ResolveFault(kvp_)
            c5 == ParsedBy(kvp_, "RESOLVEDEPTH", "", Invalid("resolveDepth"))
            c6 == ParsedBy(kvp_, "COUNT", "MAXFEATURES", Invalid("count"))
            c7 == ResultFault(kvp_)
            c8 == ParsedBy(kvp_, "STARTINDEX", "", Invalid("startIndex"))
            c9 == ReferenceFault(operation, kvp_)
            c10 == PathFault(operation, kvp_, Len(SplitParameterLists(params)))
            c11 == ParsedBy(kvp_, "RESOLVETIMEOUT", "", Invalid("resolveTimeout"))
<1>1. KvpFault(operation, params, ns) = FirstFault(<<s, data>>)
  BY DEF KvpFault, DataOperations
<1>2. data = FirstFault(<<c1>> \o <<s, c3>> \o <<c4, c5, c11, c6, c7, c8, c9, c10>>)
  BY DEF DataKvpFault, BaseKvpFaults, ResolveFault, ResultFault, ReferenceFault, PathFault
<1>3. DataIsReadable(operation, params, ns) <=>
         /\ s = None /\ c3 = None /\ c1 = None /\ c4 = None /\ c5 = None /\ c6 = None /\ c7 = None
         /\ c8 = None /\ c9 = None /\ c10 = None /\ c11 = None
  BY DEF DataIsReadable
<1>. HIDE DEF kvp_, s, data, c1, c3, c4, c5, c6, c7, c8, c9, c10, c11
<1>4. ASSUME KvpFault(operation, params, ns) = None PROVE DataIsReadable(operation, params, ns)
  <2>1. s = None /\ data = None
    BY <1>1, <1>4, NothingRaisedIn2
  <2>2. FirstFault(<<c1>> \o <<s, c3>> \o <<c4, c5, c11, c6, c7, c8, c9, c10>>) = None
    BY <1>2, <2>1
  <2>. QED
    BY <1>3, <2>1, <2>2, NothingRaisedIn11
<1>5. ASSUME DataIsReadable(operation, params, ns) PROVE KvpFault(operation, params, ns) = None
  <2>1. data = FirstFault(<<None>> \o <<None, None>> \o <<None, None, None, None, None, None, None, None>>)
    BY <1>2, <1>3, <1>5
  <2>2. data = None
    BY <2>1, NothingToRaiseIn11
  <2>. QED
    BY <1>1, <1>3, <1>5, <2>2, NothingToRaiseIn2
<1>. QED
  BY <1>4, <1>5

(* A page of a request without faults is told once.                        *)
LEMMA OneGroupOfAPage ==
    ASSUME NoneIsNoValue, TokensDiffer, NEW operation \in DataOperations, NEW params, NEW ns,
           AreGroups(params), DataIsReadable(operation, params, ns)
    PROVE  Pairs(params) \intersect PageNames = {}
<1>. DEFINE c == "COUNT" a == "MAXFEATURES" s == "STARTINDEX" e == ""
<1>1. /\ ParsedBy(Whole(params), c, a, Invalid("count")) = None
      /\ ParsedBy(Whole(params), s, e, Invalid("startIndex")) = None
  BY DEF DataIsReadable
<1>2. Invalid("count") # None /\ Invalid("startIndex") # None
  BY FaultsAreNotNone DEF Invalid
<1>3. PageNames = {c, s}
  BY DEF PageNames
<1>. HIDE DEF c, a, s, e
<1>4. Value(Whole(params), c, a) # Garbage /\ Value(Whole(params), s, e) # Garbage
  BY <1>1, <1>2 DEF ParsedBy, When
<1>5. ASSUME NEW n \in DOMAIN params, Len(params[n]) > 1, NEW alias
      PROVE  Value(Whole(params), n, alias) = Garbage
  <2>1. Len(params[n]) # 1
    <3>1. Len(params[n]) \in Nat
      BY ListShape DEF AreGroups
    <3>2. PICK x \in Nat : x = Len(params[n])
      BY <3>1
    <3>3. x > 1
      BY <1>5, <3>2
    <3>4. x # 1
      BY <3>3
    <3>. QED
      BY <3>2, <3>4
  <2>2. Raw(Whole(params), n) = Garbage
    BY <1>5, <2>1 DEF Raw, Whole
  <2>. QED
    BY <2>2 DEF Value, TokensDiffer
<1>. QED
  BY <1>3, <1>4, <1>5 DEF Pairs

(* What is read from all the parameters, the page aside.                   *)
ReadAlike(k, l, operation) ==
    /\ Required(l, "SERVICE", "") = Required(k, "SERVICE", "")
    /\ Required(l, "VERSION", "") = Required(k, "VERSION", "")
    /\ Required(l, "REQUEST", "") = Required(k, "REQUEST", "")
    /\ Get(l, "SERVICE", "", "WFS") = Get(k, "SERVICE", "", "WFS")
    /\ Get(l, "VERSION", "", None) = Get(k, "VERSION", "", None)
    /\ Get(l, "REQUEST", "", None) = Get(k, "REQUEST", "", None)
    /\ ResolveFault(l) = ResolveFault(k)
    /\ ParsedBy(l, "RESOLVEDEPTH", "", Invalid("resolveDepth"))
       = ParsedBy(k, "RESOLVEDEPTH", "", Invalid("resolveDepth"))
    /\ ParsedBy(l, "RESOLVETIMEOUT", "", Invalid("resolveTimeout"))
       = ParsedBy(k, "RESOLVETIMEOUT", "", Invalid("resolveTimeout"))
    /\ ResultFault(l) = ResultFault(k)
    /\ ReferenceFault(operation, l) = ReferenceFault(operation, k)
    /\ \A n : PathFault(operation, l, n) = PathFault(operation, k, n)
    /\ Get(l, "OUTPUTFORMAT", "", GML) = Get(k, "OUTPUTFORMAT", "", GML)
    /\ Get(l, "RESULTTYPE", "", "results") = Get(k, "RESULTTYPE", "", "results")
    /\ Get(l, "VALUEREFERENCE", "", None) = Get(k, "VALUEREFERENCE", "", None)
    /\ NamespacesFault(l) = NamespacesFault(k) /\ KvpNamespaces(l) = KvpNamespaces(k)
    /\ "SERVICE" \in DOMAIN k => l["SERVICE"] = k["SERVICE"]

LEMMA SameReading ==
    ASSUME NEW k, NEW l, Alike(k, l), NEW operation
    PROVE  ReadAlike(k, l, operation)
<1>. DEFINE e == "" s == "SERVICE" v == "VERSION" q == "REQUEST" r == "RESOLVE" d == "RESOLVEDEPTH"
            w == "RESOLVETIMEOUT" t == "RESULTTYPE" u == "VALUEREFERENCE" p == "RESOLVEPATH" f == "OUTPUTFORMAT" n == "NAMESPACES"
<1>1. \A x \in {e, s, v, q, r, d, w, t, u, p, f, n} : x \notin PageNames
  BY DEF PageNames
<1>. HIDE DEF e, s, v, q, r, d, w, t, u, p, f, n
<1>2. \A x \in {s, v, q, r, d, w, t, u, p, f} :
        /\ Required(l, x, e) = Required(k, x, e)
        /\ \A default : Get(l, x, e, default) = Get(k, x, e, default)
        /\ \A fault : ParsedBy(l, x, e, fault) = ParsedBy(k, x, e, fault)
  BY <1>1, SameValue
<1>3. \A x \in {n, s} : (x \in DOMAIN l <=> x \in DOMAIN k) /\ (x \in DOMAIN k => l[x] = k[x])
  BY <1>1 DEF Alike
<1>4. /\ Required(l, s, e) = Required(k, s, e) /\ Required(l, v, e) = Required(k, v, e)
      /\ Required(l, q, e) = Required(k, q, e) /\ Required(l, u, e) = Required(k, u, e)
  BY <1>2
<1>5. /\ \A default : Get(l, s, e, default) = Get(k, s, e, default)
      /\ \A default : Get(l, v, e, default) = Get(k, v, e, default)
      /\ \A default : Get(l, q, e, default) = Get(k, q, e, default)
      /\ \A default : Get(l, r, e, default) = Get(k, r, e, default)
      /\ \A default : Get(l, t, e, default) = Get(k, t, e, default)
      /\ \A default : Get(l, u, e, default) = Get(k, u, e, default)
      /\ \A default : Get(l, p, e, default) = Get(k, p, e, default)
      /\ \A default : Get(l, f, e, default) = Get(k, f, e, default)
  BY <1>2
<1>6. \A fault : /\ ParsedBy(l, d, e, fault) = ParsedBy(k, d, e, fault)
                  /\ ParsedBy(l, w, e, fault) = ParsedBy(k, w, e, fault)
  BY <1>2
<1>7. /\ Get(l, "SERVICE", "", "WFS") = Get(k, "SERVICE", "", "WFS")
      /\ Get(l, "VERSION", "", None) = Get(k, "VERSION", "", None)
      /\ Get(l, "REQUEST", "", None) = Get(k, "REQUEST", "", None)
      /\ Get(l, "RESOLVE", "", "none") = Get(k, "RESOLVE", "", "none")
      /\ Get(l, "RESULTTYPE", "", "results") = Get(k, "RESULTTYPE", "", "results")
      /\ Get(l, "VALUEREFERENCE", "", None) = Get(k, "VALUEREFERENCE", "", None)
      /\ Get(l, "RESOLVEPATH", "", None) = Get(k, "RESOLVEPATH", "", None)
      /\ Get(l, "OUTPUTFORMAT", "", GML) = Get(k, "OUTPUTFORMAT", "", GML)
  BY <1>5 DEF s, v, q, r, t, u, p, f, e
<1>8. /\ Required(l, "SERVICE", "") = Required(k, "SERVICE", "")
      /\ Required(l, "VERSION", "") = Required(k, "VERSION", "")
      /\ Required(l, "REQUEST", "") = Required(k, "REQUEST", "")
      /\ Required(l, "VALUEREFERENCE", "") = Required(k, "VALUEREFERENCE", "")
  BY <1>4 DEF s, v, q, u, e
<1>9. /\ ParsedBy(l, "RESOLVEDEPTH", "", Invalid("resolveDepth"))
         = ParsedBy(k, "RESOLVEDEPTH", "", Invalid("resolveDepth"))
      /\ ParsedBy(l, "RESOLVETIMEOUT", "", Invalid("resolveTimeout"))
         = ParsedBy(k, "RESOLVETIMEOUT", "", Invalid("resolveTimeout"))
  BY <1>6 DEF d, w, e
<1>10. /\ "SERVICE" \in DOMAIN k => l["SERVICE"] = k["SERVICE"]
       /\ "NAMESPACES" \in DOMAIN l <=> "NAMESPACES" \in DOMAIN k
       /\ "NAMESPACES" \in DOMAIN k => l["NAMESPACES"] = k["NAMESPACES"]
  BY <1>3 DEF s, n
<1>11. ResolveFault(l) = ResolveFault(k) /\ ResultFault(l) = ResultFault(k)
  BY <1>7 DEF ResolveFault, ResultFault
<1>12. /\ ReferenceFault(operation, l) = ReferenceFault(operation, k)
       /\ \A x : PathFault(operation, l, x) = PathFault(operation, k, x)
  BY <1>7, <1>8 DEF ReferenceFault, PathFault
<1>13. NamespacesFault(l) = NamespacesFault(k) /\ KvpNamespaces(l) = KvpNamespaces(k)
  BY <1>10 DEF NamespacesFault, KvpNamespaces
<1>. QED
  BY <1>7, <1>8, <1>9, <1>10, <1>11, <1>12, <1>13 DEF ReadAlike

(* A request for data, field by field.                                     *)
DataRequest(operation, service, version_, handle, queries, count, start, format, result, value) ==
    [operation |-> operation, service |-> service, version |-> version_, handle |-> handle,
     queries |-> queries, count |-> count, startIndex |-> start, outputFormat |-> format,
     resultType |-> result, valueReference |-> value, typeNames |-> None,
     acceptVersions |-> None, acceptFormats |-> <<>>, storedQueryId |-> None]

Paged(r, start, count) == [r EXCEPT !.startIndex = start, !.count = count, !.handle = None]
Filled(r, q, c, i, f, t, g) ==
    [r EXCEPT !.queries = q, !.count = c, !.startIndex = i, !.outputFormat = f, !.resultType = t,
              !.valueReference = g]

LEMMA DataPage ==
    ASSUME NEW o, NEW s, NEW v, NEW h, NEW q, NEW c, NEW i, NEW f, NEW r, NEW g, NEW count, NEW start
    PROVE  Paged(DataRequest(o, s, v, h, q, c, i, f, r, g), start, count)
           = DataRequest(o, s, v, None, q, count, start, f, r, g)
<1>1. [DataRequest(o, s, v, h, q, c, i, f, r, g) EXCEPT !.startIndex = start]
      = DataRequest(o, s, v, h, q, c, start, f, r, g)
  BY DEF DataRequest
<1>2. [DataRequest(o, s, v, h, q, c, start, f, r, g) EXCEPT !.count = count]
      = DataRequest(o, s, v, h, q, count, start, f, r, g)
  BY DEF DataRequest
<1>3. [DataRequest(o, s, v, h, q, count, start, f, r, g) EXCEPT !.handle = None]
      = DataRequest(o, s, v, None, q, count, start, f, r, g)
  BY DEF DataRequest
<1>. QED
  BY <1>1, <1>2, <1>3 DEF Paged

LEMMA BaseRequest ==
    ASSUME NEW o, NEW s, NEW v, NEW h
    PROVE  /\ [NoRequest EXCEPT !.operation = o, !.service = s, !.version = v, !.handle = h]
              = DataRequest(o, s, v, h, <<>>, None, 0, None, "results", None)
           /\ [NoRequest EXCEPT !.operation = o, !.service = s, !.version = v]
              = DataRequest(o, s, v, None, <<>>, None, 0, None, "results", None)
<1>1. [NoRequest EXCEPT !.operation = o]
      = DataRequest(o, None, None, None, <<>>, None, 0, None, "results", None)
  BY DEF DataRequest, NoRequest
<1>2. [DataRequest(o, None, None, None, <<>>, None, 0, None, "results", None) EXCEPT !.service = s]
      = DataRequest(o, s, None, None, <<>>, None, 0, None, "results", None)
  BY DEF DataRequest
<1>3. [DataRequest(o, s, None, None, <<>>, None, 0, None, "results", None) EXCEPT !.version = v]
      = DataRequest(o, s, v, None, <<>>, None, 0, None, "results", None)
  BY DEF DataRequest
<1>4. [DataRequest(o, s, v, None, <<>>, None, 0, None, "results", None) EXCEPT !.handle = h]
      = DataRequest(o, s, v, h, <<>>, None, 0, None, "results", None)
  BY DEF DataRequest
<1>. QED
  BY <1>1, <1>2, <1>3, <1>4

LEMMA FilledRequest ==
    ASSUME NEW o, NEW s, NEW v, NEW h, NEW q, NEW c, NEW i, NEW f, NEW r, NEW g
    PROVE  Filled(DataRequest(o, s, v, h, <<>>, None, 0, None, "results", None), q, c, i, f, r, g)
           = DataRequest(o, s, v, h, q, c, i, f, r, g)
<1>. DEFINE a == [DataRequest(o, s, v, h, <<>>, None, 0, None, "results", None)
                    EXCEPT !.queries = q, !.count = c, !.startIndex = i]
<1>5. [DataRequest(o, s, v, h, <<>>, None, 0, None, "results", None) EXCEPT !.queries = q]
      = DataRequest(o, s, v, h, q, None, 0, None, "results", None)
  BY DEF DataRequest
<1>6. [DataRequest(o, s, v, h, q, None, 0, None, "results", None) EXCEPT !.count = c]
      = DataRequest(o, s, v, h, q, c, 0, None, "results", None)
  BY DEF DataRequest
<1>7. [DataRequest(o, s, v, h, q, c, 0, None, "results", None) EXCEPT !.startIndex = i]
      = DataRequest(o, s, v, h, q, c, i, None, "results", None)
  BY DEF DataRequest
<1>8. [DataRequest(o, s, v, h, q, c, i, None, "results", None) EXCEPT !.outputFormat = f]
      = DataRequest(o, s, v, h, q, c, i, f, "results", None)
  BY DEF DataRequest
<1>9. [DataRequest(o, s, v, h, q, c, i, f, "results", None) EXCEPT !.resultType = r]
      = DataRequest(o, s, v, h, q, c, i, f, r, None)
  BY DEF DataRequest
<1>10. [DataRequest(o, s, v, h, q, c, i, f, r, None) EXCEPT !.valueReference = g]
      = DataRequest(o, s, v, h, q, c, i, f, r, g)
  BY DEF DataRequest
<1>11. a = DataRequest(o, s, v, h, q, c, i, None, "results", None)
  BY <1>5, <1>6, <1>7
<1>12. [a EXCEPT !.outputFormat = f, !.resultType = r, !.valueReference = g]
       = DataRequest(o, s, v, h, q, c, i, f, r, g)
  <2>. HIDE DEF a
  <2>. QED
    BY <1>8, <1>9, <1>10, <1>11
<1>. QED
  BY <1>12 DEF Filled

LEMMA DataFields ==
    ASSUME NEW operation \in DataOperations, NEW params, NEW ns
    PROVE  RequestFromKvp(operation, params, ns) =
              DataRequest(operation, Whole(params)["SERVICE"], Get(Whole(params), "VERSION", "", None), None,
                  QueriesFromKvp(params, ns), Get(Whole(params), "COUNT", "MAXFEATURES", None),
                  Get(Whole(params), "STARTINDEX", "", 0), Get(Whole(params), "OUTPUTFORMAT", "", GML),
                  Get(Whole(params), "RESULTTYPE", "", "results"),
                  Reference(operation, Whole(params), ns))
<1>. DEFINE w == Whole(params)
            s == w["SERVICE"]
            v == Get(w, "VERSION", "", None)
            q == QueriesFromKvp(params, ns)
            c == Get(w, "COUNT", "MAXFEATURES", None)
            i == Get(w, "STARTINDEX", "", 0)
            f == Get(w, "OUTPUTFORMAT", "", GML)
            r == Get(w, "RESULTTYPE", "", "results")
            g == XPath(Get(w, "VALUEREFERENCE", "", None), ns)
            base == [NoRequest EXCEPT !.operation = operation, !.service = s, !.version = v]
<1>1. RequestFromKvp(operation, params, ns) = DataFromKvp(base, params, ns)
  BY DEF RequestFromKvp, DataOperations
<1>2. base.operation = operation
  BY DEF NoRequest
<1>3. DataFromKvp(base, params, ns) =
        [base EXCEPT !.queries = q, !.count = c, !.startIndex = i, !.outputFormat = f, !.resultType = r,
                     !.valueReference = IF base.operation = "GetPropertyValue" THEN g ELSE None]
  BY DEF DataFromKvp
<1>. DEFINE h == IF base.operation = "GetPropertyValue" THEN g ELSE None
            d == DataRequest(operation, s, v, None, <<>>, None, 0, None, "results", None)
<1>. HIDE DEF w, s, v, q, c, i, f, r, g
<1>4. base = d
  BY BaseRequest
<1>5. Filled(d, q, c, i, f, r, h) = DataRequest(operation, s, v, None, q, c, i, f, r, h)
  <2>. HIDE DEF h
  <2>. QED
    BY FilledRequest
<1>6. h = IF operation = "GetPropertyValue" THEN g ELSE None
  BY <1>2
<1>7. DataFromKvp(base, params, ns) = Filled(d, q, c, i, f, r, h)
  BY <1>3, <1>4 DEF Filled
<1>. HIDE DEF base, h, d
<1>8. RequestFromKvp(operation, params, ns) =
        DataRequest(operation, s, v, None, q, c, i, f, r, IF operation = "GetPropertyValue" THEN g ELSE None)
  BY <1>1, <1>5, <1>6, <1>7
<1>. QED
  BY <1>8 DEF w, s, v, q, c, i, f, r, g, Reference

(* A page of parameters.                                                   *)
Pages(l, count, start) ==
    /\ PageNames \subseteq DOMAIN l
    /\ l["COUNT"] = <<count>> /\ l["STARTINDEX"] = <<start>>

LEMMA PageIsRead ==
    ASSUME TokensDiffer, NEW l, NEW count \in Int, NEW start \in Int, Pages(l, count, start)
    PROVE  /\ Pairs(l) \intersect PageNames = {}
           /\ Get(Whole(l), "COUNT", "MAXFEATURES", None) = count
           /\ Get(Whole(l), "STARTINDEX", "", 0) = start
           /\ ParsedBy(Whole(l), "COUNT", "MAXFEATURES", Invalid("count")) = None
           /\ ParsedBy(Whole(l), "STARTINDEX", "", Invalid("startIndex")) = None
<1>. DEFINE c == "COUNT" a == "MAXFEATURES" s == "STARTINDEX" e == ""
<1>1. PageNames = {c, s} /\ c # s
  BY DEF PageNames
<1>2. c \in DOMAIN l /\ s \in DOMAIN l /\ l[c] = <<count>> /\ l[s] = <<start>>
  BY DEF Pages, PageNames
<1>3. count \notin {None, Empty, Garbage} /\ start \notin {None, Empty, Garbage}
  BY DEF TokensDiffer
<1>. HIDE DEF c, a, s, e
<1>4. Len(l[c]) = 1 /\ Len(l[s]) = 1 /\ l[c][1] = count /\ l[s][1] = start
      /\ ~(Len(l[c]) > 1) /\ ~(Len(l[s]) > 1)
  BY <1>2
<1>5. Pairs(l) \intersect PageNames = {}
  BY <1>1, <1>4 DEF Pairs
<1>6. Raw(Whole(l), c) = count /\ Raw(Whole(l), s) = start
  BY <1>2, <1>4 DEF Raw, Whole
<1>7. Value(Whole(l), c, a) = count /\ Value(Whole(l), s, e) = start
  BY <1>3, <1>6 DEF Value
<1>8. /\ Get(Whole(l), c, a, None) = count /\ Get(Whole(l), s, e, 0) = start
      /\ \A fault : ParsedBy(Whole(l), c, a, fault) = None /\ ParsedBy(Whole(l), s, e, fault) = None
  BY <1>3, <1>7 DEF Get, ParsedBy, When
<1>. QED
  BY <1>5, <1>8 DEF c, a, s, e

LEMMA SameData ==
    ASSUME NoneIsNoValue, TokensDiffer, OwnPages, NEW operation \in DataOperations, NEW k, NEW l, NEW ns,
           NEW count \in Int, NEW start \in Int,
           AreGroups(k), Alike(k, l), Pages(l, count, start), KvpFault(operation, k, ns) = None
    PROVE  /\ KvpFault(operation, l, ns) = None
           /\ RequestFromKvp(operation, l, ns) =
                 Paged(RequestFromKvp(operation, k, ns), start, count)
<1>1. DataIsReadable(operation, k, ns)
  BY ReadableData
<1>2. Pairs(k) \intersect PageNames = {}
  BY <1>1, OneGroupOfAPage
<1>3. /\ Pairs(l) \intersect PageNames = {}
      /\ Get(Whole(l), "COUNT", "MAXFEATURES", None) = count
      /\ Get(Whole(l), "STARTINDEX", "", 0) = start
      /\ ParsedBy(Whole(l), "COUNT", "MAXFEATURES", Invalid("count")) = None
      /\ ParsedBy(Whole(l), "STARTINDEX", "", Invalid("startIndex")) = None
  BY PageIsRead
<1>4. QueriesKvpFault(k, ns) = None
  BY <1>1 DEF DataIsReadable
<1>5. /\ QueriesKvpFault(l, ns) = None
      /\ QueriesFromKvp(l, ns) = QueriesFromKvp(k, ns)
      /\ Len(SplitParameterLists(l)) = Len(SplitParameterLists(k))
  BY <1>2, <1>3, <1>4, SameQueries
<1>6. Alike(Whole(k), Whole(l))
  BY WholesAreAlike
<1>. DEFINE kk == Whole(k) ll == Whole(l)
<1>. HIDE DEF kk, ll
<1>13. Alike(kk, ll)
  BY <1>6 DEF kk, ll
<1>7. /\ Required(ll, "SERVICE", "") = Required(kk, "SERVICE", "")
      /\ Required(ll, "VERSION", "") = Required(kk, "VERSION", "")
      /\ Get(ll, "VERSION", "", None) = Get(kk, "VERSION", "", None)
      /\ ResolveFault(ll) = ResolveFault(kk)
      /\ ParsedBy(ll, "RESOLVEDEPTH", "", Invalid("resolveDepth"))
         = ParsedBy(kk, "RESOLVEDEPTH", "", Invalid("resolveDepth"))
      /\ ParsedBy(ll, "RESOLVETIMEOUT", "", Invalid("resolveTimeout"))
         = ParsedBy(kk, "RESOLVETIMEOUT", "", Invalid("resolveTimeout"))
      /\ ResultFault(ll) = ResultFault(kk)
      /\ ReferenceFault(operation, ll) = ReferenceFault(operation, kk)
      /\ \A n : PathFault(operation, ll, n) = PathFault(operation, kk, n)
      /\ Get(ll, "OUTPUTFORMAT", "", GML) = Get(kk, "OUTPUTFORMAT", "", GML)
      /\ Get(ll, "RESULTTYPE", "", "results") = Get(kk, "RESULTTYPE", "", "results")
      /\ Get(ll, "VALUEREFERENCE", "", None) = Get(kk, "VALUEREFERENCE", "", None)
      /\ "SERVICE" \in DOMAIN kk => ll["SERVICE"] = kk["SERVICE"]
  <2>1. ReadAlike(kk, ll, operation)
    BY <1>13, SameReading
  <2>. QED
    BY <2>1 DEF ReadAlike
<1>8. DataIsReadable(operation, l, ns)
  BY <1>1, <1>3, <1>5, <1>7 DEF DataIsReadable, kk, ll
<1>9. "SERVICE" \in DOMAIN kk
  <2>1. Required(kk, "SERVICE", "") = None
    BY <1>1 DEF DataIsReadable, kk
  <2>2. Raw(kk, "SERVICE") # None
    BY <2>1, FaultsAreNotNone DEF Required, Value, Missing
  <2>. QED
    BY <2>2 DEF Raw
<1>10. ll["SERVICE"] = kk["SERVICE"]
  BY <1>7, <1>9
<1>. DEFINE s == kk["SERVICE"]
            v == Get(kk, "VERSION", "", None)
            q == QueriesFromKvp(k, ns)
            f == Get(kk, "OUTPUTFORMAT", "", GML)
            r == Get(kk, "RESULTTYPE", "", "results")
            g == Reference(operation, kk, ns)
            c == Get(kk, "COUNT", "MAXFEATURES", None)
            i == Get(kk, "STARTINDEX", "", 0)
<1>11. RequestFromKvp(operation, k, ns) = DataRequest(operation, s, v, None, q, c, i, f, r, g)
  BY DataFields DEF kk
<1>12. RequestFromKvp(operation, l, ns) = DataRequest(operation, s, v, None, q, count, start, f, r, g)
  <2>. DEFINE v2 == Get(ll, "VERSION", "", None)
              s2 == ll["SERVICE"]
              q2 == QueriesFromKvp(l, ns)
              c2 == Get(ll, "COUNT", "MAXFEATURES", None)
              i2 == Get(ll, "STARTINDEX", "", 0)
              f2 == Get(ll, "OUTPUTFORMAT", "", GML)
              r2 == Get(ll, "RESULTTYPE", "", "results")
              g2 == Reference(operation, ll, ns)
  <2>1. RequestFromKvp(operation, l, ns) = DataRequest(operation, s2, v2, None, q2, c2, i2, f2, r2, g2)
    BY DataFields DEF ll
  <2>2. s2 = s /\ v2 = v /\ q2 = q /\ c2 = count /\ i2 = start /\ f2 = f /\ r2 = r /\ g2 = g
    BY <1>3, <1>5, <1>7, <1>10 DEF ll, Reference
  <2>. HIDE DEF s, v, q, f, r, g, c, i, s2, v2, q2, c2, i2, f2, r2, g2
  <2>. QED
    BY <2>1, <2>2
<1>. HIDE DEF s, v, q, f, r, g, c, i
<1>14. DataRequest(operation, s, v, None, q, count, start, f, r, g) =
         Paged(DataRequest(operation, s, v, None, q, c, i, f, r, g), start, count)
  BY DataPage
<1>. QED
  BY <1>8, <1>11, <1>12, <1>14, ReadableData

-----------------------------------------------------------------------------
(* A next link is understood as the page after the request it came from.   *)

PageOf(start, count) == [n \in {"STARTINDEX", "COUNT"} |-> IF n = "COUNT" THEN count ELSE start]

LEMMA SamePage ==
    ASSUME NoneIsNoValue, TokensDiffer, OwnPages, NEW k, NEW l, NEW m, NEW ns, NEW operation \in DataOperations,
           NEW count \in Int, NEW start \in Int, AreGroups(k), Alike(k, l), Pages(l, count, start),
           Understood(k, ns, operation, m)
    PROVE  Understood(l, ns, operation, Paged(m, start, count))
<1>1. ReadAlike(Whole(k), Whole(l), operation)
  BY WholesAreAlike, SameReading
<1>2. KvpFault(operation, k, ns) = None /\ RequestFromKvp(operation, k, ns) = m
  BY DEF Understood
<1>3. /\ KvpFault(operation, l, ns) = None
      /\ RequestFromKvp(operation, l, ns) = Paged(m, start, count)
  BY <1>2, SameData
<1>4. /\ NamespacesFault(Whole(l)) = NamespacesFault(Whole(k))
      /\ Get(Whole(l), "SERVICE", "", "WFS") = Get(Whole(k), "SERVICE", "", "WFS")
      /\ Get(Whole(l), "VERSION", "", None) = Get(Whole(k), "VERSION", "", None)
      /\ Required(Whole(l), "REQUEST", "") = Required(Whole(k), "REQUEST", "")
  BY <1>1 DEF ReadAlike
<1>. QED
  BY <1>3, <1>4 DEF Understood

LEMMA NextPage ==
    ASSUME NoneIsNoValue, TokensDiffer, OwnPages, NEW query, NEW m, UnderstoodUrl(query, m),
           m.operation \in DataOperations, NEW count \in Int, NEW start \in Int
    PROVE  /\ UnderstoodUrl(Replaced(query, PageOf(start, count)), Paged(m, start, count))
           /\ UrlNamespaces(Replaced(query, PageOf(start, count))) = UrlNamespaces(query)
<1>. DEFINE updates == PageOf(start, count)
            link == Replaced(query, updates)
            k == KvpParams(query) l == KvpParams(link)
<1>1. IsPage(updates) /\ updates["COUNT"] = count /\ updates["STARTINDEX"] = start
  BY DEF IsPage, PageOf
<1>2. IsWritten(query) /\ OnePage(query) /\ IsUrl(query)
      /\ Understood(k, UrlNamespaces(query), UrlOperation(query), m)
  BY WrittenIsUrl DEF UnderstoodUrl
<1>. HIDE DEF updates
<1>3. /\ OnePage(link)
      /\ KvpNames(link) = KvpNames(query) \union PageNames
      /\ \A n \in KvpNames(query) \ PageNames : l[n] = k[n]
      /\ \A n \in PageNames : l[n] = <<updates[n]>>
  BY <1>1, <1>2, LinkParameters
<1>4. IsWritten(link)
  BY <1>1, <1>2, ReplacedIsWritten
<1>5. DOMAIN k = KvpNames(query) /\ DOMAIN l = KvpNames(link)
  BY ParamsAreNamed
<1>. HIDE DEF link, k, l
<1>6. Alike(k, l)
  BY <1>3, <1>5 DEF Alike
<1>7. Pages(l, count, start)
  BY <1>1, <1>3, <1>5 DEF Pages, PageNames
<1>8. AreGroups(k)
  BY <1>2, WrittenAreGroups DEF k
<1>. DEFINE ns == UrlNamespaces(query) operation == UrlOperation(query)
<1>9. operation \in DataOperations
  <2>1. RequestFromKvp(operation, k, ns) = m
    BY <1>2 DEF Understood
  <2>. HIDE DEF operation, ns
  <2>2. RequestFromKvp(operation, k, ns).operation = operation
    BY DEF RequestFromKvp, DataFromKvp, NoRequest
  <2>. QED
    BY <2>1, <2>2
<1>10. UrlNamespaces(link) = ns /\ UrlOperation(link) = operation
  <2>1. ReadAlike(Whole(k), Whole(l), operation)
    BY <1>6, WholesAreAlike, SameReading
  <2>. QED
    BY <2>1 DEF ReadAlike, UrlNamespaces, UrlOperation, k, l
<1>. HIDE DEF ns, operation
<1>11. Understood(k, ns, operation, m)
  BY <1>2 DEF ns, operation
<1>12. Understood(l, ns, operation, Paged(m, start, count))
  BY <1>6, <1>7, <1>8, <1>9, <1>11, SamePage
<1>13. UnderstoodUrl(link, Paged(m, start, count))
  BY <1>3, <1>4, <1>10, <1>12 DEF UnderstoodUrl, l
<1>14. UrlNamespaces(link) = UrlNamespaces(query)
  BY <1>10 DEF ns
<1>. QED
  BY <1>13, <1>14 DEF link, updates

-----------------------------------------------------------------------------
(* A document as the parameters of an empty URL.                           *)

LEMMA CountUpto ==
    ASSUME NEW n \in Nat, NEW j \in 1..n
    PROVE  Cardinality({i \in 1..n : i <= j}) = j
<1>1. {i \in 1..n : i <= j} = 1..j
  OBVIOUS
<1>2. Cardinality(1..j) = j
  BY FS_Interval
<1>. QED
  BY <1>1, <1>2

LEMMA EmptyFirst ==
    ASSUME NEW S, NEW s \in Seq(S)
    PROVE  <<>> \o s = s
OBVIOUS

LEMMA UpdatedNothing ==
    ASSUME NEW entries, IsList(entries)
    PROVE  Updated(<<>>, entries) = entries
<1>. DEFINE new == {j \in DOMAIN entries : \A i \in DOMAIN <<>> : <<>>[i].spelled # entries[j].spelled}
            Latest(i) == {j \in DOMAIN entries : entries[j].spelled = <<>>[i].spelled}
            old == [i \in DOMAIN <<>> |->
                      IF Latest(i) = {} THEN <<>>[i] ELSE entries[CHOOSE j \in Latest(i) : TRUE]]
            Nth(S, k) == CHOOSE j \in S : Cardinality({i \in S : i <= j}) = k
            rest == [k \in 1 .. Cardinality(new) |-> entries[Nth(new, k)]]
<1>1. PICK n \in Nat : n = Len(entries) /\ DOMAIN entries = 1..n
  BY ListShape
<1>2. Updated(<<>>, entries) = old \o rest
  BY DEF Updated
<1>3. old = <<>>
  <2>1. DOMAIN <<>> = {}
    OBVIOUS
  <2>. HIDE DEF Latest
  <2>. QED
    BY <2>1
<1>4. new = 1..n
  BY <1>1
<1>5. Cardinality(1..n) = n
  BY FS_Interval
<1>6. ASSUME NEW k \in 1..n PROVE Nth(1..n, k) = k
  <2>1. \A j \in 1..n : Cardinality({i \in 1..n : i <= j}) = k <=> j = k
    BY CountUpto
  <2>. QED
    BY <2>1
<1>7. rest = [k \in 1..n |-> entries[k]]
  <2>1. rest = [k \in 1..n |-> entries[Nth(1..n, k)]]
    <3>. HIDE DEF new
    <3>. QED
      BY <1>4, <1>5
  <2>. HIDE DEF rest, Nth
  <2>. QED
    BY <1>6, <2>1
<1>8. entries \in Seq(Range(entries)) /\ rest = entries
  <2>1. entries \in [1..n -> Range(entries)]
    BY <1>1, LenProperties DEF IsList
  <2>. HIDE DEF rest
  <2>. QED
    BY <1>7, <2>1 DEF IsList
<1>. HIDE DEF old, rest
<1>. QED
  BY <1>2, <1>3, <1>8, EmptyFirst

(* A list of single groups, with at most one entry for each name of the    *)
(* page.                                                                   *)
Lists(list, entries) ==
    /\ IsWritten(list) /\ OnePage(list) /\ Range(list) = entries
    /\ \A e \in entries : \E group : e.value = <<group>>

LEMMA ListsNothing == Lists(<<>>, {})
BY NoList DEF Lists, OnePage, Range

LEMMA ListsOne ==
    ASSUME NEW name, NEW group, name \notin Selective
    PROVE  Lists(<<Entry(name, group)>>, {Entry(name, group)})
<1>. DEFINE e == Entry(name, group)
            s == <<e>>
<1>1. IsWritten(s)
  BY OneIsWritten
<1>2. Range(s) = {e}
  BY OneGroup
<1>3. e.value = <<group>>
  BY DEF Entry
<1>4. OnePage(s)
  <2>1. \A i, j \in DOMAIN s : i = j
    OBVIOUS
  <2>. HIDE DEF s
  <2>. QED
    BY <2>1 DEF OnePage
<1>. HIDE DEF e, s
<1>5. Lists(s, {e})
  BY <1>1, <1>2, <1>3, <1>4 DEF Lists
<1>. QED
  BY <1>5 DEF s, e

EntrySetIf(condition, name, group) == IF condition THEN {Entry(name, group)} ELSE {}

LEMMA ListsMaybe ==
    ASSUME NEW condition, NEW name, NEW group, name \notin Selective
    PROVE  Lists(EntryIf(condition, name, group), EntrySetIf(condition, name, group))
BY ListsOne, ListsNothing DEF EntryIf, EntrySetIf

LEMMA ListsTogether ==
    ASSUME NEW s, NEW t, NEW S, NEW T, Lists(s, S), Lists(t, T),
           \A a \in S, b \in T : a.name = b.name => a.name \notin PageNames
    PROVE  Lists(s \o t, S \union T)
<1>. DEFINE st == s \o t
<1>1. IsWritten(st)
  BY TogetherWritten DEF Lists
<1>2. IsList(s) /\ IsList(t)
  BY DEF Lists, IsWritten
<1>3. /\ Range(st) = Range(s) \union Range(t)
      /\ \A i \in DOMAIN st : i \in DOMAIN s \/ (i - Len(s) \in DOMAIN t /\ i > Len(s))
      /\ \A i \in DOMAIN s : i \in DOMAIN st /\ st[i] = s[i]
      /\ \A i \in DOMAIN t : i + Len(s) \in DOMAIN st /\ st[i + Len(s)] = t[i]
  <2>1. Range(st) = Range(s) \union Range(t)
    BY <1>2, Concatenation
  <2>2. \A i \in DOMAIN st : i \in DOMAIN s \/ (i - Len(s) \in DOMAIN t /\ i > Len(s))
    BY <1>2, Concatenation
  <2>3. \A i \in DOMAIN s : i \in DOMAIN st /\ st[i] = s[i]
    BY <1>2, Concatenation
  <2>4. \A i \in DOMAIN t : i + Len(s) \in DOMAIN st /\ st[i + Len(s)] = t[i]
    <3>1. ASSUME NEW i \in DOMAIN t PROVE i + Len(s) \in DOMAIN st /\ st[i + Len(s)] = t[i]
      <4>1. i + Len(s) \in DOMAIN (s \o t)
        BY <1>2, Concatenation
      <4>2. (s \o t)[i + Len(s)] = t[i]
        BY <1>2, Concatenation
      <4>. QED
        BY <4>1, <4>2
    <3>. QED
      BY <3>1
  <2>. QED
    BY <2>1, <2>2, <2>3, <2>4
<1>4. Range(st) = S \union T
  BY <1>3 DEF Lists
<1>5. /\ Len(s) \in Nat /\ DOMAIN s = 1 .. Len(s)
      /\ Len(t) \in Nat /\ DOMAIN t = 1 .. Len(t)
  BY <1>2, ListShape
<1>6. IsList(st)
  BY <1>1 DEF IsWritten
<1>7. DOMAIN st \subseteq Int
  BY <1>6, ListShape
<1>. HIDE DEF st
<1>8. \A i \in DOMAIN st : \/ i \in DOMAIN s /\ st[i] = s[i] /\ st[i] \in S
                           \/ i - Len(s) \in DOMAIN t /\ st[i] = t[i - Len(s)] /\ st[i] \in T
  <2>1. ASSUME NEW i \in DOMAIN st, i - Len(s) \in DOMAIN t PROVE st[i] = t[i - Len(s)]
    <3>1. (i - Len(s)) + Len(s) = i
      BY <1>5, <1>7
    <3>. QED
      BY <1>3, <2>1, <3>1
  <2>2. (\A i \in DOMAIN s : s[i] \in S) /\ (\A i \in DOMAIN t : t[i] \in T)
    BY DEF Lists, Range
  <2>. QED
    BY <1>3, <2>1, <2>2
<1>9. OnePage(st)
  <2>1. ASSUME NEW i \in DOMAIN st, NEW j \in DOMAIN st, st[i].name = st[j].name, st[i].name \in PageNames
        PROVE  i = j
    <3>1. CASE i \in DOMAIN s /\ st[i] = s[i] /\ j \in DOMAIN s /\ st[j] = s[j]
      BY <2>1, <3>1 DEF Lists, OnePage
    <3>2. CASE /\ i - Len(s) \in DOMAIN t /\ st[i] = t[i - Len(s)]
               /\ j - Len(s) \in DOMAIN t /\ st[j] = t[j - Len(s)]
      <4>1. i - Len(s) = j - Len(s)
        BY <2>1, <3>2 DEF Lists, OnePage
      <4>. QED
        BY <1>5, <1>7, <4>1
    <3>3. CASE (st[i] \in S /\ st[j] \in T) \/ (st[i] \in T /\ st[j] \in S)
      BY <2>1, <3>3
    <3>. QED
      BY <1>8, <3>1, <3>2, <3>3
  <2>. QED
    BY <2>1 DEF OnePage
<1>10. \A e \in S \union T : \E group : e.value = <<group>>
  BY DEF Lists
<1>. QED
  BY <1>1, <1>4, <1>9, <1>10 DEF Lists, st

(* What a name is read as.                                                 *)
LEMMA ListIsRead ==
    ASSUME NEW list, NEW entries, Lists(list, entries)
    PROVE  /\ Pairs(KvpParams(list)) = {}
           /\ \A e \in entries : e.name \in DOMAIN Whole(KvpParams(list))
           /\ \A n : (\A e \in entries : e.name # n) =>
                 n \notin DOMAIN Whole(KvpParams(list)) /\ Raw(Whole(KvpParams(list)), n) = None
           /\ \A n, group : Entry(n, group) \in entries /\ (\A e \in entries : e.name = n => e.value = <<group>>) =>
                 /\ n \in DOMAIN Whole(KvpParams(list)) /\ Whole(KvpParams(list))[n] = group
                 /\ Raw(Whole(KvpParams(list)), n) = group
<1>. DEFINE params == KvpParams(list)
            w == Whole(params)
<1>1. IsList(list) /\ Range(list) = entries
  BY DEF Lists, IsWritten
<1>2. DOMAIN params = KvpNames(list) /\ DOMAIN w = DOMAIN params
  BY ParamsAreNamed DEF Whole
<1>3. \A n \in KvpNames(list) : \E e \in entries : e.name = n /\ params[n] = e.value
  <2>1. \A i \in DOMAIN list : list[i] \in entries
    BY <1>1 DEF Range
  <2>. QED
    BY <1>1, <2>1, LastParameter
<1>4. \A e \in entries : e.name \in KvpNames(list)
  BY <1>1 DEF Range, KvpNames
<1>5. \A n : (\E e \in entries : e.name = n) <=> n \in KvpNames(list)
  BY <1>3, <1>4
<1>6. \A n \in DOMAIN params : \E group : params[n] = <<group>>
  BY <1>2, <1>3 DEF Lists
<1>7. \A group : Len(<<group>>) = 1 /\ <<group>>[1] = group /\ ~(Len(<<group>>) > 1)
  OBVIOUS
<1>. HIDE DEF params
<1>8. Pairs(params) = {}
  BY <1>6, <1>7 DEF Pairs
<1>9. \A n \in DOMAIN params : \A group : params[n] = <<group>> => w[n] = group
  BY <1>7 DEF Whole
<1>10. \A n, group : Entry(n, group).name = n
  BY DEF Entry
<1>11. \A n : (\A e \in entries : e.name # n) => n \notin DOMAIN w /\ Raw(w, n) = None
  BY <1>2, <1>5 DEF Raw
<1>12. \A n, group : Entry(n, group) \in entries /\ (\A e \in entries : e.name = n => e.value = <<group>>) =>
                 n \in DOMAIN w /\ w[n] = group /\ Raw(w, n) = group
  <2>1. ASSUME NEW n, NEW group, Entry(n, group) \in entries,
               \A e \in entries : e.name = n => e.value = <<group>>
        PROVE  n \in DOMAIN w /\ w[n] = group
    <3>1. n \in KvpNames(list)
      BY <1>4, <1>10, <2>1
    <3>2. params[n] = <<group>>
      BY <1>3, <2>1, <3>1
    <3>. QED
      BY <1>2, <1>9, <3>1, <3>2
  <2>. QED
    BY <2>1 DEF Raw
<1>. QED
  BY <1>2, <1>4, <1>8, <1>11, <1>12 DEF params, w

-----------------------------------------------------------------------------
(* What as_kvp() writes of a request, apart from its query, is read back.  *)

RequestEntries(m) ==
    {Entry("SERVICE", m.service), Entry("VERSION", m.version), Entry("REQUEST", m.operation)}
    \union EntrySetIf(m.outputFormat # GML, "OUTPUTFORMAT", m.outputFormat)
    \union EntrySetIf(m.resultType # "results", "RESULTTYPE", m.resultType)
    \union EntrySetIf(m.startIndex # 0, "STARTINDEX", m.startIndex)
    \union EntrySetIf(m.count # None, "COUNT", m.count)
    \union EntrySetIf(m.valueReference # None, "VALUEREFERENCE", Text(m.valueReference))

LEMMA ThreeInARow ==
    ASSUME NEW a, NEW b, NEW c
    PROVE  <<a>> \o <<b>> \o <<c>> = <<a, b, c>>
<1>. DEFINE s == <<a>> \o <<b>> \o <<c>> t == <<a, b, c>>
            S == {a, b, c}
<1>1. DOMAIN s = 1..3 /\ s[1] = a /\ s[2] = b /\ s[3] = c 
  OBVIOUS
<1>6. s \in Seq(S) /\ Len(s) = 3
  OBVIOUS
<1>2. t \in Seq(S) /\ Len(t) = 3 /\ t[1] = a /\ t[2] = b /\ t[3] = c
  OBVIOUS
<1>. HIDE DEF s, t, S
<1>3. \A i \in 1..3 : i = 1 \/ i = 2 \/ i = 3
  OBVIOUS
<1>4. \A i \in 1..3 : s[i] = t[i]
  BY <1>1, <1>2, <1>3
<1>5. s = t
  BY <1>6, <1>2, <1>4, SeqEqual
<1>. QED
  BY <1>5 DEF s, t

LEMMA RequestIsListed ==
    ASSUME NEW m, NEW Q, Lists(QueryAsKvp(m.queries[1]), Q), \A e \in Q : e.name \notin RequestNames
    PROVE  Lists(AsKvp(m), Q \union RequestEntries(m))
<1>. DEFINE a == Entry("SERVICE", m.service) b == Entry("VERSION", m.version) c == Entry("REQUEST", m.operation)
            q == QueryAsKvp(m.queries[1])
            format == EntryIf(m.outputFormat # GML, "OUTPUTFORMAT", m.outputFormat)
            type == EntryIf(m.resultType # "results", "RESULTTYPE", m.resultType)
            start == EntryIf(m.startIndex # 0, "STARTINDEX", m.startIndex)
            count == EntryIf(m.count # None, "COUNT", m.count)
            value == EntryIf(m.valueReference # None, "VALUEREFERENCE", Text(m.valueReference))
            F == EntrySetIf(m.outputFormat # GML, "OUTPUTFORMAT", m.outputFormat)
            T == EntrySetIf(m.resultType # "results", "RESULTTYPE", m.resultType)
            S == EntrySetIf(m.startIndex # 0, "STARTINDEX", m.startIndex)
            C == EntrySetIf(m.count # None, "COUNT", m.count)
            V == EntrySetIf(m.valueReference # None, "VALUEREFERENCE", Text(m.valueReference))
<1>1. /\ Lists(<<a>>, {a}) /\ Lists(<<b>>, {b}) /\ Lists(<<c>>, {c})
  BY ListsOne DEF Selective
<1>2. /\ Lists(format, F) /\ Lists(type, T) /\ Lists(start, S) /\ Lists(count, C) /\ Lists(value, V)
  BY ListsMaybe DEF Selective
<1>3. AsKvp(m) = <<a, b, c>> \o q \o format \o type \o start \o count \o value
  BY DEF AsKvp
<1>4. a.name \notin PageNames /\ b.name \notin PageNames /\ c.name \notin PageNames
  BY DEF Entry, PageNames
<1>5. \A e \in F \union T \union V : e.name \notin PageNames
  BY DEF EntrySetIf, Entry, PageNames
<1>6. /\ \A e \in S : e.name \notin {"COUNT"}
      /\ \A e \in C : e.name \notin {"STARTINDEX"} /\ e.name = "COUNT"
  BY DEF EntrySetIf, Entry
<1>7. \A e \in Q : e.name \notin PageNames
  BY DEF RequestNames, PageNames
<1>8. RequestEntries(m) = {a, b, c} \union F \union T \union S \union C \union V
  BY DEF RequestEntries
<1>9. Lists(q, Q)
  OBVIOUS
<1>. HIDE DEF a, b, c, q, format, type, start, count, value, F, T, S, C, V
<1>10. <<a>> \o <<b>> \o <<c>> = <<a, b, c>>
  BY ThreeInARow
<1>11. Lists(<<a, b, c>>, {a, b, c})
  <2>. DEFINE one == <<a>> two == <<b>> three == <<c>>
  <2>1. Lists(one, {a}) /\ Lists(two, {b}) /\ Lists(three, {c}) /\ one \o two \o three = <<a, b, c>>
    BY <1>1, <1>10
  <2>. HIDE DEF one, two, three
  <2>2. Lists(one \o two, {a} \union {b})
    BY <1>4, <2>1, ListsTogether
  <2>3. Lists((one \o two) \o three, ({a} \union {b}) \union {c})
    BY <1>4, <2>1, <2>2, ListsTogether
  <2>4. ({a} \union {b}) \union {c} = {a, b, c}
    OBVIOUS
  <2>. QED
    BY <2>1, <2>3, <2>4
<1>. DEFINE base == <<a, b, c>> B == {a, b, c}
<1>12. \A e \in B : e.name \notin PageNames
  BY <1>4
<1>13. Lists(base, B)
  BY <1>11
<1>. HIDE DEF base, B
<1>14. Lists(base \o q, B \union Q)
  BY <1>9, <1>12, <1>13, ListsTogether
<1>15. Lists(base \o q \o format, B \union Q \union F)
  BY <1>2, <1>5, <1>14, ListsTogether
<1>16. Lists(base \o q \o format \o type, B \union Q \union F \union T)
  BY <1>2, <1>5, <1>15, ListsTogether
<1>17. Lists(base \o q \o format \o type \o start, B \union Q \union F \union T \union S)
  <2>1. \A e \in B \union Q \union F \union T : e.name \notin PageNames
    BY <1>5, <1>7, <1>12
  <2>. QED
    BY <1>2, <1>16, <2>1, ListsTogether
<1>18. Lists(base \o q \o format \o type \o start \o count, B \union Q \union F \union T \union S \union C)
  <2>1. \A e \in B \union Q \union F \union T \union S, f \in C : e.name = f.name => e.name \notin PageNames
    BY <1>5, <1>6, <1>7, <1>12
  <2>. QED
    BY <1>2, <1>17, <2>1, ListsTogether
<1>19. Lists(base \o q \o format \o type \o start \o count \o value,
             B \union Q \union F \union T \union S \union C \union V)
  <2>1. \A e \in B \union Q \union F \union T \union S \union C, f \in V :
           e.name = f.name => e.name \notin PageNames
    BY <1>5
  <2>. QED
    BY <1>2, <1>18, <2>1, ListsTogether
<1>20. Q \union RequestEntries(m) = B \union Q \union F \union T \union S \union C \union V
  BY <1>8 DEF B
<1>. QED
  BY <1>3, <1>19, <1>20 DEF base

(* The parameters of a URL that as_kvp() wrote.                            *)
NamesNotWritten == {"NAMESPACES", "RESOLVE", "RESOLVEDEPTH", "RESOLVETIMEOUT", "MAXFEATURES", "RESOLVEPATH"}
ReadsAsWritten(w, m) ==
    /\ w["SERVICE"] = m.service /\ "SERVICE" \in DOMAIN w
    /\ Raw(w, "SERVICE") = m.service /\ Raw(w, "VERSION") = m.version /\ Raw(w, "REQUEST") = m.operation
    /\ Raw(w, "OUTPUTFORMAT") = IF m.outputFormat # GML THEN m.outputFormat ELSE None
    /\ Raw(w, "RESULTTYPE") = IF m.resultType # "results" THEN m.resultType ELSE None
    /\ Raw(w, "STARTINDEX") = IF m.startIndex # 0 THEN m.startIndex ELSE None
    /\ Raw(w, "COUNT") = m.count
    /\ Raw(w, "VALUEREFERENCE") = IF m.valueReference # None THEN Text(m.valueReference) ELSE None
    /\ "NAMESPACES" \notin DOMAIN w
    /\ Raw(w, "RESOLVE") = None /\ Raw(w, "RESOLVEDEPTH") = None /\ Raw(w, "RESOLVETIMEOUT") = None
    /\ Raw(w, "MAXFEATURES") = None /\ Raw(w, "RESOLVEPATH") = None

LEMMA EntriesOfRequest ==
    ASSUME NEW m
    PROVE  \A e \in RequestEntries(m) :
              /\ e.name \in RequestNames \ NamesNotWritten
              /\ e.name = "SERVICE" => e.value = <<m.service>>
              /\ e.name = "VERSION" => e.value = <<m.version>>
              /\ e.name = "REQUEST" => e.value = <<m.operation>>
              /\ e.name = "OUTPUTFORMAT" => m.outputFormat # GML /\ e.value = <<m.outputFormat>>
              /\ e.name = "RESULTTYPE" => m.resultType # "results" /\ e.value = <<m.resultType>>
              /\ e.name = "STARTINDEX" => m.startIndex # 0 /\ e.value = <<m.startIndex>>
              /\ e.name = "COUNT" => m.count # None /\ e.value = <<m.count>>
              /\ e.name = "VALUEREFERENCE" => m.valueReference # None /\ e.value = <<Text(m.valueReference)>>
<1>. SUFFICES ASSUME NEW e \in RequestEntries(m)
              PROVE  /\ e.name \in RequestNames \ NamesNotWritten
                     /\ e.name = "SERVICE" => e.value = <<m.service>>
                     /\ e.name = "VERSION" => e.value = <<m.version>>
                     /\ e.name = "REQUEST" => e.value = <<m.operation>>
                     /\ e.name = "OUTPUTFORMAT" => m.outputFormat # GML /\ e.value = <<m.outputFormat>>
                     /\ e.name = "RESULTTYPE" => m.resultType # "results" /\ e.value = <<m.resultType>>
                     /\ e.name = "STARTINDEX" => m.startIndex # 0 /\ e.value = <<m.startIndex>>
                     /\ e.name = "COUNT" => m.count # None /\ e.value = <<m.count>>
                     /\ e.name = "VALUEREFERENCE" => m.valueReference # None /\ e.value = <<Text(m.valueReference)>>
  OBVIOUS
<1>1. \/ e = Entry("SERVICE", m.service) \/ e = Entry("VERSION", m.version) \/ e = Entry("REQUEST", m.operation)
      \/ m.outputFormat # GML /\ e = Entry("OUTPUTFORMAT", m.outputFormat)
      \/ m.resultType # "results" /\ e = Entry("RESULTTYPE", m.resultType)
      \/ m.startIndex # 0 /\ e = Entry("STARTINDEX", m.startIndex)
      \/ m.count # None /\ e = Entry("COUNT", m.count)
      \/ m.valueReference # None /\ e = Entry("VALUEREFERENCE", Text(m.valueReference))
  BY DEF RequestEntries, EntrySetIf
<1>2. \A n, group : Entry(n, group).name = n /\ Entry(n, group).value = <<group>>
  BY DEF Entry
<1>. QED
  BY <1>1, <1>2 DEF RequestNames, NamesNotWritten

LEMMA RequestIsReadBack ==
    ASSUME NEW m, NEW Q, NEW list, Lists(list, Q \union RequestEntries(m)),
           \A e \in Q : e.name \notin RequestNames
    PROVE  ReadsAsWritten(Whole(KvpParams(list)), m)
<1>. DEFINE w == Whole(KvpParams(list))
            E == Q \union RequestEntries(m)
<1>1. /\ \A n : (\A e \in E : e.name # n) => n \notin DOMAIN w /\ Raw(w, n) = None
      /\ \A n, group : Entry(n, group) \in E /\ (\A e \in E : e.name = n => e.value = <<group>>) =>
            n \in DOMAIN w /\ w[n] = group /\ Raw(w, n) = group
  BY ListIsRead
<1>2. \A n, group : Entry(n, group).name = n /\ Entry(n, group).value = <<group>>
  BY DEF Entry
<1>3. /\ {Entry("SERVICE", m.service), Entry("VERSION", m.version), Entry("REQUEST", m.operation)} \subseteq E
      /\ m.outputFormat # GML => Entry("OUTPUTFORMAT", m.outputFormat) \in E
      /\ m.resultType # "results" => Entry("RESULTTYPE", m.resultType) \in E
      /\ m.startIndex # 0 => Entry("STARTINDEX", m.startIndex) \in E
      /\ m.count # None => Entry("COUNT", m.count) \in E
      /\ m.valueReference # None => Entry("VALUEREFERENCE", Text(m.valueReference)) \in E
  BY DEF RequestEntries, EntrySetIf
<1>4. \A e \in E :
         /\ e.name \notin NamesNotWritten
         /\ e.name = "SERVICE" => e.value = <<m.service>>
         /\ e.name = "VERSION" => e.value = <<m.version>>
         /\ e.name = "REQUEST" => e.value = <<m.operation>>
         /\ e.name = "OUTPUTFORMAT" => m.outputFormat # GML /\ e.value = <<m.outputFormat>>
         /\ e.name = "RESULTTYPE" => m.resultType # "results" /\ e.value = <<m.resultType>>
         /\ e.name = "STARTINDEX" => m.startIndex # 0 /\ e.value = <<m.startIndex>>
         /\ e.name = "COUNT" => m.count # None /\ e.value = <<m.count>>
         /\ e.name = "VALUEREFERENCE" => m.valueReference # None /\ e.value = <<Text(m.valueReference)>>
  BY EntriesOfRequest DEF RequestNames, NamesNotWritten
<1>. HIDE DEF w, E
<1>5. /\ w["SERVICE"] = m.service /\ "SERVICE" \in DOMAIN w
      /\ Raw(w, "SERVICE") = m.service /\ Raw(w, "VERSION") = m.version /\ Raw(w, "REQUEST") = m.operation
  BY <1>1, <1>3, <1>4
<1>6. Raw(w, "OUTPUTFORMAT") = IF m.outputFormat # GML THEN m.outputFormat ELSE None
  BY <1>1, <1>3, <1>4
<1>7. Raw(w, "RESULTTYPE") = IF m.resultType # "results" THEN m.resultType ELSE None
  BY <1>1, <1>3, <1>4
<1>8. Raw(w, "STARTINDEX") = IF m.startIndex # 0 THEN m.startIndex ELSE None
  BY <1>1, <1>3, <1>4
<1>9. Raw(w, "COUNT") = m.count
  <2>1. m.count = None => Raw(w, "COUNT") = None
    BY <1>1, <1>4
  <2>2. m.count # None => Raw(w, "COUNT") = m.count
    BY <1>1, <1>3, <1>4
  <2>. QED
    BY <2>1, <2>2
<1>10. Raw(w, "VALUEREFERENCE") = IF m.valueReference # None THEN Text(m.valueReference) ELSE None
  <2>1. m.valueReference = None => Raw(w, "VALUEREFERENCE") = None
    BY <1>1, <1>4
  <2>2. m.valueReference # None => Raw(w, "VALUEREFERENCE") = Text(m.valueReference)
    BY <1>1, <1>3, <1>4
  <2>. QED
    BY <2>1, <2>2
<1>11. /\ "NAMESPACES" \notin DOMAIN w
       /\ Raw(w, "RESOLVE") = None /\ Raw(w, "RESOLVEDEPTH") = None /\ Raw(w, "RESOLVETIMEOUT") = None
       /\ Raw(w, "MAXFEATURES") = None /\ Raw(w, "RESOLVEPATH") = None
  BY <1>1, <1>4 DEF NamesNotWritten
<1>12. ReadsAsWritten(w, m)
  BY <1>5, <1>6, <1>7, <1>8, <1>9, <1>10, <1>11 DEF ReadsAsWritten
<1>. QED
  BY <1>12 DEF w

LEMMA FieldsRead ==
    ASSUME NEW operation \in DataOperations, NEW params, NEW q, QueriesFromKvp(params, Aliases) = q
    PROVE  RequestFromKvp(operation, params, Aliases) =
              DataRequest(operation, Whole(params)["SERVICE"], Get(Whole(params), "VERSION", "", None), None,
                  q, Get(Whole(params), "COUNT", "MAXFEATURES", None),
                  Get(Whole(params), "STARTINDEX", "", 0), Get(Whole(params), "OUTPUTFORMAT", "", GML),
                  Get(Whole(params), "RESULTTYPE", "", "results"),
                  Reference(operation, Whole(params), Aliases))
BY DataFields

(* The request is readable, if its query is.                               *)
LEMMA WrittenIsReadable ==
    ASSUME NoneIsNoValue, TokensDiffer, NEW params, NEW m, PlainFields(m), ReadsAsWritten(Whole(params), m),
           NEW q, QueriesKvpFault(params, Aliases) = None, QueriesFromKvp(params, Aliases) = <<q>>,
           Len(SplitParameterLists(params)) = 1, m.operation \in Operations
    PROVE  /\ KvpNamespaces(Whole(params)) = Aliases
           /\ Get(Whole(params), "REQUEST", "", None) = m.operation
           /\ Understood(params, Aliases, m.operation,
                  DataRequest(m.operation, m.service, m.version, None, <<q>>, m.count, m.startIndex,
                              m.outputFormat, m.resultType, m.valueReference))
<1>. DEFINE w == Whole(params)
            operation == m.operation
<1>1. \A n : Value(w, n, "") = Raw(w, n)
  BY DEF Value
<1>2. ReadsAsWritten(w, m) /\ operation \in DataOperations
  BY DEF PlainFields
<1>. HIDE DEF w, operation
<1>3. m.startIndex \notin {None, Empty, Garbage} /\ (m.count \in Int => m.count \notin {None, Empty, Garbage})
      /\ Garbage # None
  BY DEF TokensDiffer, PlainFields
<1>4. /\ Required(w, "SERVICE", "") = None /\ Required(w, "VERSION", "") = None
      /\ Required(w, "REQUEST", "") = None
      /\ Get(w, "SERVICE", "", "WFS") = m.service /\ Get(w, "VERSION", "", None) = m.version
      /\ Get(w, "REQUEST", "", None) = m.operation
  <2>1. m.service \notin {None, Empty} /\ m.version \notin {None, Empty} /\ m.operation \notin {None, Empty}
    <3>1. m.version \in Int
      <4>1. m.version \in AcceptVersions
        BY DEF PlainFields
      <4>2. AcceptVersions \subseteq Nat
        BY VersionsAssumption
      <4>3. PICK v \in AcceptVersions : v = m.version
        BY <4>1
      <4>4. v \in Int
        BY <4>2, <4>3
      <4>. QED
        BY <4>3, <4>4
    <3>2. m.service \notin {None, Empty} /\ m.operation \notin {None, Empty}
      BY DEF PlainFields, IsValue
    <3>. QED
      BY <3>1, <3>2 DEF TokensDiffer
  <2>2. /\ Value(w, "SERVICE", "") = m.service /\ Value(w, "VERSION", "") = m.version
        /\ Value(w, "REQUEST", "") = m.operation
    BY <1>1, <1>2 DEF ReadsAsWritten
  <2>3. /\ Required(w, "SERVICE", "") = None /\ Required(w, "VERSION", "") = None
        /\ Required(w, "REQUEST", "") = None
    BY <2>1, <2>2 DEF Required, When
  <2>. QED
    BY <2>1, <2>2, <2>3 DEF Get
<1>5. Get(w, "OUTPUTFORMAT", "", GML) = m.outputFormat
  BY <1>1, <1>2 DEF ReadsAsWritten, PlainFields, IsValue, Get
<1>6. Get(w, "RESULTTYPE", "", "results") = m.resultType
  BY <1>1, <1>2 DEF ReadsAsWritten, PlainFields, IsValue, Get
<1>7. Get(w, "STARTINDEX", "", 0) = m.startIndex
      /\ ParsedBy(w, "STARTINDEX", "", Invalid("startIndex")) = None
  BY <1>1, <1>2, <1>3 DEF ReadsAsWritten, Get, ParsedBy, When
<1>8. /\ Get(w, "COUNT", "MAXFEATURES", None) = m.count
      /\ ParsedBy(w, "COUNT", "MAXFEATURES", Invalid("count")) = None
  <2>1. CASE m.count \in Int
    <3>1. Value(w, "COUNT", "MAXFEATURES") = m.count
      BY <1>2, <1>3, <2>1 DEF Value, ReadsAsWritten
    <3>. QED
      BY <1>3, <2>1, <3>1 DEF Get, ParsedBy, When
  <2>2. CASE m.count = None
    <3>1. Value(w, "COUNT", "MAXFEATURES") = None
      BY <1>2, <2>2 DEF Value, ReadsAsWritten
    <3>. QED
      BY <1>3, <2>2, <3>1 DEF Get, ParsedBy, When
  <2>. QED
    BY <2>1, <2>2 DEF PlainFields
<1>9. ResolveFault(w) = None /\ ResultFault(w) = None
  <2>1. Get(w, "RESOLVE", "", "none") = "none"
    BY <1>1, <1>2 DEF ReadsAsWritten, Get
  <2>. QED
    BY <1>6, <2>1 DEF ResolveFault, ResultFault, PlainFields, ResolveValues, When
<1>10. /\ ParsedBy(w, "RESOLVEDEPTH", "", Invalid("resolveDepth")) = None
       /\ ParsedBy(w, "RESOLVETIMEOUT", "", Invalid("resolveTimeout")) = None
  BY <1>1, <1>2, <1>3 DEF ReadsAsWritten, ParsedBy, When
<1>19. ASSUME operation = "GetPropertyValue"
       PROVE  /\ Value(w, "VALUEREFERENCE", "") = Text(m.valueReference) /\ IsValue(Text(m.valueReference))
              /\ m.valueReference = XPath(Text(m.valueReference), Aliases)
  <2>1. IsValue(Text(m.valueReference)) /\ m.valueReference = XPath(Text(m.valueReference), Aliases)
    BY <1>19 DEF PlainFields, IsReadBack, operation
  <2>2. m.valueReference # None
    BY <2>1, XPathsAreNotNone
  <2>. QED
    BY <1>1, <1>2, <2>1, <2>2 DEF ReadsAsWritten
<1>11. ReferenceFault(operation, w) = None
  BY <1>19 DEF IsValue, ReferenceFault, Required, When
<1>12. Reference(operation, w, Aliases) = m.valueReference
  <2>1. CASE operation = "GetPropertyValue"
    BY <1>19, <2>1 DEF IsValue, Get, Reference
  <2>2. CASE operation # "GetPropertyValue"
    BY <2>2 DEF PlainFields, Reference, operation
  <2>. QED
    BY <2>1, <2>2
<1>13. PathFault(operation, w, 1) = None
  <2>1. Get(w, "RESOLVEPATH", "", None) = None
    BY <1>1, <1>2 DEF ReadsAsWritten, Get
  <2>2. When(None # None, Invalid("resolvePath")) = None /\ When(1 > 1, Invalid("filter")) = None
    BY DEF When
  <2>3. FirstFault(<<When(None # None, Invalid("resolvePath")), When(1 > 1, Invalid("filter"))>>) = None
    BY <2>2, NothingToRaiseIn2
  <2>. QED
    BY <2>1, <2>3 DEF PathFault, PropertyValueFault, When
<1>14. NamespacesFault(w) = None /\ KvpNamespaces(w) = Aliases
  BY <1>2 DEF ReadsAsWritten, NamespacesFault, KvpNamespaces, When
<1>15. KvpFault(operation, params, Aliases) = None
  <2>1. DataIsReadable(operation, params, Aliases)
    BY <1>4, <1>7, <1>8, <1>9, <1>10, <1>11, <1>13 DEF DataIsReadable, w
  <2>. QED
    BY <1>2, <2>1, ReadableData
<1>16. RequestFromKvp(operation, params, Aliases) =
          DataRequest(operation, m.service, m.version, None, <<q>>, m.count, m.startIndex,
                      m.outputFormat, m.resultType, m.valueReference)
  <2>. DEFINE one == <<q>> s == m.service v == m.version c == m.count i == m.startIndex
              f == m.outputFormat r == m.resultType g == m.valueReference
  <2>1. w["SERVICE"] = s
    BY <1>2 DEF ReadsAsWritten
  <2>2. QueriesFromKvp(params, Aliases) = one
    OBVIOUS
  <2>3. PICK o \in DataOperations : o = operation
    BY <1>2
  <2>4. /\ Get(w, "VERSION", "", None) = v /\ Get(w, "COUNT", "MAXFEATURES", None) = c
        /\ Get(w, "STARTINDEX", "", 0) = i /\ Get(w, "OUTPUTFORMAT", "", GML) = f
        /\ Get(w, "RESULTTYPE", "", "results") = r
        /\ Reference(o, w, Aliases) = g
    BY <1>4, <1>5, <1>6, <1>7, <1>8, <1>12, <2>3
  <2>. HIDE DEF one, s, v, c, i, f, r, g
  <2>5. RequestFromKvp(o, params, Aliases) =
              DataRequest(o, Whole(params)["SERVICE"], Get(Whole(params), "VERSION", "", None), None,
                  one, Get(Whole(params), "COUNT", "MAXFEATURES", None),
                  Get(Whole(params), "STARTINDEX", "", 0), Get(Whole(params), "OUTPUTFORMAT", "", GML),
                  Get(Whole(params), "RESULTTYPE", "", "results"),
                  Reference(o, Whole(params), Aliases))
    BY <2>2, FieldsRead
  <2>6. RequestFromKvp(o, params, Aliases) = DataRequest(o, s, v, None, one, c, i, f, r, g)
    BY <2>1, <2>4, <2>5 DEF w
  <2>. QED
    BY <2>3, <2>6 DEF one, s, v, c, i, f, r, g
<1>17. m.service \in Services /\ m.version \in AcceptVersions
  BY DEF PlainFields
<1>18. Understood(params, Aliases, operation,
           DataRequest(operation, m.service, m.version, None, <<q>>, m.count, m.startIndex,
                       m.outputFormat, m.resultType, m.valueReference))
  <2>1. operation \in Operations
    BY DEF operation
  <2>. QED
    BY <1>4, <1>14, <1>15, <1>16, <1>17, <2>1 DEF Understood, w
<1>. QED
  BY <1>4, <1>14, <1>18 DEF w, operation

-----------------------------------------------------------------------------
(* What as_kvp() writes of a query is read back as the query.              *)

AdhocEntries(q) ==
    EntrySetIf(q.properties # <<>>, "PROPERTYNAME", Texts(q.properties))
    \union {Entry("TYPENAMES", q.typeNames)}
    \union EntrySetIf(q.srsName # None, "SRSNAME", CrsText(q.srsName))
    \union EntrySetIf(q.sortBy # <<>>, "SORTBY", Texts(q.sortBy))
StoredEntries(q) ==
    {Entry("STOREDQUERY_ID", q.stored)} \union {Entry(p, Str(q.parameters[p])) : p \in DOMAIN q.parameters}

LEMMA OneByOne ==
    ASSUME NEW x
    PROVE  <<x>> = [i \in 1..1 |-> x] /\ DOMAIN <<x>> = 1..1 /\ Len(<<x>>) = 1 /\ <<x>> # <<>>
<1>. DEFINE s == <<x>>
<1>1. s \in [1..1 -> {x}] /\ Len(s) = 1
  OBVIOUS
<1>2. s # <<>>
  OBVIOUS
<1>. HIDE DEF s
<1>3. s = [i \in 1..1 |-> x]
  BY <1>1
<1>. QED
  BY <1>1, <1>2, <1>3 DEF s

LEMMA PlainClark ==
    ASSUME NEW names, names = <<<<"", names[1][2]>>>>
    PROVE  /\ [i \in DOMAIN names |-> ClarkName(names[i])] = names
           /\ NoDefaultNamespace => /\ ParseQNames(names, Aliases) = names
                                    /\ ~SomeUnresolvable(names, Aliases)
           /\ Len(names) = 1 /\ names # <<>>
<1>. DEFINE local == names[1][2]
            name == <<"", local>>
            one == <<name>>
<1>1. names = one
  OBVIOUS
<1>2. ClarkName(name) = name
  BY DEF ClarkName
<1>3. NoDefaultNamespace => ParseQName(name, Aliases) = name /\ ~Unresolvable(name, Aliases)
  <2>1. NoDefaultNamespace => Unprefixed(name, Aliases)
    BY DEF NoDefaultNamespace, Unprefixed
  <2>2. name[1] = "" /\ name[2] = local /\ name[1] # "{"
    OBVIOUS
  <2>. QED
    BY <2>1, <2>2 DEF ParseQName, Unresolvable
<1>. HIDE DEF name
<1>4. DOMAIN one = 1..1 /\ Len(one) = 1 /\ one # <<>> /\ one = [i \in 1..1 |-> name]
  BY OneByOne
<1>. HIDE DEF one
<1>5. [i \in DOMAIN one |-> ClarkName(one[i])] = one
  BY <1>2, <1>4
<1>6. NoDefaultNamespace => ParseQNames(one, Aliases) = one /\ ~SomeUnresolvable(one, Aliases)
  BY <1>3, <1>4 DEF ParseQNames, SomeUnresolvable
<1>. QED
  BY <1>1, <1>4, <1>5, <1>6

LEMMA AdhocIsListed ==
    ASSUME NEW q, PlainAdhoc(q)
    PROVE  /\ Lists(QueryAsKvp(q), AdhocEntries(q))
           /\ \A e \in AdhocEntries(q) : e.name \in QueryNames
<1>. DEFINE projection == EntryIf(q.properties # <<>>, "PROPERTYNAME", Texts(q.properties))
            types == <<Entry("TYPENAMES", q.typeNames)>>
            srs == EntryIf(q.srsName # None, "SRSNAME", CrsText(q.srsName))
            sort == EntryIf(q.sortBy # <<>>, "SORTBY", Texts(q.sortBy))
            P == EntrySetIf(q.properties # <<>>, "PROPERTYNAME", Texts(q.properties))
            T == {Entry("TYPENAMES", q.typeNames)}
            S == EntrySetIf(q.srsName # None, "SRSNAME", CrsText(q.srsName))
            O == EntrySetIf(q.sortBy # <<>>, "SORTBY", Texts(q.sortBy))
<1>1. Lists(projection, P) /\ Lists(types, T) /\ Lists(srs, S) /\ Lists(sort, O)
  BY ListsOne, ListsMaybe DEF Selective
<1>2. q.stored = None
  <2>1. AdhocQuery(q.typeNames, q.srsName, q.properties, q.sortBy).stored = None
    BY DEF AdhocQuery
  <2>. QED
    BY <2>1 DEF PlainAdhoc
<1>3. [i \in DOMAIN q.typeNames |-> ClarkName(q.typeNames[i])] = q.typeNames
  BY PlainClark DEF PlainAdhoc
<1>4. QueryAsKvp(q) = projection \o (types \o srs \o sort)
  BY <1>2, <1>3 DEF QueryAsKvp
<1>5. AdhocEntries(q) = P \union ((T \union S) \union O)
  BY DEF AdhocEntries
<1>6. \A e \in P \union T \union S \union O : e.name \in QueryNames /\ e.name \notin PageNames
  BY DEF EntrySetIf, Entry, QueryNames, PageNames
<1>. HIDE DEF projection, types, srs, sort, P, T, S, O
<1>7. Lists(types \o srs, T \union S)
  BY <1>1, <1>6, ListsTogether
<1>8. Lists(types \o srs \o sort, (T \union S) \union O)
  BY <1>1, <1>6, <1>7, ListsTogether
<1>9. Lists(projection \o (types \o srs \o sort), P \union ((T \union S) \union O))
  BY <1>1, <1>6, <1>8, ListsTogether
<1>. QED
  BY <1>4, <1>5, <1>6, <1>9

LEMMA StoredIsListed ==
    ASSUME ParametersAreNew, NEW q, PlainStored(q)
    PROVE  /\ Lists(QueryAsKvp(q), StoredEntries(q))
           /\ \A e \in StoredEntries(q) : e.name = "STOREDQUERY_ID" \/ e.name \notin RequestNames \union QueryNames
<1>. DEFINE f == q.parameters
            id == <<Entry("STOREDQUERY_ID", q.stored)>>
            G == {Entry(p, Str(f[p])) : p \in DOMAIN f}
            given == SetToSeq(G)
<1>1. /\ q.stored # None /\ q.properties = <<>>
  <2>1. StoredQuery(q.stored, q.parameters, Aliases).properties = <<>>
    BY DEF StoredQuery
  <2>. QED
    BY <2>1 DEF PlainStored, IsValue
<1>2. QueryAsKvp(q) = <<>> \o (id \o given)
  BY <1>1 DEF QueryAsKvp, EntryIf
<1>3. DOMAIN f = StoredQueries[q.stored] /\ IsFiniteSet(DOMAIN f)
      /\ DOMAIN f \intersect (RequestNames \union QueryNames) = {}
  BY DEF PlainStored, ParametersAreNew
<1>4. DOMAIN f \intersect Selective = {}
  BY <1>3 DEF QueryNames, Selective
<1>5. IsWritten(given)
  BY <1>3, <1>4, ParametersAreWritten
<1>6. \A e \in G : e.name \in DOMAIN f /\ \E group : e.value = <<group>>
  BY DEF Entry
<1>7. Range(given) = G
  <2>. DEFINE e == [p \in DOMAIN f |-> Entry(p, Str(f[p]))]
  <2>1. e \in Surjection(DOMAIN f, G)
    BY DEF Surjection
  <2>2. IsFiniteSet(G)
    <3>. HIDE DEF G, e
    <3>. QED
      BY <1>3, <2>1, FS_Surjection
  <2>. HIDE DEF G
  <2>. QED
    BY <2>2, ListOfSet
<1>8. \A e \in G : e.name \notin RequestNames \union QueryNames
  BY <1>3, <1>6
<1>9. RequestNames \intersect PageNames = PageNames
  BY DEF RequestNames, PageNames
<1>10. OnePage(given)
  <2>. HIDE DEF given, G
  <2>1. \A i \in DOMAIN given : given[i] \in G
    BY <1>7 DEF Range
  <2>. QED
    BY <1>8, <1>9, <2>1 DEF OnePage
<1>11. Lists(given, G)
  <2>. HIDE DEF given, G
  <2>. QED
    BY <1>5, <1>6, <1>7, <1>10 DEF Lists
<1>12. Lists(id, {Entry("STOREDQUERY_ID", q.stored)})
  BY ListsOne DEF Selective
<1>13. Entry("STOREDQUERY_ID", q.stored).name = "STOREDQUERY_ID"
  BY DEF Entry
<1>14. StoredEntries(q) = {Entry("STOREDQUERY_ID", q.stored)} \union G
  BY DEF StoredEntries
<1>. HIDE DEF given, G, id
<1>15. Lists(id \o given, {Entry("STOREDQUERY_ID", q.stored)} \union G)
  BY <1>8, <1>9, <1>11, <1>12, ListsTogether
<1>16. <<>> \o (id \o given) = id \o given
  <2>. DEFINE s == id \o given
  <2>1. s \in Seq(Range(s))
    BY <1>15 DEF Lists, IsWritten, IsList
  <2>. HIDE DEF s
  <2>. QED
    BY <2>1, EmptyFirst DEF s
<1>. QED
  BY <1>2, <1>8, <1>13, <1>14, <1>15, <1>16

LEMMA NothingToRaiseIn6 == FirstFault(<<None, None, None, None, None, None>>) = None
<1>. DEFINE s == <<None, None, None, None, None, None>>
<1>1. \A i \in DOMAIN s : s[i] = None
  OBVIOUS
<1>. QED
  BY <1>1, NothingToRaise

LEMMA NothingToRaiseIn5 == FirstFault(<<None, None, None, None, None>>) = None
<1>. DEFINE s == <<None, None, None, None, None>>
<1>1. \A i \in DOMAIN s : s[i] = None
  OBVIOUS
<1>. QED
  BY <1>1, NothingToRaise

LEMMA OneVariant ==
    ASSUME NEW params, NEW ns, NEW q, Pairs(params) = {},
           IF IsStored(params) THEN StoredKvpFault(Whole(params)) = None /\ StoredFromKvp(Whole(params), ns) = q
           ELSE AdhocKvpFault(Whole(params), ns) = None /\ AdhocFromKvp(Whole(params), ns) = q
    PROVE  /\ QueriesKvpFault(params, ns) = None /\ QueriesFromKvp(params, ns) = <<q>>
           /\ Len(SplitParameterLists(params)) = 1
<1>. DEFINE w == Whole(params)
            one == <<w>>
            Fault(v) == IF IsStored(params) THEN StoredKvpFault(v) ELSE AdhocKvpFault(v, ns)
            Query(v) == IF IsStored(params) THEN StoredFromKvp(v, ns) ELSE AdhocFromKvp(v, ns)
<1>1. SplitParameterLists(params) = one
  BY DEF SplitParameterLists
<1>2. SplitFault(params) = None
  BY DEF SplitFault, PairSizes, When
<1>3. DOMAIN one = 1..1 /\ Len(one) = 1 /\ \A i \in 1..1 : one[i] = w
  BY OneByOne
<1>4. Fault(w) = None /\ Query(w) = q
  OBVIOUS
<1>5. /\ QueriesKvpFault(params, ns) = FirstFault([i \in DOMAIN one |-> Fault(one[i])])
      /\ QueriesFromKvp(params, ns) = [i \in DOMAIN one |-> Query(one[i])]
  BY <1>1, <1>2 DEF QueriesKvpFault, QueriesFromKvp
<1>. HIDE DEF one, w, Fault, Query
<1>6. QueriesFromKvp(params, ns) = [i \in 1..1 |-> q]
  BY <1>3, <1>4, <1>5
<1>7. QueriesKvpFault(params, ns) = None
  BY <1>3, <1>4, <1>5, NothingToRaise
<1>. QED
  BY <1>1, <1>3, <1>6, <1>7, OneByOne

LEMMA NamesOfRequest ==
    ASSUME NEW m
    PROVE  \A e \in RequestEntries(m) : e.name \in RequestNames /\ e.name \notin QueryNames
BY EntriesOfRequest DEF RequestNames, QueryNames

LEMMA AdhocIsReadBack ==
    ASSUME TokensDiffer, NoDefaultNamespace, NEW m, NEW q, PlainAdhoc(q), NEW list,
           Lists(list, AdhocEntries(q) \union RequestEntries(m))
    PROVE  /\ ~IsStored(KvpParams(list))
           /\ AdhocKvpFault(Whole(KvpParams(list)), Aliases) = None
           /\ AdhocFromKvp(Whole(KvpParams(list)), Aliases) = q
<1>. DEFINE w == Whole(KvpParams(list))
            E == AdhocEntries(q) \union RequestEntries(m)
<1>1. /\ \A n : (\A e \in E : e.name # n) => n \notin DOMAIN w /\ Raw(w, n) = None
      /\ \A n, group : Entry(n, group) \in E /\ (\A e \in E : e.name = n => e.value = <<group>>) =>
            n \in DOMAIN w /\ w[n] = group /\ Raw(w, n) = group
  BY ListIsRead
<1>2. \A n, group : Entry(n, group).name = n /\ Entry(n, group).value = <<group>>
  BY DEF Entry
<1>3. /\ Entry("TYPENAMES", q.typeNames) \in E
      /\ q.properties # <<>> => Entry("PROPERTYNAME", Texts(q.properties)) \in E
      /\ q.srsName # None => Entry("SRSNAME", CrsText(q.srsName)) \in E
      /\ q.sortBy # <<>> => Entry("SORTBY", Texts(q.sortBy)) \in E
  BY DEF AdhocEntries, EntrySetIf
<1>4. \A e \in AdhocEntries(q) :
         \/ e = Entry("TYPENAMES", q.typeNames)
         \/ q.properties # <<>> /\ e = Entry("PROPERTYNAME", Texts(q.properties))
         \/ q.srsName # None /\ e = Entry("SRSNAME", CrsText(q.srsName))
         \/ q.sortBy # <<>> /\ e = Entry("SORTBY", Texts(q.sortBy))
  BY DEF AdhocEntries, EntrySetIf
<1>5. \A e \in RequestEntries(m) : e.name \notin QueryNames
  BY NamesOfRequest
<1>6. \A e \in E :
         /\ e.name \notin {"STOREDQUERY_ID", "TYPENAME", "ALIASES", "FILTER", "FILTER_LANGUAGE", "BBOX", "RESOURCEID"}
         /\ e.name = "TYPENAMES" => e.value = <<q.typeNames>>
         /\ e.name = "PROPERTYNAME" => q.properties # <<>> /\ e.value = <<Texts(q.properties)>>
         /\ e.name = "SRSNAME" => q.srsName # None /\ e.value = <<CrsText(q.srsName)>>
         /\ e.name = "SORTBY" => q.sortBy # <<>> /\ e.value = <<Texts(q.sortBy)>>
  <2>1. ASSUME NEW e \in AdhocEntries(q)
        PROVE  /\ e.name \notin {"STOREDQUERY_ID", "TYPENAME", "ALIASES", "FILTER", "FILTER_LANGUAGE", "BBOX",
                                 "RESOURCEID"}
               /\ e.name = "TYPENAMES" => e.value = <<q.typeNames>>
               /\ e.name = "PROPERTYNAME" => q.properties # <<>> /\ e.value = <<Texts(q.properties)>>
               /\ e.name = "SRSNAME" => q.srsName # None /\ e.value = <<CrsText(q.srsName)>>
               /\ e.name = "SORTBY" => q.sortBy # <<>> /\ e.value = <<Texts(q.sortBy)>>
    BY <1>2, <1>4
  <2>2. ASSUME NEW e \in RequestEntries(m)
        PROVE  e.name \notin {"STOREDQUERY_ID", "TYPENAME", "ALIASES", "FILTER", "FILTER_LANGUAGE", "BBOX",
                              "RESOURCEID", "TYPENAMES", "PROPERTYNAME", "SRSNAME", "SORTBY"}
    BY <1>5 DEF QueryNames
  <2>. QED
    BY <2>1, <2>2
<1>. HIDE DEF w, E
<1>7. Raw(w, "TYPENAMES") = q.typeNames
  BY <1>1, <1>3, <1>6
<1>8. Raw(w, "PROPERTYNAME") = IF q.properties # <<>> THEN Texts(q.properties) ELSE None
  BY <1>1, <1>3, <1>6
<1>9. Raw(w, "SRSNAME") = IF q.srsName # None THEN CrsText(q.srsName) ELSE None
  BY <1>1, <1>3, <1>6
<1>10. Raw(w, "SORTBY") = IF q.sortBy # <<>> THEN Texts(q.sortBy) ELSE None
  BY <1>1, <1>3, <1>6
<1>11. /\ Raw(w, "STOREDQUERY_ID") = None /\ Raw(w, "ALIASES") = None
       /\ Raw(w, "FILTER") = None /\ Raw(w, "FILTER_LANGUAGE") = None /\ Raw(w, "BBOX") = None
       /\ Raw(w, "RESOURCEID") = None
  BY <1>1, <1>6
<1>12. \A n : Value(w, n, "") = Raw(w, n)
  BY DEF Value
<1>13. Garbage # None
  BY DEF TokensDiffer
<1>14. Get(w, "TYPENAMES", "TYPENAME", <<>>) = q.typeNames
  <2>1. q.typeNames \notin {None, Empty}
    BY DEF PlainAdhoc, IsValue
  <2>2. Value(w, "TYPENAMES", "TYPENAME") = q.typeNames
    BY <1>7, <2>1 DEF Value
  <2>. QED
    BY <2>1, <2>2 DEF Get
<1>15. /\ Get(w, "STOREDQUERY_ID", "", None) = None /\ Get(w, "ALIASES", "", None) = None
       /\ Get(w, "FILTER", "", None) = None /\ Get(w, "BBOX", "", None) = None
       /\ Get(w, "RESOURCEID", "", <<>>) = <<>>
  BY <1>11, <1>12 DEF Get
<1>16. /\ Get(w, "SRSNAME", "", None) = IF q.srsName # None THEN CrsText(q.srsName) ELSE None
       /\ q.srsName # None => CrsText(q.srsName) # None /\ q.srsName = Crs(CrsText(q.srsName))
       /\ ParsedBy(w, "SRSNAME", "", Invalid("srsName")) = None
  <2>1. q.srsName # None =>
           CrsText(q.srsName) \notin {None, Empty, Garbage} /\ q.srsName = Crs(CrsText(q.srsName))
    BY DEF PlainAdhoc, IsValue
  <2>2. Value(w, "SRSNAME", "") = IF q.srsName # None THEN CrsText(q.srsName) ELSE None
    BY <1>9, <1>12
  <2>. QED
    BY <1>13, <2>1, <2>2 DEF Get, ParsedBy, When
<1>25. ASSUME NEW n, NEW xpaths, AreReadBack(xpaths),
              Raw(w, n) = IF xpaths # <<>> THEN Texts(xpaths) ELSE None
       PROVE  /\ XPaths(Get(w, n, "", <<>>), Aliases) = xpaths
              /\ \A fault : ParsedBy(w, n, "", fault) = None
  <2>1. Value(w, n, "") = IF xpaths # <<>> THEN Texts(xpaths) ELSE None
    BY <1>12, <1>25
  <2>2. CASE xpaths = <<>>
    <3>1. Get(w, n, "", <<>>) = <<>> /\ \A fault : ParsedBy(w, n, "", fault) = None
      BY <1>13, <2>1, <2>2 DEF Get, ParsedBy, When
    <3>2. XPaths(<<>>, Aliases) = <<>>
      BY DEF XPaths
    <3>. QED
      BY <2>2, <3>1, <3>2
  <2>3. CASE xpaths # <<>>
    <3>1. Texts(xpaths) \notin {None, Empty, Garbage} /\ xpaths = XPaths(Texts(xpaths), Aliases)
      BY <1>25, <2>3 DEF AreReadBack, IsValue
    <3>2. Get(w, n, "", <<>>) = Texts(xpaths) /\ \A fault : ParsedBy(w, n, "", fault) = None
      BY <2>1, <2>3, <3>1 DEF Get, ParsedBy, When
    <3>. QED
      BY <3>1, <3>2
  <2>. QED
    BY <2>2, <2>3
<1>17. /\ XPaths(Get(w, "SORTBY", "", <<>>), Aliases) = q.sortBy
       /\ ParsedBy(w, "SORTBY", "", Invalid("sortby")) = None
  <2>1. AreReadBack(q.sortBy)
    BY DEF PlainAdhoc
  <2>. QED
    BY <1>10, <1>25, <2>1
<1>18. /\ XPaths(Get(w, "PROPERTYNAME", "", <<>>), Aliases) = q.properties
       /\ Get(w, "PROPERTYNAME", "", <<>>) # <<Star>>
  <2>1. AreReadBack(q.properties) /\ Texts(q.properties) # <<Star>>
    BY DEF PlainAdhoc
  <2>2. XPaths(Get(w, "PROPERTYNAME", "", <<>>), Aliases) = q.properties
    BY <1>8, <1>25, <2>1
  <2>3. Get(w, "PROPERTYNAME", "", <<>>) \in {<<>>, Texts(q.properties)}
    BY <1>8, <1>12 DEF Get
  <2>4. <<>> # <<Star>>
    OBVIOUS
  <2>. QED
    BY <2>1, <2>2, <2>3, <2>4
<1>19. /\ ParseQNames(q.typeNames, Aliases) = q.typeNames /\ ~SomeUnresolvable(q.typeNames, Aliases)
       /\ Len(q.typeNames) = 1 /\ q.typeNames # <<>>
  BY PlainClark DEF PlainAdhoc
<1>20. FilterFromKvp(w, Aliases) = None
  BY <1>15 DEF FilterFromKvp
<1>21. FilterKvpFault(w, Aliases) = None
  <2>1. /\ ParsedBy(w, "FILTER_LANGUAGE", "", Invalid("filterLanguage")) = None
        /\ ParsedBy(w, "FILTER", "", ParsingFailed("filter")) = None
        /\ ParsedBy(w, "BBOX", "", Invalid("bbox")) = None
    BY <1>11, <1>12, <1>13 DEF ParsedBy, When
  <2>2. When(SomeUnresolvable(<<>>, Aliases), Crash) = None
    BY DEF SomeUnresolvable, When
  <2>3. FilterKvpFault(w, Aliases) =
          FirstFault(<<None, None, None, None, When(FALSE /\ (FALSE \/ FALSE), Invalid("filter")),
                       When(FALSE /\ (FALSE \/ FALSE), Invalid("resourceId"))>>)
    BY <1>15, <2>1, <2>2 DEF FilterKvpFault
  <2>4. When(FALSE /\ (FALSE \/ FALSE), Invalid("filter")) = None
        /\ When(FALSE /\ (FALSE \/ FALSE), Invalid("resourceId")) = None
    BY DEF When
  <2>. QED
    BY <2>3, <2>4, NothingToRaiseIn6
<1>22. AdhocKvpFault(w, Aliases) = None
  <2>1. JoinFault(q.typeNames, None) = None
    <3>1. ~(Len(q.typeNames) > 1)
      BY <1>19
    <3>2. When(Len(q.typeNames) > 1, NotSupported("typeNames")) = None
          /\ When(None # None, NotSupported("aliases")) = None
      BY <3>1 DEF When
    <3>. QED
      BY <3>2, NothingToRaiseIn2 DEF JoinFault
  <2>2. When(SomeUnresolvable(q.typeNames, Aliases), Crash) = None
    BY <1>19 DEF When
  <2>3. When(q.typeNames = <<>> /\ "RESOURCEID" \notin DOMAIN w, Missing("typeNames")) = None
    BY <1>19 DEF When
  <2>4. AdhocKvpFault(w, Aliases) = FirstFault(<<None, None, None, None, None, None>>)
    BY <1>14, <1>15, <1>16, <1>17, <1>21, <2>1, <2>2, <2>3 DEF AdhocKvpFault
  <2>. QED
    BY <2>4, NothingToRaiseIn6
<1>23. AdhocFromKvp(w, Aliases) = AdhocQuery(q.typeNames, q.srsName, q.properties, q.sortBy)
  <2>1. (IF Get(w, "SRSNAME", "", None) = None THEN None ELSE Crs(Get(w, "SRSNAME", "", None))) = q.srsName
    BY <1>16
  <2>. QED
    BY <1>14, <1>17, <1>18, <1>19, <1>20, <2>1 DEF AdhocFromKvp, AdhocQuery
<1>24. AdhocFromKvp(w, Aliases) = q
  BY <1>23 DEF PlainAdhoc
<1>. QED
  BY <1>15, <1>22, <1>24 DEF w, IsStored

LEMMA StoredIsReadBack ==
    ASSUME TokensDiffer, ParametersAreNew, NEW m, NEW q, PlainStored(q), NEW list,
           Lists(list, StoredEntries(q) \union RequestEntries(m))
    PROVE  /\ IsStored(KvpParams(list))
           /\ StoredKvpFault(Whole(KvpParams(list))) = None
           /\ StoredFromKvp(Whole(KvpParams(list)), Aliases) = q
<1>. DEFINE w == Whole(KvpParams(list))
            E == StoredEntries(q) \union RequestEntries(m)
            id == q.stored
            names == StoredQueries[id]
<1>1. /\ \A n : (\A e \in E : e.name # n) => n \notin DOMAIN w /\ Raw(w, n) = None
      /\ \A n, group : Entry(n, group) \in E /\ (\A e \in E : e.name = n => e.value = <<group>>) =>
            n \in DOMAIN w /\ w[n] = group /\ Raw(w, n) = group
  BY ListIsRead
<1>2. \A n, group : Entry(n, group).name = n /\ Entry(n, group).value = <<group>>
  BY DEF Entry
<1>3. DOMAIN q.parameters = names /\ q.parameters = [p \in names |-> q.parameters[p]]
  BY DEF PlainStored
<1>10. \A p \in names : IsValue(q.parameters[p]) /\ Str(q.parameters[p]) = q.parameters[p]
  BY DEF PlainStored
<1>4. \A e \in StoredEntries(q) :
         \/ e = Entry("STOREDQUERY_ID", id)
         \/ \E p \in names : e = Entry(p, q.parameters[p])
  BY <1>3, <1>10 DEF StoredEntries
<1>5. Entry("STOREDQUERY_ID", id) \in E /\ \A p \in names : Entry(p, q.parameters[p]) \in E
  <2>1. \A p \in names : Entry(p, Str(q.parameters[p])) \in E
    BY <1>3 DEF StoredEntries
  <2>2. Entry("STOREDQUERY_ID", id) \in E
    BY DEF StoredEntries
  <2>. QED
    BY <1>10, <2>1, <2>2
<1>6. \A e \in RequestEntries(m) : e.name \in RequestNames /\ e.name \notin QueryNames
  BY NamesOfRequest
<1>7. id \in DOMAIN StoredQueries /\ \A p \in names : p \notin RequestNames /\ p \notin QueryNames
  BY DEF PlainStored, ParametersAreNew
<1>8. "STOREDQUERY_ID" \in QueryNames
      /\ {"FILTER", "BBOX", "RESOURCEID"} \subseteq QueryNames \ {"STOREDQUERY_ID"}
  BY DEF QueryNames
<1>9. q = StoredQuery(id, q.parameters, Aliases)
  BY DEF PlainStored
<1>11. id \notin {None, Empty, Garbage}
  BY DEF PlainStored, IsValue
<1>. HIDE DEF w, E, id, names
<1>12. \A e \in E : e \in StoredEntries(q) \/ e \in RequestEntries(m)
  BY DEF E
<1>13. Raw(w, "STOREDQUERY_ID") = id
  <2>1. \A e \in E : e.name = "STOREDQUERY_ID" => e.value = <<id>>
    BY <1>2, <1>4, <1>6, <1>7, <1>8, <1>12
  <2>. QED
    BY <1>1, <1>5, <2>1
<1>14. ASSUME NEW p \in names PROVE p \in DOMAIN w /\ w[p] = q.parameters[p]
  <2>1. \A e \in E : e.name = p => e.value = <<q.parameters[p]>>
    BY <1>2, <1>4, <1>6, <1>7, <1>8, <1>12
  <2>. QED
    BY <1>1, <1>5, <2>1
<1>15. \A n \in QueryNames \ {"STOREDQUERY_ID"} : n \notin DOMAIN w
  <2>1. \A e \in E : e.name \notin QueryNames \ {"STOREDQUERY_ID"}
    BY <1>2, <1>4, <1>6, <1>7, <1>12
  <2>. QED
    BY <1>1, <2>1
<1>16. Get(w, "STOREDQUERY_ID", "", None) = id
  BY <1>11, <1>13 DEF Get, Value
<1>17. StoredParameters(w, id) = q.parameters
  <2>1. StoredQueries[id] \intersect DOMAIN w = names
    BY <1>14 DEF names
  <2>2. StoredParameters(w, id) = [p \in names |-> w[p]]
    BY <2>1 DEF StoredParameters
  <2>. QED
    BY <1>3, <1>14, <2>2
<1>18. StoredFromKvp(w, Aliases) = q
  BY <1>9, <1>16, <1>17 DEF StoredFromKvp
<1>19. ParametersFault(id, q.parameters) = None
  <2>. DEFINE given == q.parameters
              absent == StoredQueries[id] \ DOMAIN given
              unknown == DOMAIN given \ StoredQueries[id]
  <2>1. absent = {} /\ unknown = {}
    BY <1>3 DEF names
  <2>2. ~\E p \in DOMAIN given \ unknown : given[p] = Garbage
    BY <1>3, <1>10 DEF IsValue
  <2>3. ParametersFault(id, given) =
          FirstFault(<<When(absent # {}, Missing(CHOOSE p \in absent : TRUE)),
                       When(\E p \in DOMAIN given \ unknown : given[p] = Garbage, Invalid(None)),
                       When(unknown # {}, Invalid(CHOOSE p \in unknown : TRUE))>>)
    BY DEF ParametersFault
  <2>. HIDE DEF given, absent, unknown
  <2>4. When(absent # {}, Missing(CHOOSE p \in absent : TRUE)) = None
    BY <2>1 DEF When
  <2>5. When(\E p \in DOMAIN given \ unknown : given[p] = Garbage, Invalid(None)) = None
    BY <2>2 DEF When
  <2>6. When(unknown # {}, Invalid(CHOOSE p \in unknown : TRUE)) = None
    BY <2>1 DEF When
  <2>7. ParametersFault(id, given) = None
    BY <2>3, <2>4, <2>5, <2>6, NothingToRaiseIn3
  <2>. QED
    BY <2>7 DEF given
<1>20. StoredKvpFault(w) = None
  <2>. DEFINE given == q.parameters
              empty == {p \in DOMAIN given : given[p] = Empty}
              Adhoc(n) == When(n \in DOMAIN w \ DOMAIN given, Invalid(n))
  <2>1. empty = {}
    BY <1>3, <1>10 DEF IsValue
  <2>2. Adhoc("FILTER") = None /\ Adhoc("BBOX") = None /\ Adhoc("RESOURCEID") = None
    BY <1>8, <1>15 DEF When
  <2>3. When(empty # {}, Invalid(CHOOSE p \in empty : TRUE)) = None
    <3>. HIDE DEF empty
    <3>. QED
      BY <2>1 DEF When
  <2>4. StoredKvpFault(w) = FirstFault(<<When(empty # {}, Invalid(CHOOSE p \in empty : TRUE)),
                              Adhoc("FILTER"), Adhoc("BBOX"), Adhoc("RESOURCEID"),
                              ParametersFault(id, given)>>)
    <3>1. id \in DOMAIN StoredQueries
      BY <1>7
    <3>. QED
      BY <1>16, <1>17, <3>1 DEF StoredKvpFault
  <2>. HIDE DEF given, empty, Adhoc
  <2>5. ParametersFault(id, given) = None
    BY <1>19 DEF given
  <2>. QED
    BY <2>2, <2>3, <2>4, <2>5, NothingToRaiseIn5
<1>. QED
  BY <1>11, <1>16, <1>18, <1>20 DEF w, IsStored

-----------------------------------------------------------------------------
(* A document as a URL.                                                    *)

HasDataFields(m) ==
    m = DataRequest(m.operation, m.service, m.version, m.handle, m.queries, m.count, m.startIndex,
                    m.outputFormat, m.resultType, m.valueReference)

LEMMA DocumentAsUrl ==
    ASSUME NoneIsNoValue, TokensDiffer, ParametersAreNew, NoDefaultNamespace, NEW m, Plain(m), HasDataFields(m),
           m.operation \in Operations
    PROVE  /\ UnderstoodUrl(Updated(<<>>, AsKvp(m)), [m EXCEPT !.handle = None])
           /\ UrlNamespaces(Updated(<<>>, AsKvp(m))) = Aliases
<1>. DEFINE q == m.queries[1]
            Q == IF q.stored = None THEN AdhocEntries(q) ELSE StoredEntries(q)
            list == AsKvp(m)
            params == KvpParams(list)
<1>1. Lists(QueryAsKvp(q), Q) /\ \A e \in Q : e.name \notin RequestNames
  <2>1. \A n \in QueryNames : n \notin RequestNames
    BY DEF QueryNames, RequestNames
  <2>2. CASE q.stored = None
    BY <2>1, <2>2, AdhocIsListed DEF Plain
  <2>3. CASE q.stored # None
    <3>1. "STOREDQUERY_ID" \notin RequestNames
      BY DEF RequestNames
    <3>. QED
      BY <2>3, <3>1, StoredIsListed DEF Plain
  <2>. QED
    BY <2>2, <2>3
<1>2. Lists(list, Q \union RequestEntries(m))
  <2>. HIDE DEF Q
  <2>. QED
    BY <1>1, RequestIsListed
<1>3. ReadsAsWritten(Whole(params), m)
  <2>. HIDE DEF Q, list
  <2>. QED
    BY <1>1, <1>2, RequestIsReadBack
<1>4. Pairs(params) = {}
  <2>. HIDE DEF Q, list
  <2>. QED
    BY <1>2, ListIsRead
<1>5. IF IsStored(params) THEN StoredKvpFault(Whole(params)) = None /\ StoredFromKvp(Whole(params), Aliases) = q
      ELSE AdhocKvpFault(Whole(params), Aliases) = None /\ AdhocFromKvp(Whole(params), Aliases) = q
  <2>1. CASE q.stored = None
    <3>1. Lists(list, AdhocEntries(q) \union RequestEntries(m)) /\ PlainAdhoc(q)
      BY <1>2, <2>1 DEF Plain
    <3>. HIDE DEF list, q
    <3>. QED
      BY <3>1, AdhocIsReadBack
  <2>2. CASE q.stored # None
    <3>1. Lists(list, StoredEntries(q) \union RequestEntries(m)) /\ PlainStored(q)
      BY <1>2, <2>2 DEF Plain
    <3>. HIDE DEF list, q
    <3>. QED
      BY <3>1, StoredIsReadBack
  <2>. QED
    BY <2>1, <2>2
<1>. HIDE DEF params, q, Q
<1>6. /\ QueriesKvpFault(params, Aliases) = None /\ QueriesFromKvp(params, Aliases) = <<q>>
      /\ Len(SplitParameterLists(params)) = 1
  BY <1>4, <1>5, OneVariant
<1>. DEFINE same == DataRequest(m.operation, m.service, m.version, None, <<q>>, m.count, m.startIndex,
                                m.outputFormat, m.resultType, m.valueReference)
<1>7. PlainFields(m)
  BY DEF Plain
<1>8. /\ KvpNamespaces(Whole(params)) = Aliases
      /\ Get(Whole(params), "REQUEST", "", None) = m.operation
      /\ Understood(params, Aliases, m.operation, same)
  BY <1>3, <1>6, <1>7, WrittenIsReadable
<1>9. same = [m EXCEPT !.handle = None]
  <2>. DEFINE o == m.operation s == m.service v == m.version h == m.handle c == m.count i == m.startIndex
              f == m.outputFormat r == m.resultType g == m.valueReference qs == m.queries
  <2>1. m = DataRequest(o, s, v, h, qs, c, i, f, r, g) /\ qs = <<q>>
    BY DEF HasDataFields, Plain, q
  <2>. HIDE DEF o, s, v, h, c, i, f, r, g, qs
  <2>2. [DataRequest(o, s, v, h, qs, c, i, f, r, g) EXCEPT !.handle = None]
        = DataRequest(o, s, v, None, qs, c, i, f, r, g)
    BY DEF DataRequest
  <2>3. [m EXCEPT !.handle = None] = DataRequest(o, s, v, None, <<q>>, c, i, f, r, g)
    BY <2>1, <2>2
  <2>. QED
    BY <2>3 DEF o, s, v, h, c, i, f, r, g, qs
<1>10. IsWritten(list) /\ OnePage(list)
  BY <1>2 DEF Lists
<1>11. Updated(<<>>, list) = list
  <2>1. IsList(list)
    BY <1>10 DEF IsWritten
  <2>. HIDE DEF list
  <2>. QED
    BY <2>1, UpdatedNothing
<1>12. UnderstoodUrl(list, same)
  <2>. HIDE DEF list, same
  <2>. QED
    BY <1>8, <1>10 DEF UnderstoodUrl, UrlNamespaces, UrlOperation, params
<1>13. UrlNamespaces(list) = Aliases
  BY <1>8 DEF UrlNamespaces, params
<1>. QED
  BY <1>9, <1>11, <1>12, <1>13

-----------------------------------------------------------------------------
(* The size and the end of a page are numbers.                             *)

LEMMA PagesAreCounted ==
    ASSUME MaxPageSize \in Int, request.startIndex \in Int, request.count \in Int \union {None}
    PROVE  Count \in Int /\ Stop \in Int
<1>. DEFINE size == IF request.count \notin {None, 0} THEN request.count
                    ELSE IF Hits THEN 0 ELSE MaxPageSize
            sizes == {MaxPageSize, size}
            starts == {0, request.startIndex}
<1>1. size \in Int
  OBVIOUS
<1>2. sizes \subseteq Int /\ sizes # {} /\ starts \subseteq Int /\ starts # {}
  BY <1>1
<1>3. IsFiniteSet(sizes) /\ IsFiniteSet(starts)
  <2>. HIDE DEF size
  <2>1. IsFiniteSet({MaxPageSize}) /\ IsFiniteSet({0})
    BY FS_Singleton
  <2>2. sizes = {MaxPageSize} \union {size} /\ starts = {0} \union {request.startIndex}
    OBVIOUS
  <2>3. IsFiniteSet({MaxPageSize} \union {size}) /\ IsFiniteSet({0} \union {request.startIndex})
    BY <2>1, FS_AddElement
  <2>. QED
    BY <2>2, <2>3
<1>4. Count = Min(sizes) /\ Start = Max(starts)
  BY DEF Count, Start
<1>. HIDE DEF sizes, starts
<1>5. Count \in Int /\ Start \in Int
  BY <1>2, <1>3, <1>4, MinIsLeast, MaxIsGreatest
<1>. QED
  BY <1>5 DEF Stop

LEMMA CountIsNatural ==
    ASSUME MaxPageSize \in Nat, request.count \in Nat \union {None}
    PROVE  Count \in Nat
<1>. DEFINE size == IF request.count \notin {None, 0} THEN request.count
                    ELSE IF Hits THEN 0 ELSE MaxPageSize
            sizes == {MaxPageSize, size}
<1>1. size \in Nat
  OBVIOUS
<1>2. sizes \subseteq Nat /\ sizes # {} /\ sizes \subseteq Int
  BY <1>1
<1>3. IsFiniteSet(sizes)
  <2>. HIDE DEF size
  <2>1. IsFiniteSet({MaxPageSize})
    BY FS_Singleton
  <2>2. sizes = {MaxPageSize} \union {size}
    OBVIOUS
  <2>3. IsFiniteSet({MaxPageSize} \union {size})
    BY <2>1, FS_AddElement
  <2>. QED
    BY <2>2, <2>3
<1>4. Count = Min(sizes)
  BY DEF Count
<1>. HIDE DEF sizes
<1>. QED
  BY <1>2, <1>3, <1>4, MinIsLeast

-----------------------------------------------------------------------------
(* Requests for data, field by field.                                      *)

LEMMA XmlFields ==
    ASSUME NEW doc, doc.operation \in DataOperations
    PROVE  HasDataFields(RequestFromXml(doc))
<1>. DEFINE o == doc.operation s == doc.attrs["service"] v == Attribute(doc, "version", None)
            h == Attribute(doc, "handle", None)
            q == [i \in DOMAIN doc.children |-> QueryFromXml(doc.children[i], XmlNamespaces(doc))]
            c == Attribute(doc, "count", None) i == Attribute(doc, "startIndex", 0)
            f == Attribute(doc, "outputFormat", GML) r == Attribute(doc, "resultType", "results")
            g == IF doc.operation = "GetPropertyValue"
                 THEN XPath(doc.attrs["valueReference"], XmlNamespaces(doc)) ELSE None
            base == [NoRequest EXCEPT !.operation = o, !.service = s, !.version = v, !.handle = h]
            d == DataRequest(o, s, v, h, <<>>, None, 0, None, "results", None)
<1>1. RequestFromXml(doc) = Filled(base, q, c, i, f, r, g)
  BY DEF RequestFromXml, Filled, DataOperations
<1>. HIDE DEF o, s, v, h, q, c, i, f, r, g
<1>2. base = d
  BY BaseRequest
<1>3. Filled(d, q, c, i, f, r, g) = DataRequest(o, s, v, h, q, c, i, f, r, g)
  BY FilledRequest
<1>. HIDE DEF base, d
<1>4. RequestFromXml(doc) = DataRequest(o, s, v, h, q, c, i, f, r, g)
  BY <1>1, <1>2, <1>3
<1>5. HasDataFields(DataRequest(o, s, v, h, q, c, i, f, r, g))
  BY DEF HasDataFields, DataRequest
<1>. QED
  BY <1>4, <1>5

LEMMA KvpFields ==
    ASSUME NEW operation \in DataOperations, NEW params, NEW ns
    PROVE  HasDataFields(RequestFromKvp(operation, params, ns))
<1>. DEFINE s == Whole(params)["SERVICE"] v == Get(Whole(params), "VERSION", "", None)
            q == QueriesFromKvp(params, ns) c == Get(Whole(params), "COUNT", "MAXFEATURES", None)
            i == Get(Whole(params), "STARTINDEX", "", 0) f == Get(Whole(params), "OUTPUTFORMAT", "", GML)
            r == Get(Whole(params), "RESULTTYPE", "", "results")
            g == Reference(operation, Whole(params), ns)
<1>1. RequestFromKvp(operation, params, ns) = DataRequest(operation, s, v, None, q, c, i, f, r, g)
  BY DataFields
<1>. HIDE DEF s, v, q, c, i, f, r, g
<1>2. HasDataFields(DataRequest(operation, s, v, None, q, c, i, f, r, g))
  BY DEF HasDataFields, DataRequest
<1>. QED
  BY <1>1, <1>2

LEMMA PageFields ==
    ASSUME NEW m, HasDataFields(m), NEW start, NEW count
    PROVE  /\ HasDataFields([m EXCEPT !.handle = None])
           /\ [m EXCEPT !.handle = None].operation = m.operation
           /\ Paged([m EXCEPT !.handle = None], start, count) = Paged(m, start, count)
<1>. DEFINE o == m.operation s == m.service v == m.version h == m.handle q == m.queries c == m.count
            i == m.startIndex f == m.outputFormat r == m.resultType g == m.valueReference
            n == [m EXCEPT !.handle = None]
<1>1. m = DataRequest(o, s, v, h, q, c, i, f, r, g)
  BY DEF HasDataFields
<1>2. n.operation = o
  BY <1>1 DEF DataRequest
<1>. HIDE DEF o, s, v, h, q, c, i, f, r, g
<1>3. n = DataRequest(o, s, v, None, q, c, i, f, r, g)
  BY <1>1 DEF DataRequest
<1>4. HasDataFields(DataRequest(o, s, v, None, q, c, i, f, r, g))
  BY DEF HasDataFields, DataRequest
<1>5. Paged(m, start, count) = DataRequest(o, s, v, None, q, count, start, f, r, g)
  BY <1>1, DataPage
<1>. HIDE DEF n
<1>6. Paged(n, start, count) = DataRequest(o, s, v, None, q, count, start, f, r, g)
  BY <1>3, DataPage
<1>. QED
  BY <1>2, <1>3, <1>4, <1>5, <1>6 DEF n, o

LEMMA PageIsWritten ==
    ASSUME NEW m, HasDataFields(m), NEW start, NEW count
    PROVE  Paged(m, start, count).startIndex = start /\ Paged(m, start, count).count = count
<1>. DEFINE o == m.operation s == m.service v == m.version h == m.handle q == m.queries c == m.count
            i == m.startIndex f == m.outputFormat r == m.resultType g == m.valueReference
<1>1. m = DataRequest(o, s, v, h, q, c, i, f, r, g)
  BY DEF HasDataFields
<1>. HIDE DEF o, s, v, h, q, c, i, f, r, g
<1>2. Paged(m, start, count) = DataRequest(o, s, v, None, q, count, start, f, r, g)
  BY <1>1, DataPage
<1>. QED
  BY <1>2 DEF DataRequest

-----------------------------------------------------------------------------
(* Every page is parsed as what it means.                                  *)

Meaning ==
    /\ Course
    /\ UnderstoodAsMeant
    /\ http # None /\ meant # None => Says(http.method, http.query, http.doc, meant)

(* The view raises nothing before it has parsed what a client says.        *)
LEMMA SaidIsRead ==
    ASSUME NoneIsNoValue, TokensDiffer, http # None, meant # None,
           Says(http.method, http.query, http.doc, meant), IsGet => kvp = KvpParams(http.query)
    PROVE  /\ SetVersionFault(AskedVersion) = None /\ OperationFault = None
           /\ ParseFault = None /\ Parsed = meant /\ ~IsIndexRequest
<1>1. Garbage \notin AcceptVersions \union {None, Empty}
  <2>1. ASSUME Garbage \in AcceptVersions PROVE FALSE
    <3>1. Garbage \in Nat
      BY <2>1, VersionsAssumption
    <3>. QED
      BY <3>1 DEF TokensDiffer
  <2>. QED
    BY <2>1 DEF TokensDiffer
<1>2. IsGet => /\ Understood(kvp, KvpNamespaces(Kvp), Operation, meant)
               /\ kvp = KvpParams(http.query)
  BY DEF Says, IsGet, UnderstoodUrl, UrlNamespaces, UrlOperation, Kvp, Operation
<1>3. ~IsGet => UnderstoodDocument(http.doc, meant)
  BY DEF Says, IsGet
<1>4. SetVersionFault(AskedVersion) = None
  <2>1. Service \in Services /\ AskedVersion \in AcceptVersions \union {None, Empty}
    BY <1>2, <1>3 DEF Understood, UnderstoodDocument, Service, AskedVersion, Kvp
  <2>2. /\ When(Service \notin Services, Invalid("service")) = None
        /\ When(AskedVersion = Garbage, <<"SuspiciousOperation", None>>) = None
        /\ When(AskedVersion \notin AcceptVersions \cup {None, Empty}, Invalid("version")) = None
    BY <1>1, <2>1 DEF When
  <2>. QED
    BY <2>2, NothingToRaiseIn3 DEF SetVersionFault
<1>5. OperationFault = None
  <2>1. Operation \in Operations /\ (IsGet => Required(Kvp, "REQUEST", "") = None)
    BY <1>2, <1>3 DEF Understood, UnderstoodDocument, Operation, Kvp
  <2>2. /\ When(IsGet, Required(Kvp, "REQUEST", "")) = None
        /\ When(Operation \notin Operations, NotSupported("request")) = None
    BY <2>1 DEF When
  <2>. QED
    BY <2>2, NothingToRaiseIn2 DEF OperationFault
<1>6. ParseFault = None /\ Parsed = meant
  BY <1>2, <1>3 DEF Understood, UnderstoodDocument, ParseFault, Parsed
<1>7. ~IsIndexRequest
  <2>1. ASSUME IsGet PROVE "REQUEST" \in KvpNames(http.query)
    <3>1. Required(Whole(kvp), "REQUEST", "") = None
      BY <1>2, <2>1 DEF Understood
    <3>2. Raw(Whole(kvp), "REQUEST") # None
      BY <3>1, FaultsAreNotNone DEF Required, Value, Missing
    <3>3. "REQUEST" \in DOMAIN kvp
      BY <3>2 DEF Raw, Whole
    <3>. QED
      BY <1>2, <2>1, <3>3, ParamsAreNamed
  <2>. QED
    BY <2>1 DEF IsIndexRequest
<1>. QED
  BY <1>4, <1>5, <1>6, <1>7

LEMMA NamesAreOwn ==
    ASSUME ParametersAreNew
    PROVE  OwnPages
<1>1. PageNames \subseteq RequestNames
  BY DEF PageNames, RequestNames
<1>. QED
  BY <1>1 DEF ParametersAreNew, OwnPages

(* The next link says what the next page means.                            *)
LEMMA LinkSaysTheNextPage ==
    ASSUME NoneIsNoValue, TokensDiffer, ParametersAreNew, NoDefaultNamespace, MaxPageSize \in Int,
           Meaning, http # None, meant # None, request = meant, NextLink # None,
           ParseFault = None, Parsed = meant, IsGet => kvp = KvpParams(http.query)
    PROVE  /\ Says("GET", NextLink, None, Paged(meant, Stop, Count))
           /\ UrlNamespaces(NextLink) = IF IsGet THEN UrlNamespaces(http.query) ELSE Aliases
           /\ meant.operation \in DataOperations /\ HasDataFields(meant)
<1>1. Says(http.method, http.query, http.doc, meant) /\ meant.operation \in DataOperations
  BY DEF Meaning, NextLink
<1>2. Count \in Int /\ Stop \in Int
  BY <1>1, PagesAreCounted DEF Says
<1>3. NextUpdates = PageOf(Stop, Count)
  BY DEF NextUpdates, PageOf
<1>4. HasDataFields(meant) /\ (~IsGet => http.doc.operation = meant.operation)
  <2>1. CASE IsGet
    <3>1. meant = RequestFromKvp(Operation, kvp, KvpNamespaces(Kvp))
      BY <2>1 DEF Parsed
    <3>2. \A operation, params, ns : RequestFromKvp(operation, params, ns).operation = operation
      BY DEF RequestFromKvp, DataFromKvp, NoRequest
    <3>3. Operation \in DataOperations
      BY <1>1, <3>1, <3>2
    <3>. QED
      BY <2>1, <3>1, <3>3, KvpFields
  <2>2. CASE ~IsGet
    <3>1. meant = RequestFromXml(http.doc)
      BY <2>2 DEF Parsed
    <3>2. \A doc : RequestFromXml(doc).operation = doc.operation
      BY DEF RequestFromXml, NoRequest
    <3>. QED
      BY <1>1, <3>1, <3>2, XmlFields
  <2>. QED
    BY <2>1, <2>2
<1>5. OwnPages
  BY NamesAreOwn
<1>6. /\ UnderstoodUrl(NextLink, Paged(meant, Stop, Count))
      /\ UrlNamespaces(NextLink) = IF IsGet THEN UrlNamespaces(http.query) ELSE Aliases
  <2>1. CASE IsGet
    <3>1. UnderstoodUrl(http.query, meant) /\ NextLink = Replaced(http.query, PageOf(Stop, Count))
      BY <1>1, <1>3, <2>1 DEF Says, IsGet, NextLink
    <3>. QED
      BY <1>1, <1>2, <1>5, <2>1, <3>1, NextPage
  <2>2. CASE ~IsGet
    <3>. DEFINE url == Updated(<<>>, AsKvp(meant)) plain == [meant EXCEPT !.handle = None]
    <3>1. NextLink = Replaced(url, PageOf(Stop, Count)) /\ ~Untranslatable(meant)
      BY <1>1, <1>3, <2>2 DEF Says, IsGet, NextLink
    <3>2. Plain(meant) /\ meant.operation \in Operations
      BY <1>1, <1>4, <2>2, <3>1 DEF Says, IsGet, UnderstoodDocument
    <3>3. UnderstoodUrl(url, plain) /\ UrlNamespaces(url) = Aliases
      BY <1>4, <3>2, DocumentAsUrl
    <3>4. plain.operation \in DataOperations /\ Paged(plain, Stop, Count) = Paged(meant, Stop, Count)
      BY <1>1, <1>4, PageFields
    <3>. HIDE DEF url, plain
    <3>5. /\ UnderstoodUrl(Replaced(url, PageOf(Stop, Count)), Paged(plain, Stop, Count))
          /\ UrlNamespaces(Replaced(url, PageOf(Stop, Count))) = UrlNamespaces(url)
      BY <1>2, <1>5, <3>3, <3>4, NextPage
    <3>. QED
      BY <2>2, <3>1, <3>3, <3>4, <3>5
  <2>. QED
    BY <2>1, <2>2
<1>7. Paged(meant, Stop, Count).startIndex \in Int /\ Paged(meant, Stop, Count).count \in Int
  <2>1. PICK start \in Int, count \in Int : start = Stop /\ count = Count
    BY <1>2
  <2>2. Paged(meant, start, count).startIndex = start /\ Paged(meant, start, count).count = count
    BY <1>4, PageIsWritten
  <2>3. Paged(meant, start, count).startIndex \in Int /\ Paged(meant, start, count).count \in Int
    BY <2>2
  <2>. QED
    BY <2>1, <2>3
<1>. QED
  BY <1>1, <1>4, <1>6, <1>7 DEF Says

(* A request that says something is not refused before it is validated.    *)
LEMMA SaidIsNotRefused ==
    ASSUME NoneIsNoValue, TokensDiffer, Meaning, meant # None,
           phase \in {"received", "loaded", "read", "found"}
    PROVE  StepFault = None
<1>1. http # None /\ Says(http.method, http.query, http.doc, meant)
      /\ (phase \in {"loaded", "read", "found"} => (IsGet => kvp = KvpParams(http.query)))
  BY DEF Meaning, Course, TypeOK
<1>2. CASE phase \in {"loaded", "read", "found"}
  <2>1. SetVersionFault(AskedVersion) = None /\ OperationFault = None /\ ParseFault = None
    BY <1>1, <1>2, SaidIsRead
  <2>. QED
    BY <1>2, <2>1 DEF StepFault
<1>3. CASE phase = "received"
  <2>1. CASE IsGet
    BY <1>1, <1>3, <2>1 DEF Says, IsGet, UnderstoodUrl, Understood, ReadFault, StepFault
  <2>2. CASE ~IsGet
    BY <1>1, <1>3, <2>2 DEF Says, IsGet, UnderstoodDocument, ReadFault, When, StepFault
  <2>. QED
    BY <2>1, <2>2
<1>. QED
  BY <1>2, <1>3

LEMMA InitMeaning == Init => Meaning
BY InitCourse DEF Init, Meaning, UnderstoodAsMeant

LEMMA NextMeaning ==
    ASSUME NoneIsNoValue, TokensDiffer, ParametersAreNew, NoDefaultNamespace, MaxPageSize \in Int,
           FirstPagesAreUnderstood, Meaning, [Next]_vars
    PROVE  Meaning'
<1>1. Course /\ Course' /\ TypeOK
  BY NextCourse DEF Meaning, Course
<1>2. ASSUME http # None, meant # None, phase \in {"loaded", "read", "found"}
      PROVE  /\ SetVersionFault(AskedVersion) = None /\ OperationFault = None
             /\ ParseFault = None /\ Parsed = meant /\ ~IsIndexRequest
  BY <1>1, <1>2, SaidIsRead DEF Meaning, Course
<1>3. meant # None /\ phase \in {"received", "loaded", "read", "found"} => StepFault = None
  BY SaidIsNotRefused
<1>4. CASE Send
  <2>1. PICK r \in Requests : /\ http' = [method |-> r.method, query |-> r.query, doc |-> r.doc]
                              /\ meant' = r.meant /\ phase' = "received"
    BY <1>4 DEF Send, Fresh
  <2>2. http'.method = r.method /\ http'.query = r.query /\ http'.doc = r.doc
    BY <2>1
  <2>. QED
    BY <1>1, <2>1, <2>2 DEF Meaning, UnderstoodAsMeant, FirstPagesAreUnderstood, SaysWhatItMeans
<1>5. CASE Load \/ ReadService \/ FindOperation
  <2>1. http' = http /\ meant' = meant /\ phase' \in {"loaded", "read", "found"}
    BY <1>5 DEF Load, ReadService, FindOperation, Step
  <2>. QED
    BY <1>1, <2>1 DEF Meaning, UnderstoodAsMeant
<1>6. CASE ParseRequest
  <2>1. http' = http /\ meant' = meant /\ phase = "found" /\ request' = Parsed
    BY <1>6 DEF ParseRequest, Step
  <2>2. meant # None => Parsed = meant
    BY <1>1, <1>2, <2>1 DEF TypeOK
  <2>. QED
    BY <1>1, <2>1, <2>2 DEF Meaning, UnderstoodAsMeant
<1>7. CASE Validate \/ Process
  <2>1. http' = http /\ meant' = meant /\ request' = request /\ phase \in {"parsed", "validated"}
    BY <1>7 DEF Validate, Process, Step
  <2>. QED
    BY <1>1, <2>1 DEF Meaning, UnderstoodAsMeant
<1>8. CASE RenderIndex
  <2>1. http' = http /\ meant' = meant /\ phase = "read" /\ IsIndexRequest
    BY <1>8 DEF RenderIndex
  <2>2. meant = None
    BY <1>1, <1>2, <2>1 DEF TypeOK
  <2>. QED
    BY <1>1, <2>1, <2>2 DEF Meaning, UnderstoodAsMeant
<1>9. CASE Refuse
  <2>1. http' = http /\ meant' = meant /\ request' = request /\ StepFault # None
    BY <1>9 DEF Refuse
  <2>2. CASE phase \in {"received", "loaded", "read", "found"}
    <3>1. meant = None
      BY <1>3, <2>1, <2>2
    <3>. QED
      BY <1>1, <2>1, <3>1 DEF Meaning, UnderstoodAsMeant
  <2>3. CASE phase \in {"parsed", "validated"}
    BY <1>1, <2>1, <2>3 DEF Meaning, UnderstoodAsMeant
  <2>4. CASE phase \in {"idle", "answered"}
    BY <2>1, <2>4 DEF StepFault
  <2>. QED
    BY <1>1, <2>2, <2>3, <2>4 DEF TypeOK, Phases
<1>10. CASE FollowNext
  <2>1. /\ http' = [method |-> "GET", query |-> answer.next, doc |-> None]
        /\ phase = "answered" /\ answer.next # None /\ phase' = "received"
        /\ meant' = IF meant = None THEN None ELSE Paged(meant, Stop, Count)
    BY <1>10 DEF FollowNext, Fresh, Paged
  <2>2. CASE meant = None
    BY <1>1, <2>1, <2>2 DEF Meaning, UnderstoodAsMeant
  <2>3. CASE meant # None
    <3>1. /\ http # None /\ request = meant /\ Answered /\ answer.next = NextLink
          /\ ParseFault = None /\ Parsed = meant /\ (IsGet => kvp = KvpParams(http.query))
      BY <1>1, <2>1, <2>3 DEF Meaning, UnderstoodAsMeant, Course, TypeOK
    <3>2. Says("GET", NextLink, None, Paged(meant, Stop, Count))
      BY <2>1, <2>3, <3>1, LinkSaysTheNextPage
    <3>3. http'.method = "GET" /\ http'.query = NextLink /\ http'.doc = None
          /\ meant' = Paged(meant, Stop, Count)
      BY <2>1, <2>3, <3>1
    <3>4. Says(http.method, http.query, http.doc, meant)'
      BY <3>2, <3>3
    <3>. QED
      BY <1>1, <2>1, <3>4 DEF Meaning, UnderstoodAsMeant
  <2>. QED
    BY <2>2, <2>3
<1>11. CASE Leave
  BY <1>1, <1>11 DEF Leave, Meaning, UnderstoodAsMeant
<1>12. CASE UNCHANGED vars
  BY <1>1, <1>12 DEF vars, Meaning, UnderstoodAsMeant
<1>. QED
  BY <1>4, <1>5, <1>6, <1>7, <1>8, <1>9, <1>10, <1>11, <1>12 DEF Next, Server, Client

(* What a client says is parsed as what it means, on every page: if its    *)
(* URL or its document is understood when it is first sent, then each next *)
(* link, which the server writes itself by changing the page in the URL or *)
(* by as_kvp() and _replace_url_params(), is read as the same request from *)
(* where the last page stopped.                                            *)
THEOREM LinksKeepTheMeaning ==
    ASSUME NoneIsNoValue, TokensDiffer, ParametersAreNew, NoDefaultNamespace, MaxPageSize \in Int,
           FirstPagesAreUnderstood
    PROVE  Spec => []UnderstoodAsMeant
<1>1. Init => Meaning
  BY InitMeaning
<1>2. Meaning /\ [Next]_vars => Meaning'
  BY NextMeaning
<1>3. Meaning => UnderstoodAsMeant
  BY DEF Meaning
<1>. QED
  BY <1>1, <1>2, <1>3, PTL DEF Spec

-----------------------------------------------------------------------------
(* No page of an answerable request ends in an internal error.             *)

Internal(fault) == fault # None /\ fault[1] \in {"Exception", "SuspiciousOperation"}

LEMMA NothingInternal ==
    ASSUME NEW checks, NEW n \in Nat, DOMAIN checks = 1..n, \A i \in 1..n : ~Internal(checks[i])
    PROVE  ~Internal(FirstFault(checks))
BY FaultIsRaised DEF Internal

LEMMA NothingInternalIn2 ==
    ASSUME NEW a, NEW b, ~Internal(a), ~Internal(b)
    PROVE  ~Internal(FirstFault(<<a, b>>))
BY RaisedIn2 DEF Internal

LEMMA NothingInternalIn6 ==
    ASSUME NEW a, NEW b, NEW c, NEW d, NEW e, NEW f,
           ~Internal(a), ~Internal(b), ~Internal(c), ~Internal(d), ~Internal(e), ~Internal(f)
    PROVE  ~Internal(FirstFault(<<a, b, c, d, e, f>>))
<1>. DEFINE s == <<a, b, c, d, e, f>>
<1>1. DOMAIN s = 1..6 /\ 6 \in Nat
  OBVIOUS
<1>2. \A i \in 1..6 : s[i] \in {a, b, c, d, e, f}
  OBVIOUS
<1>3. \A i \in 1..6 : ~Internal(s[i])
  <2>. HIDE DEF s
  <2>. QED
    BY <1>2
<1>. HIDE DEF s
<1>4. ~Internal(FirstFault(s))
  BY <1>1, <1>3, NothingInternal
<1>. QED
  BY <1>4 DEF s

LEMMA Refusals ==
    ASSUME NEW condition, NEW locator
    PROVE  /\ ~Internal(When(condition, Invalid(locator)))
           /\ ~Internal(When(condition, NotSupported(locator)))
           /\ ~Internal(When(condition, <<"NotFound", locator>>))
           /\ ~Internal(When(condition, <<"Denied", locator>>))
           /\ ~Internal(When(condition, <<"VersionNegotiationFailed", locator>>))
           /\ ~Internal(When(condition, <<"OperationProcessingFailed", locator>>))
           /\ ~Internal(When(condition, <<"OperationParsingFailed", locator>>))
           /\ ~condition => When(condition, Crash) = None
BY DEF When, Invalid, NotSupported, Internal

(* Binding a query: it has a type, unless it is refused.                   *)
LEMMA BindsOrRefuses ==
    ASSUME NoneIsNoValue, NEW q, AnswerableQuery(q)
    PROVE  ~Internal(BindFault(q)) /\ (BindFault(q) = None => GetTypeNames(q) # <<>>)
<1>. DEFINE a == When(q.parameters["ID"][1] = None, <<"NotFound", "ID">>)
            b == When(q.typeNames = <<>>, Crash)
            s == <<a, b>>
<1>1. ImplementationFault(q) = IF q.stored # None THEN FirstFault(s) ELSE None
  BY DEF ImplementationFault, When
<1>2. q.stored # None /\ a = None => q.typeNames # <<>>
  <2>1. a = None => q.parameters["ID"][1] # None
    BY FaultsAreNotNone DEF When
  <2>. QED
    BY <2>1 DEF AnswerableQuery, HasIds
<1>3. ASSUME q.stored # None, FirstFault(s) # None PROVE ~Internal(FirstFault(s))
  <2>1. DOMAIN s = 1..2 /\ 2 \in Nat /\ s[1] = a /\ s[2] = b
    OBVIOUS
  <2>2. ~Internal(a)
    BY Refusals
  <2>3. a = None => b = None
    BY <1>2, <1>3 DEF When
  <2>. HIDE DEF a, b, s
  <2>4. PICK i \in 1..2 : /\ FirstFault(s) = s[i] /\ s[i] # None
                           /\ \A j \in 1 .. i - 1 : s[j] = None
    BY <1>3, <2>1, FaultIsRaised
  <2>5. CASE i = 1
    BY <2>1, <2>2, <2>4, <2>5
  <2>6. CASE i = 2
    <3>1. a = None
      BY <2>1, <2>4, <2>6
    <3>. QED
      BY <2>1, <2>3, <2>4, <2>6, <3>1
  <2>. QED
    BY <2>5, <2>6
<1>4. ~Internal(ImplementationFault(q))
  <2>. HIDE DEF s
  <2>. QED
    BY <1>1, <1>3 DEF Internal
<1>5. ASSUME ImplementationFault(q) = None PROVE GetTypeNames(q) # <<>>
  <2>1. CASE q.stored # None
    <3>1. a = None
      <4>1. FirstFault(<<a, b>>) = None
        BY <1>1, <1>5, <2>1
      <4>. HIDE DEF a, b, s
      <4>. QED
        BY <4>1, NothingRaisedIn2
    <3>. HIDE DEF a, b, s
    <3>. QED
      BY <1>2, <2>1, <3>1 DEF GetTypeNames
  <2>2. CASE q.stored = None
    BY <2>2 DEF AnswerableQuery, GetTypeNames
  <2>. QED
    BY <2>1, <2>2
<1>. HIDE DEF a, b, s
<1>6. \A names, locator : ~Internal(TypeFault(names, locator))
  BY Refusals DEF TypeFault
<1>7. ~Internal(FirstFault(<<When(q.srsName # None /\ q.srsName[1] \notin Types[Head(GetTypeNames(q))[2]].crs,
                                  Invalid("srsName")),
                             When(\E t \in QueryTypes(q) : t.denied, <<"Denied", "typeNames">>)>>))
  <2>. DEFINE c == When(q.srsName # None /\ q.srsName[1] \notin Types[Head(GetTypeNames(q))[2]].crs,
                        Invalid("srsName"))
              d == When(\E t \in QueryTypes(q) : t.denied, <<"Denied", "typeNames">>)
  <2>1. ~Internal(c) /\ ~Internal(d)
    BY Refusals
  <2>. HIDE DEF c, d
  <2>2. ~Internal(FirstFault(<<c, d>>))
    BY <2>1, NothingInternalIn2
  <2>. QED
    BY <2>2 DEF c, d
<1>. QED
  BY <1>4, <1>5, <1>6, <1>7 DEF BindFault

(* Validating and processing.                                              *)
HaveTypes(m) == m.operation \in DataOperations => \A q \in Range(m.queries) : GetTypeNames(q) # <<>>
LEMMA ValidatesOrRefuses ==
    ASSUME NoneIsNoValue, Answerable(request)
    PROVE  ~Internal(ValidateFault) /\ (ValidateFault = None => HaveTypes(request))
<1>1. \A formats, locator : ~Internal(FormatFault(formats, locator))
  BY Refusals DEF FormatFault
<1>2. CASE request.operation = "GetCapabilities"
  <2>. DEFINE a == When(request.acceptVersions # None /\ Negotiable = {},
                        <<"VersionNegotiationFailed", "acceptversions">>)
              b == FormatFault(Range(request.acceptFormats), "AcceptFormats")
  <2>1. ~Internal(a) /\ ~Internal(b)
    BY <1>1, Refusals
  <2>2. ValidateFault = FirstFault(<<a, b>>)
    BY <1>2 DEF ValidateFault, DataOperations
  <2>. HIDE DEF a, b
  <2>. QED
    BY <1>2, <2>1, <2>2, NothingInternalIn2 DEF HaveTypes, DataOperations
<1>3. CASE request.operation = "DescribeFeatureType"
  <2>. DEFINE a == When(request.typeNames # None, TypeFault(request.typeNames, "typeNames"))
              b == FormatFault({request.outputFormat}, "outputFormat")
  <2>1. ~Internal(a) /\ ~Internal(b)
    BY <1>1, Refusals DEF TypeFault, When, Internal
  <2>2. ValidateFault = FirstFault(<<a, b>>)
    BY <1>3 DEF ValidateFault, DataOperations
  <2>. HIDE DEF a, b
  <2>. QED
    BY <1>3, <2>1, <2>2, NothingInternalIn2 DEF HaveTypes, DataOperations
<1>4. CASE request.operation = "DescribeStoredQueries"
  BY <1>4, Refusals DEF ValidateFault, DataOperations, HaveTypes
<1>5. CASE request.operation \in DataOperations
  <2>. DEFINE binds == [i \in DOMAIN request.queries |-> BindFault(request.queries[i])]
              a == FormatFault({request.outputFormat}, "outputFormat") b == FirstFault(binds)
  <2>1. PICK n \in Nat : DOMAIN request.queries = 1..n
    BY <1>5, ListShape DEF Answerable
  <2>2. ASSUME NEW i \in 1..n
        PROVE  ~Internal(binds[i]) /\ (binds[i] = None => GetTypeNames(request.queries[i]) # <<>>)
    <3>. DEFINE q == request.queries[i]
    <3>1. q \in Range(request.queries)
      BY <2>1 DEF Range
    <3>2. AnswerableQuery(q)
      BY <1>5, <3>1 DEF Answerable
    <3>3. binds[i] = BindFault(q)
      BY <2>1
    <3>. HIDE DEF q, binds
    <3>4. ~Internal(binds[i]) /\ (binds[i] = None => GetTypeNames(q) # <<>>)
      BY <3>2, <3>3, BindsOrRefuses
    <3>. QED
      BY <3>4 DEF q
  <2>3. DOMAIN binds = 1..n
    BY <2>1
  <2>4. ~Internal(a)
    BY <1>1
  <2>5. ValidateFault = FirstFault(<<a, b>>)
    BY <1>5 DEF ValidateFault, DataOperations
  <2>6. ~Internal(b) /\ (b = None => \A i \in 1..n : binds[i] = None)
    <3>. HIDE DEF binds
    <3>. QED
      BY <2>2, <2>3, NothingInternal, NothingRaised
  <2>. HIDE DEF a, b, binds
  <2>7. ~Internal(FirstFault(<<a, b>>)) /\ (FirstFault(<<a, b>>) = None => b = None)
    BY <2>4, <2>6, NothingInternalIn2, NothingRaisedIn2
  <2>8. ASSUME b = None, NEW q \in Range(request.queries) PROVE GetTypeNames(q) # <<>>
    <3>1. PICK i \in 1..n : q = request.queries[i]
      BY <2>1 DEF Range
    <3>. QED
      BY <2>2, <2>6, <2>8, <3>1
  <2>. QED
    BY <2>5, <2>7, <2>8 DEF HaveTypes
<1>6. CASE request.operation \notin {"GetCapabilities", "DescribeFeatureType", "DescribeStoredQueries"}
                                    \union DataOperations
  BY <1>6 DEF ValidateFault, Internal, HaveTypes
<1>. QED
  BY <1>2, <1>3, <1>4, <1>5, <1>6

(* XPaths are resolved or refused.                                         *)
LEMMA ResolvesOrRefuses ==
    ASSUME NEW q
    PROVE  /\ \A xpath, locator : ~Internal(XPathFault(xpath, q, locator))
           /\ \A xpaths : IsList(xpaths) => ~Internal(XPathsFault(xpaths, q))
<1>1. ASSUME NEW xpath, NEW locator PROVE ~Internal(XPathFault(xpath, q, locator))
  <2>. DEFINE a == When(xpath.uri = None, <<"OperationParsingFailed", Locator(q)>>)
              b == When(Element(xpath) \notin ValueReferences, Invalid(locator))
  <2>1. ~Internal(a) /\ ~Internal(b)
    BY Refusals
  <2>2. XPathFault(xpath, q, locator) = FirstFault(<<a, b>>)
    BY DEF XPathFault
  <2>. HIDE DEF a, b
  <2>. QED
    BY <2>1, <2>2, NothingInternalIn2
<1>2. ASSUME NEW xpaths, IsList(xpaths) PROVE ~Internal(XPathsFault(xpaths, q))
  <2>. DEFINE faults == [i \in DOMAIN xpaths |-> XPathFault(xpaths[i], q, Locator(q))]
  <2>1. PICK n \in Nat : DOMAIN xpaths = 1..n
    BY <1>2, ListShape
  <2>2. DOMAIN faults = 1..n /\ \A i \in 1..n : ~Internal(faults[i])
    BY <1>1, <2>1
  <2>3. XPathsFault(xpaths, q) = FirstFault(faults)
    BY DEF XPathsFault
  <2>. HIDE DEF faults
  <2>. QED
    BY <2>2, <2>3, NothingInternal
<1>. QED
  BY <1>1, <1>2

LEMMA QueriesOrRefuses ==
    ASSUME NEW q, AnswerableQuery(q), GetTypeNames(q) # <<>>
    PROVE  ~Internal(QueryFault(q))
<1>. DEFINE a == When(Cardinality(QueryTypes(q)) > 1, NotSupported("typeNames"))
            b == When(GetTypeNames(q) = <<>>, Crash)
            c == XPathsFault(q.sortBy, q)
            d == When(q.filter = <<"filter", "unbuildable">>, <<"OperationProcessingFailed", "filter">>)
            e == XPathsFault(q.properties, q)
            f == IF request.valueReference = None THEN None
                 ELSE XPathFault(request.valueReference, q, "valueReference")
<1>1. ~Internal(a) /\ ~Internal(d)
  BY Refusals
<1>2. ~Internal(b)
  BY Refusals DEF Internal
<1>3. ~Internal(c) /\ ~Internal(e)
  BY ResolvesOrRefuses DEF AnswerableQuery
<1>4. ~Internal(f)
  BY ResolvesOrRefuses DEF Internal
<1>5. QueryFault(q) = FirstFault(<<a, b, c, d, e, f>>)
  BY DEF QueryFault
<1>. HIDE DEF a, b, c, d, e, f
<1>. QED
  BY <1>1, <1>2, <1>3, <1>4, <1>5, NothingInternalIn6

LEMMA ProcessesOrRefuses ==
    ASSUME MaxPageSize \in Nat, Answerable(request), HaveTypes(request)
    PROVE  ~Internal(ProcessFault)
<1>1. CASE request.operation = "GetCapabilities"
  BY <1>1, Refusals DEF ProcessFault, DataOperations, Answerable, Internal
<1>2. CASE request.operation \in DataOperations
  <2>. DEFINE faults == [i \in DOMAIN request.queries |-> QueryFault(request.queries[i])]
              a == FirstFault(faults)
              b == When(~Hits /\ Count < 0 /\ request.queries # <<>>, Crash)
  <2>1. PICK n \in Nat : DOMAIN request.queries = 1..n
    BY <1>2, ListShape DEF Answerable
  <2>2. ASSUME NEW i \in 1..n PROVE ~Internal(faults[i])
    <3>. DEFINE q == request.queries[i]
    <3>1. q \in Range(request.queries)
      BY <2>1 DEF Range
    <3>2. AnswerableQuery(q) /\ GetTypeNames(q) # <<>>
      BY <1>2, <3>1 DEF Answerable, HaveTypes
    <3>3. faults[i] = QueryFault(q)
      BY <2>1
    <3>. HIDE DEF q, faults
    <3>. QED
      BY <3>2, <3>3, QueriesOrRefuses
  <2>3. ~Internal(a)
    <3>1. DOMAIN faults = 1..n
      BY <2>1
    <3>. HIDE DEF faults
    <3>. QED
      BY <2>2, <3>1, NothingInternal
  <2>4. ~Internal(b)
    <3>1. ~(Count < 0)
      <4>1. Count \in Nat
        BY <1>2, CountIsNatural DEF Answerable
      <4>. QED
        BY <4>1
    <3>2. b = None
      BY <3>1, Refusals
    <3>. QED
      BY <3>2 DEF Internal
  <2>5. ProcessFault = FirstFault(<<a, b>>)
    BY <1>2 DEF ProcessFault, DataOperations
  <2>. HIDE DEF a, b
  <2>. QED
    BY <2>3, <2>4, <2>5, NothingInternalIn2
<1>3. CASE request.operation \notin {"GetCapabilities"} \union DataOperations
  BY <1>3 DEF ProcessFault, Internal
<1>. QED
  BY <1>1, <1>2, <1>3

(* What is told about such a failure is no internal error either, and the  *)
(* request has been parsed by then.                                        *)
LEMMA LocatedIsNoError ==
    ASSUME NEW fault, fault # None, ~Internal(fault), request # None
    PROVE  HandleException(Located(fault)).kind # "error"
<1>1. CASE fault = UnknownElement
  BY <1>1 DEF Located, HandleException, UnknownElement, NotSupported
<1>2. CASE fault # UnknownElement /\ fault[1] \in {"OperationParsingFailed", "OperationProcessingFailed"}
  BY <1>2 DEF Located, HandleException, UnknownElement
<1>3. CASE fault # UnknownElement /\ fault[1] \notin {"OperationParsingFailed", "OperationProcessingFailed"}
  BY <1>3 DEF Located, HandleException, UnknownElement, Internal
<1>. QED
  BY <1>1, <1>2, <1>3

Answering ==
    /\ Meaning
    /\ MeaningIsAnswered
    /\ http # None /\ meant # None => Answerable(meant)
    /\ meant # None /\ phase = "validated" => HaveTypes(request)

LEMMA NextPageIsAnswerable ==
    ASSUME NEW m, HasDataFields(m), Answerable(m), NEW start, NEW count \in Nat
    PROVE  Answerable(Paged(m, start, count))
<1>. DEFINE o == m.operation s == m.service v == m.version h == m.handle q == m.queries c == m.count
            i == m.startIndex f == m.outputFormat r == m.resultType g == m.valueReference
            p == Paged(m, start, count)
<1>1. m = DataRequest(o, s, v, h, q, c, i, f, r, g)
  BY DEF HasDataFields
<1>. HIDE DEF o, s, v, h, q, c, i, f, r, g, p
<1>2. p = DataRequest(o, s, v, None, q, count, start, f, r, g)
  BY <1>1, DataPage DEF p
<1>3. p.operation = o /\ p.service = s /\ p.queries = q /\ p.count = count
  BY <1>2 DEF DataRequest
<1>4. Answerable(p)
  BY <1>3 DEF Answerable, o, s, q
<1>. QED
  BY <1>4 DEF p

LEMMA InitAnswering == Init => Answering
BY InitMeaning DEF Init, Answering, MeaningIsAnswered, NotAnswered

LEMMA NextAnswering ==
    ASSUME NoneIsNoValue, TokensDiffer, ParametersAreNew, NoDefaultNamespace, MaxPageSize \in Nat,
           FirstPagesAreUnderstood, FirstPagesAreAnswerable, Answering, [Next]_vars
    PROVE  Answering'
<1>1. Meaning /\ Meaning' /\ TypeOK
  BY NextMeaning DEF Answering, Meaning, Course
<1>2. CASE Send
  <2>1. PICK r \in Requests : /\ http' = [method |-> r.method, query |-> r.query, doc |-> r.doc]
                              /\ meant' = r.meant /\ answer'.kind = "none" /\ phase' = "received"
    BY <1>2 DEF Send, Fresh, NotAnswered
  <2>2. http'.method = r.method /\ http'.query = r.query /\ http'.doc = r.doc
    BY <2>1
  <2>. QED
    BY <1>1, <2>1, <2>2 DEF Answering, MeaningIsAnswered, FirstPagesAreAnswerable, MeansSomethingAnswerable
<1>3. CASE Load \/ ReadService \/ FindOperation \/ ParseRequest
  <2>1. http' = http /\ meant' = meant /\ answer' = answer /\ phase' \in {"loaded", "read", "found", "parsed"}
    BY <1>3 DEF Load, ReadService, FindOperation, ParseRequest, Step
  <2>. QED
    BY <1>1, <2>1 DEF Answering, MeaningIsAnswered
<1>9. CASE Validate
  <2>1. /\ http' = http /\ meant' = meant /\ answer' = answer /\ request' = request
        /\ phase = "parsed" /\ ValidateFault = None
    BY <1>9 DEF Validate, Step, StepFault
  <2>2. meant # None => request = meant /\ http # None
    BY <1>1, <2>1 DEF Meaning, UnderstoodAsMeant, TypeOK
  <2>3. meant # None => HaveTypes(request)
    BY <2>1, <2>2, ValidatesOrRefuses DEF Answering
  <2>4. HaveTypes(request) => HaveTypes(request)'
    <3>1. \A q : GetTypeNames(q)' = GetTypeNames(q)
      BY DEF GetTypeNames, HasIds
    <3>. QED
      BY <2>1, <3>1 DEF HaveTypes
  <2>. QED
    BY <1>1, <2>1, <2>3, <2>4 DEF Answering, MeaningIsAnswered
<1>4. CASE RenderIndex \/ Process
  <2>1. http' = http /\ meant' = meant /\ answer'.kind \in {"index", "document"} /\ phase' = "answered"
    <3>1. RenderIndex => http' = http /\ meant' = meant /\ answer'.kind = "index" /\ phase' = "answered"
      BY DEF RenderIndex, NotAnswered
    <3>2. Process => http' = http /\ meant' = meant /\ answer'.kind = "document" /\ phase' = "answered"
      BY DEF Process, Step
    <3>. QED
      BY <1>4, <3>1, <3>2
  <2>. QED
    BY <1>1, <2>1 DEF Answering, MeaningIsAnswered
<1>5. CASE Refuse
  <2>1. /\ http' = http /\ meant' = meant /\ StepFault # None /\ phase' = "answered"
        /\ answer' = HandleException(Located(StepFault))
    BY <1>5 DEF Refuse
  <2>2. ASSUME meant # None PROVE answer'.kind # "error"
    <3>1. phase \in {"parsed", "validated"}
      <4>1. phase \notin {"received", "loaded", "read", "found"}
        BY <1>1, <2>1, <2>2, SaidIsNotRefused
      <4>. QED
        BY <1>1, <2>1, <4>1 DEF TypeOK, Phases, StepFault
    <3>2. http # None /\ request = meant /\ request # None
      BY <1>1, <2>2, <3>1 DEF Meaning, UnderstoodAsMeant, TypeOK
    <3>3. Answerable(request) /\ (phase = "validated" => HaveTypes(request))
      BY <2>2, <3>2 DEF Answering
    <3>5. ~Internal(StepFault)
      BY <3>1, <3>3, ValidatesOrRefuses, ProcessesOrRefuses DEF StepFault
    <3>. QED
      BY <2>1, <3>2, <3>5, LocatedIsNoError
  <2>. QED
    BY <1>1, <2>1, <2>2 DEF Answering, MeaningIsAnswered
<1>6. CASE FollowNext
  <2>1. /\ http' = [method |-> "GET", query |-> answer.next, doc |-> None]
        /\ phase = "answered" /\ answer.next # None /\ answer'.kind = "none" /\ phase' = "received"
        /\ meant' = IF meant = None THEN None ELSE Paged(meant, Stop, Count)
    BY <1>6 DEF FollowNext, Fresh, Paged, NotAnswered
  <2>2. CASE meant = None
    BY <1>1, <2>1, <2>2 DEF Answering, MeaningIsAnswered
  <2>3. CASE meant # None
    <3>1. /\ http # None /\ request = meant /\ Answered /\ answer.next = NextLink
          /\ ParseFault = None /\ Parsed = meant /\ (IsGet => kvp = KvpParams(http.query))
      BY <1>1, <2>1, <2>3 DEF Meaning, UnderstoodAsMeant, Course, TypeOK
    <3>2. meant.operation \in DataOperations /\ HasDataFields(meant)
      BY <1>1, <2>1, <2>3, <3>1, LinkSaysTheNextPage
    <3>3. Answerable(meant)
      BY <2>3, <3>1 DEF Answering
    <3>5. Count \in Nat
      BY <3>1, <3>2, <3>3, CountIsNatural DEF Answerable
    <3>. DEFINE m == meant start == Stop count == Count
    <3>. HIDE DEF m, start, count
    <3>6. Answerable(Paged(m, start, count))
      <4>1. HasDataFields(m) /\ Answerable(m) /\ count \in Nat
        BY <3>2, <3>3, <3>5 DEF m, count
      <4>. QED
        BY <4>1, NextPageIsAnswerable
    <3>7. meant' = Paged(m, start, count)
      BY <2>1, <2>3, <3>1 DEF m, start, count
    <3>8. Answerable(meant')
      BY <3>6, <3>7
    <3>. QED
      BY <1>1, <2>1, <3>8 DEF Answering, MeaningIsAnswered
  <2>. QED
    BY <2>2, <2>3
<1>7. CASE Leave
  BY <1>1, <1>7 DEF Leave, Answering, MeaningIsAnswered
<1>8. CASE UNCHANGED vars
  BY <1>1, <1>8 DEF vars, Answering, MeaningIsAnswered
<1>. QED
  BY <1>2, <1>3, <1>4, <1>5, <1>6, <1>7, <1>8, <1>9 DEF Next, Server, Client

(* A request that means something gets a document or a report, never an    *)
(* internal error, on every page of it: if what it means can be answered,  *)
(* nothing that validate_request() and process_request() do to it crashes, *)
(* and neither does anything that they do to the requests that its links   *)
(* make of it, which declare no prefixes and have other pages.             *)
THEOREM NoPageEndsInAnError ==
    ASSUME NoneIsNoValue, TokensDiffer, ParametersAreNew, NoDefaultNamespace, MaxPageSize \in Nat,
           FirstPagesAreUnderstood, FirstPagesAreAnswerable
    PROVE  Spec => []MeaningIsAnswered
<1>1. Init => Answering
  BY InitAnswering
<1>2. Answering /\ [Next]_vars => Answering'
  BY NextAnswering
<1>3. Answering => MeaningIsAnswered
  BY DEF Answering
<1>. QED
  BY <1>1, <1>2, <1>3, PTL DEF Spec
=============================================================================
