------------------------- MODULE GetFeaturePaging -------------------------
(***************************************************************************)
(* A GetFeature request of the WFS server, from get_pagination() to the    *)
(* last byte of the response, and the client that follows its next links.  *)
(*                                                                         *)
(* A request runs one query per requested feature type.  Every query has a *)
(* SimpleFeatureCollection (output/results.py), which reads its page from  *)
(* the database at the first moment some property asks for it: while the   *)
(* pagination links are written, while the header is printed, or while the *)
(* features are streamed.  Who asks first depends on the output format, on *)
(* GISSERVER_COUNT_NUMBER_MATCHED and on what the collections before it    *)
(* answered.  Each read of the database is a step of its own here, because *)
(* the requests are not transactions: other sessions write in between.     *)
(*                                                                         *)
(* A row is its sort key, a natural number; a page is a set of rows.  A    *)
(* query without an ordering returns any rows of the right number.         *)
(***************************************************************************)
EXTENDS Integers, FiniteSets

CONSTANTS
    N,             \* most queries in one request
    Rows,          \* the sort keys of the rows there can be
    InitialTables, \* the tables a behaviour may start from
    Requests,      \* the requests a client may send
    Modes,         \* the values of GISSERVER_COUNT_NUMBER_MATCHED
    MaxPage,       \* max_page_size for each output format
    Infinity,      \* math.inf
    MaxWrites      \* bound on the writes by other database sessions

Formats == {"GML", "GeoJSON", "CSV"}
Collections == 1..N

RequestType ==
    [format     : Formats,
     hits       : BOOLEAN,                  \* resultType=hits
     startIndex : Int,
     count      : Nat,                      \* COUNT, 0 when it is not given
     queries    : Collections,              \* how many queries
     prefetch   : [Collections -> BOOLEAN], \* the queryset has prefetch lookups
     ordered    : BOOLEAN,                  \* the query has an ordering
     linkable   : BOOLEAN]                  \* the request can be written as a URL

ASSUME NAssumption == N \in Nat \ {0}
ASSUME RowsAssumption == Rows \subseteq Nat /\ IsFiniteSet(Rows)
ASSUME TablesAssumption == InitialTables \subseteq [Collections -> SUBSET Rows]
ASSUME InfinityAssumption == Infinity \notin Int
ASSUME MaxPageAssumption == MaxPage \in [Formats -> (Nat \ {0}) \union {Infinity}]
ASSUME ModesAssumption == Modes \subseteq {0, 1, 2}
ASSUME RequestsAssumption == Requests \subseteq RequestType
ASSUME MaxWritesAssumption == MaxWrites \in Nat

VARIABLES
    stage,      \* where the operation or the renderer is
    at,         \* the collection the renderer is writing
    mode,       \* GISSERVER_COUNT_NUMBER_MATCHED
    req,        \* the request
    sfc,        \* the SimpleFeatureCollection of each query
    iter,       \* its _result_iterator
    body,       \* the features written to the response
    out,        \* the links and numbers written to the response
    table,      \* the rows in the database that match each query
    writes,     \* how often other sessions wrote
    client      \* what the client knows of its paging session

server == <<sfc, iter, body, out>>
vars == <<stage, at, mode, req, sfc, iter, body, out, table, writes, client>>

-----------------------------------------------------------------------------
(* The page that is requested.                                             *)

CALCULATE == -9999999
NoLink == [start |-> -1, count |-> 0]

Queries == 1..req.queries
Start == IF req.startIndex > 0 THEN req.startIndex ELSE 0
MaxPageSize == MaxPage[req.format]

Smallest(a, b) ==
    IF a = Infinity THEN b ELSE IF b = Infinity THEN a ELSE IF a < b THEN a ELSE b

DefaultPageSize == IF req.hits THEN 0 ELSE MaxPageSize
Count == Smallest(MaxPageSize, IF req.count # 0 THEN req.count ELSE DefaultPageSize)
Endless == Count = Infinity
Stop == IF Endless THEN Infinity ELSE Start + Count
StopWithSentinel == IF Endless THEN Infinity ELSE Stop + 1

UseSentinelRecord == mode = 0 \/ (mode = 2 /\ Start # 0)

(* The rows at positions lo+1 .. hi of a result, and the results a slice   *)
(* of a queryset may have: without an ordering only their number is fixed. *)
Rank(rows, r) == Cardinality({q \in rows : q <= r})
Slice(rows, lo, hi) ==
    {r \in rows : lo < Rank(rows, r) /\ (hi = Infinity \/ Rank(rows, r) <= hi)}
Slices(rows, lo, hi) ==
    IF req.ordered
    THEN {Slice(rows, lo, hi)}
    ELSE {s \in SUBSET rows : Cardinality(s) = Cardinality(Slice(rows, lo, hi))}

-----------------------------------------------------------------------------
(* The properties of a SimpleFeatureCollection.  Each comes with the       *)
(* condition under which it is answered without a query.                   *)

UnreadCollection ==
    [fetched |-> FALSE, cache |-> {}, hasMore |-> "unknown", matched |-> CALCULATE]
NoIterator ==
    [opened |-> FALSE, pending |-> {}, returned |-> 0, hasMore |-> "unknown"]

(* Mutation: number_returned does not look at the iterator.                *)
NumberReturnedKnown_NoIterator(c) == req.hits \/ sfc[c].fetched

NumberReturnedKnown(c) == req.hits \/ iter[c].opened \/ sfc[c].fetched
NumberReturned(c) ==
    IF req.hits THEN 0
    ELSE IF iter[c].opened THEN iter[c].returned
    ELSE Cardinality(sfc[c].cache)

NoPage == Start = 0 /\ Stop = 0
SentinelSeen(c) ==
    UseSentinelRecord /\ (sfc[c].hasMore # "unknown" \/ iter[c].hasMore # "unknown")

IsSurelyLastPageKnown(c) ==
    NoPage \/ req.hits \/ Endless \/ SentinelSeen(c) \/ NumberReturnedKnown(c)
(* Mutation: a COUNT that was made for the links is taken into account.    *)
IsSurelyLastPage_UsesCount(c) ==
    \/ NoPage \/ Endless
    \/ ~req.hits /\ (NumberReturned(c) < Count \/ sfc[c].hasMore = "no")
    \/ ~req.hits /\ sfc[c].matched # CALCULATE /\ sfc[c].matched <= Stop

IsSurelyLastPage(c) ==
    IF NoPage THEN TRUE
    ELSE IF req.hits THEN FALSE
    ELSE IF Endless THEN TRUE
    ELSE IF SentinelSeen(c) THEN sfc[c].hasMore = "no" \/ iter[c].hasMore = "no"
    ELSE Count # 0 /\ (NumberReturned(c) < Count \/ sfc[c].hasMore = "no")

SurelyLast(c) == IsSurelyLastPageKnown(c) /\ IsSurelyLastPage(c)

NumberMatchedKnown(c) == req.hits \/ sfc[c].matched # CALCULATE
                         \/ (SurelyLast(c) /\ NumberReturnedKnown(c))
(* Mutation: the rows before the page are forgotten.                       *)
NumberMatched_PageOnly(c) ==
    IF sfc[c].matched # CALCULATE THEN sfc[c].matched ELSE NumberReturned(c)

NumberMatched(c) ==
    IF req.hits
    THEN IF Stop # 0 THEN Smallest(sfc[c].matched, Count) ELSE sfc[c].matched
    ELSE IF sfc[c].matched # CALCULATE THEN sfc[c].matched
    ELSE Start + NumberReturned(c)

HasNextKnown(c) ==
    \/ Endless \/ NoPage \/ req.hits
    \/ sfc[c].hasMore # "unknown"
    \/ SurelyLast(c)
    \/ IsSurelyLastPageKnown(c) /\ NumberMatchedKnown(c)
(* Mutation: off by one, a full last page is followed by an empty one.     *)
HasNext_OffByOne(c) ==
    /\ ~Endless /\ ~NoPage
    /\ IF sfc[c].hasMore # "unknown" THEN sfc[c].hasMore = "yes"
       ELSE ~IsSurelyLastPage(c) /\ Stop <= NumberMatched(c)

HasNext(c) ==
    /\ ~Endless /\ ~NoPage
    /\ IF sfc[c].hasMore # "unknown" THEN sfc[c].hasMore = "yes"
       ELSE /\ ~IsSurelyLastPage(c)
            /\ IF req.hits THEN Stop <= sfc[c].matched
               ELSE Stop < NumberMatched(c)

(* FeatureCollection.number_matched is None, "unknown" in the response.    *)
PrintsNumberMatched ==
    req.hits \/ ~(mode = 0 \/ (mode = 2 /\ Start > 0))

-----------------------------------------------------------------------------
(* The client, and the other sessions that write to the database.          *)

Nothing == [c \in Collections |-> {}]
EmptyResponse ==
    [next     |-> NoLink, previous |-> NoLink,
     matched  |-> [c \in Collections |-> 0],
     returned |-> [c \in Collections |-> 0],
     printed  |-> {},                            \* which of these two are numbers
     counted  |-> [c \in Collections |-> 0]]      \* COUNT queries for the response

Init ==
    /\ stage = "idle"
    /\ at = 1
    /\ mode \in Modes
    /\ req \in Requests
    /\ sfc = [c \in Collections |-> UnreadCollection]
    /\ iter = [c \in Collections |-> NoIterator]
    /\ body = Nothing
    /\ out = EmptyResponse
    /\ table \in InitialTables
    /\ writes = 0
    /\ client = [earlier |-> Nothing, promised |-> Nothing,
                 disturbed |-> [c \in Collections |-> FALSE], quiet |-> TRUE]

(* process_request(): the collection is built, nothing is read yet, except *)
(* that get_hits() counts right away.                                      *)
StartOperation(r) ==
    /\ req' = r
    /\ stage' = IF r.hits THEN "hits" ELSE "links"
    /\ at' = 1
    /\ sfc' = [c \in Collections |-> UnreadCollection]
    /\ iter' = [c \in Collections |-> NoIterator]
    /\ body' = Nothing
    /\ out' = EmptyResponse
    /\ UNCHANGED <<mode, table, writes>>

(* The first request of a client.  It wants the rows from its STARTINDEX.  *)
SendRequest ==
    /\ stage = "idle"
    /\ StartOperation(req)
    /\ client' = [client EXCEPT
          !.promised  = [c \in Collections |->
                            IF c \in Queries THEN Slice(table[c], Start, Infinity) ELSE {}],
          !.disturbed = [c \in Collections |-> FALSE],
          !.quiet     = TRUE]

(* The client opens the next link.  CSV has no place to print a link.      *)
FollowNext ==
    /\ stage = "responded"
    /\ out.next # NoLink
    /\ req.format # "CSV"
    /\ StartOperation([req EXCEPT !.startIndex = out.next.start, !.count = out.next.count])
    /\ client' = [client EXCEPT
          !.earlier = [c \in Collections |-> client.earlier[c] \union body[c]],
          !.quiet   = TRUE]

(* There is no next page.                                                  *)
Stay ==
    /\ stage = "responded"
    /\ out.next = NoLink \/ req.format = "CSV"
    /\ stage' = "over"
    /\ UNCHANGED <<at, mode, req, server, table, writes, client>>

(* Another session inserts or deletes a row.                               *)
Write(c, rows, disturbs) ==
    /\ stage \notin {"idle", "over"}
    /\ writes < MaxWrites
    /\ writes' = writes + 1
    /\ table' = [table EXCEPT ![c] = rows]
    /\ client' = [client EXCEPT !.promised[c]  = @ \intersect rows,
                                !.disturbed[c] = @ \/ disturbs,
                                !.quiet        = FALSE]
    /\ UNCHANGED <<stage, at, mode, req, server>>

Insert(c, r) ==
    /\ r \notin table[c]
    /\ Write(c, table[c] \union {r}, \E q \in table[c] : r < q)

Delete(c, r) ==
    /\ r \in table[c]
    /\ Write(c, table[c] \ {r}, TRUE)

-----------------------------------------------------------------------------
(* Reading the database for a property that is asked for.  `Waiting' holds *)
(* the collections whose answer the current step still needs, first in the *)
(* order of the queries; `all(...)', the loop of has_next and the sums of  *)
(* FeatureCollection all stop or go on in this order.                      *)

Waiting ==
    CASE stage = "all"      -> {c \in Queries : ~SurelyLast(c)}
      [] stage = "any"      -> {c \in Queries : ~(HasNextKnown(c) /\ ~HasNext(c))}
      [] stage = "matched"  -> {c \in Queries : PrintsNumberMatched /\ ~NumberMatchedKnown(c)}
      [] stage = "returned" -> {c \in Queries : ~NumberReturnedKnown(c)}
      [] stage = "members"  -> {c \in Queries : /\ c = at
                                               /\ req.format = "GML"
                                               /\ req.queries > 1
                                               /\ ~NumberMatchedKnown(c)}
      [] OTHER              -> {}

IsNext(c) == c \in Waiting /\ \A d \in Waiting : c <= d

(* number_returned is needed, and read from the database.                  *)
NeedsPage(c) ==
    CASE stage = "returned" -> TRUE
      [] stage = "all"      -> ~IsSurelyLastPageKnown(c)
      [] stage = "any"      -> ~HasNextKnown(c) /\ ~IsSurelyLastPageKnown(c)
      [] OTHER              -> ~IsSurelyLastPageKnown(c)
                               \/ (SurelyLast(c) /\ ~NumberReturnedKnown(c))

NeedsCount(c) ==
    CASE stage = "any"                    -> ~HasNextKnown(c) /\ IsSurelyLastPageKnown(c)
      [] stage \in {"matched", "members"} -> ~NeedsPage(c)
      [] OTHER                            -> FALSE

(* fetch_results(): the page is read into the cache, in sentinel mode with *)
(* one row more, which tells whether there is a next page and is removed.  *)
FetchResults(c) ==
    /\ IsNext(c)
    /\ NeedsPage(c)
    /\ \/ /\ Endless \/ ~UseSentinelRecord
          /\ \E rows \in Slices(table[c], Start, Stop) :
                sfc' = [sfc EXCEPT ![c].fetched = TRUE, ![c].cache = rows]
       \/ /\ ~Endless /\ UseSentinelRecord
          /\ \E rows \in Slices(table[c], Start, StopWithSentinel) :
                LET more == Cardinality(rows) > Count
                IN  \E kept \in Slices(rows, 0, Count) :
                      sfc' = [sfc EXCEPT ![c].fetched = TRUE,
                                         ![c].cache   = kept,
                                         ![c].hasMore = IF more THEN "yes" ELSE "no"]
    /\ UNCHANGED <<stage, at, mode, req, iter, body, out, table, writes, client>>

(* number_matched needs a COUNT of the whole query; it is asked once.      *)
CountMatched(c) ==
    /\ IsNext(c)
    /\ NeedsCount(c)
    /\ sfc' = [sfc EXCEPT ![c].matched = Cardinality(table[c])]
    /\ out' = [out EXCEPT !.counted[c] = @ + 1]
    /\ UNCHANGED <<stage, at, mode, req, iter, body, table, writes, client>>

(* get_hits(): resultType=hits counts every query, whatever the setting.   *)
CountHits(c) ==
    /\ stage = "hits"
    /\ c = at
    /\ c \in Queries
    /\ sfc' = [sfc EXCEPT ![c].matched = Cardinality(table[c])]
    /\ IF at < req.queries
       THEN at' = at + 1 /\ stage' = stage
       ELSE at' = 1 /\ stage' = "links"
    /\ UNCHANGED <<mode, req, iter, body, out, table, writes, client>>

-----------------------------------------------------------------------------
(* set_pagination_links(), and FeatureCollection.has_next.                 *)

AfterLinks == IF req.format = "GML" THEN "matched" ELSE "members"

SkipLinks ==
    /\ stage = "links"
    /\ (req.hits /\ req.count = 0) \/ Endless
    /\ stage' = AfterLinks
    /\ UNCHANGED <<at, mode, req, server, table, writes, client>>

Link(start) == IF req.linkable THEN [start |-> start, count |-> Count] ELSE NoLink

SetPrevious ==
    /\ stage = "links"
    /\ ~(req.hits /\ req.count = 0) /\ ~Endless
    /\ out' = [out EXCEPT !.previous =
                 IF Start = 0 THEN NoLink
                 ELSE Link(IF Start > Count THEN Start - Count ELSE 0)]
    /\ stage' = "all"
    /\ UNCHANGED <<at, mode, req, sfc, iter, body, table, writes, client>>

(* all(_is_surely_last_page): it stops at the first collection that is not.*)
NoCollectionHasNext ==
    /\ stage = "all" \/ stage = "any"
    /\ Waiting = {}
    /\ stage' = AfterLinks
    /\ UNCHANGED <<at, mode, req, server, table, writes, client>>

SomeMayHaveNext(c) ==
    /\ stage = "all"
    /\ IsNext(c)
    /\ IsSurelyLastPageKnown(c)
    /\ stage' = "any"
    /\ UNCHANGED <<at, mode, req, server, table, writes, client>>

(* The first collection with a next page decides; the others are not read. *)
(* Mutations: the next page starts after the sentinel; or where this one   *)
(* does.                                                                   *)
SetNext_AfterSentinel(c) ==
    /\ stage = "any"
    /\ IsNext(c)
    /\ HasNextKnown(c)
    /\ out' = [out EXCEPT !.next = Link(StopWithSentinel)]
    /\ stage' = AfterLinks
    /\ UNCHANGED <<at, mode, req, sfc, iter, body, table, writes, client>>

SetNext_SamePage(c) ==
    /\ stage = "any"
    /\ IsNext(c)
    /\ HasNextKnown(c)
    /\ out' = [out EXCEPT !.next = Link(Start)]
    /\ stage' = AfterLinks
    /\ UNCHANGED <<at, mode, req, sfc, iter, body, table, writes, client>>

SetNext(c) ==
    /\ stage = "any"
    /\ IsNext(c)
    /\ HasNextKnown(c)
    /\ out' = [out EXCEPT !.next = Link(Start + Count)]
    /\ stage' = AfterLinks
    /\ UNCHANGED <<at, mode, req, sfc, iter, body, table, writes, client>>

-----------------------------------------------------------------------------
(* The renderers.  GML prints the numbers first, GeoJSON last, CSV never.  *)
(* The response shows the sum of each number over the collections; the     *)
(* model keeps the summands.                                               *)

PrintMatched ==
    /\ stage = "matched"
    /\ Waiting = {}
    /\ out' = IF PrintsNumberMatched
              THEN [out EXCEPT !.printed = @ \union {"matched"},
                               !.matched = [c \in Collections |->
                                   IF c \in Queries THEN NumberMatched(c) ELSE 0]]
              ELSE out
    /\ stage' = IF req.format = "GML" THEN "returned" ELSE "responded"
    /\ UNCHANGED <<at, mode, req, sfc, iter, body, table, writes, client>>

(* GML writes no members at all when nothing is returned.                  *)
PrintReturned ==
    /\ stage = "returned"
    /\ Waiting = {}
    /\ LET returned == [c \in Collections |->
                           IF c \in Queries THEN NumberReturned(c) ELSE 0]
       IN  /\ out' = [out EXCEPT !.printed = @ \union {"returned"}, !.returned = returned]
           /\ stage' = IF req.format # "GML" THEN "matched"
                       ELSE IF \E c \in Queries : returned[c] # 0 THEN "members"
                       ELSE "responded"
    /\ UNCHANGED <<at, mode, req, sfc, iter, body, table, writes, client>>

AfterMembers == IF req.format = "GeoJSON" THEN "returned" ELSE "responded"

(* Mutation: off by one.                                                   *)
NextCollection_OffByOne ==
    IF at <= req.queries
    THEN at' = at + 1 /\ stage' = stage
    ELSE at' = at /\ stage' = AfterMembers

NextCollection ==
    IF at < req.queries
    THEN at' = at + 1 /\ stage' = stage
    ELSE at' = at /\ stage' = AfterMembers

(* __iter__() of a collection that has been read: repeat the cache.        *)
WriteCached(c) ==
    /\ stage = "members"
    /\ c = at
    /\ Waiting = {}
    /\ req.hits \/ sfc[c].fetched
    /\ body' = [body EXCEPT ![c] = sfc[c].cache]
    /\ NextCollection
    /\ UNCHANGED <<mode, req, sfc, iter, out, table, writes, client>>

(* __iter__() of an unread collection: stream it.  _paginated_queryset()   *)
(* adds the sentinel row for each of the three iterators.                  *)
OpenIterator(c) ==
    /\ stage = "members"
    /\ c = at
    /\ Waiting = {}
    /\ ~req.hits /\ ~sfc[c].fetched /\ ~iter[c].opened
    /\ \E rows \in Slices(table[c], Start, StopWithSentinel) :
          iter' = [iter EXCEPT ![c].opened = TRUE, ![c].pending = rows]
    /\ UNCHANGED <<stage, at, mode, req, sfc, body, out, table, writes, client>>

(* Only CountingIterator knows a maximum, and only in sentinel mode.       *)
(* Mutation: the iterator is not told where the sentinel is.               *)
MaxResults_Never(c) == 0

MaxResults(c) == IF UseSentinelRecord /\ ~req.prefetch[c] THEN Count ELSE 0
AtSentinel(c) == MaxResults(c) # 0 /\ iter[c].returned = MaxResults(c)

StreamRow(c, r) ==
    /\ stage = "members"
    /\ c = at
    /\ iter[c].opened
    /\ r \in iter[c].pending
    /\ req.ordered => \A q \in iter[c].pending : r <= q
    /\ ~AtSentinel(c)
    /\ body' = [body EXCEPT ![c] = @ \union {r}]
    /\ iter' = [iter EXCEPT ![c].returned = @ + 1, ![c].pending = @ \ {r}]
    /\ UNCHANGED <<stage, at, mode, req, sfc, out, table, writes, client>>

(* The iterator ends: it reached the sentinel, or the end of the result.   *)
(* Mutation: the row is counted before it is found to be the sentinel.     *)
CloseIterator_CountsSentinel(c) ==
    /\ stage = "members"
    /\ c = at
    /\ iter[c].opened
    /\ iter[c].pending = {} \/ AtSentinel(c)
    /\ iter' = [iter EXCEPT
          ![c].hasMore  = IF MaxResults(c) = 0 THEN "unknown"
                          ELSE IF iter[c].pending = {} THEN "no" ELSE "yes",
          ![c].returned = @ + Cardinality(iter[c].pending),
          ![c].pending  = {}]
    /\ NextCollection
    /\ UNCHANGED <<mode, req, sfc, body, out, table, writes, client>>

CloseIterator(c) ==
    /\ stage = "members"
    /\ c = at
    /\ iter[c].opened
    /\ iter[c].pending = {} \/ AtSentinel(c)
    /\ iter' = [iter EXCEPT
          ![c].hasMore = IF MaxResults(c) = 0 THEN "unknown"
                         ELSE IF iter[c].pending = {} THEN "no" ELSE "yes",
          ![c].pending = {}]
    /\ NextCollection
    /\ UNCHANGED <<mode, req, sfc, body, out, table, writes, client>>

-----------------------------------------------------------------------------
ReadDatabase == \E c \in Collections : FetchResults(c) \/ CountMatched(c) \/ CountHits(c)

WriteLinks ==
    \/ SkipLinks \/ SetPrevious \/ NoCollectionHasNext
    \/ \E c \in Collections : SomeMayHaveNext(c) \/ SetNext(c)

Render ==
    \/ PrintMatched \/ PrintReturned
    \/ \E c \in Collections :
          \/ WriteCached(c) \/ OpenIterator(c) \/ CloseIterator(c)
          \/ \E r \in Rows : StreamRow(c, r)

Server == ReadDatabase \/ WriteLinks \/ Render
Client == SendRequest \/ FollowNext \/ Stay
Database == \E c \in Collections, r \in Rows : Insert(c, r) \/ Delete(c, r)

Next == Server \/ Client \/ Database

(* The worker that handles a request runs until the response is complete.  *)
Spec == Init /\ [][Next]_vars /\ WF_vars(Server)

(* A client that wants the whole result also follows every next link.      *)
PatientSpec == Spec /\ WF_vars(Client)

-----------------------------------------------------------------------------
Answer == {"unknown", "yes", "no"}
Responded == stage \in {"responded", "over"}

CollectionType ==
    [fetched : BOOLEAN, cache : SUBSET Rows, hasMore : Answer, matched : Int]
IteratorType ==
    [opened : BOOLEAN, pending : SUBSET Rows, returned : Nat, hasMore : Answer]
LinkType == [start : Int, count : Nat]
ResponseType ==
    [next : LinkType, previous : LinkType,
     matched : [Collections -> Int], returned : [Collections -> Nat],
     printed : SUBSET {"matched", "returned"}, counted : [Collections -> Nat]]
ClientType ==
    [earlier : [Collections -> SUBSET Rows], promised : [Collections -> SUBSET Rows],
     disturbed : [Collections -> BOOLEAN], quiet : BOOLEAN]

TypeOK ==
    /\ stage \in {"idle", "hits", "links", "all", "any", "matched", "returned",
                  "members", "responded", "over"}
    /\ at \in Collections
    /\ mode \in Modes
    /\ req \in RequestType
    /\ sfc \in [Collections -> CollectionType]
    /\ iter \in [Collections -> IteratorType]
    /\ body \in [Collections -> SUBSET Rows]
    /\ out \in ResponseType
    /\ table \in [Collections -> SUBSET Rows]
    /\ writes \in 0..MaxWrites
    /\ client \in ClientType

(* The numberReturned of a response is the number of features in it, also  *)
(* when it is printed before the first feature (GML), when the features    *)
(* were counted while they were streamed (GeoJSON), and when the table     *)
(* changed in between.                                                     *)
NumberReturnedIsWritten ==
    Responded /\ "returned" \in out.printed =>
        \A c \in Queries : out.returned[c] = Cardinality(body[c])

(* The results of a collection are read from the database once: what was   *)
(* fetched for the links is not streamed as well, and what was streamed is *)
(* not fetched to be counted ("Results ... are read twice").               *)
ReadOnce == \A c \in Collections : ~(sfc[c].fetched /\ iter[c].opened)

(* A page holds at most as many features of a collection as were asked for *)
(* and as max_page_size allows, for GML, for a single query, and where the *)
(* iterator knows that the last row is the sentinel.  Elsewhere it may hold*)
(* the sentinel as well.                                                   *)
KeepsPageSize(c) ==
    \/ req.format = "GML" \/ req.queries = 1
    \/ UseSentinelRecord /\ ~req.prefetch[c]
PageSizeRespectedWhenRead ==
    \A c \in Queries :
        Endless \/ Cardinality(body[c]) <= (IF KeepsPageSize(c) THEN Count ELSE Count + 1)

(* The next link and the numberMatched of one response agree, although the *)
(* link is decided long before the number is printed and other sessions    *)
(* write in between.                                                       *)
NextAgreesWithMatched ==
    stage = "responded" /\ "matched" \in out.printed /\ ~req.hits /\ ~Endless /\ req.linkable
    => (out.next # NoLink <=> \E c \in Queries : Stop < out.matched[c])

(* "Return the total number of matches across all pages": the number is    *)
(* right for a page that starts inside the result, whichever of the        *)
(* shortcuts that avoid a COUNT was taken.                                 *)
Total(c) ==
    IF req.hits /\ req.count # 0
    THEN Smallest(Cardinality(table[c]), Count)
    ELSE Cardinality(table[c])
NumberMatchedIsTotalInside ==
    stage = "responded" /\ "matched" \in out.printed /\ client.quiet =>
        \A c \in Queries :
            \/ out.matched[c] = Total(c)
            \/ Start > Cardinality(table[c])
            \/ req.hits /\ Start > 0 /\ req.count = 0

(* A property of a collection keeps its answer for the rest of the         *)
(* request, whatever is read later for another property and whatever other *)
(* sessions write.  (number_returned has no answer while an iterator runs.) *)
Reading(c) == stage = "members" /\ iter[c].opened
AnswersAreStable ==
    [][stage \notin {"idle", "hits", "responded"} =>
         \A c \in Queries : ~Reading(c) =>
            /\ IsSurelyLastPageKnown(c) => (IsSurelyLastPage(c)' <=> IsSurelyLastPage(c))
            /\ HasNextKnown(c) => (HasNext(c)' <=> HasNext(c))
            /\ NumberMatchedKnown(c) => NumberMatched(c)' = NumberMatched(c)]_vars

(* A client that follows the next links comes to a page without one: every *)
(* request is answered, and no link leads back or beyond the end for ever. *)
SessionEnds == <>(stage = "over")

(* The pages that a client receives are those of PagedRead.                *)
Paged == INSTANCE PagedRead WITH
    phase     <- IF stage = "idle" THEN "before" ELSE IF stage = "over" THEN "over" ELSE "reading",
    promised  <- client.promised,
    disturbed <- client.disturbed,
    earlier   <- client.earlier,
    page      <- body
PagesAreComplete == Paged!Spec
=============================================================================
