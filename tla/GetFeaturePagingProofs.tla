---------------------- MODULE GetFeaturePagingProofs ----------------------
(***************************************************************************)
(* Theorems about GetFeaturePaging, for any number of queries, any tables, *)
(* page sizes, requests and settings: the types of its state, what is read *)
(* and written, and how long a page may be.                                *)
(***************************************************************************)
EXTENDS GetFeaturePaging, FiniteSetTheorems, TLAPS

-----------------------------------------------------------------------------
(* What the helpers return.                                                *)

LEMMA RowsAreFinite ==
    ASSUME NEW s \in SUBSET Rows
    PROVE  IsFiniteSet(s) /\ Cardinality(s) \in Nat
BY RowsAssumption, FS_Subset, FS_CardinalityType

LEMMA SlicesAreSubsets ==
    ASSUME NEW rows, NEW lo, NEW hi, NEW s \in Slices(rows, lo, hi)
    PROVE  s \subseteq rows
BY DEF Slices, Slice

LEMMA PageTypes ==
    ASSUME req \in RequestType
    PROVE  /\ Start \in Nat
           /\ Count \in Nat \union {Infinity}
           /\ ~Endless => Count \in Nat /\ Stop \in Nat /\ StopWithSentinel \in Nat
           /\ Queries \subseteq Collections
<1>1. req.startIndex \in Int /\ req.count \in Nat /\ req.queries \in 1..N
      /\ req.format \in Formats
  BY DEF RequestType, Collections
<1>2. MaxPageSize \in Nat \union {Infinity}
  BY <1>1, MaxPageAssumption DEF MaxPageSize
<1>3. Start \in Nat
  BY <1>1 DEF Start
<1>4. Count \in Nat \union {Infinity}
  BY <1>1, <1>2, InfinityAssumption DEF Count, Smallest, DefaultPageSize
<1>5. Queries \subseteq Collections
  BY <1>1, NAssumption DEF Queries, Collections
<1>6. ~Endless => Count \in Nat /\ Stop \in Nat /\ StopWithSentinel \in Nat
  BY <1>3, <1>4 DEF Endless, Stop, StopWithSentinel
<1>. QED
  BY <1>3, <1>4, <1>5, <1>6

LEMMA NumberTypes ==
    ASSUME TypeOK, NEW c \in Collections
    PROVE  NumberReturned(c) \in Nat /\ NumberMatched(c) \in Int
<1>1. sfc[c].cache \in SUBSET Rows /\ sfc[c].matched \in Int /\ iter[c].returned \in Nat
  BY DEF TypeOK, CollectionType, IteratorType
<1>2. NumberReturned(c) \in Nat
  BY <1>1, RowsAreFinite DEF NumberReturned
<1>3. Start \in Nat /\ Count \in Nat \union {Infinity}
  BY PageTypes DEF TypeOK
<1>4. Smallest(sfc[c].matched, Count) \in Int
  BY <1>1, <1>3, InfinityAssumption DEF Smallest
<1>5. NumberMatched(c) \in Int
  BY <1>1, <1>2, <1>3, <1>4 DEF NumberMatched
<1>. QED
  BY <1>2, <1>5

-----------------------------------------------------------------------------
(* Links are only made for a page with an end.                             *)
LinksHaveAnEnd == stage \in {"all", "any"} => ~Endless

TypeInv == TypeOK /\ LinksHaveAnEnd

LEMMA InitTypeInv == Init => TypeInv
<1>. SUFFICES ASSUME Init PROVE TypeInv
  OBVIOUS
<1>1. 1 \in Collections
  BY NAssumption DEF Collections
<1>2. sfc \in [Collections -> CollectionType]
  BY DEF Init, UnreadCollection, CALCULATE, Answer, CollectionType
<1>3. iter \in [Collections -> IteratorType]
  BY DEF Init, NoIterator, Answer, IteratorType
<1>4. out \in ResponseType
  BY DEF Init, EmptyResponse, NoLink, ResponseType, LinkType
<1>5. client \in ClientType
  BY DEF Init, Nothing, ClientType
<1>. QED
  BY <1>1, <1>2, <1>3, <1>4, <1>5, RequestsAssumption, TablesAssumption, MaxWritesAssumption
     DEF Init, TypeInv, TypeOK, LinksHaveAnEnd, Nothing

LEMMA StartTypeInv ==
    ASSUME TypeInv, NEW r \in RequestType, StartOperation(r),
           client' \in ClientType
    PROVE  TypeInv'
<1>1. 1 \in Collections
  BY NAssumption DEF Collections
<1>2. sfc' \in [Collections -> CollectionType]
  BY DEF StartOperation, UnreadCollection, CALCULATE, Answer, CollectionType
<1>3. iter' \in [Collections -> IteratorType]
  BY DEF StartOperation, NoIterator, Answer, IteratorType
<1>4. out' \in ResponseType
  BY DEF StartOperation, EmptyResponse, NoLink, ResponseType, LinkType
<1>5. stage' \in {"hits", "links"} /\ req' \in RequestType
  BY DEF StartOperation
<1>6. body' \in [Collections -> SUBSET Rows]
  BY DEF StartOperation, Nothing
<1>. QED
  BY <1>1, <1>2, <1>3, <1>4, <1>5, <1>6 DEF TypeInv, TypeOK, LinksHaveAnEnd, StartOperation

(* A step of the server leaves the page, the table and the client alone.   *)
LEMMA PageIsFixed ==
    ASSUME UNCHANGED <<req, mode>>
    PROVE  /\ Start' = Start /\ Count' = Count /\ Stop' = Stop
           /\ Endless' = Endless /\ Queries' = Queries
           /\ UseSentinelRecord' = UseSentinelRecord
           /\ StopWithSentinel' = StopWithSentinel
BY DEF Start, Count, Stop, Endless, Queries, UseSentinelRecord, MaxPageSize, Smallest,
       DefaultPageSize, StopWithSentinel

(* What the records become when fields are assigned.                       *)
LEMMA CollectionUpdate ==
    ASSUME NEW s \in [Collections -> CollectionType], NEW c \in Collections
    PROVE  /\ \A n \in Int : [s EXCEPT ![c].matched = n] \in [Collections -> CollectionType]
           /\ \A rows \in SUBSET Rows :
                 [s EXCEPT ![c].fetched = TRUE, ![c].cache = rows]
                     \in [Collections -> CollectionType]
           /\ \A rows \in SUBSET Rows, more \in Answer :
                 [s EXCEPT ![c].fetched = TRUE, ![c].cache = rows, ![c].hasMore = more]
                     \in [Collections -> CollectionType]
BY DEF CollectionType

LEMMA IteratorUpdate ==
    ASSUME NEW i \in [Collections -> IteratorType], NEW c \in Collections
    PROVE  /\ \A rows \in SUBSET Rows :
                 [i EXCEPT ![c].opened = TRUE, ![c].pending = rows]
                     \in [Collections -> IteratorType]
           /\ \A n \in Nat, rows \in SUBSET Rows :
                 [i EXCEPT ![c].returned = n, ![c].pending = rows]
                     \in [Collections -> IteratorType]
           /\ \A more \in Answer, rows \in SUBSET Rows :
                 [i EXCEPT ![c].hasMore = more, ![c].pending = rows]
                     \in [Collections -> IteratorType]
BY DEF IteratorType

LEMMA ResponseUpdate ==
    ASSUME NEW o \in ResponseType
    PROVE  /\ \A link \in LinkType : [o EXCEPT !.next = link] \in ResponseType
           /\ \A link \in LinkType : [o EXCEPT !.previous = link] \in ResponseType
           /\ \A p \in SUBSET {"matched", "returned"}, f \in [Collections -> Int] :
                 [o EXCEPT !.printed = p, !.matched = f] \in ResponseType
           /\ \A p \in SUBSET {"matched", "returned"}, f \in [Collections -> Nat] :
                 [o EXCEPT !.printed = p, !.returned = f] \in ResponseType
           /\ \A c \in Collections, n \in Nat : [o EXCEPT !.counted[c] = n] \in ResponseType
           /\ o.printed \in SUBSET {"matched", "returned"}
           /\ o.counted \in [Collections -> Nat]
           /\ o.next \in LinkType
BY DEF ResponseType

(* A slice of the table, and a slice of a slice, are rows.                 *)
LEMMA SlicesAreRows ==
    ASSUME TypeOK, NEW c \in Collections, NEW lo, NEW hi,
           NEW rows \in Slices(table[c], lo, hi)
    PROVE  /\ rows \in SUBSET Rows
           /\ \A a, b : \A kept \in Slices(rows, a, b) : kept \in SUBSET Rows
<1>1. table[c] \subseteq Rows
  BY DEF TypeOK
<1>2. rows \subseteq table[c]
  BY SlicesAreSubsets
<1>3. ASSUME NEW a, NEW b, NEW kept \in Slices(rows, a, b) PROVE kept \subseteq rows
  BY <1>3, SlicesAreSubsets
<1>. QED
  BY <1>1, <1>2, <1>3

LEMMA FetchTypeInv ==
    ASSUME TypeInv, NEW c \in Collections, FetchResults(c)
    PROVE  TypeInv'
<1>. USE DEF TypeInv
<1>1. sfc \in [Collections -> CollectionType]
  BY DEF TypeOK
<1>2. sfc' \in [Collections -> CollectionType]
  <2>1. CASE Endless \/ ~UseSentinelRecord
    <3>1. PICK rows \in Slices(table[c], Start, Stop) :
              sfc' = [sfc EXCEPT ![c].fetched = TRUE, ![c].cache = rows]
      BY <2>1 DEF FetchResults
    <3>2. rows \in SUBSET Rows
      BY <3>1, SlicesAreRows
    <3>. QED
      BY <1>1, <3>1, <3>2, CollectionUpdate
  <2>2. CASE ~Endless /\ UseSentinelRecord
    <3>1. PICK rows \in Slices(table[c], Start, StopWithSentinel) :
             \E kept \in Slices(rows, 0, Count) :
                sfc' = [sfc EXCEPT ![c].fetched = TRUE, ![c].cache = kept,
                          ![c].hasMore = IF Cardinality(rows) > Count THEN "yes" ELSE "no"]
      BY <2>2 DEF FetchResults
    <3>2. PICK kept \in Slices(rows, 0, Count) :
             sfc' = [sfc EXCEPT ![c].fetched = TRUE, ![c].cache = kept,
                       ![c].hasMore = IF Cardinality(rows) > Count THEN "yes" ELSE "no"]
      BY <3>1
    <3>3. kept \in SUBSET Rows
      BY <3>1, <3>2, SlicesAreRows
    <3>4. (IF Cardinality(rows) > Count THEN "yes" ELSE "no") \in Answer
      BY DEF Answer
    <3>. QED
      BY <1>1, <3>2, <3>3, <3>4, CollectionUpdate
  <2>. QED
    BY <2>1, <2>2
<1>3. UNCHANGED <<stage, at, mode, req, iter, body, out, table, writes, client>>
  BY DEF FetchResults
<1>4. TypeOK'
  BY <1>2, <1>3 DEF TypeOK
<1>5. Endless' = Endless
  BY <1>3, PageIsFixed
<1>. QED
  BY <1>3, <1>4, <1>5 DEF LinksHaveAnEnd

LEMMA CountTypeInv ==
    ASSUME TypeInv, NEW c \in Collections, CountMatched(c) \/ CountHits(c)
    PROVE  TypeInv'
<1>. USE DEF TypeInv
<1>1. /\ Cardinality(table[c]) \in Int
      /\ sfc \in [Collections -> CollectionType] /\ out \in ResponseType
  BY RowsAreFinite DEF TypeOK
<1>2. sfc' = [sfc EXCEPT ![c].matched = Cardinality(table[c])]
  BY DEF CountMatched, CountHits
<1>3. sfc' \in [Collections -> CollectionType]
  <2>1. [sfc EXCEPT ![c].matched = Cardinality(table[c])] \in [Collections -> CollectionType]
    BY <1>1, CollectionUpdate
  <2>. QED
    BY <1>2, <2>1
<1>4. CASE CountMatched(c)
  <2>1. out.counted[c] + 1 \in Nat
    <3>1. out.counted \in [Collections -> Nat]
      BY <1>1, ResponseUpdate
    <3>. QED
      BY <3>1
  <2>2. out' = [out EXCEPT !.counted[c] = out.counted[c] + 1]
    BY <1>4 DEF CountMatched
  <2>3. out' \in ResponseType
    BY <1>1, <2>1, <2>2, ResponseUpdate
  <2>4. UNCHANGED <<stage, at, mode, req, iter, body, table, writes, client>>
    BY <1>4 DEF CountMatched
  <2>5. TypeOK'
    BY <1>3, <2>3, <2>4 DEF TypeOK
  <2>6. Endless' = Endless
    BY <2>4, PageIsFixed
  <2>. QED
    BY <2>4, <2>5, <2>6 DEF LinksHaveAnEnd
<1>5. CASE CountHits(c)
  <2>1. at' \in Collections /\ stage' \in {"hits", "links"}
    BY <1>5, NAssumption DEF TypeOK, CountHits, RequestType, Collections
  <2>2. UNCHANGED <<mode, req, iter, body, out, table, writes, client>>
    BY <1>5 DEF CountHits
  <2>. QED
    BY <1>3, <2>1, <2>2 DEF TypeOK, LinksHaveAnEnd
<1>. QED
  BY <1>4, <1>5

LEMMA ReadDatabaseTypeInv == TypeInv /\ ReadDatabase => TypeInv'
BY FetchTypeInv, CountTypeInv DEF ReadDatabase

LEMMA WriteLinksTypeInv == TypeInv /\ WriteLinks => TypeInv'
<1>. SUFFICES ASSUME TypeInv, WriteLinks PROVE TypeInv'
  OBVIOUS
<1>. USE DEF TypeInv
<1>1. req \in RequestType /\ out \in ResponseType /\ AfterLinks \in {"matched", "members"}
  BY DEF TypeOK, AfterLinks
<1>2. UNCHANGED <<at, mode, req, sfc, iter, body, table, writes, client>>
  BY DEF WriteLinks, SkipLinks, SetPrevious, NoCollectionHasNext, SomeMayHaveNext, SetNext, server
<1>3. Endless' = Endless
  BY <1>2, PageIsFixed
<1>4. ASSUME ~Endless, NEW start \in Int
      PROVE  Link(start) \in LinkType
  BY <1>1, <1>4, PageTypes DEF Link, NoLink, LinkType
<1>5. /\ out' \in ResponseType
      /\ stage' \in {"all", "any", "matched", "members"}
      /\ stage' \in {"all", "any"} => ~Endless
  <2>1. CASE SkipLinks
    BY <1>1, <2>1 DEF SkipLinks, server
  <2>2. CASE SetPrevious
    <3>1. (IF Start > Count THEN Start - Count ELSE 0) \in Int
      BY <1>1, <2>2, PageTypes DEF SetPrevious
    <3>2. NoLink \in LinkType
      BY DEF NoLink, LinkType
    <3>3. PICK link \in LinkType : out' = [out EXCEPT !.previous = link]
      BY <1>4, <2>2, <3>1, <3>2 DEF SetPrevious
    <3>4. [out EXCEPT !.previous = link] \in ResponseType
      BY <1>1, <3>3, ResponseUpdate
    <3>5. stage' = "all" /\ ~Endless
      BY <2>2 DEF SetPrevious
    <3>. QED
      BY <3>3, <3>4, <3>5
  <2>3. CASE NoCollectionHasNext
    BY <1>1, <2>3 DEF NoCollectionHasNext, server
  <2>4. ASSUME NEW c \in Collections, SomeMayHaveNext(c)
        PROVE  out' = out /\ stage' = "any" /\ ~Endless
    BY <2>4 DEF SomeMayHaveNext, server, LinksHaveAnEnd
  <2>5. ASSUME NEW c \in Collections, SetNext(c)
        PROVE  out' \in ResponseType /\ stage' = AfterLinks
    <3>1. ~Endless /\ Start + Count \in Int
      BY <1>1, <2>5, PageTypes DEF SetNext, LinksHaveAnEnd
    <3>2. Link(Start + Count) \in LinkType
      BY <1>4, <3>1
    <3>. QED
      BY <1>1, <2>5, <3>2, ResponseUpdate DEF SetNext
  <2>. QED
    BY <1>1, <2>1, <2>2, <2>3, <2>4, <2>5 DEF WriteLinks
<1>6. TypeOK'
  BY <1>2, <1>5 DEF TypeOK
<1>. QED
  BY <1>3, <1>5, <1>6 DEF LinksHaveAnEnd

LEMMA RenderTypeInv == TypeInv /\ Render => TypeInv'
<1>. SUFFICES ASSUME TypeInv, Render PROVE TypeInv'
  OBVIOUS
<1>. USE DEF TypeInv
<1>1. /\ out \in ResponseType /\ iter \in [Collections -> IteratorType]
      /\ body \in [Collections -> SUBSET Rows] /\ at \in Collections
      /\ at < req.queries => at + 1 \in Collections
      /\ AfterMembers \in {"returned", "responded"}
  BY NAssumption DEF TypeOK, AfterMembers, RequestType, Collections
<1>2. UNCHANGED <<mode, req, sfc, table, writes, client>>
  BY DEF Render, PrintMatched, PrintReturned, WriteCached, OpenIterator, CloseIterator, StreamRow
<1>3. ASSUME NextCollection
      PROVE  at' \in Collections /\ stage' \in {stage, "returned", "responded"}
  BY <1>1, <1>3 DEF NextCollection
<1>4. /\ at' \in Collections
      /\ stage' \in {"matched", "returned", "members", "responded"}
      /\ out' \in ResponseType
      /\ iter' \in [Collections -> IteratorType]
      /\ body' \in [Collections -> SUBSET Rows]
  <2>1. CASE PrintMatched
    <3>1. [c \in Collections |-> IF c \in Queries THEN NumberMatched(c) ELSE 0]
             \in [Collections -> Int]
      BY NumberTypes
    <3>2. out.printed \union {"matched"} \in SUBSET {"matched", "returned"}
      BY <1>1, ResponseUpdate
    <3>3. out' \in ResponseType
      BY <1>1, <2>1, <3>1, <3>2, ResponseUpdate DEF PrintMatched
    <3>. QED
      BY <1>1, <2>1, <3>3 DEF PrintMatched
  <2>2. CASE PrintReturned
    <3>1. [c \in Collections |-> IF c \in Queries THEN NumberReturned(c) ELSE 0]
             \in [Collections -> Nat]
      BY NumberTypes
    <3>2. out.printed \union {"returned"} \in SUBSET {"matched", "returned"}
      BY <1>1, ResponseUpdate
    <3>3. out' \in ResponseType
      BY <1>1, <2>2, <3>1, <3>2, ResponseUpdate DEF PrintReturned
    <3>. QED
      BY <1>1, <2>2, <3>3 DEF PrintReturned
  <2>3. ASSUME NEW c \in Collections, WriteCached(c)
        PROVE  <1>4!1 /\ <1>4!2 /\ <1>4!3 /\ <1>4!4 /\ <1>4!5
    <3>1. sfc[c].cache \in SUBSET Rows
      BY DEF TypeOK, CollectionType
    <3>. QED
      BY <1>1, <1>3, <2>3, <3>1 DEF WriteCached
  <2>4. ASSUME NEW c \in Collections, OpenIterator(c)
        PROVE  <1>4!1 /\ <1>4!2 /\ <1>4!3 /\ <1>4!4 /\ <1>4!5
    <3>1. PICK rows \in Slices(table[c], Start, StopWithSentinel) :
              iter' = [iter EXCEPT ![c].opened = TRUE, ![c].pending = rows]
      BY <2>4 DEF OpenIterator
    <3>2. rows \in SUBSET Rows
      BY <3>1, SlicesAreRows
    <3>3. iter' \in [Collections -> IteratorType]
      BY <1>1, <3>1, <3>2, IteratorUpdate
    <3>. QED
      BY <1>1, <2>4, <3>3 DEF OpenIterator
  <2>5. ASSUME NEW c \in Collections, CloseIterator(c)
        PROVE  <1>4!1 /\ <1>4!2 /\ <1>4!3 /\ <1>4!4 /\ <1>4!5
    <3>1. PICK more \in Answer :
              iter' = [iter EXCEPT ![c].hasMore = more, ![c].pending = {}]
      BY <2>5 DEF CloseIterator, Answer
    <3>2. iter' \in [Collections -> IteratorType]
      BY <1>1, <3>1, IteratorUpdate
    <3>. QED
      BY <1>1, <1>3, <2>5, <3>2 DEF CloseIterator
  <2>6. ASSUME NEW c \in Collections, NEW r \in Rows, StreamRow(c, r)
        PROVE  <1>4!1 /\ <1>4!2 /\ <1>4!3 /\ <1>4!4 /\ <1>4!5
    <3>1. iter[c].returned + 1 \in Nat /\ iter[c].pending \ {r} \in SUBSET Rows
      BY <1>1 DEF IteratorType
    <3>2. iter' = [iter EXCEPT ![c].returned = iter[c].returned + 1,
                               ![c].pending = iter[c].pending \ {r}]
      BY <2>6 DEF StreamRow
    <3>3. iter' \in [Collections -> IteratorType]
      BY <1>1, <3>1, <3>2, IteratorUpdate
    <3>4. body' \in [Collections -> SUBSET Rows]
      BY <1>1, <2>6 DEF StreamRow
    <3>. QED
      BY <1>1, <2>6, <3>3, <3>4 DEF StreamRow
  <2>. QED
    BY <2>1, <2>2, <2>3, <2>4, <2>5, <2>6 DEF Render
<1>5. TypeOK'
  BY <1>2, <1>4 DEF TypeOK
<1>. QED
  BY <1>4, <1>5 DEF LinksHaveAnEnd

LEMMA ClientTypeInv == TypeInv /\ Client => TypeInv'
<1>. SUFFICES ASSUME TypeInv, Client PROVE TypeInv'
  OBVIOUS
<1>1. /\ client \in ClientType /\ req \in RequestType /\ out \in ResponseType
      /\ table \in [Collections -> SUBSET Rows] /\ body \in [Collections -> SUBSET Rows]
  BY DEF TypeInv, TypeOK
<1>2. CASE SendRequest
  <2>1. PICK p \in [Collections -> SUBSET Rows] :
           client' = [client EXCEPT !.promised = p,
                                    !.disturbed = [c \in Collections |-> FALSE],
                                    !.quiet = TRUE]
    <3>1. [c \in Collections |->
              IF c \in Queries THEN Slice(table[c], Start, Infinity) ELSE {}]
             \in [Collections -> SUBSET Rows]
      BY <1>1 DEF Slice
    <3>. QED
      BY <1>2, <3>1 DEF SendRequest
  <2>2. client' \in ClientType
    BY <1>1, <2>1 DEF ClientType
  <2>. QED
    BY <1>1, <1>2, <2>2, StartTypeInv DEF SendRequest
<1>3. CASE FollowNext
  <2>1. out.next \in LinkType
    BY <1>1, ResponseUpdate
  <2>2. [req EXCEPT !.startIndex = out.next.start, !.count = out.next.count] \in RequestType
    <3>1. out.next.start \in Int /\ out.next.count \in Nat
      BY <2>1 DEF LinkType
    <3>. QED
      BY <1>1, <3>1 DEF RequestType
  <2>3. PICK e \in [Collections -> SUBSET Rows] :
           client' = [client EXCEPT !.earlier = e, !.quiet = TRUE]
    <3>1. client.earlier \in [Collections -> SUBSET Rows]
      BY <1>1 DEF ClientType
    <3>2. [c \in Collections |-> client.earlier[c] \union body[c]]
             \in [Collections -> SUBSET Rows]
      BY <1>1, <3>1
    <3>. QED
      BY <1>3, <3>2 DEF FollowNext
  <2>4. client' \in ClientType
    BY <1>1, <2>3 DEF ClientType
  <2>. QED
    BY <1>3, <2>2, <2>4, StartTypeInv DEF FollowNext
<1>4. CASE Stay
  <2>1. stage' = "over"
        /\ UNCHANGED <<at, mode, req, sfc, iter, body, out, table, writes, client>>
    BY <1>4 DEF Stay, server
  <2>. QED
    BY <2>1 DEF TypeInv, TypeOK, LinksHaveAnEnd
<1>. QED
  BY <1>2, <1>3, <1>4 DEF Client

LEMMA WriteTypeInv ==
    ASSUME TypeInv, NEW c \in Collections, NEW rows \in SUBSET Rows, NEW d \in BOOLEAN,
           Write(c, rows, d)
    PROVE  TypeInv'
<1>1. /\ client \in ClientType
      /\ table' \in [Collections -> SUBSET Rows]
      /\ writes' \in 0..MaxWrites
  BY MaxWritesAssumption DEF TypeInv, TypeOK, Write
<1>2. client' \in ClientType
  <2>1. /\ client.promised \in [Collections -> SUBSET Rows]
        /\ client.disturbed \in [Collections -> BOOLEAN]
    BY <1>1 DEF ClientType
  <2>2. client' = [client EXCEPT !.promised[c]  = client.promised[c] \intersect rows,
                                 !.disturbed[c] = client.disturbed[c] \/ d,
                                 !.quiet        = FALSE]
    BY DEF Write
  <2>. QED
    BY <1>1, <2>1, <2>2 DEF ClientType
<1>3. UNCHANGED <<stage, at, mode, req, sfc, iter, body, out>>
  BY DEF Write, server
<1>4. Endless' = Endless
  BY <1>3, PageIsFixed
<1>. QED
  BY <1>1, <1>2, <1>3, <1>4 DEF TypeInv, TypeOK, LinksHaveAnEnd

LEMMA DatabaseTypeInv == TypeInv /\ Database => TypeInv'
<1>. SUFFICES ASSUME TypeInv, NEW c \in Collections, NEW r \in Rows,
                     Insert(c, r) \/ Delete(c, r)
              PROVE  TypeInv'
  BY DEF Database
<1>1. table[c] \union {r} \in SUBSET Rows /\ table[c] \ {r} \in SUBSET Rows
  BY DEF TypeInv, TypeOK
<1>2. (\E q \in table[c] : r < q) \in BOOLEAN
  OBVIOUS
<1>. QED
  BY <1>1, <1>2, WriteTypeInv DEF Insert, Delete

LEMMA NextTypeInv == TypeInv /\ [Next]_vars => TypeInv'
<1>. SUFFICES ASSUME TypeInv, [Next]_vars PROVE TypeInv'
  OBVIOUS
<1>1. CASE UNCHANGED vars
  BY <1>1, PageIsFixed DEF vars, server, TypeInv, TypeOK, LinksHaveAnEnd
<1>. QED
  BY <1>1, ReadDatabaseTypeInv, WriteLinksTypeInv, RenderTypeInv, ClientTypeInv, DatabaseTypeInv
     DEF Next, Server

(* The state of every request is what the definitions of results.py make   *)
(* of it, for any requests, page sizes and tables; no link is written for  *)
(* a page without an end.                                                  *)
THEOREM TypeCorrect == Spec => []TypeOK
<1>1. TypeInv => TypeOK
  BY DEF TypeInv
<1>. QED
  BY <1>1, InitTypeInv, NextTypeInv, PTL DEF Spec

LEMMA TypeInvariant == Spec => []TypeInv
BY InitTypeInv, NextTypeInv, PTL DEF Spec

-----------------------------------------------------------------------------
(* What a response holds: every collection is read once, numberReturned is *)
(* the number of features that were written, and no page is longer than it *)
(* may be.                                                                 *)

(* The rank of a row grows with the row, so that the rows of a slice have  *)
(* different ranks between its bounds.                                     *)

LEMMA RankGrows ==
    ASSUME NEW rows \in SUBSET Rows, NEW r \in rows, NEW q \in rows, r < q
    PROVE  Rank(rows, r) \in Nat /\ Rank(rows, q) \in Nat /\ Rank(rows, r) < Rank(rows, q)
<1>. DEFINE R == {p \in rows : p <= r}
            Q == {p \in rows : p <= q}
<1>1. rows \subseteq Nat /\ R \in SUBSET Rows /\ Q \in SUBSET Rows
  BY RowsAssumption
<1>2. R \subseteq Q /\ q \in Q /\ q \notin R
  <2>1. r \in Nat /\ q \in Nat /\ \A p \in rows : p \in Nat
    BY <1>1
  <2>2. \A p \in rows : p <= r => p <= q
    BY <2>1
  <2>3. q <= q /\ ~(q <= r)
    BY <2>1
  <2>. QED
    BY <2>2, <2>3
<1>3. IsFiniteSet(Q) /\ Cardinality(R) \in Nat /\ Cardinality(Q) \in Nat
  BY <1>1, RowsAreFinite
<1>4. Cardinality(R) <= Cardinality(Q) /\ (Cardinality(Q) = Cardinality(R) => Q = R)
  BY <1>2, <1>3, FS_Subset
<1>. QED
  BY <1>2, <1>3, <1>4 DEF Rank

LEMMA SliceSize ==
    ASSUME NEW rows \in SUBSET Rows, NEW lo \in Nat, NEW hi \in Nat, lo <= hi
    PROVE  Cardinality(Slice(rows, lo, hi)) <= hi - lo
<1>. DEFINE S == Slice(rows, lo, hi)
            T == (lo + 1)..hi
            f == [r \in S |-> Rank(rows, r)]
<1>1. rows \subseteq Nat /\ S \subseteq rows
  BY RowsAssumption DEF Slice
<1>2. ASSUME NEW r \in rows PROVE Rank(rows, r) \in Nat
  <2>1. {p \in rows : p <= r} \in SUBSET Rows
    OBVIOUS
  <2>. QED
    BY <2>1, RowsAreFinite DEF Rank
<1>3. ASSUME NEW r \in S PROVE f[r] \in T
  <2>1. r \in rows /\ lo < Rank(rows, r) /\ Rank(rows, r) <= hi
    BY <1>3, InfinityAssumption DEF Slice
  <2>2. Rank(rows, r) \in Nat
    BY <1>2, <2>1
  <2>. QED
    BY <2>1, <2>2
<1>4. ASSUME NEW r \in S, NEW q \in S, f[r] = f[q] PROVE r = q
  <2>1. r \in rows /\ q \in rows /\ r \in Nat /\ q \in Nat
    BY <1>1
  <2>2. ~(r < q) /\ ~(q < r)
    BY <1>4, <2>1, RankGrows
  <2>. QED
    BY <2>1, <2>2
<1>5. f \in Injection(S, T)
  BY <1>3, <1>4 DEF Injection, IsInjective
<1>6. IsFiniteSet(T) /\ Cardinality(T) = hi - lo
  <2>1. lo + 1 \in Int /\ hi \in Int
    OBVIOUS
  <2>2. IsFiniteSet(T) /\ Cardinality(T) = IF lo + 1 > hi THEN 0 ELSE hi - (lo + 1) + 1
    BY <2>1, FS_Interval
  <2>. QED
    BY <2>2
<1>7. Cardinality(S) <= Cardinality(T)
  BY <1>5, <1>6, FS_Injection
<1>. QED
  BY <1>6, <1>7

(* The ranks of the rows of a table are the numbers up to its size.        *)
LEMMA RanksCount ==
    ASSUME NEW rows \in SUBSET Rows
    PROVE  /\ \A r \in rows : Rank(rows, r) \in 1..Cardinality(rows)
           /\ \A k \in 1..Cardinality(rows) : \E r \in rows : Rank(rows, r) = k
           /\ \A r, q \in rows : Rank(rows, r) = Rank(rows, q) => r = q
<1>. DEFINE n == Cardinality(rows)
            T == 1..n
            f == [r \in rows |-> Rank(rows, r)]
<1>1. rows \subseteq Nat /\ IsFiniteSet(rows) /\ n \in Nat
  BY RowsAssumption, RowsAreFinite
<1>2. ASSUME NEW r \in rows PROVE Rank(rows, r) \in T
  <2>. DEFINE R == {p \in rows : p <= r}
  <2>1. R \subseteq rows /\ r \in R
    BY <1>1
  <2>2. IsFiniteSet(R) /\ Cardinality(R) \in Nat /\ Cardinality(R) <= n
    BY <1>1, <2>1, FS_Subset, FS_CardinalityType
  <2>3. Cardinality(R) # 0
    BY <2>1, <2>2, FS_EmptySet
  <2>. HIDE DEF n
  <2>. QED
    BY <1>1, <2>2, <2>3 DEF Rank
<1>3. ASSUME NEW r \in rows, NEW q \in rows, Rank(rows, r) = Rank(rows, q) PROVE r = q
  <2>1. r \in Nat /\ q \in Nat
    BY <1>1
  <2>2. ~(r < q) /\ ~(q < r)
    BY <1>3, RankGrows
  <2>. QED
    BY <2>1, <2>2
<1>4. f \in Injection(rows, T)
  BY <1>2, <1>3 DEF Injection, IsInjective
<1>5. IsFiniteSet(T) /\ Cardinality(T) = n
  <2>1. IsFiniteSet(1..n) /\ Cardinality(1..n) = IF 1 > n THEN 0 ELSE n - 1 + 1
    BY <1>1, FS_Interval
  <2>. HIDE DEF n
  <2>. QED
    BY <1>1, <2>1
<1>6. f \in Surjection(rows, T)
  BY <1>4, <1>5, FS_Injection
<1>7. \A k \in T : \E r \in rows : Rank(rows, r) = k
  BY <1>6 DEF Surjection
<1>. QED
  BY <1>2, <1>3, <1>7

(* How many rows a slice has: those of the table between its bounds.       *)
LEMMA SliceCount ==
    ASSUME NEW rows \in SUBSET Rows, NEW lo \in Nat, NEW hi \in Nat, lo <= hi
    PROVE  Cardinality(Slice(rows, lo, hi)) =
              IF Cardinality(rows) <= lo THEN 0
              ELSE IF Cardinality(rows) <= hi THEN Cardinality(rows) - lo
              ELSE hi - lo
<1>. DEFINE n == Cardinality(rows)
            top == IF n <= hi THEN n ELSE hi
            S == Slice(rows, lo, hi)
            T == (lo + 1)..top
            f == [r \in S |-> Rank(rows, r)]
<1>1. n \in Nat /\ IsFiniteSet(rows)
  BY RowsAreFinite
<1>2. /\ \A r \in rows : Rank(rows, r) \in 1..n
      /\ \A k \in 1..n : \E r \in rows : Rank(rows, r) = k
      /\ \A r, q \in rows : Rank(rows, r) = Rank(rows, q) => r = q
  BY RanksCount
<1>3. /\ S \subseteq rows
      /\ \A r \in rows : r \in S <=> lo < Rank(rows, r) /\ Rank(rows, r) <= hi
  BY InfinityAssumption DEF Slice
<1>. HIDE DEF n, S
<1>4. \A r \in S : f[r] \in T
  BY <1>1, <1>2, <1>3
<1>5. \A r, q \in S : f[r] = f[q] => r = q
  BY <1>2, <1>3
<1>6. \A k \in T : \E r \in S : f[r] = k
  <2>. SUFFICES ASSUME NEW k \in T PROVE \E r \in S : f[r] = k
    OBVIOUS
  <2>1. k \in 1..n /\ lo < k /\ k <= hi
    BY <1>1
  <2>2. PICK r \in rows : Rank(rows, r) = k
    BY <1>2, <2>1
  <2>3. r \in S
    BY <1>3, <2>1, <2>2
  <2>. QED
    BY <2>2, <2>3
<1>7. f \in Injection(S, T) /\ f \in Surjection(S, T)
  BY <1>4, <1>5, <1>6 DEF Injection, IsInjective, Surjection
<1>8. IsFiniteSet(S)
  BY <1>1, <1>3, FS_Subset
<1>9. Cardinality(T) = Cardinality(S)
  BY <1>7, <1>8, FS_Surjection
<1>10. Cardinality(T) = IF lo + 1 > top THEN 0 ELSE top - (lo + 1) + 1
  <2>1. lo + 1 \in Int /\ top \in Int
    BY <1>1
  <2>. HIDE DEF top
  <2>. QED
    BY <2>1, FS_Interval
<1>11. Cardinality(S) = IF n <= lo THEN 0 ELSE IF n <= hi THEN n - lo ELSE hi - lo
  BY <1>1, <1>9, <1>10
<1>. QED
  BY <1>11 DEF n, S

LEMMA SliceToEndCount ==
    ASSUME NEW rows \in SUBSET Rows, NEW lo \in Nat
    PROVE  Cardinality(Slice(rows, lo, Infinity)) =
              IF Cardinality(rows) <= lo THEN 0 ELSE Cardinality(rows) - lo
<1>. DEFINE n == Cardinality(rows)
<1>1. n \in Nat
  BY RowsAreFinite
<1>2. \A r \in rows : Rank(rows, r) \in 1..n
  BY RanksCount
<1>. HIDE DEF n
<1>3. \A r \in rows : Rank(rows, r) <= lo + n
  BY <1>1, <1>2
<1>4. Slice(rows, lo, Infinity) = Slice(rows, lo, lo + n)
  BY <1>3 DEF Slice
<1>5. Cardinality(Slice(rows, lo, lo + n)) =
         IF n <= lo THEN 0 ELSE IF n <= lo + n THEN n - lo ELSE lo + n - lo
  BY <1>1, SliceCount DEF n
<1>. QED
  BY <1>1, <1>4, <1>5 DEF n

(* The rank of a row in a slice, and in a table that grew at its end.      *)
LEMMA RankInSlice ==
    ASSUME NEW rows \in SUBSET Rows, NEW lo \in Nat, NEW hi \in Nat, lo <= hi,
           NEW r \in Slice(rows, lo, hi)
    PROVE  Rank(Slice(rows, lo, hi), r) = Rank(rows, r) - lo
<1>. DEFINE k == Rank(rows, r)
            n == Cardinality(rows)
<1>1. /\ r \in rows /\ rows \subseteq Nat /\ n \in Nat
      /\ k \in 1..n /\ lo < k /\ k <= hi
  BY RowsAssumption, RowsAreFinite, RanksCount, InfinityAssumption DEF Slice
<1>2. ASSUME NEW p \in rows
      PROVE  p <= r <=> Rank(rows, p) <= k
  <2>1. p \in Nat /\ r \in Nat /\ Rank(rows, p) \in Nat
    BY <1>1, RanksCount
  <2>2. p < r => Rank(rows, p) < k
    BY <1>1, RankGrows
  <2>3. r < p => k < Rank(rows, p)
    BY <1>1, RankGrows
  <2>4. p = r => Rank(rows, p) = k
    OBVIOUS
  <2>. HIDE DEF k
  <2>. QED
    BY <1>1, <2>1, <2>2, <2>3, <2>4
<1>3. {p \in Slice(rows, lo, hi) : p <= r} = Slice(rows, lo, k)
  <2>1. ASSUME NEW p
        PROVE  p \in Slice(rows, lo, hi) /\ p <= r <=> p \in Slice(rows, lo, k)
    <3>1. p \in rows => Rank(rows, p) \in Nat
      BY RanksCount
    <3>2. hi # Infinity /\ k # Infinity /\ k \in Nat
      BY <1>1, InfinityAssumption
    <3>. HIDE DEF k, n
    <3>3. ASSUME p \in rows
          PROVE  Rank(rows, p) <= k => Rank(rows, p) <= hi
      BY <1>1, <3>1, <3>2, <3>3
    <3>. QED
      BY <1>2, <3>2, <3>3 DEF Slice
  <2>. QED
    BY <2>1
<1>. HIDE DEF k
<1>4. Cardinality(Slice(rows, lo, k)) = IF n <= lo THEN 0 ELSE IF n <= k THEN n - lo ELSE k - lo
  BY <1>1, SliceCount
<1>. HIDE DEF n
<1>5. Cardinality(Slice(rows, lo, k)) = k - lo
  BY <1>1, <1>4
<1>. QED
  BY <1>3, <1>5 DEF Rank, k

LEMMA RankAfterAppend ==
    ASSUME NEW rows \in SUBSET Rows, NEW x \in Rows, \A q \in rows : q < x, NEW r \in rows
    PROVE  Rank(rows \union {x}, r) = Rank(rows, r)
<1>1. r < x /\ r \in Nat /\ x \in Nat
  BY RowsAssumption
<1>2. ~(x <= r)
  BY <1>1
<1>3. {q \in rows \union {x} : q <= r} = {q \in rows : q <= r}
  BY <1>2
<1>. QED
  BY <1>3 DEF Rank

LEMMA SlicesSize ==
    ASSUME NEW rows \in SUBSET Rows, NEW lo \in Nat, NEW hi \in Nat, lo <= hi,
           NEW s \in Slices(rows, lo, hi)
    PROVE  Cardinality(s) <= hi - lo
BY SliceSize DEF Slices

-----------------------------------------------------------------------------
(* A page is only read for a query that has no answer yet.                 *)

LEMMA FetchesUnreadPage ==
    ASSUME NEW c \in Collections, FetchResults(c)
    PROVE  c \in Queries /\ ~req.hits /\ ~iter[c].opened /\ ~sfc[c].fetched
<1>1. c \in Waiting /\ NeedsPage(c)
  BY DEF FetchResults, IsNext
<1>2. c \in Queries
  BY <1>1 DEF Waiting
<1>3. ~NumberReturnedKnown(c)
  BY <1>1 DEF Waiting, NeedsPage, IsSurelyLastPageKnown
<1>. QED
  BY <1>2, <1>3 DEF NumberReturnedKnown

-----------------------------------------------------------------------------
(* The invariant.  The features of a collection are not written yet, or    *)
(* being written, or all written; what is in the body is then nothing, the *)
(* rows that the iterator has returned, or the cache.  When numberReturned *)
(* comes first (GML) it is the size of a cache that is written later.      *)

NotYet(c) ==
    \/ stage \in {"idle", "hits", "links", "all", "any"}
    \/ req.format = "GML" /\ stage \in {"matched", "returned"}
    \/ stage = "members" /\ at < c
Done(c) ==
    \/ stage \in {"responded", "over"}
    \/ req.format # "GML" /\ stage \in {"matched", "returned"}
    \/ stage = "members" /\ c < at

Streamed(c) ==
    iter[c].opened =>
        /\ ~sfc[c].fetched /\ ~req.hits /\ ~NotYet(c)
        /\ iter[c].returned = Cardinality(body[c])
        /\ body[c] \intersect iter[c].pending = {}
Unwritten(c) ==
    ~iter[c].opened /\ ~Done(c) => body[c] = {}
Written(c) ==
    c \in Queries /\ Done(c) /\ ~iter[c].opened =>
        (req.hits \/ sfc[c].fetched) /\ body[c] = sfc[c].cache
NoHits(c) == req.hits => sfc[c].cache = {}
Announced(c) ==
    c \in Queries /\ "returned" \in out.printed =>
        IF req.format = "GML"
        THEN /\ ~iter[c].opened /\ (req.hits \/ sfc[c].fetched)
             /\ out.returned[c] = Cardinality(sfc[c].cache)
        ELSE out.returned[c] = Cardinality(body[c])
CollectionInv(c) ==
    /\ Streamed(c) /\ Unwritten(c) /\ Written(c) /\ NoHits(c) /\ Announced(c)
    /\ ~iter[c].opened => iter[c].returned = 0

Position ==
    /\ at <= req.queries
    /\ NotYet(1) /\ stage \notin {"idle", "hits", "members"} => at = 1
Printed ==
    /\ "returned" \in out.printed =>
          stage \in {"responded", "over", IF req.format = "GML" THEN "members" ELSE "matched"}
    /\ req.format = "GML" /\ stage \in {"members", "responded", "over"}
          => "returned" \in out.printed

ReadInv == Position /\ Printed /\ \A c \in Collections : CollectionInv(c)

(* The second invariant.  The first collection has been read when the next *)
(* link is decided; a cache keeps the page size; an iterator is at most one*)
(* row above it, and that row is not written if the sentinel is known.     *)
FirstIsRead ==
    stage \notin {"idle", "hits", "links", "all"} /\ ~Endless /\ ~req.hits
        => sfc[1].fetched
SizeOK(c) ==
    /\ sfc[c].hasMore # "unknown" => sfc[c].fetched
    /\ iter[c].hasMore # "unknown" => iter[c].opened
    /\ ~Endless => Cardinality(sfc[c].cache) <= Count
    /\ ~Endless /\ iter[c].opened =>
          /\ iter[c].returned + Cardinality(iter[c].pending) <= Count + 1
          /\ MaxResults(c) # 0 => iter[c].returned <= Count
SizeInv == FirstIsRead /\ \A c \in Collections : SizeOK(c)

(* What the steps do to the record of one collection.                      *)
LEMMA FetchEffect ==
    ASSUME TypeInv, NEW c \in Collections, FetchResults(c)
    PROVE  /\ \A d \in Collections : d # c => sfc'[d] = sfc[d]
           /\ sfc'[c].fetched = TRUE
           /\ ~Endless => Cardinality(sfc'[c].cache) <= Count
           /\ UNCHANGED <<stage, at, mode, req, iter, body, out>>
<1>1. /\ sfc \in [Collections -> CollectionType] /\ table[c] \in SUBSET Rows
      /\ req \in RequestType
  BY DEF TypeInv, TypeOK
<1>2. UNCHANGED <<stage, at, mode, req, iter, body, out>>
  BY DEF FetchResults
<1>3. ASSUME ~Endless
      PROVE  /\ Start \in Nat /\ Stop \in Nat /\ Count \in Nat
             /\ Start <= Stop /\ Stop - Start = Count
  BY <1>1, <1>3, PageTypes DEF Stop
<1>4. CASE Endless \/ ~UseSentinelRecord
  <2>1. PICK rows \in Slices(table[c], Start, Stop) :
            sfc' = [sfc EXCEPT ![c].fetched = TRUE, ![c].cache = rows]
    BY <1>4 DEF FetchResults
  <2>2. /\ \A d \in Collections : d # c => sfc'[d] = sfc[d]
        /\ sfc'[c].fetched = TRUE /\ sfc'[c].cache = rows
    BY <1>1, <2>1 DEF CollectionType
  <2>3. ~Endless => Cardinality(rows) <= Count
    BY <1>1, <1>3, SlicesSize
  <2>. QED
    BY <1>2, <2>2, <2>3
<1>5. CASE ~Endless /\ UseSentinelRecord
  <2>1. PICK rows \in Slices(table[c], Start, StopWithSentinel), more \in Answer :
           \E kept \in Slices(rows, 0, Count) :
              sfc' = [sfc EXCEPT ![c].fetched = TRUE, ![c].cache = kept, ![c].hasMore = more]
    BY <1>5 DEF FetchResults, Answer
  <2>2. PICK kept \in Slices(rows, 0, Count) :
           sfc' = [sfc EXCEPT ![c].fetched = TRUE, ![c].cache = kept, ![c].hasMore = more]
    BY <2>1
  <2>3. /\ \A d \in Collections : d # c => sfc'[d] = sfc[d]
        /\ sfc'[c].fetched = TRUE /\ sfc'[c].cache = kept
    BY <1>1, <2>2 DEF CollectionType
  <2>4. rows \in SUBSET Rows
    BY SlicesAreRows DEF TypeInv
  <2>5. Cardinality(kept) <= Count
    <3>1. Count \in Nat /\ 0 \in Nat /\ 0 <= Count
      BY <1>3, <1>5
    <3>2. Cardinality(kept) <= Count - 0
      BY <2>4, <3>1, SlicesSize
    <3>. QED
      BY <3>1, <3>2
  <2>. QED
    BY <1>2, <2>3, <2>5
<1>. QED
  BY <1>4, <1>5

LEMMA CountEffect ==
    ASSUME TypeInv, NEW c \in Collections, CountMatched(c) \/ CountHits(c)
    PROVE  /\ \A d \in Collections :
                 /\ sfc'[d].fetched = sfc[d].fetched
                 /\ sfc'[d].cache = sfc[d].cache
                 /\ sfc'[d].hasMore = sfc[d].hasMore
           /\ out'.printed = out.printed /\ out'.returned = out.returned
           /\ UNCHANGED <<mode, req, iter, body>>
<1>1. sfc \in [Collections -> CollectionType] /\ out \in ResponseType
  BY DEF TypeInv, TypeOK
<1>2. sfc' = [sfc EXCEPT ![c].matched = Cardinality(table[c])]
  BY DEF CountMatched, CountHits
<1>3. \/ out' = out
      \/ out' = [out EXCEPT !.counted[c] = out.counted[c] + 1]
  BY DEF CountMatched, CountHits
<1>4. UNCHANGED <<mode, req, iter, body>>
  BY DEF CountMatched, CountHits
<1>5. out'.printed = out.printed /\ out'.returned = out.returned
  BY <1>1, <1>3 DEF ResponseType
<1>. QED
  BY <1>1, <1>2, <1>4, <1>5 DEF CollectionType

-----------------------------------------------------------------------------
(* ReadInv is inductive.                                                   *)

LEMMA StartReadInv ==
    ASSUME NEW r \in RequestType, StartOperation(r) PROVE ReadInv'
<1>1. /\ stage' \in {"hits", "links"} /\ at' = 1 /\ 1 <= req'.queries /\ out'.printed = {}
      /\ \A c \in Collections :
            /\ ~iter'[c].opened /\ iter'[c].returned = 0
            /\ body'[c] = {} /\ sfc'[c].cache = {}
  BY DEF StartOperation, EmptyResponse, UnreadCollection, NoIterator, Nothing,
         RequestType, Collections
<1>2. \A c \in Collections : NotYet(c)' /\ ~Done(c)'
  BY <1>1 DEF NotYet, Done
<1>3. \A c \in Collections : CollectionInv(c)'
  BY <1>1, <1>2 DEF CollectionInv, Streamed, Unwritten, Written, NoHits, Announced
<1>. QED
  BY <1>1, <1>3 DEF ReadInv, Position, Printed

LEMMA InitReadInv == Init => ReadInv
<1>. SUFFICES ASSUME Init PROVE ReadInv
  OBVIOUS
<1>1. /\ stage = "idle" /\ at = 1 /\ 1 <= req.queries /\ out.printed = {}
      /\ \A c \in Collections :
            /\ ~iter[c].opened /\ iter[c].returned = 0
            /\ body[c] = {} /\ sfc[c].cache = {}
  BY RequestsAssumption
     DEF Init, EmptyResponse, UnreadCollection, NoIterator, Nothing, RequestType, Collections
<1>2. \A c \in Collections : ~Done(c)
  BY <1>1 DEF Done
<1>3. \A c \in Collections : CollectionInv(c)
  BY <1>1, <1>2 DEF CollectionInv, Streamed, Unwritten, Written, NoHits, Announced
<1>. QED
  BY <1>1, <1>3 DEF ReadInv, Position, Printed

(* A step that leaves what ReadInv is about alone.                         *)
LEMMA SameReadInv ==
    ASSUME ReadInv,
           UNCHANGED <<stage, at, req, iter, body>>,
           "returned" \in out'.printed <=> "returned" \in out.printed,
           out'.returned = out.returned,
           \A c \in Collections : /\ sfc'[c].fetched = sfc[c].fetched
                                  /\ sfc'[c].cache = sfc[c].cache
    PROVE  ReadInv'
<1>1. Queries' = Queries
  BY DEF Queries
<1>2. \A c \in Collections : (NotYet(c)' <=> NotYet(c)) /\ (Done(c)' <=> Done(c))
  BY DEF NotYet, Done
<1>3. ASSUME NEW c \in Collections PROVE CollectionInv(c)'
  BY <1>1, <1>2
     DEF ReadInv, CollectionInv, Streamed, Unwritten, Written, NoHits, Announced
<1>4. Position' /\ Printed'
  BY DEF ReadInv, Position, Printed, NotYet
<1>. QED
  BY <1>3, <1>4 DEF ReadInv

LEMMA FetchReadInv ==
    ASSUME TypeInv, ReadInv, NEW c \in Collections, FetchResults(c)
    PROVE  ReadInv'
<1>1. /\ \A d \in Collections : d # c => sfc'[d] = sfc[d]
      /\ sfc'[c].fetched = TRUE
      /\ UNCHANGED <<stage, at, mode, req, iter, body, out>>
  BY FetchEffect
<1>2. c \in Queries /\ ~req.hits /\ ~iter[c].opened /\ ~sfc[c].fetched
  BY FetchesUnreadPage
<1>3. Queries' = Queries
  BY <1>1 DEF Queries
<1>4. \A d \in Collections : (NotYet(d)' <=> NotYet(d)) /\ (Done(d)' <=> Done(d))
  BY <1>1 DEF NotYet, Done
<1>5. ASSUME NEW d \in Collections PROVE CollectionInv(d)'
  <2>1. CASE d # c
    BY <1>1, <1>3, <1>4, <2>1
       DEF ReadInv, CollectionInv, Streamed, Unwritten, Written, NoHits, Announced
  <2>2. CASE d = c
    <3>1. CollectionInv(c)
      BY DEF ReadInv
    <3>2. ~Done(c)
      BY <1>2, <3>1 DEF CollectionInv, Written
    <3>3. "returned" \in out.printed => req.format # "GML"
      BY <1>2, <3>1 DEF CollectionInv, Announced
    <3>. QED
      BY <1>1, <1>2, <1>3, <1>4, <2>2, <3>1, <3>2, <3>3
         DEF CollectionInv, Streamed, Unwritten, Written, NoHits, Announced
  <2>. QED
    BY <2>1, <2>2
<1>6. Position' /\ Printed'
  BY <1>1 DEF ReadInv, Position, Printed, NotYet
<1>. QED
  BY <1>5, <1>6 DEF ReadInv

(* A step that only moves on: at' and stage' change, and no collection     *)
(* becomes unwritten or, before it is written, done.                       *)
LEMMA MoveReadInv ==
    ASSUME ReadInv,
           UNCHANGED <<req, iter, body>>,
           "returned" \in out'.printed <=> "returned" \in out.printed,
           out'.returned = out.returned,
           \A c \in Collections : /\ sfc'[c].fetched = sfc[c].fetched
                                  /\ sfc'[c].cache = sfc[c].cache
                                  /\ NotYet(c)' => NotYet(c)
                                  /\ (Done(c)' <=> Done(c)),
           Position', Printed'
    PROVE  ReadInv'
<1>1. Queries' = Queries
  BY DEF Queries
<1>2. ASSUME NEW c \in Collections PROVE CollectionInv(c)'
  BY <1>1
     DEF ReadInv, CollectionInv, Streamed, Unwritten, Written, NoHits, Announced
<1>. QED
  BY <1>2 DEF ReadInv

LEMMA CountReadInv ==
    ASSUME TypeInv, ReadInv, NEW c \in Collections, CountMatched(c) \/ CountHits(c)
    PROVE  ReadInv'
<1>1. /\ UNCHANGED <<req, iter, body>>
      /\ out'.printed = out.printed /\ out'.returned = out.returned
      /\ "returned" \in out'.printed <=> "returned" \in out.printed
      /\ \A d \in Collections :
            sfc'[d].fetched = sfc[d].fetched /\ sfc'[d].cache = sfc[d].cache
  BY CountEffect
<1>2. CASE CountMatched(c)
  <2>1. UNCHANGED <<stage, at>>
    BY <1>2 DEF CountMatched
  <2>. QED
    BY <1>1, <2>1, SameReadInv
<1>3. CASE CountHits(c)
  <2>1. stage = "hits" /\ (stage' = "hits" \/ (stage' = "links" /\ at' = 1))
    BY <1>3 DEF CountHits
  <2>2. \A d \in Collections : NotYet(d) /\ ~Done(d) /\ ~Done(d)'
    BY <2>1 DEF NotYet, Done
  <2>3. at' <= req.queries
    BY <1>3 DEF CountHits, TypeInv, TypeOK, RequestType, Collections
  <2>4. Position' /\ Printed'
    BY <1>1, <2>1, <2>3 DEF ReadInv, Position, Printed
  <2>. QED
    BY <1>1, <2>2, <2>4, MoveReadInv
<1>. QED
  BY <1>2, <1>3

LEMMA LinksReadInv ==
    ASSUME TypeInv, ReadInv, WriteLinks
    PROVE  ReadInv'
<1>1. /\ UNCHANGED <<at, req, sfc, iter, body>>
      /\ stage \in {"links", "all", "any"}
      /\ stage' \in {"all", "any", AfterLinks}
  BY DEF WriteLinks, SkipLinks, SetPrevious, NoCollectionHasNext, SomeMayHaveNext, SetNext, server
<1>2. /\ out'.printed = out.printed /\ out'.returned = out.returned
      /\ "returned" \in out'.printed <=> "returned" \in out.printed
      /\ \A c \in Collections : /\ sfc'[c].fetched = sfc[c].fetched
                               /\ sfc'[c].cache = sfc[c].cache
  <2>1. out \in ResponseType
    BY DEF TypeInv, TypeOK
  <2>2. \/ out' = out
        \/ \E link : out' = [out EXCEPT !.previous = link]
        \/ \E link : out' = [out EXCEPT !.next = link]
    BY DEF WriteLinks, SkipLinks, SetPrevious, NoCollectionHasNext, SomeMayHaveNext, SetNext, server
  <2>3. out'.printed = out.printed /\ out'.returned = out.returned
    BY <2>1, <2>2 DEF ResponseType
  <2>. QED
    BY <1>1, <2>3
<1>3. /\ at = 1 /\ at' = 1
      /\ "returned" \notin out.printed
  BY <1>1 DEF ReadInv, Position, NotYet, Printed
<1>4. ASSUME NEW c \in Collections
      PROVE  NotYet(c) /\ ~Done(c) /\ ~Done(c)'
  <2>1. ~(c < 1)
    BY NAssumption DEF Collections
  <2>. QED
    BY <1>1, <1>3, <2>1 DEF NotYet, Done, AfterLinks
<1>5. Position' /\ Printed'
  BY <1>1, <1>2, <1>3 DEF ReadInv, Position, Printed, AfterLinks
<1>. QED
  BY <1>1, <1>2, <1>4, <1>5, MoveReadInv

LEMMA PrintMatchedReadInv ==
    ASSUME TypeInv, ReadInv, PrintMatched
    PROVE  ReadInv'
<1>1. /\ UNCHANGED <<at, req, sfc, iter, body>> /\ stage = "matched"
      /\ stage' = IF req.format = "GML" THEN "returned" ELSE "responded"
  BY DEF PrintMatched
<1>2. /\ "returned" \in out'.printed <=> "returned" \in out.printed
      /\ out'.returned = out.returned
  <2>1. out \in ResponseType
    BY DEF TypeInv, TypeOK
  <2>2. \/ out' = out
        \/ \E m : out' = [out EXCEPT !.printed = out.printed \union {"matched"}, !.matched = m]
    BY DEF PrintMatched
  <2>3. ASSUME NEW m,
               out' = [out EXCEPT !.printed = out.printed \union {"matched"}, !.matched = m]
        PROVE  /\ out'.printed = out.printed \union {"matched"}
               /\ out'.returned = out.returned
    BY <2>1, <2>3 DEF ResponseType
  <2>4. "returned" # "matched"
    OBVIOUS
  <2>. QED
    BY <2>2, <2>3, <2>4
<1>3. \A c \in Collections : (NotYet(c)' => NotYet(c)) /\ (Done(c)' <=> Done(c))
  BY <1>1 DEF NotYet, Done
<1>4. Position'
  BY <1>1 DEF ReadInv, Position, NotYet
<1>5. Printed'
  BY <1>1, <1>2 DEF ReadInv, Printed
<1>. QED
  BY <1>1, <1>2, <1>3, <1>4, <1>5, MoveReadInv

LEMMA PrintReturnedReadInv ==
    ASSUME TypeInv, ReadInv, PrintReturned
    PROVE  ReadInv'
<1>. DEFINE returned == [c \in Collections |-> IF c \in Queries THEN NumberReturned(c) ELSE 0]
<1>1. /\ UNCHANGED <<at, req, sfc, iter, body>> /\ stage = "returned" /\ Waiting = {}
      /\ out' = [out EXCEPT !.printed = out.printed \union {"returned"}, !.returned = returned]
      /\ stage' = IF req.format # "GML" THEN "matched"
                  ELSE IF \E c \in Queries : returned[c] # 0 THEN "members"
                  ELSE "responded"
  BY DEF PrintReturned
<1>2. /\ Queries \subseteq Collections /\ Queries' = Queries
      /\ out \in ResponseType /\ sfc \in [Collections -> CollectionType]
  BY <1>1, PageTypes DEF TypeInv, TypeOK, Queries
<1>3. "returned" \in out'.printed /\ out'.returned = returned
  BY <1>1, <1>2 DEF ResponseType
<1>4. \A c \in Queries : NumberReturnedKnown(c)
  BY <1>1 DEF Waiting
<1>5. ASSUME NEW c \in Collections PROVE CollectionInv(c)'
  <2>1. CollectionInv(c)
    BY DEF ReadInv
  <2>2. c \in Queries /\ ~iter[c].opened =>
           /\ req.hits \/ sfc[c].fetched
           /\ NumberReturned(c) = Cardinality(sfc[c].cache)
    BY <1>4, <2>1, FS_EmptySet DEF CollectionInv, NoHits, NumberReturned, NumberReturnedKnown
  <2>3. CASE req.format = "GML"
    <3>1. NotYet(c) /\ ~Done(c) /\ ~iter[c].opened /\ body[c] = {}
      BY <1>1, <2>1, <2>3 DEF NotYet, Done, CollectionInv, Streamed, Unwritten
    <3>2. Announced(c)'
      BY <1>1, <1>2, <1>3, <2>2, <2>3, <3>1 DEF Announced
    <3>3. Written(c)'
      <4>1. CASE stage' = "members"
        <5>1. at' = 1 /\ ~(c < 1)
          BY <1>1, <2>3, NAssumption DEF ReadInv, Position, NotYet, Collections
        <5>. QED
          BY <4>1, <5>1 DEF Written, Done
      <4>2. CASE stage' = "responded"
        <5>1. c \in Queries => Cardinality(sfc[c].cache) = 0
          BY <1>1, <1>2, <2>2, <2>3, <3>1, <4>2
        <5>2. IsFiniteSet(sfc[c].cache)
          BY <1>2, RowsAreFinite DEF CollectionType
        <5>3. c \in Queries => sfc[c].cache = {}
          BY <5>1, <5>2, FS_EmptySet
        <5>. QED
          BY <1>1, <1>2, <2>2, <3>1, <5>3 DEF Written
      <4>. QED
        BY <1>1, <2>3, <4>1, <4>2
    <3>. QED
      BY <1>1, <2>1, <3>1, <3>2, <3>3
         DEF CollectionInv, Streamed, Unwritten, NoHits
  <2>4. CASE req.format # "GML"
    <3>1. Done(c) /\ Done(c)' /\ ~NotYet(c)'
      BY <1>1, <2>4 DEF Done, NotYet
    <3>2. c \in Queries => NumberReturned(c) = Cardinality(body[c])
      <4>1. CASE iter[c].opened
        BY <2>1, <4>1 DEF CollectionInv, Streamed, NumberReturned
      <4>2. CASE ~iter[c].opened
        BY <2>1, <2>2, <3>1, <4>2 DEF CollectionInv, Written
      <4>. QED
        BY <4>1, <4>2
    <3>3. Announced(c)'
      BY <1>1, <1>2, <1>3, <2>4, <3>2 DEF Announced
    <3>. QED
      BY <1>1, <1>2, <2>1, <3>1, <3>3
         DEF CollectionInv, Streamed, Unwritten, Written, NoHits
  <2>. QED
    BY <2>3, <2>4
<1>6. Position'
  BY <1>1 DEF ReadInv, Position, NotYet
<1>7. Printed'
  BY <1>1, <1>3 DEF Printed
<1>. QED
  BY <1>5, <1>6, <1>7 DEF ReadInv

(* After the members of a collection the next ones follow, or the footer.  *)
LEMMA NextCollectionEffect ==
    ASSUME TypeInv, ReadInv, stage = "members", NextCollection, UNCHANGED <<req, out>>
    PROVE  /\ \A c \in Collections : NotYet(c)' => NotYet(c) /\ c # at
           /\ \A c \in Collections : Done(c) => Done(c)'
           /\ \A c \in Queries : Done(c)' => Done(c) \/ c = at
           /\ Position' /\ Printed'
<1>1. /\ at \in Nat /\ req.queries \in Nat /\ Collections \subseteq Nat
      /\ req.format \in Formats
  BY DEF TypeInv, TypeOK, RequestType, Collections
<1>2. \/ at < req.queries /\ at' = at + 1 /\ stage' = "members"
      \/ at >= req.queries /\ at' = at /\ stage' = AfterMembers
  BY <1>1 DEF NextCollection
<1>3. \A c \in Queries : c \in Nat /\ c <= req.queries
  BY <1>1 DEF Queries
<1>4. AfterMembers \in {"returned", "responded"}
      /\ (AfterMembers = "returned" => req.format # "GML")
  BY DEF AfterMembers
<1>5. \A c \in Collections : NotYet(c)' => NotYet(c) /\ c # at
  BY <1>1, <1>2, <1>4 DEF NotYet
<1>6. \A c \in Collections : Done(c) => Done(c)'
  BY <1>1, <1>2, <1>4 DEF Done
<1>7. \A c \in Queries : Done(c)' => Done(c) \/ c = at
  BY <1>1, <1>2, <1>3 DEF Done
<1>8. Position'
  BY <1>1, <1>2, <1>4 DEF ReadInv, Position, NotYet
<1>9. Printed'
  BY <1>2, <1>4 DEF ReadInv, Printed
<1>. QED
  BY <1>5, <1>6, <1>7, <1>8, <1>9

LEMMA WriteCachedReadInv ==
    ASSUME TypeInv, ReadInv, NEW c \in Collections, WriteCached(c)
    PROVE  ReadInv'
<1>1. /\ stage = "members" /\ c = at /\ (req.hits \/ sfc[c].fetched) /\ NextCollection
      /\ UNCHANGED <<mode, req, sfc, iter, out>>
      /\ body' = [body EXCEPT ![c] = sfc[c].cache]
  BY DEF WriteCached
<1>2. /\ \A d \in Collections : NotYet(d)' => NotYet(d) /\ d # at
      /\ \A d \in Collections : Done(d) => Done(d)'
      /\ \A d \in Queries : Done(d)' => Done(d) \/ d = at
      /\ Position' /\ Printed'
  BY <1>1, NextCollectionEffect
<1>3. /\ body \in [Collections -> SUBSET Rows] /\ Queries' = Queries
      /\ body'[c] = sfc[c].cache
      /\ \A d \in Collections : d # c => body'[d] = body[d]
  BY <1>1 DEF TypeInv, TypeOK, Queries
<1>4. ASSUME NEW d \in Collections PROVE CollectionInv(d)'
  <2>1. CollectionInv(d)
    BY DEF ReadInv
  <2>2. CASE d # c
    BY <1>1, <1>2, <1>3, <2>1, <2>2
       DEF CollectionInv, Streamed, Unwritten, Written, NoHits, Announced
  <2>3. CASE d = c
    <3>1. ~iter[c].opened
      BY <1>1, <2>1, <2>3 DEF CollectionInv, Streamed
    <3>2. "returned" \in out.printed => req.format = "GML"
      BY <1>1 DEF ReadInv, Printed
    <3>3. Done(c)'
      <4>1. at \in Nat
        BY DEF TypeInv, TypeOK, Collections
      <4>2. req.queries \in Nat /\ c <= req.queries
        BY <1>1 DEF ReadInv, Position, TypeInv, TypeOK, RequestType, Collections
      <4>3. AfterMembers = "responded" \/ (AfterMembers = "returned" /\ req.format # "GML")
        BY DEF AfterMembers
      <4>. QED
        BY <1>1, <4>1, <4>2, <4>3 DEF NextCollection, Done
    <3>. QED
      BY <1>1, <1>2, <1>3, <2>1, <2>3, <3>1, <3>2, <3>3
         DEF CollectionInv, Streamed, Unwritten, Written, NoHits, Announced
  <2>. QED
    BY <2>2, <2>3
<1>. QED
  BY <1>2, <1>4 DEF ReadInv

(* What the steps of an iterator do to its record.                         *)
LEMMA OpenEffect ==
    ASSUME TypeInv, NEW c \in Collections, OpenIterator(c)
    PROVE  /\ \A d \in Collections : d # c => iter'[d] = iter[d]
           /\ iter'[c].opened = TRUE /\ iter'[c].returned = iter[c].returned
           /\ iter'[c].hasMore = iter[c].hasMore
           /\ ~Endless => Cardinality(iter'[c].pending) <= Count + 1
<1>1. /\ iter \in [Collections -> IteratorType] /\ table[c] \in SUBSET Rows
      /\ req \in RequestType
  BY DEF TypeInv, TypeOK
<1>2. PICK rows \in Slices(table[c], Start, StopWithSentinel) :
          iter' = [iter EXCEPT ![c].opened = TRUE, ![c].pending = rows]
  BY DEF OpenIterator
<1>3. ASSUME ~Endless PROVE Cardinality(rows) <= Count + 1
  <2>1. /\ Start \in Nat /\ StopWithSentinel \in Nat /\ Start <= StopWithSentinel
        /\ StopWithSentinel - Start = Count + 1
    BY <1>1, <1>3, PageTypes DEF Stop, StopWithSentinel
  <2>. QED
    BY <1>1, <2>1, SlicesSize
<1>. QED
  BY <1>1, <1>2, <1>3 DEF IteratorType

LEMMA StreamEffect ==
    ASSUME TypeInv, NEW c \in Collections, NEW r, StreamRow(c, r)
    PROVE  /\ \A d \in Collections : d # c => iter'[d] = iter[d] /\ body'[d] = body[d]
           /\ iter[c].opened /\ r \in iter[c].pending
           /\ iter'[c].opened = TRUE /\ iter'[c].hasMore = iter[c].hasMore
           /\ iter'[c].returned = iter[c].returned + 1
           /\ iter'[c].pending = iter[c].pending \ {r}
           /\ body'[c] = body[c] \union {r}
<1>1. iter \in [Collections -> IteratorType] /\ body \in [Collections -> SUBSET Rows]
  BY DEF TypeInv, TypeOK
<1>2. /\ iter' = [iter EXCEPT ![c].returned = iter[c].returned + 1,
                             ![c].pending = iter[c].pending \ {r}]
      /\ body' = [body EXCEPT ![c] = body[c] \union {r}]
      /\ iter[c].opened /\ r \in iter[c].pending
  BY DEF StreamRow
<1>. QED
  BY <1>1, <1>2 DEF IteratorType

LEMMA CloseEffect ==
    ASSUME TypeInv, NEW c \in Collections, CloseIterator(c)
    PROVE  /\ \A d \in Collections : d # c => iter'[d] = iter[d]
           /\ iter[c].opened
           /\ iter'[c].opened = TRUE /\ iter'[c].returned = iter[c].returned
           /\ iter'[c].pending = {}
<1>1. iter \in [Collections -> IteratorType]
  BY DEF TypeInv, TypeOK
<1>2. PICK more : iter' = [iter EXCEPT ![c].hasMore = more, ![c].pending = {}]
  BY DEF CloseIterator
<1>3. iter[c].opened
  BY DEF CloseIterator
<1>. QED
  BY <1>1, <1>2, <1>3 DEF IteratorType

LEMMA OpenReadInv ==
    ASSUME TypeInv, ReadInv, NEW c \in Collections, OpenIterator(c)
    PROVE  ReadInv'
<1>1. /\ stage = "members" /\ c = at /\ ~req.hits /\ ~sfc[c].fetched /\ ~iter[c].opened
      /\ UNCHANGED <<stage, at, mode, req, sfc, body, out>>
  BY DEF OpenIterator
<1>2. Queries' = Queries /\ at \in Nat
  BY <1>1 DEF Queries, TypeInv, TypeOK, Collections
<1>3. \A d \in Collections : (NotYet(d)' <=> NotYet(d)) /\ (Done(d)' <=> Done(d))
  BY <1>1 DEF NotYet, Done
<1>4. ASSUME NEW d \in Collections PROVE CollectionInv(d)'
  <2>1. CollectionInv(d)
    BY DEF ReadInv
  <2>2. CASE d # c
    BY <1>1, <1>2, <1>3, <2>1, <2>2, OpenEffect
       DEF CollectionInv, Streamed, Unwritten, Written, NoHits, Announced
  <2>3. CASE d = c
    <3>1. ~NotYet(c) /\ ~Done(c)
      BY <1>1, <1>2 DEF NotYet, Done
    <3>2. body[c] = {} /\ iter[c].returned = Cardinality(body[c])
      BY <1>1, <2>1, <2>3, <3>1, FS_EmptySet DEF CollectionInv, Unwritten
    <3>3. "returned" \in out.printed => c \notin Queries
      BY <1>1, <2>1, <2>3 DEF ReadInv, Printed, CollectionInv, Announced
    <3>. QED
      BY <1>1, <1>2, <1>3, <2>1, <2>3, <3>1, <3>2, <3>3, OpenEffect
         DEF CollectionInv, Streamed, Unwritten, Written, NoHits, Announced
  <2>. QED
    BY <2>2, <2>3
<1>5. Position' /\ Printed'
  BY <1>1, <1>3 DEF ReadInv, Position, Printed, NotYet
<1>. QED
  BY <1>4, <1>5 DEF ReadInv

LEMMA StreamReadInv ==
    ASSUME TypeInv, ReadInv, NEW c \in Collections, NEW r, StreamRow(c, r)
    PROVE  ReadInv'
<1>1. stage = "members" /\ c = at /\ UNCHANGED <<stage, at, mode, req, sfc, out>>
  BY DEF StreamRow
<1>2. Queries' = Queries
  BY <1>1 DEF Queries
<1>3. \A d \in Collections : (NotYet(d)' <=> NotYet(d)) /\ (Done(d)' <=> Done(d))
  BY <1>1 DEF NotYet, Done
<1>4. ASSUME NEW d \in Collections PROVE CollectionInv(d)'
  <2>1. CollectionInv(d) /\ CollectionInv(c)
    BY DEF ReadInv
  <2>4. /\ \A e \in Collections : e # c => iter'[e] = iter[e] /\ body'[e] = body[e]
        /\ iter[c].opened /\ r \in iter[c].pending /\ iter'[c].opened
        /\ iter'[c].returned = iter[c].returned + 1
        /\ iter'[c].pending = iter[c].pending \ {r}
        /\ body'[c] = body[c] \union {r}
    BY StreamEffect
  <2>2. CASE d # c
    BY <1>1, <1>2, <1>3, <2>1, <2>2, <2>4
       DEF CollectionInv, Streamed, Unwritten, Written, NoHits, Announced
  <2>3. CASE d = c
    <3>1. r \notin body[c] /\ IsFiniteSet(body[c])
      BY <2>1, <2>3, <2>4, RowsAreFinite
         DEF CollectionInv, Streamed, TypeInv, TypeOK
    <3>2. Cardinality(body[c] \union {r}) = Cardinality(body[c]) + 1
      BY <3>1, FS_AddElement
    <3>3. Streamed(c)'
      <4>1. body'[c] \intersect iter'[c].pending = {}
        BY <2>1, <2>4 DEF CollectionInv, Streamed
      <4>2. iter'[c].returned = Cardinality(body'[c])
        BY <2>1, <2>4, <3>2 DEF CollectionInv, Streamed
      <4>. QED
        BY <1>1, <1>3, <2>1, <2>4, <4>1, <4>2 DEF CollectionInv, Streamed
    <3>4. "returned" \in out.printed => c \notin Queries
      BY <1>1, <2>1, <2>3, <2>4 DEF ReadInv, Printed, CollectionInv, Announced
    <3>. QED
      BY <1>1, <1>2, <1>3, <2>1, <2>3, <3>3, <3>4, <2>4
         DEF CollectionInv, Unwritten, Written, NoHits, Announced
  <2>. QED
    BY <2>2, <2>3
<1>5. Position' /\ Printed'
  BY <1>1, <1>3 DEF ReadInv, Position, Printed, NotYet
<1>. QED
  BY <1>4, <1>5 DEF ReadInv

LEMMA CloseReadInv ==
    ASSUME TypeInv, ReadInv, NEW c \in Collections, CloseIterator(c)
    PROVE  ReadInv'
<1>1. /\ stage = "members" /\ c = at /\ NextCollection
      /\ UNCHANGED <<mode, req, sfc, body, out>>
  BY DEF CloseIterator
<1>2. /\ \A d \in Collections : NotYet(d)' => NotYet(d) /\ d # at
      /\ \A d \in Collections : Done(d) => Done(d)'
      /\ \A d \in Queries : Done(d)' => Done(d) \/ d = at
      /\ Position' /\ Printed'
  BY <1>1, NextCollectionEffect
<1>3. Queries' = Queries
  BY <1>1 DEF Queries
<1>4. ASSUME NEW d \in Collections PROVE CollectionInv(d)'
  <2>1. CollectionInv(d)
    BY DEF ReadInv
  <2>2. CASE d # c
    BY <1>1, <1>2, <1>3, <2>1, <2>2, CloseEffect
       DEF CollectionInv, Streamed, Unwritten, Written, NoHits, Announced
  <2>3. CASE d = c
    BY <1>1, <1>2, <1>3, <2>1, <2>3, CloseEffect
       DEF CollectionInv, Streamed, Unwritten, Written, NoHits, Announced
  <2>. QED
    BY <2>2, <2>3
<1>. QED
  BY <1>2, <1>4 DEF ReadInv

LEMMA NextReadInv == TypeInv /\ ReadInv /\ [Next]_vars => ReadInv'
<1>. SUFFICES ASSUME TypeInv, ReadInv, [Next]_vars PROVE ReadInv'
  OBVIOUS
<1>1. CASE ReadDatabase
  BY <1>1, FetchReadInv, CountReadInv DEF ReadDatabase
<1>2. CASE WriteLinks
  BY <1>2, LinksReadInv
<1>3. CASE Render
  BY <1>3, PrintMatchedReadInv, PrintReturnedReadInv, WriteCachedReadInv, OpenReadInv,
     StreamReadInv, CloseReadInv DEF Render
<1>4. CASE SendRequest \/ FollowNext
  <2>1. req \in RequestType /\ out.next.start \in Int /\ out.next.count \in Nat
    BY DEF TypeInv, TypeOK, ResponseType, LinkType
  <2>2. [req EXCEPT !.startIndex = out.next.start, !.count = out.next.count] \in RequestType
    BY <2>1 DEF RequestType
  <2>. QED
    BY <1>4, <2>1, <2>2, StartReadInv DEF SendRequest, FollowNext
<1>5. CASE Stay
  <2>1. /\ stage = "responded" /\ stage' = "over"
        /\ UNCHANGED <<at, mode, req, sfc, iter, body, out>>
    BY <1>5 DEF Stay, server
  <2>2. \A c \in Collections : (NotYet(c)' => NotYet(c)) /\ (Done(c)' <=> Done(c))
    BY <2>1 DEF NotYet, Done
  <2>3. Position' /\ Printed'
    BY <2>1 DEF ReadInv, Position, Printed, NotYet
  <2>. QED
    BY <2>1, <2>2, <2>3, MoveReadInv
<1>6. CASE Database \/ UNCHANGED vars
  <2>1. UNCHANGED <<stage, at, mode, req, sfc, iter, body, out>>
    BY <1>6 DEF Database, Insert, Delete, Write, server, vars
  <2>. QED
    BY <2>1, SameReadInv
<1>. QED
  BY <1>1, <1>2, <1>3, <1>4, <1>5, <1>6 DEF Next, Server, Client

LEMMA ReadInvariant == Spec => [](TypeInv /\ ReadInv)
<1>1. Init => TypeInv /\ ReadInv
  BY InitTypeInv, InitReadInv
<1>2. TypeInv /\ ReadInv /\ [Next]_vars => (TypeInv /\ ReadInv)'
  BY NextTypeInv, NextReadInv
<1>. QED
  BY <1>1, <1>2, PTL DEF Spec

(* The results of a query are not read twice, whatever is asked of a       *)
(* collection and in whatever order.                                       *)
THEOREM ResultsAreReadOnce == Spec => []ReadOnce
<1>1. ReadInv => ReadOnce
  BY DEF ReadInv, CollectionInv, Streamed, ReadOnce
<1>. QED
  BY <1>1, ReadInvariant, PTL

(* The numberReturned of every response, in the header or in the footer,   *)
(* is the number of features that are in it.                               *)
THEOREM NumberReturnedIsCorrect == Spec => []NumberReturnedIsWritten
<1>1. TypeInv /\ ReadInv => NumberReturnedIsWritten
  <2>. SUFFICES ASSUME TypeInv, ReadInv, Responded, "returned" \in out.printed,
                       NEW c \in Queries
                PROVE  out.returned[c] = Cardinality(body[c])
    BY DEF NumberReturnedIsWritten
  <2>1. c \in Collections
    BY PageTypes DEF TypeInv, TypeOK
  <2>2. Done(c)
    BY DEF Responded, Done
  <2>. QED
    BY <2>1, <2>2 DEF ReadInv, CollectionInv, Written, Announced
<1>. QED
  BY <1>1, ReadInvariant, PTL

-----------------------------------------------------------------------------
(* SizeInv is inductive, next to ReadInv.                                  *)

LEMMA CountIsNatural == TypeInv /\ ~Endless => Count \in Nat
BY PageTypes DEF TypeInv, TypeOK

LEMMA CountIsPositive ==
    ASSUME TypeInv, ~req.hits, ~Endless
    PROVE  Count \in Nat /\ Count # 0
<1>1. req.count \in Nat /\ req.format \in Formats
  BY DEF TypeInv, TypeOK, RequestType
<1>2. MaxPageSize \in (Nat \ {0}) \union {Infinity}
  BY <1>1, MaxPageAssumption DEF MaxPageSize
<1>. QED
  BY <1>1, <1>2, InfinityAssumption DEF Count, Smallest, DefaultPageSize, Endless

LEMMA EmptySizeInv ==
    ASSUME stage \in {"idle", "hits", "links"},
           ~Endless => Count \in Nat,
           \A c \in Collections :
               /\ sfc[c].hasMore = "unknown" /\ sfc[c].cache = {}
               /\ iter[c].hasMore = "unknown" /\ ~iter[c].opened
    PROVE  SizeInv
<1>1. Cardinality({}) = 0
  BY FS_EmptySet
<1>2. ASSUME NEW c \in Collections PROVE SizeOK(c)
  <2>1. ~Endless => 0 <= Count
    OBVIOUS
  <2>2. Cardinality(sfc[c].cache) = 0
    BY <1>1
  <2>. QED
    BY <2>1, <2>2 DEF SizeOK
<1>. QED
  BY <1>2 DEF SizeInv, FirstIsRead

(* The page of a request is fixed; so are the limits that follow from it.  *)
LEMMA LimitsAreFixed ==
    ASSUME UNCHANGED <<req, mode>>
    PROVE  /\ Count' = Count /\ (Endless' <=> Endless)
           /\ \A c \in Collections : MaxResults(c)' = MaxResults(c)
BY PageIsFixed DEF MaxResults

LEMMA SameSizeOK ==
    ASSUME SizeInv, UNCHANGED <<req, mode>>, NEW c \in Collections,
           sfc'[c].fetched = sfc[c].fetched, sfc'[c].cache = sfc[c].cache,
           sfc'[c].hasMore = sfc[c].hasMore, iter'[c] = iter[c]
    PROVE  SizeOK(c)'
<1>1. SizeOK(c)
  BY DEF SizeInv
<1>2. /\ Count' = Count /\ (Endless' <=> Endless) /\ MaxResults(c)' = MaxResults(c)
  BY LimitsAreFixed
<1>. QED
  BY <1>1, <1>2 DEF SizeOK

LEMMA FirstStaysRead ==
    ASSUME TypeInv, SizeInv, UNCHANGED <<req, mode>>,
           stage' \in {"hits", "links", "all"} \/ stage \notin {"idle", "hits", "links", "all"},
           sfc[1].fetched => sfc'[1].fetched
    PROVE  FirstIsRead'
BY LimitsAreFixed DEF SizeInv, FirstIsRead

(* The links are not decided before the first collection has been read.    *)
LEMMA LinksReadFirst ==
    ASSUME TypeInv, ReadInv, SizeInv, stage = "all", IsSurelyLastPageKnown(1),
           ~Endless, ~req.hits
    PROVE  sfc[1].fetched
<1>1. 1 \in Collections
  BY NAssumption DEF Collections
<1>2. ~iter[1].opened
  BY <1>1 DEF ReadInv, CollectionInv, Streamed, NotYet
<1>3. iter[1].hasMore = "unknown" /\ (sfc[1].hasMore # "unknown" => sfc[1].fetched)
  BY <1>1, <1>2 DEF SizeInv, SizeOK
<1>4. ~NoPage
  <2>1. Start \in Nat /\ Count \in Nat /\ Count # 0
    BY CountIsPositive, PageTypes DEF TypeInv, TypeOK
  <2>. QED
    BY <2>1 DEF NoPage, Stop
<1>. QED
  BY <1>2, <1>3, <1>4 DEF IsSurelyLastPageKnown, SentinelSeen, NumberReturnedKnown

LEMMA DatabaseReadSizeInv ==
    ASSUME TypeInv, SizeInv, ReadDatabase
    PROVE  SizeInv'
<1>0. 1 \in Collections
  BY NAssumption DEF Collections
<1>1. ASSUME NEW c \in Collections, FetchResults(c) PROVE SizeInv'
  <2>1. /\ \A d \in Collections : d # c => sfc'[d] = sfc[d]
        /\ sfc'[c].fetched = TRUE
        /\ ~Endless => Cardinality(sfc'[c].cache) <= Count
        /\ UNCHANGED <<stage, at, mode, req, iter, body, out>>
    BY <1>1, FetchEffect
  <2>2. ASSUME NEW d \in Collections PROVE SizeOK(d)'
    <3>1. CASE d # c
      BY <2>1, <3>1, SameSizeOK
    <3>2. CASE d = c
      BY <2>1, <3>2, LimitsAreFixed DEF SizeInv, SizeOK
    <3>. QED
      BY <3>1, <3>2
  <2>3. FirstIsRead'
    <3>1. sfc[1].fetched => sfc'[1].fetched
      BY <1>0, <2>1
    <3>2. stage' \in {"hits", "links", "all"} \/ stage \notin {"idle", "hits", "links", "all"}
      BY <1>1, <2>1 DEF FetchResults, IsNext, Waiting
    <3>. QED
      BY <2>1, <3>1, <3>2, FirstStaysRead
  <2>. QED
    BY <2>2, <2>3 DEF SizeInv
<1>2. ASSUME NEW c \in Collections, CountMatched(c) \/ CountHits(c) PROVE SizeInv'
  <2>1. /\ \A d \in Collections :
              /\ sfc'[d].fetched = sfc[d].fetched
              /\ sfc'[d].cache = sfc[d].cache
              /\ sfc'[d].hasMore = sfc[d].hasMore
        /\ UNCHANGED <<mode, req, iter, body>>
    BY <1>2, CountEffect
  <2>2. \A d \in Collections : SizeOK(d)'
    BY <2>1, SameSizeOK
  <2>3. stage' \in {"hits", "links", "all"} \/ stage \notin {"idle", "hits", "links", "all"}
    BY <1>2 DEF CountMatched, CountHits, IsNext, Waiting
  <2>4. FirstIsRead'
    BY <1>0, <2>1, <2>3, FirstStaysRead
  <2>. QED
    BY <2>2, <2>4 DEF SizeInv
<1>. QED
  BY <1>1, <1>2 DEF ReadDatabase

LEMMA LinksSizeInv ==
    ASSUME TypeInv, ReadInv, SizeInv, WriteLinks
    PROVE  SizeInv'
<1>1. UNCHANGED <<mode, req, sfc, iter>>
  BY DEF WriteLinks, SkipLinks, SetPrevious, NoCollectionHasNext, SomeMayHaveNext, SetNext, server
<1>2. \A d \in Collections : SizeOK(d)'
  BY <1>1, SameSizeOK
<1>3. 1 \in Queries
  BY DEF TypeInv, TypeOK, RequestType, Collections, Queries
<1>4. CASE SkipLinks
  <2>1. req.hits \/ Endless
    BY <1>4 DEF SkipLinks
  <2>2. FirstIsRead'
    BY <1>1, <2>1, LimitsAreFixed DEF FirstIsRead
  <2>. QED
    BY <1>2, <2>2 DEF SizeInv
<1>5. CASE SetPrevious
  <2>1. stage' = "all"
    BY <1>5 DEF SetPrevious
  <2>. QED
    BY <1>2, <2>1 DEF SizeInv, FirstIsRead
<1>6. ASSUME stage = "all", IsSurelyLastPageKnown(1) PROVE FirstIsRead'
  BY <1>1, <1>6, LimitsAreFixed, LinksReadFirst DEF FirstIsRead
<1>7. ASSUME stage = "any" PROVE FirstIsRead'
  BY <1>1, <1>7, FirstStaysRead
<1>8. CASE NoCollectionHasNext
  <2>1. stage = "all" => SurelyLast(1)
    BY <1>3, <1>8 DEF NoCollectionHasNext, Waiting
  <2>. QED
    BY <1>2, <1>6, <1>7, <1>8, <2>1 DEF NoCollectionHasNext, SurelyLast, SizeInv
<1>9. ASSUME NEW c \in Collections, SomeMayHaveNext(c) PROVE SizeInv'
  <2>1. stage = "all" /\ IsNext(c) /\ IsSurelyLastPageKnown(c)
    BY <1>9 DEF SomeMayHaveNext
  <2>2. CASE c = 1
    BY <1>2, <1>6, <2>1, <2>2 DEF SizeInv
  <2>3. CASE c # 1
    <3>1. 1 \notin Waiting
      BY <2>1, <2>3 DEF IsNext, Collections
    <3>2. SurelyLast(1)
      BY <1>3, <2>1, <3>1 DEF Waiting
    <3>. QED
      BY <1>2, <1>6, <2>1, <3>2 DEF SurelyLast, SizeInv
  <2>. QED
    BY <2>2, <2>3
<1>10. ASSUME NEW c \in Collections, SetNext(c) PROVE SizeInv'
  BY <1>2, <1>7, <1>10 DEF SetNext, SizeInv
<1>. QED
  BY <1>2, <1>4, <1>5, <1>8, <1>9, <1>10 DEF WriteLinks, SizeInv

LEMMA OpenSizeInv ==
    ASSUME TypeInv, ReadInv, SizeInv, NEW c \in Collections, OpenIterator(c)
    PROVE  \A d \in Collections : SizeOK(d)'
<1>1. ~iter[c].opened /\ UNCHANGED <<mode, req, sfc>>
  BY DEF OpenIterator
<1>2. /\ \A d \in Collections : d # c => iter'[d] = iter[d]
      /\ iter'[c].opened = TRUE /\ iter'[c].returned = iter[c].returned
      /\ iter'[c].hasMore = iter[c].hasMore
      /\ ~Endless => Cardinality(iter'[c].pending) <= Count + 1
  BY OpenEffect
<1>3. iter[c].returned = 0
  BY <1>1 DEF ReadInv, CollectionInv
<1>4. SizeOK(c)'
  <2>1. SizeOK(c)
    BY DEF SizeInv
  <2>2. iter'[c].pending \in SUBSET Rows
    <3>1. PICK rows \in Slices(table[c], Start, StopWithSentinel) :
              iter' = [iter EXCEPT ![c].opened = TRUE, ![c].pending = rows]
      BY DEF OpenIterator
    <3>2. rows \in SUBSET Rows /\ iter \in [Collections -> IteratorType]
      BY <3>1, SlicesAreRows DEF TypeInv, TypeOK
    <3>. QED
      BY <3>1, <3>2 DEF IteratorType
  <2>3. Cardinality(iter'[c].pending) \in Nat
    BY <2>2, RowsAreFinite
  <2>4. ~Endless => Count \in Nat
    BY CountIsNatural
  <2>5. ~Endless => /\ iter'[c].returned + Cardinality(iter'[c].pending) <= Count + 1
                    /\ iter'[c].returned <= Count
    BY <1>2, <1>3, <2>3, <2>4
  <2>. QED
    BY <1>1, <1>2, <2>1, <2>5, LimitsAreFixed DEF SizeOK
<1>. QED
  BY <1>1, <1>2, <1>4, SameSizeOK

LEMMA StreamSizeInv ==
    ASSUME TypeInv, SizeInv, NEW c \in Collections, NEW r, StreamRow(c, r)
    PROVE  \A d \in Collections : SizeOK(d)'
<1>1. UNCHANGED <<mode, req, sfc>> /\ ~AtSentinel(c)
  BY DEF StreamRow
<1>2. /\ \A d \in Collections : d # c => iter'[d] = iter[d]
      /\ iter[c].opened /\ r \in iter[c].pending
      /\ iter'[c].opened = TRUE /\ iter'[c].hasMore = iter[c].hasMore
      /\ iter'[c].returned = iter[c].returned + 1
      /\ iter'[c].pending = iter[c].pending \ {r}
  BY StreamEffect
<1>3. SizeOK(c)'
  <2>1. SizeOK(c)
    BY DEF SizeInv
  <2>2. iter[c].pending \in SUBSET Rows /\ iter[c].returned \in Nat
    BY DEF TypeInv, TypeOK, IteratorType
  <2>3. /\ Cardinality(iter[c].pending) \in Nat
        /\ Cardinality(iter'[c].pending) = Cardinality(iter[c].pending) - 1
    BY <1>2, <2>2, RowsAreFinite, FS_RemoveElement
  <2>4. ~Endless => Count \in Nat
    BY CountIsNatural
  <2>5. MaxResults(c) # 0 => MaxResults(c) = Count /\ iter[c].returned # Count
    BY <1>1 DEF AtSentinel, MaxResults
  <2>6. ~Endless => /\ iter'[c].returned + Cardinality(iter'[c].pending) <= Count + 1
                    /\ MaxResults(c) # 0 => iter'[c].returned <= Count
    BY <1>2, <2>1, <2>2, <2>3, <2>4, <2>5 DEF SizeOK
  <2>. QED
    BY <1>1, <1>2, <2>1, <2>6, LimitsAreFixed DEF SizeOK
<1>. QED
  BY <1>1, <1>2, <1>3, SameSizeOK

LEMMA CloseSizeInv ==
    ASSUME TypeInv, SizeInv, NEW c \in Collections, CloseIterator(c)
    PROVE  \A d \in Collections : SizeOK(d)'
<1>1. UNCHANGED <<mode, req, sfc>>
  BY DEF CloseIterator
<1>2. /\ \A d \in Collections : d # c => iter'[d] = iter[d]
      /\ iter[c].opened
      /\ iter'[c].opened = TRUE /\ iter'[c].returned = iter[c].returned
      /\ iter'[c].pending = {}
  BY CloseEffect
<1>3. SizeOK(c)'
  <2>1. SizeOK(c)
    BY DEF SizeInv
  <2>2. iter[c].pending \in SUBSET Rows /\ iter[c].returned \in Nat
    BY DEF TypeInv, TypeOK, IteratorType
  <2>3. Cardinality(iter[c].pending) \in Nat /\ Cardinality(iter'[c].pending) = 0
    BY <1>2, <2>2, RowsAreFinite, FS_EmptySet
  <2>4. ~Endless => Count \in Nat
    BY CountIsNatural
  <2>5. ~Endless => /\ iter'[c].returned + Cardinality(iter'[c].pending) <= Count + 1
                    /\ MaxResults(c) # 0 => iter'[c].returned <= Count
    BY <1>2, <2>1, <2>2, <2>3, <2>4 DEF SizeOK
  <2>. QED
    BY <1>1, <1>2, <2>1, <2>5, LimitsAreFixed DEF SizeOK
<1>. QED
  BY <1>1, <1>2, <1>3, SameSizeOK

LEMMA RenderSizeInv ==
    ASSUME TypeInv, ReadInv, SizeInv, Render
    PROVE  SizeInv'
<1>1. UNCHANGED <<mode, req, sfc>>
  BY DEF Render, PrintMatched, PrintReturned, WriteCached, OpenIterator, CloseIterator, StreamRow
<1>2. stage \in {"matched", "returned", "members"}
  BY DEF Render, PrintMatched, PrintReturned, WriteCached, OpenIterator, CloseIterator, StreamRow
<1>3. FirstIsRead'
  BY <1>1, <1>2, FirstStaysRead
<1>4. ASSUME UNCHANGED iter PROVE \A d \in Collections : SizeOK(d)'
  BY <1>1, <1>4, SameSizeOK
<1>5. \A d \in Collections : SizeOK(d)'
  BY <1>4, OpenSizeInv, StreamSizeInv, CloseSizeInv
     DEF Render, PrintMatched, PrintReturned, WriteCached
<1>. QED
  BY <1>3, <1>5 DEF SizeInv

LEMMA NextSizeInv == TypeInv /\ ReadInv /\ SizeInv /\ [Next]_vars => SizeInv'
<1>. SUFFICES ASSUME TypeInv, ReadInv, SizeInv, [Next]_vars PROVE SizeInv'
  OBVIOUS
<1>1. CASE ReadDatabase \/ WriteLinks \/ Render
  BY <1>1, DatabaseReadSizeInv, LinksSizeInv, RenderSizeInv
<1>2. CASE SendRequest \/ FollowNext
  <2>1. /\ stage' \in {"hits", "links"}
        /\ \A c \in Collections :
              /\ sfc'[c].hasMore = "unknown" /\ sfc'[c].cache = {}
              /\ iter'[c].hasMore = "unknown" /\ ~iter'[c].opened
    BY <1>2 DEF SendRequest, FollowNext, StartOperation, UnreadCollection, NoIterator
  <2>2. TypeInv'
    BY NextTypeInv
  <2>3. (TypeInv /\ ~Endless => Count \in Nat)'
    BY CountIsNatural, PTL
  <2>4. ASSUME NEW c \in Collections PROVE SizeOK(c)'
    <3>1. Cardinality({}) = 0 /\ (~Endless' => 0 <= Count')
      BY <2>2, <2>3, FS_EmptySet
    <3>. QED
      BY <2>1, <3>1 DEF SizeOK
  <2>. QED
    BY <2>1, <2>4 DEF SizeInv, FirstIsRead
<1>3. CASE Stay \/ Database \/ UNCHANGED vars
  <2>1. /\ UNCHANGED <<mode, req, sfc, iter>>
        /\ stage' = stage \/ stage = "responded"
    BY <1>3 DEF Stay, Database, Insert, Delete, Write, server, vars
  <2>2. \A d \in Collections : SizeOK(d)'
    BY <2>1, SameSizeOK
  <2>3. FirstIsRead'
    BY <2>1, LimitsAreFixed DEF SizeInv, FirstIsRead
  <2>. QED
    BY <2>2, <2>3 DEF SizeInv
<1>. QED
  BY <1>1, <1>2, <1>3 DEF Next, Server, Client

LEMMA InitSizeInv == Init => SizeInv
<1>. SUFFICES ASSUME Init PROVE SizeInv
  OBVIOUS
<1>1. /\ stage = "idle"
      /\ \A c \in Collections :
            /\ sfc[c].hasMore = "unknown" /\ sfc[c].cache = {}
            /\ iter[c].hasMore = "unknown" /\ ~iter[c].opened
  BY DEF Init, UnreadCollection, NoIterator
<1>2. ~Endless => Count \in Nat
  BY InitTypeInv, CountIsNatural
<1>. QED
  BY <1>1, <1>2, EmptySizeInv

LEMMA SizeInvariant == Spec => [](TypeInv /\ ReadInv /\ SizeInv)
<1>1. Init => TypeInv /\ ReadInv /\ SizeInv
  BY InitTypeInv, InitReadInv, InitSizeInv
<1>2. TypeInv /\ ReadInv /\ SizeInv /\ [Next]_vars => (TypeInv /\ ReadInv /\ SizeInv)'
  BY NextTypeInv, NextReadInv, NextSizeInv
<1>. QED
  BY <1>1, <1>2, PTL DEF Spec

(* Every page is bounded by COUNT and by max_page_size, exactly for GML,   *)
(* for a single query and where the iterator knows the sentinel, and to    *)
(* within that one row elsewhere.                                          *)
THEOREM PageSizeIsRespected == Spec => []PageSizeRespectedWhenRead
<1>1. TypeInv /\ ReadInv /\ SizeInv => PageSizeRespectedWhenRead
  <2>. SUFFICES ASSUME TypeInv, ReadInv, SizeInv, NEW c \in Queries, ~Endless
                PROVE  Cardinality(body[c]) <= IF KeepsPageSize(c) THEN Count ELSE Count + 1
    BY DEF PageSizeRespectedWhenRead
  <2>1. /\ c \in Collections /\ Count \in Nat
        /\ Cardinality(iter[c].pending) \in Nat
        /\ iter[c].returned \in Nat
        /\ body[c] \in SUBSET Rows
    BY PageTypes, RowsAreFinite DEF TypeInv, TypeOK, IteratorType
  <2>2. CollectionInv(c) /\ SizeOK(c)
    BY <2>1 DEF ReadInv, SizeInv
  <2>3. CASE ~iter[c].opened
    <3>1. body[c] = {} \/ body[c] = sfc[c].cache
      BY <2>2, <2>3 DEF CollectionInv, Unwritten, Written
    <3>2. Cardinality(body[c]) <= Count
      <4>1. Cardinality({}) = 0 /\ 0 <= Count
        BY <2>1, FS_EmptySet
      <4>2. Cardinality(sfc[c].cache) <= Count
        BY <2>2 DEF SizeOK
      <4>. QED
        BY <3>1, <4>1, <4>2
    <3>3. Cardinality(body[c]) \in Nat
      BY <2>1, RowsAreFinite
    <3>. QED
      BY <2>1, <3>2, <3>3
  <2>4. CASE iter[c].opened
    <3>1. /\ Cardinality(body[c]) = iter[c].returned
          /\ ~sfc[c].fetched /\ ~req.hits /\ ~NotYet(c)
      BY <2>2, <2>4 DEF CollectionInv, Streamed
    <3>2. iter[c].returned <= Count + 1
      BY <2>1, <2>2, <2>4 DEF SizeOK
    <3>3. req.format # "GML"
      <4>1. SUFFICES ASSUME req.format = "GML" PROVE FALSE
        OBVIOUS
      <4>2. stage \in {"members", "responded", "over"}
        BY <3>1, <4>1 DEF NotYet, TypeInv, TypeOK
      <4>. QED
        BY <2>2, <2>4, <4>1, <4>2 DEF ReadInv, Printed, CollectionInv, Announced
    <3>4. req.queries # 1
      <4>1. SUFFICES ASSUME req.queries = 1 PROVE FALSE
        OBVIOUS
      <4>2. c = 1
        BY <4>1 DEF Queries
      <4>3. stage \notin {"idle", "hits", "links", "all"}
        BY <3>1 DEF NotYet
      <4>. QED
        BY <3>1, <4>2, <4>3 DEF SizeInv, FirstIsRead
    <3>5. UseSentinelRecord /\ ~req.prefetch[c] => iter[c].returned <= Count
      BY <2>1, <2>2, <2>4, <3>1, CountIsPositive DEF SizeOK, MaxResults
    <3>. QED
      BY <3>1, <3>2, <3>3, <3>4, <3>5 DEF KeepsPageSize
  <2>. QED
    BY <2>3, <2>4
<1>. QED
  BY <1>1, SizeInvariant, PTL
=============================================================================
