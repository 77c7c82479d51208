----------------------- MODULE GetFeaturePagesProofs -----------------------
(***************************************************************************)
(* The answers of the collections of GetFeaturePaging do not change within *)
(* a response, although each is computed from whatever was read so far;    *)
(* the next link agrees with the numberMatched that is printed later; and  *)
(* that number is the number of matches.                                   *)
(* GetFeaturePaging implements PagedRead: a client that follows the next   *)
(* links receives every row it was promised, and no row twice, for any     *)
(* tables, page sizes and settings.                                        *)
(***************************************************************************)
EXTENDS GetFeaturePagingProofs

-----------------------------------------------------------------------------
(* What a collection answers depends on what it has read, on the request   *)
(* and on the mode.                                                        *)

SameAnswers(c) ==
    /\ IsSurelyLastPageKnown(c) => (IsSurelyLastPage(c)' <=> IsSurelyLastPage(c))
    /\ HasNextKnown(c) => (HasNext(c)' <=> HasNext(c))
    /\ NumberMatchedKnown(c) => NumberMatched(c)' = NumberMatched(c)

LEMMA AnswersDependOnReads ==
    ASSUME NEW c \in Collections, UNCHANGED <<mode, req>>,
           sfc'[c] = sfc[c], iter'[c] = iter[c]
    PROVE  SameAnswers(c)
<1>1. /\ NoPage' = NoPage /\ Endless' = Endless /\ Count' = Count /\ Start' = Start /\ Stop' = Stop
      /\ UseSentinelRecord' = UseSentinelRecord
  BY PageIsFixed DEF NoPage
<1>2. NumberReturned(c)' = NumberReturned(c) /\ SentinelSeen(c)' = SentinelSeen(c)
  BY <1>1 DEF NumberReturned, SentinelSeen
<1>3. IsSurelyLastPage(c)' = IsSurelyLastPage(c)
  BY <1>1, <1>2 DEF IsSurelyLastPage
<1>4. NumberMatched(c)' = NumberMatched(c)
  BY <1>1, <1>2 DEF NumberMatched
<1>5. HasNext(c)' = HasNext(c)
  BY <1>1, <1>3, <1>4 DEF HasNext
<1>. QED
  BY <1>3, <1>4, <1>5 DEF SameAnswers

(* A page that nobody has read has no answers but those of the request.    *)
LEMMA UnreadAnswers ==
    ASSUME SizeInv, NEW c \in Collections, ~req.hits, ~sfc[c].fetched, ~iter[c].opened
    PROVE  /\ IsSurelyLastPageKnown(c) => NoPage \/ Endless
           /\ HasNextKnown(c) => NoPage \/ Endless
           /\ NumberMatchedKnown(c) => sfc[c].matched # CALCULATE
           /\ sfc[c].hasMore = "unknown" /\ iter[c].hasMore = "unknown"
<1>1. sfc[c].hasMore = "unknown" /\ iter[c].hasMore = "unknown"
  BY DEF SizeInv, SizeOK
<1>2. ~NumberReturnedKnown(c) /\ ~SentinelSeen(c)
  BY <1>1 DEF NumberReturnedKnown, SentinelSeen
<1>. QED
  BY <1>1, <1>2 DEF IsSurelyLastPageKnown, HasNextKnown, NumberMatchedKnown, SurelyLast

(* Reading it, whichever way, keeps them.                                  *)
LEMMA ReadingKeepsAnswers ==
    ASSUME SizeInv, NEW c \in Collections, ~req.hits, ~sfc[c].fetched, ~iter[c].opened,
           UNCHANGED <<mode, req>>, sfc'[c].matched = sfc[c].matched
    PROVE  SameAnswers(c)
<1>1. NoPage' = NoPage /\ Endless' = Endless /\ req'.hits = req.hits
  BY PageIsFixed DEF NoPage
<1>2. IsSurelyLastPageKnown(c) => IsSurelyLastPage(c) /\ IsSurelyLastPage(c)'
  BY <1>1, UnreadAnswers DEF IsSurelyLastPage
<1>3. HasNextKnown(c) => ~HasNext(c) /\ ~HasNext(c)'
  BY <1>1, UnreadAnswers DEF HasNext
<1>4. NumberMatchedKnown(c) => NumberMatched(c)' = NumberMatched(c)
  BY <1>1, UnreadAnswers DEF NumberMatched
<1>. QED
  BY <1>2, <1>3, <1>4 DEF SameAnswers

LEMMA FetchKeepsMatched ==
    ASSUME TypeInv, NEW c \in Collections, FetchResults(c)
    PROVE  sfc'[c].matched = sfc[c].matched
<1>1. sfc \in [Collections -> CollectionType]
  BY DEF TypeInv, TypeOK
<1>2. \/ \E rows : sfc' = [sfc EXCEPT ![c].fetched = TRUE, ![c].cache = rows]
      \/ \E kept, more : sfc' = [sfc EXCEPT ![c].fetched = TRUE, ![c].cache = kept,
                                            ![c].hasMore = more]
  BY DEF FetchResults
<1>. QED
  BY ZenonT(30), <1>1, <1>2 DEF CollectionType

(* A COUNT is only made for a number that has no answer yet, and for has_next  *)
(* only if there is none.                                                  *)
LEMMA CountsUnknownNumber ==
    ASSUME NEW c \in Collections, CountMatched(c)
    PROVE  /\ c \in Queries /\ ~NumberMatchedKnown(c) /\ IsSurelyLastPageKnown(c) /\ ~req.hits
           /\ HasNextKnown(c) => Endless \/ NoPage \/ sfc[c].hasMore # "unknown" \/ SurelyLast(c)
<1>1. c \in Waiting /\ NeedsCount(c) /\ stage \in {"any", "matched", "members"}
  BY DEF CountMatched, IsNext, NeedsCount
<1>2. c \in Queries
  BY <1>1 DEF Waiting
<1>3. CASE stage = "any"
  <2>1. ~HasNextKnown(c) /\ IsSurelyLastPageKnown(c)
    BY <1>1, <1>3 DEF NeedsCount
  <2>. QED
    BY <1>2, <2>1 DEF HasNextKnown, NumberMatchedKnown
<1>4. CASE stage \in {"matched", "members"}
  <2>1. ~NumberMatchedKnown(c) /\ ~NeedsPage(c)
    BY <1>1, <1>4 DEF Waiting, NeedsCount
  <2>2. IsSurelyLastPageKnown(c)
    BY <1>4, <2>1 DEF NeedsPage
  <2>. QED
    BY <1>2, <2>1, <2>2 DEF HasNextKnown, NumberMatchedKnown
<1>. QED
  BY <1>1, <1>3, <1>4

LEMMA CountKeepsAnswers ==
    ASSUME TypeInv, NEW c \in Collections, CountMatched(c)
    PROVE  SameAnswers(c)
<1>1. /\ sfc'[c].fetched = sfc[c].fetched /\ sfc'[c].cache = sfc[c].cache
      /\ sfc'[c].hasMore = sfc[c].hasMore /\ UNCHANGED <<mode, req, iter>>
  BY CountEffect
<1>2. /\ NoPage' = NoPage /\ Endless' = Endless /\ Count' = Count
      /\ UseSentinelRecord' = UseSentinelRecord /\ req'.hits = req.hits
  BY <1>1, PageIsFixed DEF NoPage
<1>3. IsSurelyLastPage(c)' = IsSurelyLastPage(c)
  BY <1>1, <1>2 DEF IsSurelyLastPage, SentinelSeen, NumberReturned
<1>4. HasNextKnown(c) => (HasNext(c)' <=> HasNext(c))
  <2>1. CASE Endless \/ NoPage
    BY <1>2, <2>1 DEF HasNext
  <2>2. CASE sfc[c].hasMore # "unknown"
    BY <1>1, <1>2, <2>2 DEF HasNext
  <2>3. CASE sfc[c].hasMore = "unknown" /\ SurelyLast(c)
    BY <1>1, <1>3, <2>3 DEF HasNext, SurelyLast
  <2>. QED
    BY <2>1, <2>2, <2>3, CountsUnknownNumber
<1>. QED
  BY <1>3, <1>4, CountsUnknownNumber DEF SameAnswers

(* In the middle of a response, a step reads for one collection, writes    *)
(* one that is being read, or leaves all of them alone.                    *)
InResponse == stage \notin {"idle", "hits", "responded"}
LEMMA OneCollectionAtATime ==
    ASSUME InResponse, [Next]_vars
    PROVE  /\ UNCHANGED <<mode, req>>
           /\ \/ UNCHANGED <<sfc, iter>>
              \/ \E d \in Collections :
                    \/ FetchResults(d) \/ CountMatched(d) \/ OpenIterator(d)
                    \/ CloseIterator(d) \/ \E r \in Rows : StreamRow(d, r)
<1>1. CASE ReadDatabase
  <2>1. PICK d \in Collections : FetchResults(d) \/ CountMatched(d)
    BY <1>1 DEF ReadDatabase, CountHits, InResponse
  <2>. QED
    BY <2>1 DEF FetchResults, CountMatched
<1>2. CASE WriteLinks
  BY <1>2 DEF WriteLinks, SkipLinks, SetPrevious, NoCollectionHasNext, SomeMayHaveNext, SetNext, server
<1>3. CASE Render
  BY <1>3 DEF Render, PrintMatched, PrintReturned, WriteCached, OpenIterator, CloseIterator, StreamRow
<1>4. CASE Database
  BY <1>4 DEF Database, Insert, Delete, Write, server
<1>5. CASE UNCHANGED vars
  BY <1>5 DEF vars, server
<1>6. ~Client
  BY DEF Client, SendRequest, FollowNext, Stay, InResponse
<1>. QED
  BY <1>1, <1>2, <1>3, <1>4, <1>5, <1>6 DEF Next, Server

LEMMA StepKeepsAnswers ==
    ASSUME TypeInv, ReadInv, SizeInv, InResponse, [Next]_vars, NEW c \in Queries, ~Reading(c)
    PROVE  SameAnswers(c)
<1>1. /\ c \in Collections /\ iter \in [Collections -> IteratorType]
      /\ sfc \in [Collections -> CollectionType]
  BY PageTypes DEF TypeInv, TypeOK
<1>2. UNCHANGED <<mode, req>>
  BY OneCollectionAtATime
<1>3. CASE UNCHANGED <<sfc, iter>>
  BY <1>1, <1>2, <1>3, AnswersDependOnReads
<1>4. ASSUME NEW d \in Collections, FetchResults(d) PROVE SameAnswers(c)
  <2>1. CASE d = c
    BY <1>1, <1>2, <1>4, <2>1, FetchesUnreadPage, FetchKeepsMatched, ReadingKeepsAnswers
  <2>2. CASE d # c
    BY <1>1, <1>2, <1>4, <2>2, FetchEffect, AnswersDependOnReads
  <2>. QED
    BY <2>1, <2>2
<1>5. ASSUME NEW d \in Collections, CountMatched(d) PROVE SameAnswers(c)
  <2>1. CASE d = c
    BY <1>1, <1>5, <2>1, CountKeepsAnswers
  <2>2. CASE d # c
    <3>1. sfc'[c] = sfc[c] /\ iter' = iter
      BY <1>1, <1>5, <2>2 DEF CountMatched
    <3>. QED
      BY <1>1, <1>2, <3>1, AnswersDependOnReads
  <2>. QED
    BY <2>1, <2>2
<1>6. ASSUME NEW d \in Collections, OpenIterator(d) PROVE SameAnswers(c)
  <2>1. sfc' = sfc /\ ~req.hits /\ ~sfc[d].fetched /\ ~iter[d].opened
    BY <1>6 DEF OpenIterator
  <2>2. CASE d = c
    BY <1>1, <1>2, <2>1, <2>2, ReadingKeepsAnswers
  <2>3. CASE d # c
    <3>1. iter'[c] = iter[c]
      BY <1>1, <1>6, <2>3 DEF OpenIterator
    <3>. QED
      BY <1>1, <1>2, <2>1, <3>1, AnswersDependOnReads
  <2>. QED
    BY <2>2, <2>3
<1>7. ASSUME NEW d \in Collections, CloseIterator(d) \/ \E r \in Rows : StreamRow(d, r)
      PROVE  SameAnswers(c)
  <2>1. d # c
    BY <1>7 DEF CloseIterator, StreamRow, Reading
  <2>2. sfc'[c] = sfc[c] /\ iter'[c] = iter[c]
    BY <1>1, <1>7, <2>1 DEF CloseIterator, StreamRow
  <2>. QED
    BY <1>1, <1>2, <2>2, AnswersDependOnReads
<1>. QED
  BY <1>3, <1>4, <1>5, <1>6, <1>7, OneCollectionAtATime

(* What a collection has answered once, for the links, for the header or   *)
(* for another property, it answers for the rest of the response, whatever *)
(* is read later and whoever writes (the properties of results.py).        *)
THEOREM AnswersDoNotChange == Spec => AnswersAreStable
<1>1. TypeInv /\ ReadInv /\ SizeInv /\ [Next]_vars =>
        [stage \notin {"idle", "hits", "responded"} =>
            \A c \in Queries : ~Reading(c) =>
               /\ IsSurelyLastPageKnown(c) => (IsSurelyLastPage(c)' <=> IsSurelyLastPage(c))
               /\ HasNextKnown(c) => (HasNext(c)' <=> HasNext(c))
               /\ NumberMatchedKnown(c) => NumberMatched(c)' = NumberMatched(c)]_vars
  BY StepKeepsAnswers DEF InResponse, SameAnswers
<1>. QED
  BY <1>1, SizeInvariant, PTL DEF Spec, AnswersAreStable

-----------------------------------------------------------------------------
(* The second theorem is about responses that print a number and may print *)
(* a link.  Such a response does not use the sentinel, so that the size of *)
(* a page and the number of matches decide on the link.                    *)

PrintsBoth == ~req.hits /\ ~Endless /\ req.linkable /\ PrintsNumberMatched

LastBySize(c) == sfc[c].fetched /\ Cardinality(sfc[c].cache) < Count
Counted(c) == sfc[c].matched # CALCULATE
Ends(c) == IF Counted(c) THEN ~(Stop < sfc[c].matched) ELSE LastBySize(c)
GoesOn(c) == Counted(c) /\ Stop < sfc[c].matched

(* The invariant: before the link is decided, a COUNT is only made for a   *)
(* page that is full; from then on, what decided on it is still there, and *)
(* it is what the number is computed from.                                 *)
Undecided == stage \in {"hits", "links", "all", "any"}
Decided == stage \in {"matched", "returned", "members", "responded"}

HitsOnly == stage = "hits" => req.hits
NoLinkYet == Undecided => out.next = NoLink /\ "matched" \notin out.printed
NoSentinel == \A c \in Collections : ~UseSentinelRecord => sfc[c].hasMore = "unknown"
CountedFullPage ==
    PrintsBoth /\ Undecided =>
        \A c \in Collections : Counted(c) =>
            stage = "any" /\ sfc[c].fetched /\ ~LastBySize(c)
LinkIsBacked ==
    PrintsBoth /\ Decided =>
        IF out.next = NoLink THEN \A c \in Queries : Ends(c)
                             ELSE \E c \in Queries : GoesOn(c)
NumberFitsLink ==
    Decided /\ "matched" \in out.printed =>
        /\ PrintsNumberMatched
        /\ PrintsBoth => (out.next # NoLink <=> \E c \in Queries : Stop < out.matched[c])
LinkInv == HitsOnly /\ NoLinkYet /\ NoSentinel /\ CountedFullPage /\ LinkIsBacked /\ NumberFitsLink

LEMMA PageDecides ==
    ASSUME TypeInv, NoSentinel, PrintsBoth, NEW c \in Collections
    PROVE  /\ Start \in Nat /\ Count \in Nat /\ Count > 0 /\ Stop = Start + Count /\ ~NoPage
           /\ sfc[c].hasMore = "unknown"
           /\ IsSurelyLastPageKnown(c) <=> NumberReturnedKnown(c)
           /\ SurelyLast(c) <=> NumberReturnedKnown(c) /\ NumberReturned(c) < Count
<1>1. Start \in Nat /\ Count \in Nat /\ Count > 0 /\ Stop = Start + Count
  <2>1. Start \in Nat /\ Count \in Nat
    BY PageTypes DEF TypeInv, TypeOK, PrintsBoth
  <2>2. Count # 0
    BY CountIsPositive DEF TypeInv, TypeOK, PrintsBoth
  <2>. QED
    BY <2>1, <2>2 DEF PrintsBoth, Stop
<1>2. ~UseSentinelRecord
  BY <1>1 DEF PrintsBoth, PrintsNumberMatched, UseSentinelRecord
<1>3. ~NoPage
  BY <1>1 DEF NoPage
<1>4. sfc[c].hasMore = "unknown" /\ ~SentinelSeen(c)
  BY <1>2 DEF NoSentinel, SentinelSeen
<1>5. IsSurelyLastPageKnown(c) <=> NumberReturnedKnown(c)
  BY <1>3, <1>4 DEF PrintsBoth, IsSurelyLastPageKnown
<1>6. IsSurelyLastPage(c) <=> NumberReturned(c) < Count
  BY <1>1, <1>3, <1>4 DEF PrintsBoth, IsSurelyLastPage
<1>. QED
  BY <1>1, <1>3, <1>4, <1>5, <1>6 DEF SurelyLast

(* A page that ends by its size has its answer, and no COUNT is made.      *)
LEMMA LastBySizeIsKnown ==
    ASSUME TypeInv, ReadInv, NoSentinel, PrintsBoth, NEW c \in Collections
    PROVE  /\ LastBySize(c) => SurelyLast(c) /\ NumberReturnedKnown(c)
           /\ SurelyLast(c) /\ ~iter[c].opened => LastBySize(c)
<1>1. sfc[c].fetched => ~iter[c].opened
  BY DEF ReadInv, CollectionInv, Streamed
<1>2. ~iter[c].opened => NumberReturned(c) = Cardinality(sfc[c].cache)
  BY DEF NumberReturned, PrintsBoth
<1>. QED
  BY <1>1, <1>2, PageDecides DEF LastBySize, NumberReturnedKnown, PrintsBoth

LEMMA SamePrintsBoth ==
    ASSUME UNCHANGED <<req, mode>>
    PROVE  /\ PrintsBoth' <=> PrintsBoth
           /\ PrintsNumberMatched' <=> PrintsNumberMatched
           /\ Stop' = Stop /\ Count' = Count /\ Queries' = Queries
           /\ UseSentinelRecord' <=> UseSentinelRecord
BY PageIsFixed DEF PrintsBoth, PrintsNumberMatched

(* A step that leaves the collections and the link alone, and stays before *)
(* or after the decision.                                                  *)
LEMMA SameLinkInv ==
    ASSUME LinkInv, UNCHANGED <<req, mode, sfc>>,
           out'.next = out.next, out'.matched = out.matched,
           "matched" \in out'.printed <=> "matched" \in out.printed,
           \/ stage' = stage \/ stage' \in {"over"}
           \/ stage \in {"links", "all"} /\ stage' \in {"all", "any"}
           \/ Decided /\ Decided'
    PROVE  LinkInv'
<1>1. \A c \in Collections : (LastBySize(c)' <=> LastBySize(c)) /\ (Counted(c)' <=> Counted(c))
  BY SamePrintsBoth DEF LastBySize, Counted
<1>2. \A c \in Queries : (Ends(c)' <=> Ends(c)) /\ (GoesOn(c)' <=> GoesOn(c))
  BY SamePrintsBoth DEF Ends, GoesOn, LastBySize, Counted
<1>3. HitsOnly' /\ NoLinkYet' /\ NoSentinel'
  BY SamePrintsBoth DEF LinkInv, HitsOnly, NoLinkYet, NoSentinel, Undecided, Decided
<1>4. CountedFullPage'
  BY <1>1, SamePrintsBoth DEF LinkInv, CountedFullPage, Undecided, Decided
<1>5. LinkIsBacked' /\ NumberFitsLink'
  <2>1. Decided' => Decided
    BY DEF Decided
  <2>. QED
    BY <1>2, <2>1, SamePrintsBoth DEF LinkInv, LinkIsBacked, NumberFitsLink
<1>. QED
  BY <1>3, <1>4, <1>5 DEF LinkInv

LEMMA FetchLinkInv ==
    ASSUME TypeInv, LinkInv, NEW c \in Collections, FetchResults(c)
    PROVE  LinkInv'
<1>1. /\ \A d \in Collections : d # c => sfc'[d] = sfc[d]
      /\ UNCHANGED <<stage, at, mode, req, iter, body, out>>
  BY FetchEffect
<1>2. ~sfc[c].fetched /\ sfc'[c].matched = sfc[c].matched
  BY FetchesUnreadPage, FetchKeepsMatched
<1>3. \A d \in Collections : Counted(d)' <=> Counted(d)
  BY <1>1, <1>2 DEF Counted
<1>4. NoSentinel'
  <2>1. ~UseSentinelRecord => sfc'[c].hasMore = sfc[c].hasMore
    <3>1. SUFFICES ASSUME ~UseSentinelRecord PROVE sfc'[c].hasMore = sfc[c].hasMore
      OBVIOUS
    <3>2. PICK rows : sfc' = [sfc EXCEPT ![c].fetched = TRUE, ![c].cache = rows]
      BY <3>1 DEF FetchResults
    <3>. QED
      BY <3>2 DEF TypeInv, TypeOK, CollectionType
  <2>. QED
    BY <1>1, <2>1, SamePrintsBoth DEF LinkInv, NoSentinel
<1>5. CountedFullPage'
  <2>. SUFFICES ASSUME PrintsBoth, Undecided, NEW d \in Collections, Counted(d)
                PROVE  stage = "any" /\ sfc'[d].fetched /\ ~LastBySize(d)'
    BY <1>1, <1>3, SamePrintsBoth DEF CountedFullPage, Undecided
  <2>1. stage = "any" /\ sfc[d].fetched /\ ~LastBySize(d)
    BY DEF LinkInv, CountedFullPage
  <2>2. d # c
    BY <1>2, <2>1
  <2>. QED
    BY <1>1, <2>1, <2>2, SamePrintsBoth DEF LastBySize
<1>6. LinkIsBacked'
  <2>. SUFFICES ASSUME PrintsBoth, Decided PROVE LinkIsBacked'
    BY <1>1, SamePrintsBoth DEF LinkIsBacked, Decided
  <2>1. Queries \subseteq Collections
    BY PageTypes DEF TypeInv, TypeOK
  <2>2. ASSUME NEW d \in Queries, Ends(d) PROVE Ends(d)'
    <3>1. CASE Counted(d)
      BY <1>1, <1>2, <1>3, <2>1, <2>2, <3>1, SamePrintsBoth DEF Ends
    <3>2. CASE ~Counted(d)
      <4>1. d # c
        BY <1>2, <2>2, <3>2 DEF Ends, LastBySize
      <4>. QED
        BY <1>1, <1>3, <2>1, <2>2, <3>2, <4>1, SamePrintsBoth DEF Ends, LastBySize
    <3>. QED
      BY <3>1, <3>2
  <2>3. ASSUME NEW d \in Queries, GoesOn(d) PROVE GoesOn(d)'
    BY <1>1, <1>2, <1>3, <2>1, <2>3, SamePrintsBoth DEF GoesOn
  <2>. QED
    BY <1>1, <2>2, <2>3, SamePrintsBoth DEF LinkInv, LinkIsBacked
<1>7. NumberFitsLink'
  BY <1>1, SamePrintsBoth DEF LinkInv, NumberFitsLink, Decided
<1>8. HitsOnly' /\ NoLinkYet'
  BY <1>1 DEF LinkInv, HitsOnly, NoLinkYet, Undecided
<1>. QED
  BY <1>4, <1>5, <1>6, <1>7, <1>8 DEF LinkInv

LEMMA CountLinkInv ==
    ASSUME TypeInv, ReadInv, LinkInv, NEW c \in Collections, CountMatched(c)
    PROVE  LinkInv'
<1>1. /\ UNCHANGED <<stage, mode, req, iter>>
      /\ sfc' = [sfc EXCEPT ![c].matched = Cardinality(table[c])]
      /\ out'.next = out.next /\ out'.matched = out.matched /\ out'.printed = out.printed
  BY DEF CountMatched, TypeInv, TypeOK, ResponseType
<1>2. \A d \in Collections :
         /\ sfc'[d].fetched = sfc[d].fetched /\ sfc'[d].cache = sfc[d].cache
         /\ sfc'[d].hasMore = sfc[d].hasMore
         /\ d # c => sfc'[d] = sfc[d]
  BY <1>1 DEF TypeInv, TypeOK, CollectionType
<1>3. ~NumberMatchedKnown(c) /\ IsSurelyLastPageKnown(c)
  BY CountsUnknownNumber
<1>4. ~Counted(c)
  BY <1>3 DEF NumberMatchedKnown, Counted
<1>5. \A d \in Collections : LastBySize(d)' <=> LastBySize(d)
  BY <1>1, <1>2, SamePrintsBoth DEF LastBySize
<1>6. PrintsBoth => NumberReturnedKnown(c) /\ ~LastBySize(c)
  BY <1>3, PageDecides, LastBySizeIsKnown DEF LinkInv, NumberMatchedKnown
<1>7. HitsOnly' /\ NoLinkYet' /\ NoSentinel' /\ NumberFitsLink'
  BY <1>1, <1>2, SamePrintsBoth
     DEF LinkInv, HitsOnly, NoLinkYet, NoSentinel, NumberFitsLink, Undecided, Decided
<1>8. CountedFullPage'
  <2>. SUFFICES ASSUME PrintsBoth, Undecided, NEW d \in Collections, Counted(d)'
                PROVE  stage = "any" /\ sfc[d].fetched /\ ~LastBySize(d)
    BY <1>1, <1>2, <1>5, SamePrintsBoth DEF CountedFullPage, Undecided
  <2>1. CASE d = c
    <3>1. stage = "any"
      BY DEF CountMatched, NeedsCount, IsNext, Undecided
    <3>2. ~iter[c].opened
      BY <3>1 DEF ReadInv, CollectionInv, Streamed, NotYet
    <3>. QED
      BY <1>6, <2>1, <3>1, <3>2 DEF NumberReturnedKnown, PrintsBoth
  <2>2. CASE d # c
    BY <1>2, <2>2 DEF LinkInv, CountedFullPage, Counted
  <2>. QED
    BY <2>1, <2>2
<1>9. LinkIsBacked'
  <2>. SUFFICES ASSUME PrintsBoth, Decided PROVE LinkIsBacked'
    BY <1>1, SamePrintsBoth DEF LinkIsBacked, Decided
  <2>1. Queries \subseteq Collections
    BY PageTypes DEF TypeInv, TypeOK
  <2>2. ASSUME NEW d \in Queries, Ends(d) PROVE Ends(d)'
    <3>1. d # c
      BY <1>4, <1>6, <2>2 DEF Ends
    <3>. QED
      BY <1>1, <1>2, <1>5, <2>1, <2>2, <3>1, SamePrintsBoth DEF Ends, Counted
  <2>3. ASSUME NEW d \in Queries, GoesOn(d) PROVE GoesOn(d)'
    <3>1. d # c
      BY <1>4, <2>3 DEF GoesOn
    <3>. QED
      BY <1>1, <1>2, <2>1, <2>3, <3>1, SamePrintsBoth DEF GoesOn, Counted
  <2>. QED
    BY <1>1, <2>2, <2>3, SamePrintsBoth DEF LinkInv, LinkIsBacked
<1>. QED
  BY <1>7, <1>8, <1>9 DEF LinkInv

(* The decision: no collection has a next page, or the one that is asked.  *)
LEMMA NoNextLinkInv ==
    ASSUME TypeInv, ReadInv, LinkInv, NoCollectionHasNext
    PROVE  LinkInv'
<1>1. /\ UNCHANGED <<mode, req, sfc, iter, out>> /\ Undecided /\ Decided' /\ ~Undecided' /\ stage' # "hits"
      /\ stage \in {"all", "any"} /\ Waiting = {}
  BY DEF NoCollectionHasNext, server, AfterLinks, Undecided, Decided
<1>2. out.next = NoLink /\ "matched" \notin out.printed
  BY <1>1 DEF LinkInv, NoLinkYet
<1>3. ASSUME PrintsBoth, NEW c \in Queries PROVE Ends(c)
  <2>1. c \in Collections /\ ~iter[c].opened
    BY <1>1, PageTypes DEF TypeInv, TypeOK, ReadInv, CollectionInv, Streamed, NotYet
  <2>2. Counted(c) => stage = "any" /\ ~LastBySize(c)
    BY <1>1, <1>3, <2>1 DEF LinkInv, CountedFullPage
  <2>3. CASE SurelyLast(c)
    BY <1>3, <2>1, <2>2, <2>3, LastBySizeIsKnown DEF LinkInv, Ends
  <2>4. CASE ~SurelyLast(c)
    <3>1. stage = "any" /\ HasNextKnown(c) /\ ~HasNext(c)
      BY <1>1, <2>4 DEF Waiting
    <3>2. IsSurelyLastPageKnown(c) /\ NumberMatchedKnown(c)
      BY <1>3, <2>1, <2>4, <3>1, PageDecides DEF LinkInv, HasNextKnown, PrintsBoth
    <3>3. Counted(c) /\ NumberMatched(c) = sfc[c].matched
      BY <1>3, <2>4, <3>2 DEF NumberMatchedKnown, NumberMatched, Counted, PrintsBoth
    <3>4. ~(Stop < NumberMatched(c))
      BY <1>3, <2>1, <2>4, <3>1, <3>2, PageDecides DEF LinkInv, HasNext, SurelyLast, PrintsBoth
    <3>. QED
      BY <3>3, <3>4 DEF Ends
  <2>. QED
    BY <2>3, <2>4
<1>4. \A c \in Queries : Ends(c)' <=> Ends(c)
  BY <1>1, SamePrintsBoth DEF Ends, LastBySize, Counted
<1>. QED
  BY <1>1, <1>2, <1>3, <1>4, SamePrintsBoth
     DEF LinkInv, HitsOnly, NoLinkYet, NoSentinel, CountedFullPage, LinkIsBacked, NumberFitsLink

LEMMA SetNextLinkInv ==
    ASSUME TypeInv, ReadInv, LinkInv, NEW c \in Collections, SetNext(c)
    PROVE  LinkInv'
<1>1. /\ UNCHANGED <<mode, req, sfc, iter>> /\ Undecided /\ Decided' /\ ~Undecided' /\ stage' # "hits"
      /\ stage = "any" /\ c \in Waiting /\ HasNextKnown(c)
      /\ out'.next = Link(Start + Count) /\ out'.printed = out.printed
  BY DEF SetNext, IsNext, AfterLinks, Undecided, Decided, TypeInv, TypeOK, ResponseType
<1>2. "matched" \notin out.printed
  BY <1>1 DEF LinkInv, NoLinkYet
<1>3. c \in Queries /\ HasNext(c)
  BY <1>1 DEF Waiting
<1>4. ASSUME PrintsBoth PROVE out'.next # NoLink /\ GoesOn(c)
  <2>1. out'.next # NoLink
    BY <1>1, <1>4, PageDecides DEF LinkInv, Link, NoLink, PrintsBoth
  <2>2. ~IsSurelyLastPage(c) /\ Stop < NumberMatched(c)
    BY <1>3, <1>4, PageDecides DEF LinkInv, HasNext, PrintsBoth
  <2>3. NumberMatchedKnown(c)
    BY <1>1, <1>4, <2>2, PageDecides DEF LinkInv, HasNextKnown, SurelyLast, PrintsBoth
  <2>4. Counted(c) /\ NumberMatched(c) = sfc[c].matched
    BY <1>4, <2>2, <2>3 DEF NumberMatchedKnown, SurelyLast, NumberMatched, Counted, PrintsBoth
  <2>. QED
    BY <2>1, <2>2, <2>4 DEF GoesOn
<1>5. GoesOn(c)' <=> GoesOn(c)
  BY <1>1, SamePrintsBoth DEF GoesOn, Counted
<1>. QED
  BY <1>1, <1>2, <1>3, <1>4, <1>5, SamePrintsBoth
     DEF LinkInv, HitsOnly, NoLinkYet, NoSentinel, CountedFullPage, LinkIsBacked, NumberFitsLink

(* The number is printed, and computed from what decided on the link.      *)
LEMMA PrintMatchedLinkInv ==
    ASSUME TypeInv, ReadInv, LinkInv, PrintMatched
    PROVE  LinkInv'
<1>1. /\ UNCHANGED <<mode, req, sfc, iter>> /\ Decided /\ Decided' /\ ~Undecided' /\ stage' # "hits"
      /\ stage = "matched" /\ Waiting = {} /\ out'.next = out.next
  BY DEF PrintMatched, Undecided, Decided, TypeInv, TypeOK, ResponseType
<1>2. \A c \in Queries : (Ends(c)' <=> Ends(c)) /\ (GoesOn(c)' <=> GoesOn(c))
  BY <1>1, SamePrintsBoth DEF Ends, GoesOn, LastBySize, Counted
<1>3. LinkIsBacked'
  BY <1>1, <1>2, SamePrintsBoth DEF LinkInv, LinkIsBacked
<1>4. ASSUME PrintsBoth
      PROVE  out'.next # NoLink <=> \E c \in Queries : Stop < out'.matched[c]
  <2>1. \A c \in Queries : c \in Collections
    BY PageTypes DEF TypeInv, TypeOK
  <2>2. \A c \in Queries : out'.matched[c] = NumberMatched(c) /\ NumberMatchedKnown(c)
    BY <1>1, <1>4, <2>1 DEF PrintMatched, Waiting, PrintsBoth, TypeInv, TypeOK, ResponseType
  <2>3. ASSUME NEW c \in Queries, GoesOn(c) PROVE Stop < NumberMatched(c)
    BY <1>4, <2>3 DEF GoesOn, Counted, NumberMatched, PrintsBoth
  <2>4. ASSUME NEW c \in Queries, Ends(c) PROVE ~(Stop < NumberMatched(c))
    <3>1. CASE Counted(c)
      BY <1>4, <2>4, <3>1 DEF Ends, Counted, NumberMatched, PrintsBoth
    <3>2. CASE ~Counted(c)
      <4>1. LastBySize(c) /\ ~iter[c].opened
        BY <2>1, <2>4, <3>2 DEF Ends, LastBySize, ReadInv, CollectionInv, Streamed
      <4>2. NumberMatched(c) = Start + NumberReturned(c) /\ NumberReturned(c) < Count
        BY <1>4, <3>2, <4>1
           DEF Counted, NumberMatched, NumberReturned, LastBySize, PrintsBoth
      <4>3. Start \in Nat /\ Count \in Nat /\ Stop = Start + Count /\ NumberReturned(c) \in Nat
        BY <1>4, <2>1, PageDecides, NumberTypes DEF LinkInv, TypeInv
      <4>. QED
        BY <4>2, <4>3
    <3>. QED
      BY <3>1, <3>2
  <2>. QED
    BY <1>1, <1>4, <2>2, <2>3, <2>4 DEF LinkInv, LinkIsBacked
<1>5. "matched" \in out'.printed /\ "matched" \notin out.printed => PrintsNumberMatched
  BY DEF PrintMatched, TypeInv, TypeOK, ResponseType
<1>. QED
  BY <1>1, <1>3, <1>4, <1>5, SamePrintsBoth
     DEF LinkInv, HitsOnly, NoLinkYet, NoSentinel, CountedFullPage, NumberFitsLink

LEMMA NextLinkInv == TypeInv /\ ReadInv /\ LinkInv /\ [Next]_vars => LinkInv'
<1>. SUFFICES ASSUME TypeInv, ReadInv, LinkInv, [Next]_vars PROVE LinkInv'
  OBVIOUS
<1>1. ASSUME NEW c \in Collections, FetchResults(c) \/ CountMatched(c) PROVE LinkInv'
  BY <1>1, FetchLinkInv, CountLinkInv
<1>2. ASSUME NEW c \in Collections, CountHits(c) PROVE LinkInv'
  <2>1. /\ UNCHANGED <<mode, req, out>> /\ Undecided /\ ~Decided' /\ req.hits
        /\ \A d \in Collections : sfc'[d].hasMore = sfc[d].hasMore
    BY <1>2, CountEffect DEF CountHits, LinkInv, HitsOnly, Undecided, Decided
  <2>. QED
    BY <2>1, SamePrintsBoth
       DEF LinkInv, HitsOnly, NoLinkYet, NoSentinel, CountedFullPage, LinkIsBacked,
           NumberFitsLink, PrintsBoth
<1>3. CASE SkipLinks
  <2>1. /\ UNCHANGED <<mode, req, sfc, out>> /\ ~PrintsBoth /\ Undecided
        /\ ~Undecided' /\ stage' # "hits"
    BY <1>3 DEF SkipLinks, server, AfterLinks, Undecided, PrintsBoth
  <2>. QED
    BY <2>1, SamePrintsBoth
       DEF LinkInv, HitsOnly, NoLinkYet, NoSentinel, CountedFullPage, LinkIsBacked,
           NumberFitsLink
<1>4. CASE SetPrevious \/ \E c \in Collections : SomeMayHaveNext(c)
  <2>1. /\ UNCHANGED <<mode, req, sfc>> /\ stage \in {"links", "all"}
        /\ stage' \in {"all", "any"}
        /\ out'.next = out.next /\ out'.matched = out.matched /\ out'.printed = out.printed
    BY <1>4 DEF SetPrevious, SomeMayHaveNext, server, TypeInv, TypeOK, ResponseType
  <2>. QED
    BY <2>1, SameLinkInv
<1>5. CASE NoCollectionHasNext \/ \E c \in Collections : SetNext(c)
  BY <1>5, NoNextLinkInv, SetNextLinkInv
<1>6. CASE PrintMatched
  BY <1>6, PrintMatchedLinkInv
<1>7. CASE PrintReturned
  <2>1. /\ UNCHANGED <<mode, req, sfc>> /\ Decided /\ Decided'
        /\ out'.next = out.next /\ out'.matched = out.matched
        /\ out'.printed = out.printed \union {"returned"}
    BY <1>7 DEF PrintReturned, Decided, TypeInv, TypeOK, ResponseType
  <2>. QED
    BY <2>1, SameLinkInv
<1>8. ASSUME NEW c \in Collections,
             \/ WriteCached(c) \/ OpenIterator(c) \/ CloseIterator(c)
             \/ \E r \in Rows : StreamRow(c, r)
      PROVE  LinkInv'
  <2>1. UNCHANGED <<mode, req, sfc, out>> /\ Decided /\ Decided'
    BY <1>8 DEF WriteCached, OpenIterator, CloseIterator, StreamRow, NextCollection,
                AfterMembers, Decided
  <2>. QED
    BY <2>1, SameLinkInv
<1>9. CASE Client
  <2>1. ASSUME NEW r \in RequestType, StartOperation(r) PROVE LinkInv'
    <3>1. /\ Undecided' /\ ~Decided'
          /\ stage' = "hits" => req'.hits
          /\ out'.next = NoLink /\ out'.printed = {}
          /\ \A c \in Collections : sfc'[c].hasMore = "unknown" /\ ~Counted(c)'
      BY <2>1 DEF StartOperation, EmptyResponse, UnreadCollection, Undecided, Decided, Counted
    <3>. QED
      BY <3>1
         DEF LinkInv, HitsOnly, NoLinkYet, NoSentinel, CountedFullPage, LinkIsBacked,
             NumberFitsLink
  <2>2. CASE SendRequest
    BY <2>1, <2>2 DEF SendRequest, TypeInv, TypeOK
  <2>3. CASE FollowNext
    <3>1. [req EXCEPT !.startIndex = out.next.start, !.count = out.next.count] \in RequestType
      BY DEF TypeInv, TypeOK, RequestType, ResponseType, LinkType
    <3>. QED
      BY <2>1, <2>3, <3>1 DEF FollowNext
  <2>4. CASE Stay
    <3>1. UNCHANGED <<mode, req, sfc, out>> /\ stage' = "over"
      BY <2>4 DEF Stay, server
    <3>. QED
      BY <3>1, SameLinkInv
  <2>. QED
    BY <1>9, <2>2, <2>3, <2>4 DEF Client
<1>10. CASE Database \/ UNCHANGED vars
  <2>1. UNCHANGED <<stage, mode, req, sfc, out>>
    BY <1>10 DEF Database, Insert, Delete, Write, server, vars
  <2>. QED
    BY <2>1, SameLinkInv
<1>. QED
  BY <1>1, <1>2, <1>3, <1>4, <1>5, <1>6, <1>7, <1>8, <1>9, <1>10
     DEF Next, Server, ReadDatabase, WriteLinks, Render

LEMMA InitLinkInv == Init => LinkInv
<1>. SUFFICES ASSUME Init PROVE LinkInv
  OBVIOUS
<1>1. /\ stage = "idle" /\ ~Undecided /\ ~Decided
      /\ \A c \in Collections : sfc[c].hasMore = "unknown"
  BY DEF Init, UnreadCollection, Undecided, Decided
<1>. QED
  BY <1>1
     DEF LinkInv, HitsOnly, NoLinkYet, NoSentinel, CountedFullPage, LinkIsBacked, NumberFitsLink

(* The next link of a response and the numberMatched in it agree, although *)
(* the link is decided long before the number is printed, from what was    *)
(* read so far, and other sessions write in between (set_pagination_links  *)
(* and FeatureCollection.number_matched).                                  *)
THEOREM LinkAgreesWithNumber == Spec => []NextAgreesWithMatched
<1>1. Init => LinkInv
  BY InitLinkInv
<1>2. TypeInv /\ ReadInv /\ SizeInv /\ LinkInv /\ [Next]_vars => LinkInv'
  BY NextLinkInv
<1>3. LinkInv => NextAgreesWithMatched
  BY DEF LinkInv, NumberFitsLink, NextAgreesWithMatched, PrintsBoth, Decided
<1>. QED
  BY <1>1, <1>2, <1>3, SizeInvariant, PTL DEF Spec

-----------------------------------------------------------------------------
(* The third theorem is about a response during which nobody writes.  What *)
(* was counted is then the size of the table, the page without a sentinel  *)
(* is all that the table has there, and so is what was streamed.           *)

CountsAreRight ==
    client.quiet => \A c \in Collections : Counted(c) => sfc[c].matched = Cardinality(table[c])
HitsAreCounted ==
    req.hits => \A c \in Queries :
        /\ stage = "hits" /\ c < at => Counted(c)
        /\ stage \notin {"idle", "hits"} => Counted(c)
PageIsWhole(c) ==
    /\ sfc[c].fetched =>
          Cardinality(sfc[c].cache) = Cardinality(Slice(table[c], Start, Stop))
    /\ iter[c].opened =>
          iter[c].returned + Cardinality(iter[c].pending)
              = Cardinality(Slice(table[c], Start, StopWithSentinel))
PagesAreWhole ==
    client.quiet /\ ~UseSentinelRecord => \A c \in Collections : PageIsWhole(c)
Drained ==
    \A c \in Collections :
        iter[c].opened /\ ~(stage = "members" /\ at = c) => iter[c].pending = {}
IsTotalInside(c) ==
    \/ out.matched[c] = Total(c)
    \/ Start > Cardinality(table[c])
    \/ req.hits /\ Start > 0 /\ req.count = 0
PrintedIsTotal ==
    "matched" \in out.printed /\ client.quiet => \A c \in Queries : IsTotalInside(c)
TotalInv ==
    CountsAreRight /\ HitsAreCounted /\ PagesAreWhole /\ Drained /\ PrintedIsTotal

(* A step that leaves the table, the request and a part of the rest alone. *)
LEMMA SameTotals ==
    ASSUME UNCHANGED <<mode, req, table, client>>
    PROVE  /\ CountsAreRight /\ (\A c \in Collections : sfc'[c].matched = sfc[c].matched)
                 => CountsAreRight'
           /\ HitsAreCounted /\ (\A c \in Collections : sfc'[c].matched = sfc[c].matched)
                 /\ ((stage' = stage /\ at' = at) \/ stage \notin {"idle", "hits"})
                 /\ stage' # "hits" /\ Queries \subseteq Collections
                 => HitsAreCounted'
           /\ \A c \in Collections :
                 PageIsWhole(c) /\ sfc'[c] = sfc[c] /\ iter'[c] = iter[c] => PageIsWhole(c)'
           /\ PrintedIsTotal /\ out'.matched = out.matched
                 /\ ("matched" \in out'.printed => "matched" \in out.printed)
                 => PrintedIsTotal'
<1>1. /\ Start' = Start /\ Count' = Count /\ Stop' = Stop /\ Queries' = Queries
      /\ StopWithSentinel' = StopWithSentinel
  BY PageIsFixed
<1>2. \A c \in Collections :
         sfc'[c].matched = sfc[c].matched => (Counted(c)' <=> Counted(c))
  BY DEF Counted
<1>3. \A c \in Queries : Total(c)' = Total(c)
  BY <1>1 DEF Total
<1>4. CountsAreRight /\ (\A c \in Collections : sfc'[c].matched = sfc[c].matched)
         => CountsAreRight'
  BY <1>2 DEF CountsAreRight
<1>5. HitsAreCounted /\ (\A c \in Collections : sfc'[c].matched = sfc[c].matched)
         /\ ((stage' = stage /\ at' = at) \/ stage \notin {"idle", "hits"})
         /\ stage' # "hits" /\ Queries \subseteq Collections
         => HitsAreCounted'
  BY <1>1, <1>2 DEF HitsAreCounted
<1>6. \A c \in Collections :
         PageIsWhole(c) /\ sfc'[c] = sfc[c] /\ iter'[c] = iter[c] => PageIsWhole(c)'
  BY <1>1 DEF PageIsWhole
<1>7. PrintedIsTotal /\ out'.matched = out.matched
         /\ ("matched" \in out'.printed => "matched" \in out.printed)
         => PrintedIsTotal'
  BY <1>1, <1>3 DEF PrintedIsTotal, IsTotalInside
<1>. QED
  BY <1>4, <1>5, <1>6, <1>7

LEMMA SlicesCount ==
    ASSUME NEW rows, NEW lo, NEW hi, NEW s \in Slices(rows, lo, hi)
    PROVE  Cardinality(s) = Cardinality(Slice(rows, lo, hi))
BY DEF Slices

LEMMA FetchTotalInv ==
    ASSUME TypeInv, TotalInv, NEW c \in Collections, FetchResults(c)
    PROVE  TotalInv'
<1>1. /\ \A d \in Collections : d # c => sfc'[d] = sfc[d]
      /\ UNCHANGED <<stage, at, mode, req, iter, body, out, table, client>>
      /\ Queries \subseteq Collections
  BY FetchEffect, PageTypes DEF FetchResults, TypeInv, TypeOK
<1>2. ~req.hits /\ ~iter[c].opened /\ sfc'[c].matched = sfc[c].matched
  BY FetchesUnreadPage, FetchKeepsMatched
<1>3. ASSUME ~UseSentinelRecord PROVE PageIsWhole(c)'
  <2>1. PICK rows \in Slices(table[c], Start, Stop) :
            sfc' = [sfc EXCEPT ![c].fetched = TRUE, ![c].cache = rows]
    BY <1>3 DEF FetchResults
  <2>2. sfc'[c].cache = rows
    BY <2>1 DEF TypeInv, TypeOK, CollectionType
  <2>3. Cardinality(rows) = Cardinality(Slice(table[c], Start, Stop))
    BY SlicesCount
  <2>. QED
    BY <1>1, <1>2, <2>2, <2>3, PageIsFixed DEF PageIsWhole
<1>4. PagesAreWhole'
  BY <1>1, <1>3, SameTotals, PageIsFixed DEF TotalInv, PagesAreWhole
<1>5. CountsAreRight' /\ PrintedIsTotal'
  BY <1>1, <1>2, SameTotals DEF TotalInv
<1>6. HitsAreCounted'
  BY <1>1, <1>2 DEF HitsAreCounted
<1>7. Drained'
  BY <1>1 DEF TotalInv, Drained
<1>. QED
  BY <1>4, <1>5, <1>6, <1>7 DEF TotalInv

LEMMA CountTotalInv ==
    ASSUME TypeInv, TotalInv, NEW c \in Collections, CountMatched(c) \/ CountHits(c)
    PROVE  TotalInv'
<1>1. /\ sfc' = [sfc EXCEPT ![c].matched = Cardinality(table[c])]
      /\ UNCHANGED <<mode, req, iter, table, client>>
      /\ out'.matched = out.matched /\ out'.printed = out.printed
  BY DEF CountMatched, CountHits, TypeInv, TypeOK, ResponseType
<1>2. \A d \in Collections :
         /\ sfc'[d].fetched = sfc[d].fetched /\ sfc'[d].cache = sfc[d].cache
         /\ d # c => sfc'[d] = sfc[d]
  BY <1>1 DEF TypeInv, TypeOK, CollectionType
<1>3. /\ sfc'[c].matched = Cardinality(table[c]) /\ Cardinality(table[c]) \in Nat
      /\ Queries \subseteq Collections /\ Collections \subseteq Nat
  BY <1>1, RowsAreFinite, PageTypes DEF TypeInv, TypeOK, CollectionType, Collections
<1>4. Counted(c)' /\ \A d \in Collections : d # c => (Counted(d)' <=> Counted(d))
  BY <1>2, <1>3 DEF Counted, CALCULATE
<1>5. CountsAreRight'
  BY <1>1, <1>2, <1>3, <1>4 DEF TotalInv, CountsAreRight
<1>6. HitsAreCounted'
  <2>. SUFFICES ASSUME req.hits, NEW d \in Queries
                PROVE  /\ stage' = "hits" /\ d < at' => Counted(d)'
                       /\ stage' \notin {"idle", "hits"} => Counted(d)'
    BY <1>1, PageIsFixed DEF HitsAreCounted
  <2>0. /\ d \in Collections /\ d \in Nat /\ c \in Nat /\ at \in Nat
        /\ d <= req.queries /\ req.queries \in Nat
        /\ Counted(d) => Counted(d)'
    <3>1. d \in Collections /\ c \in Nat /\ at \in Nat
      BY <1>3 DEF TypeInv, TypeOK
    <3>2. req.queries \in Nat
      BY DEF TypeInv, TypeOK, RequestType, Collections
    <3>3. Counted(d) => Counted(d)'
      BY <1>4, <3>1
    <3>. QED
      BY <3>1, <3>2, <3>3 DEF Queries
  <2>1. CASE CountMatched(c)
    <3>1. stage' = stage /\ stage \notin {"idle", "hits"}
      BY <2>1 DEF CountMatched, NeedsCount
    <3>. QED
      BY <2>0, <3>1 DEF TotalInv, HitsAreCounted
  <2>2. CASE CountHits(c)
    <3>1. /\ stage = "hits" /\ c = at
          /\ IF at < req.queries THEN at' = at + 1 /\ stage' = stage
                                 ELSE at' = 1 /\ stage' = "links"
      BY <2>2 DEF CountHits
    <3>2. d < at => Counted(d)
      BY <3>1 DEF TotalInv, HitsAreCounted
    <3>3. d <= at => Counted(d)'
      BY <1>4, <2>0, <3>1, <3>2
    <3>. QED
      BY <2>0, <3>1, <3>3
  <2>. QED
    BY <2>1, <2>2
<1>7. PagesAreWhole'
  BY <1>1, <1>2, PageIsFixed DEF TotalInv, PagesAreWhole, PageIsWhole
<1>8. Drained'
  <2>1. stage # "members" \/ (stage' = stage /\ at' = at)
    BY DEF CountMatched, CountHits
  <2>. QED
    BY <1>1, <2>1 DEF TotalInv, Drained
<1>9. PrintedIsTotal'
  BY <1>1, SameTotals DEF TotalInv
<1>. QED
  BY <1>5, <1>6, <1>7, <1>8, <1>9 DEF TotalInv

(* A step between two stages that reads nothing.                           *)
LEMMA MoveTotalInv ==
    ASSUME TypeInv, TotalInv, UNCHANGED <<mode, req, sfc, iter, table, client>>,
           stage \notin {"idle", "hits", "members"}, stage' \notin {"idle", "hits"},
           out'.matched = out.matched, "matched" \in out'.printed => "matched" \in out.printed
    PROVE  TotalInv'
<1>1. Queries \subseteq Collections
  BY PageTypes DEF TypeInv, TypeOK
<1>2. CountsAreRight' /\ HitsAreCounted' /\ PrintedIsTotal'
  BY <1>1, SameTotals DEF TotalInv
<1>3. PagesAreWhole'
  BY SameTotals, PageIsFixed DEF TotalInv, PagesAreWhole
<1>4. Drained'
  BY DEF TotalInv, Drained
<1>. QED
  BY <1>2, <1>3, <1>4 DEF TotalInv

LEMMA RenderTotalInv ==
    ASSUME TypeInv, ReadInv, TotalInv, NEW c \in Collections,
           \/ WriteCached(c) \/ OpenIterator(c) \/ CloseIterator(c)
           \/ \E r \in Rows : StreamRow(c, r)
    PROVE  TotalInv'
<1>1. /\ UNCHANGED <<mode, req, sfc, out, table, client>>
      /\ stage = "members" /\ c = at /\ stage' \notin {"idle", "hits"}
      /\ at' \in Collections
  BY NAssumption
     DEF WriteCached, OpenIterator, CloseIterator, StreamRow, NextCollection, AfterMembers,
         TypeInv, TypeOK, RequestType, Collections
<1>2. Queries \subseteq Collections
  BY PageTypes DEF TypeInv, TypeOK
<1>3. CountsAreRight' /\ HitsAreCounted' /\ PrintedIsTotal'
  BY <1>1, <1>2, SameTotals DEF TotalInv
<1>4. \A d \in Collections : d # c => iter'[d] = iter[d]
  <2>1. CASE WriteCached(c)
    BY <2>1 DEF WriteCached
  <2>2. CASE OpenIterator(c)
    BY <2>2, OpenEffect
  <2>3. CASE CloseIterator(c)
    BY <2>3, CloseEffect
  <2>4. CASE \E r \in Rows : StreamRow(c, r)
    BY ZenonT(30), <2>4, StreamEffect
  <2>. QED
    BY <2>1, <2>2, <2>3, <2>4
<1>5. ASSUME client.quiet, ~UseSentinelRecord PROVE PageIsWhole(c)'
  <2>1. PageIsWhole(c)
    BY <1>5 DEF TotalInv, PagesAreWhole
  <2>2. CASE WriteCached(c)
    BY <1>1, <2>1, <2>2, SameTotals DEF WriteCached
  <2>3. CASE OpenIterator(c)
    <3>1. PICK rows \in Slices(table[c], Start, StopWithSentinel) :
              iter' = [iter EXCEPT ![c].opened = TRUE, ![c].pending = rows]
      BY <2>3 DEF OpenIterator
    <3>2. iter'[c].pending = rows /\ iter'[c].returned = iter[c].returned
      BY <3>1 DEF TypeInv, TypeOK, IteratorType
    <3>3. ~iter[c].opened /\ ~sfc[c].fetched /\ iter[c].returned = 0
      BY <2>3 DEF OpenIterator, ReadInv, CollectionInv
    <3>4. rows \in SUBSET Rows
      BY <3>1, SlicesAreRows DEF TypeInv
    <3>5. /\ Cardinality(rows) = Cardinality(Slice(table[c], Start, StopWithSentinel))
          /\ Cardinality(rows) \in Nat
      BY <3>4, SlicesCount, RowsAreFinite
    <3>. QED
      BY <1>1, <3>2, <3>3, <3>5, PageIsFixed DEF PageIsWhole
  <2>4. ASSUME NEW r \in Rows, StreamRow(c, r) PROVE PageIsWhole(c)'
    <3>1. /\ iter[c].opened /\ r \in iter[c].pending
          /\ iter'[c].returned = iter[c].returned + 1
          /\ iter'[c].pending = iter[c].pending \ {r}
      BY <2>4, StreamEffect
    <3>2. iter[c].pending \in SUBSET Rows /\ iter[c].returned \in Nat
      BY DEF TypeInv, TypeOK, IteratorType
    <3>3. /\ Cardinality(iter[c].pending) \in Nat
          /\ Cardinality(iter'[c].pending) = Cardinality(iter[c].pending) - 1
      BY <3>1, <3>2, RowsAreFinite, FS_RemoveElement
    <3>. QED
      BY <1>1, <2>1, <3>1, <3>2, <3>3, PageIsFixed DEF PageIsWhole
  <2>5. CASE CloseIterator(c)
    <3>1. /\ iter[c].opened /\ iter[c].pending = {}
          /\ iter'[c].returned = iter[c].returned /\ iter'[c].pending = {}
      BY <1>5, <2>5, CloseEffect DEF CloseIterator, AtSentinel, MaxResults
    <3>. QED
      BY <1>1, <2>1, <3>1, PageIsFixed DEF PageIsWhole
  <2>. QED
    BY <2>2, <2>3, <2>4, <2>5
<1>6. PagesAreWhole'
  <2>. SUFFICES ASSUME client.quiet, ~UseSentinelRecord, NEW d \in Collections
                PROVE  PageIsWhole(d)'
    BY <1>1, PageIsFixed DEF PagesAreWhole
  <2>1. PageIsWhole(d)
    BY DEF TotalInv, PagesAreWhole
  <2>. QED
    BY <1>1, <1>4, <1>5, <2>1, SameTotals
<1>7. Drained'
  <2>. SUFFICES ASSUME NEW d \in Collections, iter'[d].opened,
                       ~(stage' = "members" /\ at' = d)
                PROVE  iter'[d].pending = {}
    BY DEF Drained
  <2>1. CASE d # c
    BY <1>1, <1>4, <2>1 DEF TotalInv, Drained
  <2>2. CASE d = c
    <3>1. CASE WriteCached(c)
      BY <2>2, <3>1 DEF WriteCached, ReadInv, CollectionInv, Streamed
    <3>2. CASE CloseIterator(c)
      BY <2>2, <3>2, CloseEffect
    <3>3. CASE OpenIterator(c) \/ \E r \in Rows : StreamRow(c, r)
      BY <1>1, <2>2, <3>3 DEF OpenIterator, StreamRow
    <3>. QED
      BY <3>1, <3>2, <3>3
  <2>. QED
    BY <2>1, <2>2
<1>. QED
  BY <1>3, <1>6, <1>7 DEF TotalInv

(* The number of hits is the total, and so is the number that follows from *)
(* a page which ends before it is full.                                    *)
LEMMA HitsAreTotal ==
    ASSUME TypeInv, TotalInv, req.hits, client.quiet, stage = "matched", NEW c \in Queries
    PROVE  NumberMatched(c) = Total(c) \/ (Start > 0 /\ req.count = 0)
<1>1. c \in Collections /\ Start \in Nat /\ Count \in Nat \union {Infinity}
  BY PageTypes DEF TypeInv, TypeOK
<1>2. sfc[c].matched = Cardinality(table[c])
  BY <1>1 DEF TotalInv, HitsAreCounted, CountsAreRight
<1>3. /\ req.count \in Nat
      /\ MaxPageSize \in (Nat \ {0}) \union {Infinity} /\ 0 # Infinity
  BY MaxPageAssumption, InfinityAssumption DEF TypeInv, TypeOK, RequestType, MaxPageSize
<1>4. CASE req.count = 0
  <2>1. Count = 0
    BY <1>3, <1>4, InfinityAssumption DEF Count, Smallest, DefaultPageSize
  <2>2. Start = 0 => Stop = 0
    BY <1>3, <2>1 DEF Stop, Endless
  <2>. QED
    BY <1>1, <1>2, <1>4, <2>2 DEF NumberMatched, Total
<1>5. CASE req.count # 0
  <2>1. Count # 0
    BY <1>3, <1>5, InfinityAssumption DEF Count, Smallest
  <2>2. Stop # 0
    BY <1>1, <1>3, <2>1 DEF Stop, Endless
  <2>. QED
    BY <1>2, <1>5, <2>2 DEF NumberMatched, Total
<1>. QED
  BY <1>4, <1>5

LEMMA ShortPageIsTotal ==
    ASSUME TypeInv, SizeInv, NoSentinel, TotalInv, ~req.hits, client.quiet,
           stage = "matched", PrintsNumberMatched, NEW c \in Queries, NumberMatchedKnown(c)
    PROVE  NumberMatched(c) = Cardinality(table[c]) \/ Start > Cardinality(table[c])
<1>. DEFINE n == Cardinality(table[c])
            k == NumberReturned(c)
<1>1. /\ c \in Collections /\ Start \in Nat /\ n \in Nat /\ k \in Nat
      /\ table[c] \in SUBSET Rows
      /\ ~Endless => Count \in Nat /\ Count # 0
                     /\ Stop = Start + Count /\ StopWithSentinel = Start + Count + 1
  BY PageTypes, NumberTypes, RowsAreFinite, CountIsPositive
     DEF TypeInv, TypeOK, Stop, StopWithSentinel
<1>2. ~UseSentinelRecord
  BY <1>1 DEF PrintsNumberMatched, UseSentinelRecord
<1>3. CASE Counted(c)
  BY <1>1, <1>3 DEF TotalInv, CountsAreRight, Counted, NumberMatched
<1>4. CASE ~Counted(c)
  <2>1. SurelyLast(c) /\ NumberReturnedKnown(c) /\ NumberMatched(c) = Start + k
    BY <1>4 DEF NumberMatchedKnown, Counted, NumberMatched
  <2>2. \/ k = Cardinality(Slice(table[c], Start, Stop))
        \/ k = Cardinality(Slice(table[c], Start, StopWithSentinel))
    <3>1. PageIsWhole(c)
      BY <1>1, <1>2 DEF TotalInv, PagesAreWhole
    <3>2. CASE iter[c].opened
      <4>1. iter[c].pending = {} /\ k = iter[c].returned /\ iter[c].returned \in Nat
        BY <1>1, <3>2 DEF TotalInv, Drained, NumberReturned, TypeInv, TypeOK, IteratorType
      <4>2. Cardinality({}) = 0
        BY FS_EmptySet
      <4>. QED
        BY <3>1, <3>2, <4>1, <4>2 DEF PageIsWhole
    <3>3. CASE ~iter[c].opened
      BY <2>1, <3>1, <3>3 DEF PageIsWhole, NumberReturned, NumberReturnedKnown
    <3>. QED
      BY <3>2, <3>3
  <2>. HIDE DEF n, k
  <2>3. CASE Endless
    <3>1. k = IF n <= Start THEN 0 ELSE n - Start
      BY <1>1, <2>2, <2>3, SliceToEndCount DEF Stop, StopWithSentinel, n
    <3>. QED
      BY <1>1, <2>1, <3>1 DEF n
  <2>4. CASE ~Endless
    <3>1. k < Count
      <4>1. ~NoPage /\ ~SentinelSeen(c) /\ sfc[c].hasMore = "unknown"
        BY <1>1, <1>2, <2>4 DEF NoPage, SentinelSeen, NoSentinel
      <4>. QED
        BY <2>1, <2>4, <4>1 DEF SurelyLast, IsSurelyLastPage, k
    <3>2. Cardinality(Slice(table[c], Start, Start + Count)) =
             IF n <= Start THEN 0 ELSE IF n <= Start + Count THEN n - Start ELSE Count
      BY <1>1, <2>4, SliceCount DEF n
    <3>3. Cardinality(Slice(table[c], Start, Start + Count + 1)) =
             IF n <= Start THEN 0 ELSE IF n <= Start + Count + 1 THEN n - Start ELSE Count + 1
      BY <1>1, <2>4, SliceCount DEF n
    <3>4. k = IF n <= Start THEN 0 ELSE n - Start
      BY <1>1, <2>2, <2>4, <3>1, <3>2, <3>3
    <3>. QED
      BY <1>1, <2>1, <3>4 DEF n
  <2>. QED
    BY <2>3, <2>4
<1>. QED
  BY <1>3, <1>4

LEMMA PrintMatchedTotalInv ==
    ASSUME TypeInv, SizeInv, NoSentinel, TotalInv, PrintMatched
    PROVE  TotalInv'
<1>1. /\ UNCHANGED <<at, mode, req, sfc, iter, body, table, client>>
      /\ stage = "matched" /\ stage' \in {"returned", "responded"}
      /\ Queries \subseteq Collections
  BY PageTypes DEF PrintMatched, TypeInv, TypeOK
<1>2. CountsAreRight' /\ HitsAreCounted'
  BY <1>1, SameTotals DEF TotalInv
<1>3. PagesAreWhole'
  BY <1>1, SameTotals, PageIsFixed DEF TotalInv, PagesAreWhole
<1>4. Drained'
  BY <1>1 DEF TotalInv, Drained
<1>5. PrintedIsTotal'
  <2>1. CASE ~PrintsNumberMatched
    BY <1>1, <2>1, SameTotals DEF PrintMatched, TotalInv
  <2>2. CASE PrintsNumberMatched
    <3>1. \A c \in Queries : out'.matched[c] = NumberMatched(c) /\ NumberMatchedKnown(c)
      BY <1>1, <2>2 DEF PrintMatched, Waiting, TypeInv, TypeOK, ResponseType
    <3>2. ASSUME client.quiet, NEW c \in Queries
          PROVE  \/ NumberMatched(c) = Total(c)
                 \/ Start > Cardinality(table[c])
                 \/ req.hits /\ Start > 0 /\ req.count = 0
      BY <1>1, <2>2, <3>1, <3>2, HitsAreTotal, ShortPageIsTotal DEF Total
    <3>. QED
      BY <1>1, <3>1, <3>2, PageIsFixed DEF PrintedIsTotal, IsTotalInside, Total
  <2>. QED
    BY <2>1, <2>2
<1>. QED
  BY <1>2, <1>3, <1>4, <1>5 DEF TotalInv

LEMMA StartTotalInv ==
    ASSUME NEW r \in RequestType, StartOperation(r)
    PROVE  TotalInv'
<1>1. /\ stage' \in {"hits", "links"} /\ (req'.hits <=> stage' = "hits") /\ at' = 1
      /\ out'.printed = {}
      /\ \A c \in Collections : ~Counted(c)' /\ ~sfc'[c].fetched /\ ~iter'[c].opened
  BY DEF StartOperation, EmptyResponse, UnreadCollection, NoIterator, Counted
<1>2. \A c \in Queries' : ~(c < at')
  BY <1>1 DEF Queries
<1>. QED
  BY <1>1, <1>2
     DEF TotalInv, CountsAreRight, HitsAreCounted, PagesAreWhole, PageIsWhole, Drained,
         PrintedIsTotal

LEMMA NextTotalInv ==
    TypeInv /\ ReadInv /\ SizeInv /\ LinkInv /\ TotalInv /\ [Next]_vars => TotalInv'
<1>. SUFFICES ASSUME TypeInv, ReadInv, SizeInv, LinkInv, TotalInv, [Next]_vars
              PROVE  TotalInv'
  OBVIOUS
<1>1. CASE ReadDatabase
  BY <1>1, FetchTotalInv, CountTotalInv DEF ReadDatabase
<1>2. CASE WriteLinks
  <2>1. /\ UNCHANGED <<mode, req, sfc, iter, table, client>>
        /\ stage \in {"links", "all", "any"}
        /\ stage' \in {"all", "any", "matched", "members"}
        /\ out'.matched = out.matched /\ out'.printed = out.printed
    BY <1>2
       DEF WriteLinks, SkipLinks, SetPrevious, NoCollectionHasNext, SomeMayHaveNext, SetNext,
           server, AfterLinks, TypeInv, TypeOK, ResponseType
  <2>. QED
    BY <2>1, MoveTotalInv
<1>3. CASE PrintMatched
  BY <1>3, PrintMatchedTotalInv DEF LinkInv
<1>4. CASE PrintReturned
  <2>1. /\ UNCHANGED <<mode, req, sfc, iter, table, client>>
        /\ stage = "returned" /\ stage' \in {"matched", "members", "responded"}
        /\ out'.matched = out.matched
        /\ "matched" \in out'.printed => "matched" \in out.printed
    BY <1>4 DEF PrintReturned, TypeInv, TypeOK, ResponseType
  <2>. QED
    BY <2>1, MoveTotalInv
<1>5. CASE \E c \in Collections :
              \/ WriteCached(c) \/ OpenIterator(c) \/ CloseIterator(c)
              \/ \E r \in Rows : StreamRow(c, r)
  BY <1>5, RenderTotalInv
<1>6. CASE Client
  <2>1. CASE SendRequest
    BY <2>1, StartTotalInv DEF SendRequest, TypeInv, TypeOK
  <2>2. CASE FollowNext
    <3>1. [req EXCEPT !.startIndex = out.next.start, !.count = out.next.count] \in RequestType
      BY DEF TypeInv, TypeOK, RequestType, ResponseType, LinkType
    <3>. QED
      BY <2>2, <3>1, StartTotalInv DEF FollowNext
  <2>3. CASE Stay
    <3>1. /\ UNCHANGED <<mode, req, sfc, iter, out, table, client>>
          /\ stage = "responded" /\ stage' = "over"
      BY <2>3 DEF Stay, server
    <3>. QED
      BY <3>1, MoveTotalInv
  <2>. QED
    BY <1>6, <2>1, <2>2, <2>3 DEF Client
<1>7. CASE Database
  <2>1. /\ UNCHANGED <<stage, at, mode, req, sfc, iter, out>> /\ ~client'.quiet
    BY <1>7 DEF Database, Insert, Delete, Write, server, TypeInv, TypeOK, ClientType
  <2>2. HitsAreCounted'
    BY <2>1 DEF TotalInv, HitsAreCounted, Counted, Queries
  <2>. QED
    BY <2>1, <2>2 DEF TotalInv, CountsAreRight, PagesAreWhole, Drained, PrintedIsTotal
<1>8. CASE UNCHANGED vars
  <2>1. UNCHANGED <<stage, at, mode, req, sfc, iter, out, table, client>>
    BY <1>8 DEF vars, server
  <2>2. CountsAreRight' /\ HitsAreCounted' /\ Drained'
    BY <2>1 DEF TotalInv, CountsAreRight, HitsAreCounted, Drained, Counted, Queries
  <2>3. PagesAreWhole' /\ PrintedIsTotal'
    BY <2>1, SameTotals, PageIsFixed DEF TotalInv, PagesAreWhole
  <2>. QED
    BY <2>2, <2>3 DEF TotalInv
<1>. QED
  BY <1>1, <1>2, <1>3, <1>4, <1>5, <1>6, <1>7, <1>8 DEF Next, Server, Render

LEMMA InitTotalInv == Init => TotalInv
<1>. SUFFICES ASSUME Init PROVE TotalInv
  OBVIOUS
<1>1. /\ stage = "idle" /\ out.printed = {}
      /\ \A c \in Collections : ~Counted(c) /\ ~sfc[c].fetched /\ ~iter[c].opened
  BY DEF Init, EmptyResponse, UnreadCollection, NoIterator, Counted
<1>. QED
  BY <1>1
     DEF TotalInv, CountsAreRight, HitsAreCounted, PagesAreWhole, PageIsWhole, Drained,
         PrintedIsTotal

LEMMA NumbersInvariant == Spec => [](TypeInv /\ ReadInv /\ SizeInv /\ LinkInv /\ TotalInv)
<1>1. Init => LinkInv /\ TotalInv
  BY InitLinkInv, InitTotalInv
<1>2. TypeInv /\ ReadInv /\ SizeInv /\ LinkInv /\ TotalInv /\ [Next]_vars
         => LinkInv' /\ TotalInv'
  BY NextLinkInv, NextTotalInv
<1>. QED
  BY <1>1, <1>2, SizeInvariant, PTL DEF Spec

(* The numberMatched of a response is the number of matches in the table,  *)
(* whether it was counted or follows from the rows that a page, a stream   *)
(* or a page before its end returned: for any queries, tables, page sizes  *)
(* and settings, when nobody writes during the response (number_matched in *)
(* output/results.py).  A page that starts beyond the end and a count of   *)
(* hits with a STARTINDEX only are left out, as in the property.           *)
THEOREM NumberMatchedIsCorrect == Spec => []NumberMatchedIsTotalInside
<1>1. TotalInv => NumberMatchedIsTotalInside
  BY DEF TotalInv, PrintedIsTotal, IsTotalInside, NumberMatchedIsTotalInside
<1>. QED
  BY <1>1, NumbersInvariant, PTL

-----------------------------------------------------------------------------
(* How slices of one table fit together.                                   *)

LEMMA RanksAreNatural ==
    ASSUME NEW rows \in SUBSET Rows, NEW r \in rows
    PROVE  /\ Rank(rows, r) \in Nat /\ 0 < Rank(rows, r)
           /\ Rank(rows, r) <= Cardinality(rows) /\ Cardinality(rows) \in Nat
<1>. DEFINE n == Cardinality(rows)
<1>1. n \in Nat /\ Rank(rows, r) \in 1..n
  BY RowsAreFinite, RanksCount
<1>. HIDE DEF n
<1>2. Rank(rows, r) \in Nat /\ 0 < Rank(rows, r) /\ Rank(rows, r) <= n
  BY <1>1
<1>. QED
  BY <1>1, <1>2 DEF n

LEMMA WholeSlice ==
    ASSUME NEW rows \in SUBSET Rows, NEW hi \in Int \union {Infinity},
           hi = Infinity \/ Cardinality(rows) <= hi
    PROVE  Slice(rows, 0, hi) = rows
<1>1. ASSUME NEW r \in rows PROVE r \in Slice(rows, 0, hi)
  <2>1. /\ Rank(rows, r) \in Nat /\ 0 < Rank(rows, r)
        /\ Rank(rows, r) <= Cardinality(rows) /\ Cardinality(rows) \in Nat
    BY RanksAreNatural
  <2>. QED
    BY <2>1 DEF Slice
<1>. QED
  BY <1>1 DEF Slice

LEMMA SliceOfSlice ==
    ASSUME NEW rows \in SUBSET Rows, NEW lo \in Nat, NEW n \in Nat
    PROVE  Slice(Slice(rows, lo, lo + n + 1), 0, n) = Slice(rows, lo, lo + n)
<1>. DEFINE S == Slice(rows, lo, lo + n + 1)
<1>1. /\ S \subseteq rows
      /\ lo + n # Infinity /\ lo + n + 1 # Infinity /\ n # Infinity
  BY InfinityAssumption DEF Slice
<1>2. ASSUME NEW r \in S PROVE Rank(S, r) = Rank(rows, r) - lo
  BY RankInSlice
<1>3. ASSUME NEW r \in rows
      PROVE  r \in Slice(S, 0, n) <=> r \in Slice(rows, lo, lo + n)
  <2>1. Rank(rows, r) \in Nat
    BY RanksAreNatural
  <2>2. r \in S <=> lo < Rank(rows, r) /\ Rank(rows, r) <= lo + n + 1
    BY <1>1 DEF Slice
  <2>. HIDE DEF S
  <2>3. r \in Slice(S, 0, n) <=> r \in S /\ 0 < Rank(S, r) /\ Rank(S, r) <= n
    BY <1>1 DEF Slice
  <2>4. r \in Slice(rows, lo, lo + n) <=> lo < Rank(rows, r) /\ Rank(rows, r) <= lo + n
    BY <1>1 DEF Slice
  <2>. QED
    BY <1>2, <2>1, <2>2, <2>3, <2>4
<1>4. Slice(S, 0, n) \subseteq S /\ Slice(rows, lo, lo + n) \subseteq rows
  BY DEF Slice
<1>. QED
  BY <1>1, <1>3, <1>4

LEMMA SlicesFit ==
    ASSUME NEW rows \in SUBSET Rows, NEW mid \in Nat,
           NEW hi \in Nat \union {Infinity}, hi = Infinity \/ mid <= hi
    PROVE  /\ Slice(rows, 0, mid) \union Slice(rows, mid, hi) = Slice(rows, 0, hi)
           /\ Slice(rows, 0, mid) \intersect Slice(rows, mid, hi) = {}
<1>1. mid # Infinity
  BY InfinityAssumption
<1>2. ASSUME NEW r \in rows
      PROVE  /\ r \in Slice(rows, 0, hi)
                   <=> r \in Slice(rows, 0, mid) \/ r \in Slice(rows, mid, hi)
             /\ ~(r \in Slice(rows, 0, mid) /\ r \in Slice(rows, mid, hi))
  <2>1. Rank(rows, r) \in Nat /\ 0 < Rank(rows, r)
    BY RanksAreNatural
  <2>. QED
    BY <1>1, <2>1 DEF Slice
<1>3. \A lo, end : Slice(rows, lo, end) \subseteq rows
  BY DEF Slice
<1>. QED
  BY <1>2, <1>3

LEMMA SliceAfterAppend ==
    ASSUME NEW rows \in SUBSET Rows, NEW x \in Rows, \A q \in rows : q < x,
           NEW lo, NEW hi
    PROVE  rows \intersect Slice(rows \union {x}, lo, hi) = Slice(rows, lo, hi)
<1>1. \A r \in rows : Rank(rows \union {x}, r) = Rank(rows, r)
  BY RankAfterAppend
<1>. QED
  BY <1>1 DEF Slice

-----------------------------------------------------------------------------
(* The requests that can be paged: those whose next links are written and  *)
(* whose pages end where the next one starts.  CSV prints no link, and     *)
(* GeoJSON streams its second collection with the sentinel row, so both    *)
(* have to answer with everything at once.                                 *)

AllAtOnce(r) == r.count = 0 /\ MaxPage[r.format] = Infinity
CanBePaged(r) ==
    /\ ~r.hits /\ r.ordered /\ r.linkable
    /\ r.format = "GML" \/ (r.format = "GeoJSON" /\ r.queries = 1) \/ AllAtOnce(r)

-----------------------------------------------------------------------------
(* The invariant.  As long as nobody disturbs the table of a collection,   *)
(* what the client received on the pages before this one covers the table  *)
(* up to its start, what is read for this page covers the page, and a page *)
(* that is taken for the last one does reach the end of what was promised. *)

Covers(c, rows, lo, hi) ==
    /\ rows \subseteq Slice(table[c], lo, hi)
    /\ client.promised[c] \intersect Slice(table[c], lo, hi) \subseteq rows
ToTheEnd(c) == client.promised[c] \subseteq Slice(table[c], 0, Stop)

EarlierPages(c) == Covers(c, client.earlier[c], 0, Start)
CachedPage(c) == sfc[c].fetched => Covers(c, sfc[c].cache, Start, Stop)
StreamedPage(c) ==
    iter[c].opened => Endless /\ Covers(c, body[c] \union iter[c].pending, Start, Stop)
LastPage(c) ==
    ~Endless =>
        /\ sfc[c].fetched /\ (Cardinality(sfc[c].cache) < Count \/ sfc[c].hasMore = "no")
              => ToTheEnd(c)
        /\ Counted(c) /\ sfc[c].matched <= Stop => ToTheEnd(c)
CollectionPages(c) == EarlierPages(c) /\ CachedPage(c) /\ StreamedPage(c) /\ LastPage(c)

Pageable ==
    /\ ~req.hits /\ req.ordered /\ req.linkable
    /\ req.format = "GML" \/ (req.format = "GeoJSON" /\ req.queries = 1) \/ Endless
Promises ==
    \A c \in Collections :
        /\ stage = "idle" => client.earlier[c] = {} /\ client.promised[c] = {}
        /\ c \notin Queries => client.promised[c] = {}
        /\ client.promised[c] \subseteq table[c]
LinkGoesOn ==
    /\ out.next # NoLink => ~Endless /\ out.next.start = Start + Count
    /\ stage \in {"idle", "hits", "links", "all", "any"} => out.next = NoLink
    /\ stage \in {"matched", "returned", "members", "responded"} /\ ~Endless
          /\ out.next = NoLink
          => \A c \in Queries : client.disturbed[c] \/ ToTheEnd(c)
PagesAreCovered == \A c \in Queries : client.disturbed[c] \/ CollectionPages(c)
PagesInv == Pageable /\ Promises /\ LinkGoesOn /\ PagesAreCovered

BaseInv == TypeInv /\ ReadInv /\ SizeInv /\ LinkInv /\ TotalInv

(* What follows from the page alone.                                       *)
LEMMA PageBounds ==
    ASSUME TypeInv, ~req.hits
    PROVE  /\ Start \in Nat /\ Stop \in Nat \union {Infinity}
           /\ Stop = Infinity \/ Start <= Stop
           /\ Endless => Stop = Infinity /\ StopWithSentinel = Infinity
           /\ ~Endless => /\ Count \in Nat /\ Count > 0
                          /\ Stop = Start + Count /\ StopWithSentinel = Start + Count + 1
           /\ Queries \subseteq Collections
<1>1. req \in RequestType
  BY DEF TypeInv, TypeOK
<1>2. /\ Start \in Nat /\ Queries \subseteq Collections
      /\ ~Endless => Count \in Nat
  BY <1>1, PageTypes
<1>3. ~Endless => Count # 0
  BY CountIsPositive
<1>. QED
  BY <1>2, <1>3 DEF Stop, StopWithSentinel

(* A step that leaves the page of collection c alone.                      *)
LEMMA SamePages ==
    ASSUME UNCHANGED <<mode, req, table, client>>, NEW c \in Collections
    PROVE  /\ EarlierPages(c) => EarlierPages(c)'
           /\ CachedPage(c) /\ sfc'[c].fetched = sfc[c].fetched
                 /\ sfc'[c].cache = sfc[c].cache => CachedPage(c)'
           /\ StreamedPage(c) /\ iter'[c].opened = iter[c].opened
                 /\ body'[c] \union iter'[c].pending = body[c] \union iter[c].pending
                 => StreamedPage(c)'
           /\ LastPage(c) /\ sfc'[c] = sfc[c] => LastPage(c)'
           /\ ToTheEnd(c) => ToTheEnd(c)'
<1>1. Start' = Start /\ Stop' = Stop /\ Endless' = Endless /\ Count' = Count
  BY PageIsFixed
<1>2. ToTheEnd(c)' = ToTheEnd(c)
  BY <1>1 DEF ToTheEnd
<1>. QED
  BY <1>1, <1>2 DEF EarlierPages, CachedPage, StreamedPage, LastPage, Covers, Counted

-----------------------------------------------------------------------------
(* Reading the page.  With a sentinel row or without, the cache is the     *)
(* page, and a cache that is short, or had no sentinel, ends the table.    *)

LEMMA FetchedPage ==
    ASSUME BaseInv, Pageable, NEW c \in Collections, FetchResults(c)
    PROVE  /\ sfc'[c].cache = Slice(table[c], Start, Stop)
           /\ ~Endless /\ (Cardinality(sfc'[c].cache) < Count \/ sfc'[c].hasMore = "no")
                 => Cardinality(table[c]) <= Stop
<1>. DEFINE T == table[c]
            n == Cardinality(T)
<1>1. /\ T \in SUBSET Rows /\ n \in Nat /\ ~req.hits /\ req.ordered
      /\ sfc \in [Collections -> CollectionType]
  BY RowsAreFinite DEF BaseInv, TypeInv, TypeOK, Pageable
<1>2. /\ Start \in Nat
      /\ ~Endless => /\ Count \in Nat /\ Count > 0
                     /\ Stop = Start + Count /\ StopWithSentinel = Start + Count + 1
  BY <1>1, PageBounds DEF BaseInv
<1>3. ~Endless => Cardinality(Slice(T, Start, Start + Count)) =
          IF n <= Start THEN 0 ELSE IF n <= Start + Count THEN n - Start ELSE Count
  BY <1>1, <1>2, SliceCount
<1>4. CASE Endless \/ ~UseSentinelRecord
  <2>1. sfc' = [sfc EXCEPT ![c].fetched = TRUE, ![c].cache = Slice(T, Start, Stop)]
    BY <1>1, <1>4 DEF FetchResults, Slices
  <2>2. sfc'[c].cache = Slice(T, Start, Stop) /\ sfc'[c].hasMore = sfc[c].hasMore
    BY <1>1, <2>1 DEF CollectionType
  <2>3. sfc'[c].hasMore = "unknown"
    BY <2>2, FetchesUnreadPage DEF BaseInv, SizeInv, SizeOK
  <2>. HIDE DEF n
  <2>4. ~Endless /\ Cardinality(sfc'[c].cache) < Count => n <= Stop
    BY <1>1, <1>2, <1>3, <2>2
  <2>. QED
    BY <2>2, <2>3, <2>4 DEF n
<1>5. CASE ~Endless /\ UseSentinelRecord
  <2>. DEFINE rows == Slice(T, Start, Start + Count + 1)
  <2>1. sfc' = [sfc EXCEPT ![c].fetched = TRUE,
                           ![c].cache   = Slice(rows, 0, Count),
                           ![c].hasMore = IF Cardinality(rows) > Count THEN "yes" ELSE "no"]
    BY <1>1, <1>2, <1>5 DEF FetchResults, Slices
  <2>2. /\ sfc'[c].cache = Slice(rows, 0, Count)
        /\ sfc'[c].hasMore = IF Cardinality(rows) > Count THEN "yes" ELSE "no"
    BY <1>1, <2>1 DEF CollectionType
  <2>3. sfc'[c].cache = Slice(T, Start, Start + Count)
    BY <1>1, <1>2, <1>5, <2>2, SliceOfSlice
  <2>4. Cardinality(rows) =
           IF n <= Start THEN 0 ELSE IF n <= Start + Count + 1 THEN n - Start ELSE Count + 1
    BY <1>1, <1>2, <1>5, SliceCount
  <2>. HIDE DEF n, rows
  <2>5. Cardinality(sfc'[c].cache) < Count \/ sfc'[c].hasMore = "no" => n <= Stop
    BY <1>1, <1>2, <1>3, <1>5, <2>2, <2>3, <2>4
  <2>. QED
    BY <1>2, <1>5, <2>3, <2>5 DEF n
<1>. QED
  BY <1>4, <1>5

LEMMA EndOfTable ==
    ASSUME TypeInv, NEW c \in Collections, ~req.hits, Promises,
           Endless \/ Cardinality(table[c]) <= Stop
    PROVE  ToTheEnd(c)
<1>1. table[c] \in SUBSET Rows /\ Stop \in Int \union {Infinity}
      /\ (Stop = Infinity \/ Cardinality(table[c]) <= Stop)
  BY PageBounds DEF TypeInv, TypeOK
<1>2. Slice(table[c], 0, Stop) = table[c]
  BY <1>1, WholeSlice
<1>. QED
  BY <1>2 DEF ToTheEnd, Promises

LEMMA FetchPages ==
    ASSUME BaseInv, PagesInv, NEW c \in Collections, FetchResults(c)
    PROVE  PagesInv'
<1>1. /\ \A d \in Collections : d # c => sfc'[d] = sfc[d]
      /\ sfc'[c].fetched = TRUE /\ sfc'[c].matched = sfc[c].matched
      /\ UNCHANGED <<stage, at, mode, req, iter, body, out, table, client>>
  BY FetchEffect, FetchKeepsMatched DEF BaseInv, FetchResults
<1>2. /\ Start' = Start /\ Stop' = Stop /\ Endless' = Endless /\ Count' = Count
      /\ Queries' = Queries
  BY <1>1, PageIsFixed
<1>3. Queries \subseteq Collections /\ ~req.hits
  BY PageBounds DEF BaseInv, PagesInv, Pageable
<1>4. Pageable' /\ Promises'
  BY <1>1, <1>2 DEF PagesInv, Pageable, Promises
<1>5. LinkGoesOn'
  BY <1>1, <1>2 DEF PagesInv, LinkGoesOn, ToTheEnd
<1>6. ASSUME NEW d \in Queries, ~client.disturbed[d] PROVE CollectionPages(d)'
  <2>1. d \in Collections /\ CollectionPages(d)
    BY <1>3, <1>6 DEF PagesInv, PagesAreCovered
  <2>2. EarlierPages(d)' /\ StreamedPage(d)'
    BY <1>1, <2>1, SamePages DEF CollectionPages
  <2>3. CASE d # c
    BY <1>1, <2>1, <2>2, <2>3, SamePages DEF CollectionPages
  <2>4. CASE d = c
    <3>1. /\ sfc'[c].cache = Slice(table[c], Start, Stop)
          /\ ~Endless /\ (Cardinality(sfc'[c].cache) < Count \/ sfc'[c].hasMore = "no")
                => ToTheEnd(c)
      BY <1>3, FetchedPage, EndOfTable DEF BaseInv, PagesInv
    <3>2. CachedPage(c)'
      BY <1>1, <1>2, <3>1 DEF CachedPage, Covers
    <3>3. ToTheEnd(c)' = ToTheEnd(c)
      BY <1>1, <1>2 DEF ToTheEnd
    <3>4. LastPage(c)'
      BY <1>1, <1>2, <2>1, <2>4, <3>1, <3>3 DEF CollectionPages, LastPage, Counted
    <3>. QED
      BY <2>2, <2>4, <3>2, <3>4 DEF CollectionPages
  <2>. QED
    BY <2>3, <2>4
<1>7. PagesAreCovered'
  BY <1>1, <1>2, <1>6 DEF PagesAreCovered
<1>. QED
  BY <1>4, <1>5, <1>7 DEF PagesInv

LEMMA CountPages ==
    ASSUME BaseInv, PagesInv, NEW c \in Collections, CountMatched(c)
    PROVE  PagesInv'
<1>1. /\ \A d \in Collections : /\ sfc'[d].fetched = sfc[d].fetched
                                /\ sfc'[d].cache = sfc[d].cache
                                /\ sfc'[d].hasMore = sfc[d].hasMore
                                /\ d # c => sfc'[d] = sfc[d]
      /\ sfc'[c].matched = Cardinality(table[c])
      /\ UNCHANGED <<stage, at, mode, req, iter, body, table, client>>
      /\ out'.next = out.next
  <2>1. sfc \in [Collections -> CollectionType] /\ out \in ResponseType
    BY DEF BaseInv, TypeInv, TypeOK
  <2>2. sfc' = [sfc EXCEPT ![c].matched = Cardinality(table[c])]
    BY DEF CountMatched
  <2>3. out'.next = out.next
    BY <2>1 DEF CountMatched, ResponseType
  <2>. QED
    BY <2>1, <2>2, <2>3 DEF CountMatched, CollectionType
<1>2. /\ Start' = Start /\ Stop' = Stop /\ Endless' = Endless /\ Count' = Count
      /\ Queries' = Queries
  BY <1>1, PageIsFixed
<1>3. Queries \subseteq Collections /\ ~req.hits
  BY PageBounds DEF BaseInv, PagesInv, Pageable
<1>4. Pageable' /\ Promises'
  BY <1>1, <1>2 DEF PagesInv, Pageable, Promises
<1>5. LinkGoesOn'
  BY <1>1, <1>2 DEF PagesInv, LinkGoesOn, ToTheEnd
<1>6. ASSUME NEW d \in Queries, ~client.disturbed[d] PROVE CollectionPages(d)'
  <2>1. d \in Collections /\ CollectionPages(d)
    BY <1>3, <1>6 DEF PagesInv, PagesAreCovered
  <2>2. EarlierPages(d)' /\ StreamedPage(d)' /\ CachedPage(d)'
    BY <1>1, <2>1, SamePages DEF CollectionPages
  <2>3. CASE d # c
    BY <1>1, <2>1, <2>2, <2>3, SamePages DEF CollectionPages
  <2>4. CASE d = c
    <3>1. ~Endless /\ sfc'[c].matched <= Stop => ToTheEnd(c)
      BY <1>1, <1>3, EndOfTable DEF BaseInv, PagesInv
    <3>2. ToTheEnd(c)' = ToTheEnd(c)
      BY <1>1, <1>2 DEF ToTheEnd
    <3>3. LastPage(c)'
      BY <1>1, <1>2, <2>1, <2>4, <3>1, <3>2 DEF CollectionPages, LastPage
    <3>. QED
      BY <2>2, <2>4, <3>3 DEF CollectionPages
  <2>. QED
    BY <2>3, <2>4
<1>7. PagesAreCovered'
  BY <1>1, <1>2, <1>6 DEF PagesAreCovered
<1>. QED
  BY <1>4, <1>5, <1>7 DEF PagesInv

-----------------------------------------------------------------------------
(* Deciding about the next link.                                           *)

(* A step that leaves the page, the table and the client alone.            *)
LEMMA SameCovers ==
    ASSUME PagesInv, UNCHANGED <<mode, req, sfc, iter, body, table, client>>,
           Queries \subseteq Collections
    PROVE  Pageable' /\ PagesAreCovered' /\ (stage' # "idle" => Promises')
<1>1. Endless' = Endless /\ Queries' = Queries
  BY PageIsFixed
<1>2. Pageable' /\ (stage' # "idle" => Promises')
  BY <1>1 DEF PagesInv, Pageable, Promises
<1>3. PagesAreCovered'
  BY <1>1, SamePages DEF PagesInv, PagesAreCovered, CollectionPages
<1>. QED
  BY <1>2, <1>3

LEMMA LastPageIsTheLast ==
    ASSUME BaseInv, PagesInv, NEW c \in Queries, ~client.disturbed[c], ~Endless,
           stage \in {"all", "any"}, SurelyLast(c) \/ (HasNextKnown(c) /\ ~HasNext(c))
    PROVE  ToTheEnd(c)
<1>1. /\ c \in Collections /\ ~req.hits /\ Count \in Nat /\ Count > 0 /\ Start \in Nat
      /\ Stop = Start + Count
  BY PageBounds DEF BaseInv, PagesInv, Pageable
<1>2. /\ ~iter[c].opened /\ iter[c].hasMore = "unknown"
      /\ sfc[c].hasMore # "unknown" => sfc[c].fetched
      /\ sfc[c].hasMore \in Answer /\ sfc[c].matched \in Int
  <2>1. NotYet(c)
    BY DEF NotYet
  <2>2. ~iter[c].opened
    BY <1>1, <2>1 DEF BaseInv, ReadInv, CollectionInv, Streamed
  <2>. QED
    BY <1>1, <2>2 DEF BaseInv, SizeInv, SizeOK, TypeInv, TypeOK, CollectionType
<1>3. LastPage(c)
  BY DEF PagesInv, PagesAreCovered, CollectionPages
<1>4. ~NoPage
  BY <1>1 DEF NoPage
<1>5. CASE SurelyLast(c)
  <2>1. CASE SentinelSeen(c)
    BY <1>1, <1>2, <1>3, <1>4, <1>5, <2>1 DEF SurelyLast, IsSurelyLastPage, SentinelSeen, LastPage
  <2>2. CASE ~SentinelSeen(c)
    <3>1. sfc[c].fetched /\ NumberReturned(c) = Cardinality(sfc[c].cache)
      BY <1>1, <1>2, <1>4, <1>5, <2>2
         DEF SurelyLast, IsSurelyLastPageKnown, NumberReturnedKnown, NumberReturned
    <3>2. NumberReturned(c) < Count \/ sfc[c].hasMore = "no"
      BY <1>1, <1>4, <1>5, <2>2 DEF SurelyLast, IsSurelyLastPage
    <3>. QED
      BY <1>3, <3>1, <3>2 DEF LastPage
  <2>. QED
    BY <2>1, <2>2
<1>6. CASE ~SurelyLast(c) /\ HasNextKnown(c) /\ ~HasNext(c)
  <2>1. CASE sfc[c].hasMore # "unknown"
    BY <1>2, <1>3, <1>4, <1>6, <2>1 DEF HasNext, LastPage, Answer
  <2>2. CASE sfc[c].hasMore = "unknown"
    <3>1. IsSurelyLastPageKnown(c) /\ NumberMatchedKnown(c)
      BY <1>1, <1>4, <1>6, <2>2 DEF HasNextKnown
    <3>2. ~IsSurelyLastPage(c)
      BY <1>6, <3>1 DEF SurelyLast
    <3>3. Counted(c) /\ NumberMatched(c) = sfc[c].matched
      BY <1>1, <1>6, <3>1 DEF NumberMatchedKnown, Counted, NumberMatched
    <3>4. ~(Stop < sfc[c].matched)
      BY <1>1, <1>4, <1>6, <2>2, <3>2, <3>3 DEF HasNext
    <3>. QED
      BY <1>1, <1>2, <1>3, <3>3, <3>4 DEF LastPage
  <2>. QED
    BY <2>1, <2>2
<1>. QED
  BY <1>5, <1>6

LEMMA LinksPages ==
    ASSUME BaseInv, PagesInv, WriteLinks
    PROVE  PagesInv'
<1>1. /\ UNCHANGED <<at, mode, req, sfc, iter, body, table, client>>
      /\ stage \in {"links", "all", "any"} /\ stage' # "idle"
      /\ out \in ResponseType
  BY DEF WriteLinks, SkipLinks, SetPrevious, NoCollectionHasNext, SomeMayHaveNext, SetNext,
         server, AfterLinks, BaseInv, TypeInv, TypeOK
<1>2. /\ Queries \subseteq Collections /\ ~req.hits /\ Start \in Nat
      /\ out.next = NoLink
  BY <1>1, PageBounds DEF BaseInv, PagesInv, Pageable, LinkGoesOn
<1>3. /\ Endless' = Endless /\ Queries' = Queries /\ Start' = Start /\ Count' = Count
      /\ \A c \in Queries : ToTheEnd(c)' = ToTheEnd(c)
  BY <1>1, PageIsFixed DEF ToTheEnd
<1>4. Pageable' /\ PagesAreCovered' /\ Promises'
  BY <1>1, <1>2, SameCovers
<1>5. LinkGoesOn'
  <2>1. CASE SkipLinks
    <3>1. out' = out /\ Endless /\ stage' \notin {"idle", "hits", "links", "all", "any"}
      BY <1>2, <2>1 DEF SkipLinks, server, AfterLinks
    <3>. QED
      BY <1>2, <1>3, <3>1 DEF LinkGoesOn
  <2>2. CASE SetPrevious \/ \E c \in Collections : SomeMayHaveNext(c)
    <3>1. out'.next = out.next /\ stage' \in {"all", "any"}
      BY <1>1, <2>2 DEF SetPrevious, SomeMayHaveNext, server, ResponseType
    <3>. QED
      BY <1>2, <3>1 DEF LinkGoesOn
  <2>3. CASE NoCollectionHasNext
    <3>1. /\ out' = out /\ stage \in {"all", "any"} /\ Waiting = {}
          /\ stage' \notin {"idle", "hits", "links", "all", "any"}
      BY <2>3 DEF NoCollectionHasNext, server, AfterLinks
    <3>2. \A c \in Queries : SurelyLast(c) \/ (HasNextKnown(c) /\ ~HasNext(c))
      BY <3>1 DEF Waiting
    <3>3. \A c \in Queries : ~Endless => client.disturbed[c] \/ ToTheEnd(c)
      BY <3>1, <3>2, LastPageIsTheLast
    <3>. QED
      BY <1>1, <1>2, <1>3, <3>1, <3>3 DEF LinkGoesOn
  <2>4. CASE \E c \in Collections : SetNext(c)
    <3>1. /\ stage = "any" /\ out'.next = Link(Start + Count)
          /\ stage' \notin {"idle", "hits", "links", "all", "any"}
      BY <1>1, <2>4 DEF SetNext, AfterLinks, ResponseType
    <3>2. ~Endless /\ req.linkable
      BY <3>1 DEF BaseInv, TypeInv, LinksHaveAnEnd, PagesInv, Pageable
    <3>3. Start + Count # -1
      BY <1>2, <3>2, PageBounds DEF BaseInv
    <3>4. out'.next # NoLink /\ out'.next.start = Start + Count
      BY <3>1, <3>2, <3>3 DEF Link, NoLink
    <3>. QED
      BY <1>3, <3>1, <3>2, <3>4 DEF LinkGoesOn
  <2>. QED
    BY <2>1, <2>2, <2>3, <2>4 DEF WriteLinks
<1>. QED
  BY <1>4, <1>5 DEF PagesInv

-----------------------------------------------------------------------------
(* Writing the page.                                                       *)

(* What a step of the renderer keeps: a link, and the answer that there is *)
(* none, which was given before.                                           *)
LEMMA RenderKeepsLink ==
    ASSUME PagesInv, UNCHANGED <<mode, req, table, client>>, out'.next = out.next,
           stage \in {"matched", "returned", "members"}, Queries \subseteq Collections,
           stage' \in {"matched", "returned", "members", "responded"}
    PROVE  Pageable' /\ Promises' /\ LinkGoesOn'
<1>1. /\ Start' = Start /\ Count' = Count /\ Endless' = Endless /\ Queries' = Queries
      /\ Stop' = Stop
  BY PageIsFixed
<1>2. \A c \in Queries : ToTheEnd(c)' = ToTheEnd(c)
  BY <1>1 DEF ToTheEnd
<1>3. Pageable' /\ Promises'
  BY <1>1 DEF PagesInv, Pageable, Promises
<1>4. LinkGoesOn'
  BY <1>1, <1>2 DEF PagesInv, LinkGoesOn
<1>. QED
  BY <1>3, <1>4

LEMMA PrintPages ==
    ASSUME BaseInv, PagesInv, PrintMatched \/ PrintReturned
    PROVE  PagesInv'
<1>1. /\ UNCHANGED <<at, mode, req, sfc, iter, body, table, client>>
      /\ stage \in {"matched", "returned"}
      /\ stage' \in {"matched", "returned", "members", "responded"}
  BY DEF PrintMatched, PrintReturned
<1>2. out'.next = out.next
  BY DEF PrintMatched, PrintReturned, BaseInv, TypeInv, TypeOK, ResponseType
<1>3. Queries \subseteq Collections
  BY PageBounds DEF BaseInv, PagesInv, Pageable
<1>4. Pageable' /\ Promises' /\ LinkGoesOn'
  BY <1>1, <1>2, <1>3, RenderKeepsLink
<1>5. PagesAreCovered'
  BY <1>1, <1>3, SameCovers
<1>. QED
  BY <1>4, <1>5 DEF PagesInv

(* What a step that writes collection c finds.  An unread collection is    *)
(* only streamed in a page without an end: GML has read it for the header, *)
(* and a single collection was read for the links.                         *)
Writes(c) ==
    \/ WriteCached(c) \/ OpenIterator(c) \/ CloseIterator(c)
    \/ \E r \in Rows : StreamRow(c, r)

LEMMA WritesPage ==
    ASSUME BaseInv, PagesInv, NEW c \in Collections, Writes(c)
    PROVE  /\ UNCHANGED <<mode, req, sfc, out, table, client>>
           /\ stage = "members" /\ c = at /\ c \in Queries /\ ~req.hits
           /\ stage' \in {"members", "returned", "responded"}
           /\ iter[c].opened \/ OpenIterator(c) \/ sfc[c].fetched
<1>1. /\ UNCHANGED <<mode, req, sfc, out, table, client>> /\ stage = "members" /\ c = at
      /\ stage' \in {"members", "returned", "responded"}
  BY DEF Writes, WriteCached, OpenIterator, CloseIterator, StreamRow, NextCollection,
         AfterMembers
<1>2. at \in 1..N /\ at <= req.queries /\ req.queries \in 1..N
  BY DEF BaseInv, TypeInv, TypeOK, RequestType, Collections, ReadInv, Position
<1>3. at \in Queries
  BY <1>2, NAssumption DEF Queries
<1>4. ~req.hits
  BY DEF PagesInv, Pageable
<1>5. iter[c].opened \/ OpenIterator(c) \/ sfc[c].fetched
  BY <1>4 DEF Writes, WriteCached, CloseIterator, StreamRow
<1>. QED
  BY <1>1, <1>3, <1>4, <1>5

LEMMA StreamsWithoutEnd ==
    ASSUME BaseInv, PagesInv, NEW c \in Collections, OpenIterator(c)
    PROVE  Endless
<1>. SUFFICES ASSUME ~Endless PROVE FALSE
  OBVIOUS
<1>1. /\ stage = "members" /\ c = at /\ c \in Queries /\ ~req.hits
      /\ ~sfc[c].fetched /\ ~iter[c].opened
  BY WritesPage DEF Writes, OpenIterator
<1>2. CASE req.format = "GML"
  BY <1>1, <1>2 DEF BaseInv, ReadInv, Printed, CollectionInv, Announced
<1>3. CASE req.queries = 1
  <2>1. sfc[1].fetched
    BY <1>1 DEF BaseInv, SizeInv, FirstIsRead
  <2>2. c = 1
    BY <1>1, <1>3 DEF Queries
  <2>. QED
    BY <1>1, <2>1, <2>2
<1>. QED
  BY <1>2, <1>3 DEF PagesInv, Pageable

LEMMA WritesCovered ==
    ASSUME BaseInv, PagesInv, NEW c \in Collections, Writes(c), ~client.disturbed[c]
    PROVE  StreamedPage(c)'
<1>1. /\ UNCHANGED <<mode, req, sfc, out, table, client>>
      /\ stage = "members" /\ c = at /\ c \in Queries /\ ~req.hits
  BY WritesPage
<1>2. CollectionPages(c)
  BY <1>1 DEF PagesInv, PagesAreCovered
<1>3. /\ Start' = Start /\ Stop' = Stop /\ Endless' = Endless
  BY <1>1, PageIsFixed
<1>4. /\ iter \in [Collections -> IteratorType] /\ body \in [Collections -> SUBSET Rows]
      /\ table[c] \in SUBSET Rows
  BY DEF BaseInv, TypeInv, TypeOK
<1>5. CASE WriteCached(c)
  BY <1>1, <1>5 DEF WriteCached, StreamedPage, BaseInv, ReadInv, CollectionInv, Streamed
<1>6. CASE OpenIterator(c)
  <2>1. /\ Endless /\ StopWithSentinel = Infinity /\ Stop = Infinity
    BY <1>1, <1>6, StreamsWithoutEnd, PageBounds DEF BaseInv
  <2>2. body[c] = {} /\ body' = body
    <3>1. ~Done(c)
      BY <1>1, NAssumption DEF Done, Collections
    <3>. QED
      BY <1>6, <3>1 DEF OpenIterator, BaseInv, ReadInv, CollectionInv, Unwritten
  <2>3. iter' = [iter EXCEPT ![c].opened = TRUE,
                             ![c].pending = Slice(table[c], Start, Stop)]
    BY <1>6, <2>1 DEF OpenIterator, Slices, PagesInv, Pageable
  <2>4. iter'[c].pending = Slice(table[c], Start, Stop)
    BY <1>4, <2>3 DEF IteratorType
  <2>5. body'[c] \union iter'[c].pending = Slice(table[c], Start, Stop)
    BY <2>2, <2>4
  <2>. QED
    BY <1>1, <1>3, <2>1, <2>5 DEF StreamedPage, Covers
<1>7. CASE CloseIterator(c)
  <2>1. iter[c].opened /\ iter'[c].opened /\ iter'[c].pending = {} /\ body' = body
    BY <1>7, CloseEffect DEF BaseInv, CloseIterator
  <2>2. Endless
    BY <1>2, <2>1 DEF CollectionPages, StreamedPage
  <2>3. iter[c].returned \in Nat
    BY <1>4 DEF IteratorType
  <2>4. ~AtSentinel(c)
    BY <2>2, <2>3, InfinityAssumption DEF AtSentinel, MaxResults, Endless
  <2>5. iter[c].pending = {}
    BY <1>7, <2>4 DEF CloseIterator
  <2>. QED
    BY <1>1, <1>2, <2>1, <2>5, SamePages DEF CollectionPages
<1>8. ASSUME NEW r \in Rows, StreamRow(c, r) PROVE StreamedPage(c)'
  <2>1. /\ iter[c].opened /\ iter'[c].opened /\ r \in iter[c].pending
        /\ iter'[c].pending = iter[c].pending \ {r}
        /\ body'[c] = body[c] \union {r}
    BY <1>8, StreamEffect DEF BaseInv
  <2>2. body'[c] \union iter'[c].pending = body[c] \union iter[c].pending
    BY <2>1
  <2>. QED
    BY <1>1, <1>2, <2>1, <2>2, SamePages DEF CollectionPages
<1>. QED
  BY <1>5, <1>6, <1>7, <1>8 DEF Writes

LEMMA WritesOne ==
    ASSUME BaseInv, NEW c \in Collections, Writes(c), NEW d \in Collections, d # c
    PROVE  iter'[d] = iter[d] /\ body'[d] = body[d]
<1>1. body \in [Collections -> SUBSET Rows]
  BY DEF BaseInv, TypeInv, TypeOK
<1>2. CASE WriteCached(c)
  BY <1>1, <1>2 DEF WriteCached
<1>3. CASE OpenIterator(c)
  BY <1>3, OpenEffect DEF BaseInv, OpenIterator
<1>4. CASE CloseIterator(c)
  BY <1>4, CloseEffect DEF BaseInv, CloseIterator
<1>5. CASE \E r \in Rows : StreamRow(c, r)
  BY <1>5, StreamEffect DEF BaseInv
<1>. QED
  BY <1>2, <1>3, <1>4, <1>5 DEF Writes

LEMMA WritesPages ==
    ASSUME BaseInv, PagesInv, NEW c \in Collections, Writes(c)
    PROVE  PagesInv'
<1>1. /\ UNCHANGED <<mode, req, sfc, out, table, client>>
      /\ stage = "members" /\ c = at /\ c \in Queries /\ ~req.hits
      /\ stage' \in {"members", "returned", "responded"}
  BY WritesPage
<1>2. Queries \subseteq Collections /\ Queries' = Queries
  BY <1>1, PageBounds, PageIsFixed DEF BaseInv
<1>3. Pageable' /\ Promises' /\ LinkGoesOn'
  BY <1>1, <1>2, RenderKeepsLink
<1>4. ASSUME NEW d \in Queries, ~client.disturbed[d] PROVE CollectionPages(d)'
  <2>1. d \in Collections /\ CollectionPages(d)
    BY <1>2, <1>4 DEF PagesInv, PagesAreCovered
  <2>2. EarlierPages(d)' /\ CachedPage(d)' /\ LastPage(d)'
    BY <1>1, <2>1, SamePages DEF CollectionPages
  <2>3. StreamedPage(d)'
    <3>1. CASE d = c
      BY <1>4, <3>1, WritesCovered
    <3>2. CASE d # c
      BY <1>1, <2>1, <3>2, WritesOne, SamePages DEF CollectionPages
    <3>. QED
      BY <3>1, <3>2
  <2>. QED
    BY <2>2, <2>3 DEF CollectionPages
<1>5. PagesAreCovered'
  BY <1>1, <1>2, <1>4 DEF PagesAreCovered
<1>. QED
  BY <1>3, <1>5 DEF PagesInv


-----------------------------------------------------------------------------
(* The client and the other sessions.                                      *)

LEMMA SendPages ==
    ASSUME BaseInv, PagesInv, SendRequest
    PROVE  PagesInv'
<1>1. /\ stage = "idle" /\ stage' \in {"hits", "links"} /\ out'.next = NoLink
      /\ UNCHANGED <<mode, req, table>>
      /\ \A c \in Collections :
            ~sfc'[c].fetched /\ ~iter'[c].opened /\ ~Counted(c)'
  BY DEF SendRequest, StartOperation, EmptyResponse, UnreadCollection, NoIterator, Counted
<1>2. \A c \in Collections :
         /\ client'.earlier[c] = {}
         /\ client'.promised[c] = IF c \in Queries THEN Slice(table[c], Start, Infinity) ELSE {}
  BY <1>1 DEF SendRequest, PagesInv, Promises, BaseInv, TypeInv, TypeOK, ClientType
<1>3. /\ Start' = Start /\ Count' = Count /\ Endless' = Endless /\ Queries' = Queries
      /\ Stop' = Stop
  BY <1>1, PageIsFixed
<1>4. Queries \subseteq Collections /\ Start \in Nat
  BY PageBounds DEF BaseInv, PagesInv, Pageable
<1>5. Pageable'
  BY <1>1, <1>3 DEF PagesInv, Pageable
<1>6. Promises'
  BY <1>1, <1>2, <1>3 DEF Promises, Slice
<1>7. LinkGoesOn'
  BY <1>1 DEF LinkGoesOn
<1>8. ASSUME NEW c \in Queries PROVE CollectionPages(c)'
  <2>1. c \in Collections /\ table[c] \in SUBSET Rows
    BY <1>4 DEF BaseInv, TypeInv, TypeOK
  <2>2. Slice(table[c], 0, Start) \intersect Slice(table[c], Start, Infinity) = {}
    BY <1>4, <2>1, SlicesFit
  <2>3. EarlierPages(c)'
    BY <1>1, <1>2, <1>3, <2>1, <2>2 DEF EarlierPages, Covers
  <2>. QED
    BY <1>1, <2>1, <2>3 DEF CollectionPages, CachedPage, StreamedPage, LastPage
<1>9. PagesAreCovered'
  BY <1>3, <1>8 DEF PagesAreCovered
<1>. QED
  BY <1>5, <1>6, <1>7, <1>9 DEF PagesInv

(* At the end of a response the body is the page.                          *)
LEMMA PageIsWritten ==
    ASSUME BaseInv, PagesInv, stage = "responded", NEW c \in Queries, ~client.disturbed[c]
    PROVE  Covers(c, body[c], Start, Stop)
<1>1. c \in Collections /\ ~req.hits /\ Done(c)
  BY PageBounds DEF BaseInv, PagesInv, Pageable, Done
<1>2. CollectionPages(c)
  BY DEF PagesInv, PagesAreCovered
<1>3. CASE iter[c].opened
  <2>1. iter[c].pending = {}
    BY <1>1, <1>3 DEF BaseInv, TotalInv, Drained
  <2>2. body[c] \union iter[c].pending = body[c]
    BY <2>1
  <2>. QED
    BY <1>2, <1>3, <2>2 DEF CollectionPages, StreamedPage
<1>4. CASE ~iter[c].opened
  BY <1>1, <1>2, <1>4 DEF BaseInv, ReadInv, CollectionInv, Written, CollectionPages, CachedPage
<1>. QED
  BY <1>3, <1>4

LEMMA FollowPages ==
    ASSUME BaseInv, PagesInv, FollowNext
    PROVE  PagesInv'
<1>1. /\ stage = "responded" /\ stage' \in {"hits", "links"} /\ out'.next = NoLink
      /\ UNCHANGED <<mode, table>>
      /\ req' = [req EXCEPT !.startIndex = out.next.start, !.count = out.next.count]
      /\ \A c \in Collections :
            ~sfc'[c].fetched /\ ~iter'[c].opened /\ ~Counted(c)'
      /\ out.next # NoLink
  BY DEF FollowNext, StartOperation, EmptyResponse, UnreadCollection, NoIterator, Counted
<1>2. /\ client'.promised = client.promised /\ client'.disturbed = client.disturbed
      /\ \A c \in Collections : client'.earlier[c] = client.earlier[c] \union body[c]
  BY DEF FollowNext, BaseInv, TypeInv, TypeOK, ClientType
<1>3. /\ ~Endless /\ out.next.start = Stop /\ Stop \in Nat /\ Start \in Nat /\ Start <= Stop
      /\ Queries \subseteq Collections
  BY <1>1, PageBounds DEF BaseInv, PagesInv, Pageable, LinkGoesOn
<1>4. /\ req'.startIndex = Stop /\ req'.hits = req.hits /\ req'.ordered = req.ordered
      /\ req'.linkable = req.linkable /\ req'.format = req.format
      /\ req'.queries = req.queries
  BY <1>1, <1>3 DEF BaseInv, TypeInv, TypeOK, RequestType
<1>5. Start' = Stop /\ Queries' = Queries
  BY <1>3, <1>4 DEF Start, Queries
<1>6. Pageable'
  BY <1>3, <1>4 DEF PagesInv, Pageable
<1>7. Promises'
  BY <1>1, <1>2, <1>5 DEF PagesInv, Promises
<1>8. LinkGoesOn'
  BY <1>1 DEF LinkGoesOn
<1>9. ASSUME NEW c \in Queries, ~client.disturbed[c] PROVE CollectionPages(c)'
  <2>1. c \in Collections /\ table[c] \in SUBSET Rows
    BY <1>3 DEF BaseInv, TypeInv, TypeOK
  <2>2. Covers(c, body[c], Start, Stop)
    BY <1>1, <1>9, PageIsWritten
  <2>3. Covers(c, client.earlier[c], 0, Start)
    BY <1>9 DEF PagesInv, PagesAreCovered, CollectionPages, EarlierPages
  <2>4. Slice(table[c], 0, Start) \union Slice(table[c], Start, Stop)
           = Slice(table[c], 0, Stop)
    BY <1>3, <2>1, SlicesFit
  <2>5. Covers(c, client.earlier[c] \union body[c], 0, Stop)
    BY <2>2, <2>3, <2>4 DEF Covers
  <2>6. EarlierPages(c)'
    BY <1>1, <1>2, <1>5, <2>1, <2>5 DEF EarlierPages, Covers
  <2>. QED
    BY <1>1, <2>1, <2>6 DEF CollectionPages, CachedPage, StreamedPage, LastPage
<1>10. PagesAreCovered'
  BY <1>2, <1>5, <1>9 DEF PagesAreCovered
<1>. QED
  BY <1>6, <1>7, <1>8, <1>10 DEF PagesInv

LEMMA StayPages ==
    ASSUME BaseInv, PagesInv, Stay
    PROVE  PagesInv'
<1>1. /\ UNCHANGED <<at, mode, req, sfc, iter, body, out, table, client>>
      /\ stage = "responded" /\ stage' = "over"
  BY DEF Stay, server
<1>2. Queries \subseteq Collections
  BY PageBounds DEF BaseInv, PagesInv, Pageable
<1>3. Pageable' /\ PagesAreCovered' /\ Promises'
  BY <1>1, <1>2, SameCovers
<1>4. Start' = Start /\ Count' = Count /\ Endless' = Endless
  BY <1>1, PageIsFixed
<1>5. LinkGoesOn'
  BY <1>1, <1>4 DEF PagesInv, LinkGoesOn
<1>. QED
  BY <1>3, <1>5 DEF PagesInv

(* A row that is appended to a table comes after every page.               *)
LEMMA AppendKeepsCovers ==
    ASSUME BaseInv, PagesInv, NEW c \in Collections, NEW x \in Rows,
           \A q \in table[c] : q < x,
           table'[c] = table[c] \union {x}, client'.promised[c] = client.promised[c],
           NEW rows, NEW lo, NEW hi
    PROVE  /\ Covers(c, rows, lo, hi) =>
                 /\ rows \subseteq Slice(table'[c], lo, hi)
                 /\ client'.promised[c] \intersect Slice(table'[c], lo, hi) \subseteq rows
           /\ client.promised[c] \subseteq Slice(table[c], lo, hi)
                 => client'.promised[c] \subseteq Slice(table'[c], lo, hi)
<1>1. table[c] \in SUBSET Rows
  BY DEF BaseInv, TypeInv, TypeOK
<1>2. table[c] \intersect Slice(table[c] \union {x}, lo, hi) = Slice(table[c], lo, hi)
  BY <1>1, SliceAfterAppend
<1>3. client.promised[c] \subseteq table[c]
  BY DEF PagesInv, Promises
<1>. QED
  BY <1>2, <1>3 DEF Covers

LEMMA WritePages ==
    ASSUME BaseInv, PagesInv, NEW c \in Collections, NEW rows \in SUBSET Rows,
           NEW disturbs \in BOOLEAN, Write(c, rows, disturbs),
           \/ disturbs
           \/ \E x \in Rows : rows = table[c] \union {x} /\ \A q \in table[c] : q < x
    PROVE  PagesInv'
<1>1. /\ UNCHANGED <<stage, at, mode, req, sfc, iter, body, out>> /\ stage # "idle"
      /\ table' = [table EXCEPT ![c] = rows]
      /\ client' = [client EXCEPT !.promised[c]  = client.promised[c] \intersect rows,
                                  !.disturbed[c] = client.disturbed[c] \/ disturbs,
                                  !.quiet        = FALSE]
  BY DEF Write, server
<1>2. /\ table \in [Collections -> SUBSET Rows] /\ client \in ClientType
      /\ Queries \subseteq Collections
  BY PageBounds DEF BaseInv, TypeInv, TypeOK, PagesInv, Pageable
<1>3. /\ table'[c] = rows
      /\ client'.promised[c] = client.promised[c] \intersect rows
      /\ client'.disturbed[c] = (client.disturbed[c] \/ disturbs)
      /\ client'.earlier = client.earlier
      /\ \A d \in Collections : d # c => /\ table'[d] = table[d]
                                         /\ client'.promised[d] = client.promised[d]
                                         /\ client'.disturbed[d] = client.disturbed[d]
  BY <1>1, <1>2 DEF ClientType
<1>4. /\ Start' = Start /\ Count' = Count /\ Endless' = Endless /\ Queries' = Queries
      /\ Stop' = Stop
  BY <1>1, PageIsFixed
<1>5. Pageable'
  BY <1>1, <1>4 DEF PagesInv, Pageable
<1>6. Promises'
  <2>. SUFFICES ASSUME NEW d \in Collections
                PROVE  /\ d \notin Queries => client'.promised[d] = {}
                       /\ client'.promised[d] \subseteq table'[d]
    BY <1>1, <1>4 DEF Promises
  <2>1. /\ d \notin Queries => client.promised[d] = {}
        /\ client.promised[d] \subseteq table[d]
    BY DEF PagesInv, Promises
  <2>. QED
    BY <1>3, <2>1
<1>7. ASSUME NEW d \in Queries, ~client'.disturbed[d]
      PROVE  /\ CollectionPages(d)'
             /\ ToTheEnd(d) => ToTheEnd(d)'
  <2>1. d \in Collections /\ ~client.disturbed[d]
    BY <1>2, <1>3, <1>7
  <2>2. CollectionPages(d)
    BY <2>1 DEF PagesInv, PagesAreCovered
  <2>3. ASSUME NEW s, NEW lo, NEW hi
        PROVE  /\ Covers(d, s, lo, hi) =>
                     /\ s \subseteq Slice(table'[d], lo, hi)
                     /\ client'.promised[d] \intersect Slice(table'[d], lo, hi) \subseteq s
               /\ client.promised[d] \subseteq Slice(table[d], lo, hi)
                     => client'.promised[d] \subseteq Slice(table'[d], lo, hi)
    <3>1. CASE d # c
      BY <1>3, <2>1, <3>1 DEF Covers
    <3>2. CASE d = c
      <4>1. PICK x \in Rows : rows = table[c] \union {x} /\ \A q \in table[c] : q < x
        BY <1>3, <1>7, <3>2
      <4>2. client.promised[c] \subseteq table[c]
        BY DEF PagesInv, Promises
      <4>3. table'[c] = table[c] \union {x} /\ client'.promised[c] = client.promised[c]
        BY <1>3, <4>1, <4>2
      <4>. QED
        BY <3>2, <4>1, <4>3, AppendKeepsCovers
    <3>. QED
      BY <3>1, <3>2
  <2>4. ToTheEnd(d) => ToTheEnd(d)'
    BY <1>4, <2>3 DEF ToTheEnd
  <2>5. EarlierPages(d)'
    BY <1>3, <1>4, <2>2, <2>3 DEF CollectionPages, EarlierPages, Covers
  <2>6. CachedPage(d)'
    BY <1>1, <1>4, <2>2, <2>3 DEF CollectionPages, CachedPage, Covers
  <2>7. StreamedPage(d)'
    BY <1>1, <1>4, <2>2, <2>3 DEF CollectionPages, StreamedPage, Covers
  <2>8. LastPage(d)'
    BY <1>1, <1>4, <2>2, <2>4 DEF CollectionPages, LastPage, Counted
  <2>. QED
    BY <2>4, <2>5, <2>6, <2>7, <2>8 DEF CollectionPages
<1>8. PagesAreCovered'
  BY <1>4, <1>7 DEF PagesAreCovered
<1>9. LinkGoesOn'
  <2>1. \A d \in Queries : client.disturbed[d] => client'.disturbed[d]
    BY <1>2, <1>3
  <2>. QED
    BY <1>1, <1>4, <1>7, <2>1 DEF PagesInv, LinkGoesOn
<1>. QED
  BY <1>5, <1>6, <1>8, <1>9 DEF PagesInv

(* What a write is: it disturbs the table, or appends to it.               *)
LEMMA DatabaseWrites ==
    ASSUME TypeInv, Database
    PROVE  \E c \in Collections, rows \in SUBSET Rows, disturbs \in BOOLEAN :
              /\ Write(c, rows, disturbs)
              /\ \/ disturbs
                 \/ \E x \in Rows : rows = table[c] \union {x} /\ \A q \in table[c] : q < x
<1>1. PICK c \in Collections, r \in Rows : Insert(c, r) \/ Delete(c, r)
  BY DEF Database
<1>2. table[c] \in SUBSET Rows
  BY DEF TypeInv, TypeOK
<1>3. CASE Delete(c, r)
  <2>1. table[c] \ {r} \in SUBSET Rows /\ TRUE \in BOOLEAN
    BY <1>2
  <2>. QED
    BY <1>3, <2>1 DEF Delete
<1>4. CASE Insert(c, r)
  <2>. DEFINE disturbs == \E q \in table[c] : r < q
  <2>1. /\ table[c] \union {r} \in SUBSET Rows /\ disturbs \in BOOLEAN
        /\ Write(c, table[c] \union {r}, disturbs) /\ r \notin table[c]
    BY <1>2, <1>4 DEF Insert
  <2>2. disturbs \/ \A q \in table[c] : q < r
    <3>1. r \in Nat /\ \A q \in table[c] : q \in Nat /\ q # r
      BY <1>2, <2>1, RowsAssumption
    <3>. QED
      BY <3>1
  <2>. HIDE DEF disturbs
  <2>. QED
    BY <2>1, <2>2
<1>. QED
  BY <1>1, <1>3, <1>4

LEMMA DatabasePages ==
    ASSUME BaseInv, PagesInv, Database
    PROVE  PagesInv'
BY DatabaseWrites, WritePages DEF BaseInv

LEMMA NextPages == BaseInv /\ PagesInv /\ [Next]_vars => PagesInv'
<1>. SUFFICES ASSUME BaseInv, PagesInv, [Next]_vars PROVE PagesInv'
  OBVIOUS
<1>1. CASE ReadDatabase
  <2>1. \A c \in Collections : ~CountHits(c)
    <3>1. stage # "hits"
      BY DEF BaseInv, LinkInv, HitsOnly, PagesInv, Pageable
    <3>. QED
      BY <3>1 DEF CountHits
  <2>. QED
    BY <1>1, <2>1, FetchPages, CountPages DEF ReadDatabase
<1>2. CASE WriteLinks
  BY <1>2, LinksPages
<1>3. CASE Render
  BY <1>3, PrintPages, WritesPages DEF Render, Writes
<1>4. CASE Client
  BY <1>4, SendPages, FollowPages, StayPages DEF Client
<1>5. CASE Database
  BY <1>5, DatabasePages
<1>6. CASE UNCHANGED vars
  <2>1. UNCHANGED <<stage, at, mode, req, sfc, iter, body, out, table, client>>
    BY <1>6 DEF vars, server
  <2>2. Queries \subseteq Collections
    BY PageBounds DEF BaseInv, PagesInv, Pageable
  <2>3. /\ Start' = Start /\ Count' = Count /\ Endless' = Endless /\ Queries' = Queries
        /\ Stop' = Stop
    BY <2>1, PageIsFixed
  <2>4. Pageable' /\ PagesAreCovered'
    BY <2>1, <2>2, SameCovers
  <2>5. Promises' /\ LinkGoesOn'
    BY <2>1, <2>3 DEF PagesInv, Promises, LinkGoesOn, ToTheEnd
  <2>. QED
    BY <2>4, <2>5 DEF PagesInv
<1>. QED
  BY <1>1, <1>2, <1>3, <1>4, <1>5, <1>6 DEF Next, Server

LEMMA InitPages ==
    ASSUME \A r \in Requests : CanBePaged(r), Init
    PROVE  PagesInv
<1>1. /\ stage = "idle" /\ out.next = NoLink /\ req \in Requests /\ CanBePaged(req)
      /\ \A c \in Collections :
            /\ ~sfc[c].fetched /\ ~iter[c].opened /\ ~Counted(c)
            /\ client.earlier[c] = {} /\ client.promised[c] = {}
  BY DEF Init, EmptyResponse, UnreadCollection, NoIterator, Counted, Nothing
<1>2. AllAtOnce(req) => (~req.hits => Endless)
  BY InfinityAssumption DEF AllAtOnce, Endless, Count, Smallest, DefaultPageSize, MaxPageSize
<1>3. Pageable
  BY <1>1, <1>2 DEF CanBePaged, Pageable
<1>4. Queries \subseteq Collections
  BY InitTypeInv, PageTypes DEF TypeInv, TypeOK
<1>5. Promises /\ LinkGoesOn
  BY <1>1 DEF Promises, LinkGoesOn
<1>6. PagesAreCovered
  BY <1>1, <1>4
     DEF PagesAreCovered, CollectionPages, EarlierPages, CachedPage, StreamedPage, LastPage, Covers
<1>. QED
  BY <1>3, <1>5, <1>6 DEF PagesInv


-----------------------------------------------------------------------------
(* Every step is a step of PagedRead, or one that it does not see.         *)

Phase == IF stage = "idle" THEN "before" ELSE IF stage = "over" THEN "over" ELSE "reading"

LEMMA UnseenStep ==
    ASSUME Phase' = Phase,
           UNCHANGED <<table, client.promised, client.disturbed, client.earlier, body>>
    PROVE  UNCHANGED Paged!vars
BY DEF Paged!vars, Phase

LEMMA DeliverStep ==
    ASSUME BaseInv, PagesInv, NEW c \in Collections, BaseInv',
           WriteCached(c) \/ \E r \in Rows : StreamRow(c, r)
    PROVE  Paged!Deliver
<1>1. /\ UNCHANGED <<mode, req, sfc, out, table, client>>
      /\ stage = "members" /\ c = at /\ c \in Queries /\ ~req.hits
      /\ stage' \in {"members", "returned", "responded"}
  BY WritesPage DEF Writes
<1>2. /\ body \in [Collections -> SUBSET Rows] /\ body' \in [Collections -> SUBSET Rows]
      /\ table[c] \in SUBSET Rows
  BY DEF BaseInv, TypeInv, TypeOK
<1>3. \A d \in Collections : d # c => body'[d] = body[d]
  BY WritesOne DEF Writes
<1>4. /\ body[c] \subseteq body'[c]
      /\ ~client.disturbed[c] => body'[c] \ body[c] \subseteq Slice(table[c], Start, Stop)
  <2>1. ~client.disturbed[c] => CollectionPages(c)
    BY <1>1 DEF PagesInv, PagesAreCovered
  <2>2. CASE WriteCached(c)
    <3>1. sfc[c].fetched /\ body'[c] = sfc[c].cache
      BY <1>1, <1>2, <2>2 DEF WriteCached
    <3>2. ~Done(c)
      BY <1>1, NAssumption DEF Done, Collections
    <3>3. body[c] = {}
      BY <3>1, <3>2 DEF BaseInv, ReadInv, CollectionInv, Unwritten, Streamed
    <3>. QED
      BY <2>1, <3>1, <3>3 DEF CollectionPages, CachedPage, Covers
  <2>3. ASSUME NEW r \in Rows, StreamRow(c, r)
        PROVE  <1>4!1 /\ <1>4!2
    <3>1. iter[c].opened /\ r \in iter[c].pending /\ body'[c] = body[c] \union {r}
      BY <2>3, StreamEffect DEF BaseInv
    <3>. QED
      BY <2>1, <3>1 DEF CollectionPages, StreamedPage, Covers
  <2>. QED
    BY <2>2, <2>3
<1>5. client.disturbed[c] \/ (body'[c] \ body[c]) \cap client.earlier[c] = {}
  <2>. SUFFICES ASSUME ~client.disturbed[c]
                PROVE  (body'[c] \ body[c]) \cap client.earlier[c] = {}
    OBVIOUS
  <2>1. client.earlier[c] \subseteq Slice(table[c], 0, Start)
    BY <1>1 DEF PagesInv, PagesAreCovered, CollectionPages, EarlierPages, Covers
  <2>2. Slice(table[c], 0, Start) \cap Slice(table[c], Start, Stop) = {}
    BY <1>1, <1>2, PageBounds, SlicesFit DEF BaseInv
  <2>. QED
    BY <1>4, <2>1, <2>2
<1>6. ASSUME NEW d \in Collections
      PROVE  /\ body[d] \subseteq body'[d]
             /\ client.disturbed[d] \/ (body'[d] \ body[d]) \cap client.earlier[d] = {}
  BY <1>3, <1>4, <1>5
<1>. QED
  BY <1>1, <1>2, <1>6 DEF Paged!Deliver

LEMMA FinishStep ==
    ASSUME BaseInv, PagesInv, Stay
    PROVE  Paged!Finish
<1>1. /\ stage = "responded" /\ stage' = "over" /\ UNCHANGED <<table, client, body>>
      /\ out.next = NoLink \/ req.format = "CSV"
  BY DEF Stay, server
<1>2. /\ ~req.hits /\ Start \in Nat /\ Stop \in Nat \union {Infinity}
      /\ Stop = Infinity \/ Start <= Stop
      /\ Endless => Stop = Infinity
      /\ Queries \subseteq Collections
  BY PageBounds DEF BaseInv, PagesInv, Pageable
<1>3. ~Endless => out.next = NoLink
  BY <1>1 DEF PagesInv, Pageable
<1>4. ASSUME NEW c \in Collections, ~client.disturbed[c]
      PROVE  client.promised[c] \subseteq client.earlier[c] \union body[c]
  <2>1. CASE c \notin Queries
    BY <2>1 DEF PagesInv, Promises
  <2>2. CASE c \in Queries
    <3>1. table[c] \in SUBSET Rows
      BY DEF BaseInv, TypeInv, TypeOK
    <3>2. ToTheEnd(c)
      BY <1>1, <1>2, <1>3, <1>4, <2>2, EndOfTable DEF BaseInv, PagesInv, LinkGoesOn
    <3>3. Covers(c, client.earlier[c], 0, Start)
      BY <1>4, <2>2 DEF PagesInv, PagesAreCovered, CollectionPages, EarlierPages
    <3>4. Covers(c, body[c], Start, Stop)
      BY <1>1, <1>4, <2>2, PageIsWritten
    <3>5. Slice(table[c], 0, Start) \union Slice(table[c], Start, Stop)
             = Slice(table[c], 0, Stop)
      BY <1>2, <3>1, SlicesFit
    <3>. QED
      BY <3>2, <3>3, <3>4, <3>5 DEF Covers, ToTheEnd
  <2>. QED
    BY <2>1, <2>2
<1>. QED
  BY <1>1, <1>4 DEF Paged!Finish

LEMMA WriteStep ==
    ASSUME BaseInv, PagesInv, BaseInv', NEW c \in Collections, NEW rows \in SUBSET Rows,
           NEW disturbs \in BOOLEAN, Write(c, rows, disturbs),
           \/ disturbs
           \/ \E x \in Rows : rows = table[c] \union {x} /\ \A q \in table[c] : q < x
    PROVE  \/ \E d \in Collections, x \in Rows : Paged!Append(d, x)
           \/ \E d \in Collections : Paged!Disturb(d)
<1>1. /\ UNCHANGED <<stage, body>> /\ table' = [table EXCEPT ![c] = rows]
      /\ client' = [client EXCEPT !.promised[c]  = client.promised[c] \intersect rows,
                                  !.disturbed[c] = client.disturbed[c] \/ disturbs,
                                  !.quiet        = FALSE]
  BY DEF Write, server
<1>2. /\ table \in [Collections -> SUBSET Rows] /\ client \in ClientType
  BY DEF BaseInv, TypeInv, TypeOK
<1>3. /\ client'.promised = [client.promised EXCEPT ![c] = client.promised[c] \intersect rows]
      /\ client'.disturbed = [client.disturbed EXCEPT ![c] = client.disturbed[c] \/ disturbs]
      /\ client'.earlier = client.earlier
  BY <1>1, <1>2 DEF ClientType
<1>4. /\ client.promised \in [Collections -> SUBSET Rows]
      /\ client.disturbed \in [Collections -> BOOLEAN]
  BY <1>2 DEF ClientType
<1>5. CASE disturbs
  <2>1. client'.disturbed = [client.disturbed EXCEPT ![c] = TRUE]
    BY <1>3, <1>4, <1>5
  <2>2. client.promised[c] \intersect rows \in SUBSET client.promised[c]
    OBVIOUS
  <2>. QED
    BY <1>1, <1>3, <2>1, <2>2 DEF Paged!Disturb
<1>6. CASE ~disturbs
  <2>1. PICK x \in Rows : rows = table[c] \union {x} /\ \A q \in table[c] : q < x
    BY <1>6
  <2>2. client.promised[c] \subseteq table[c]
    BY DEF PagesInv, Promises
  <2>3. client'.promised = client.promised
    BY SMTT(30), <1>3, <1>4, <2>1, <2>2
  <2>4. client'.disturbed = client.disturbed
    BY <1>3, <1>4, <1>6
  <2>. QED
    BY <1>1, <1>3, <2>1, <2>3, <2>4 DEF Paged!Append
<1>. QED
  BY <1>5, <1>6

LEMMA PagedStep ==
    ASSUME BaseInv, PagesInv, BaseInv', [Next]_vars
    PROVE  [Paged!Next]_(Paged!vars)
<1>1. CASE ReadDatabase \/ WriteLinks \/ PrintMatched \/ PrintReturned
  <2>1. UNCHANGED <<table, client, body>> /\ Phase' = Phase
    BY <1>1 DEF ReadDatabase, FetchResults, CountMatched, CountHits, WriteLinks, SkipLinks,
       SetPrevious, NoCollectionHasNext, SomeMayHaveNext, SetNext, PrintMatched,
       PrintReturned, server, Phase, AfterLinks
  <2>. QED
    BY <2>1, UnseenStep
<1>2. ASSUME NEW c \in Collections, OpenIterator(c) \/ CloseIterator(c)
      PROVE  UNCHANGED Paged!vars
  <2>1. UNCHANGED <<table, client, body>> /\ Phase' = Phase
    BY <1>2 DEF OpenIterator, CloseIterator, NextCollection, AfterMembers, Phase
  <2>. QED
    BY <2>1, UnseenStep
<1>3. ASSUME NEW c \in Collections, WriteCached(c) \/ \E r \in Rows : StreamRow(c, r)
      PROVE  Paged!Next
  BY <1>3, DeliverStep DEF Paged!Next
<1>4. CASE SendRequest
  <2>1. /\ stage = "idle" /\ stage' \in {"hits", "links"} /\ body' = Nothing /\ table' = table
    BY <1>4 DEF SendRequest, StartOperation
  <2>2. /\ client'.disturbed = [c \in Collections |-> FALSE]
        /\ client'.earlier = client.earlier
        /\ client'.promised = [c \in Collections |->
              IF c \in Queries THEN Slice(table[c], Start, Infinity) ELSE {}]
    BY <1>4 DEF SendRequest, BaseInv, TypeInv, TypeOK, ClientType
  <2>3. \A c \in Collections : client'.promised[c] \subseteq table[c]
    BY <2>2 DEF Slice
  <2>4. client'.promised \in [Collections -> SUBSET Rows]
    BY DEF BaseInv, TypeInv, TypeOK, ClientType
  <2>5. body' = body
    <3>1. body \in [Collections -> SUBSET Rows]
      BY DEF BaseInv, TypeInv, TypeOK
    <3>2. \A c \in Collections : body[c] = {}
      BY <2>1 DEF BaseInv, ReadInv, CollectionInv, Unwritten, Streamed, NotYet, Done
    <3>. QED
      BY <2>1, <3>1, <3>2 DEF Nothing
  <2>6. Paged!Begin
    BY <2>1, <2>2, <2>3, <2>4, <2>5 DEF Paged!Begin
  <2>. QED
    BY <2>6 DEF Paged!Next
<1>5. CASE FollowNext
  <2>1. /\ stage = "responded" /\ stage' \in {"hits", "links"}
        /\ body' = Nothing /\ table' = table
    BY <1>5 DEF FollowNext, StartOperation
  <2>2. /\ client'.disturbed = client.disturbed /\ client'.promised = client.promised
        /\ client'.earlier = [c \in Collections |-> client.earlier[c] \union body[c]]
    BY <1>5 DEF FollowNext, BaseInv, TypeInv, TypeOK, ClientType
  <2>3. Paged!TurnPage
    BY <2>1, <2>2 DEF Paged!TurnPage, Paged!Nothing, Nothing
  <2>. QED
    BY <2>3 DEF Paged!Next
<1>6. CASE Stay
  BY <1>6, FinishStep DEF Paged!Next
<1>7. CASE Database
  BY <1>7, DatabaseWrites, WriteStep DEF BaseInv, Paged!Next
<1>8. CASE UNCHANGED vars
  <2>1. UNCHANGED <<table, client, body>> /\ Phase' = Phase
    BY <1>8 DEF vars, server, Phase
  <2>. QED
    BY <2>1, UnseenStep
<1>. QED
  BY <1>1, <1>2, <1>3, <1>4, <1>5, <1>6, <1>7, <1>8 DEF Next, Server, Render, Client

LEMMA PagedInit == Init => Paged!Init
BY TablesAssumption DEF Init, Paged!Init, Paged!Nothing, Nothing

(* A client that follows the next links of a GetFeature response reads the *)
(* result as PagedRead promises: every row that was there at the start and *)
(* stays is on one of the pages, and no row is on two, however the answer  *)
(* about a next page was found, whatever is appended meanwhile, for any    *)
(* tables, page sizes and settings (next and has_next in results.py).      *)
THEOREM PagingImplementsPagedRead ==
    ASSUME \A r \in Requests : CanBePaged(r)
    PROVE  Spec => PagesAreComplete
<1>1. Init => PagesInv
  BY InitPages
<1>2. BaseInv /\ PagesInv /\ [Next]_vars => PagesInv'
  BY NextPages
<1>3. BaseInv /\ PagesInv /\ BaseInv' /\ [Next]_vars => [Paged!Next]_(Paged!vars)
  BY PagedStep
<1>4. Spec => []BaseInv
  BY NumbersInvariant, PTL DEF BaseInv
<1>. QED
  BY <1>1, <1>2, <1>3, <1>4, PagedInit, PTL DEF Spec, PagesAreComplete, Paged!Spec
=============================================================================
