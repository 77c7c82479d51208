------------------------ MODULE MCGetFeaturePaging ------------------------
(***************************************************************************)
(* Values of GetFeaturePaging's constants for TLC: two feature types, four *)
(* sort keys, pages of one or two features.  The initial tables leave gaps *)
(* between the keys, so that a writer can insert before, between and after *)
(* the rows that are there, and hold fewer, exactly as many and more rows  *)
(* than a page and its sentinel.                                           *)
(***************************************************************************)
EXTENDS GetFeaturePaging

MCRows == 1..4
MCMaxPage == [f \in Formats |-> IF f = "GML" THEN 2 ELSE Infinity]

FewTables == [Collections -> {{}, {2}, {1, 3}, {1, 2, 3}}]
NoPrefetch == [c \in Collections |-> FALSE]
Prefetch == [c \in Collections |-> TRUE]

Request(formats, hits, startIndexes, prefetches, ordered, linkable) ==
    [format : formats, hits : hits, startIndex : startIndexes, count : 0..2,
     queries : Collections, prefetch : prefetches, ordered : ordered,
     linkable : linkable]

(* What a client can page through: results in a fixed order, with links.   *)
(* GeoJSON for one query, or without COUNT; the pages of the others may be *)
(* one feature too long (see KeepsPageSize).                               *)
PagingRequests ==
    {r \in Request(Formats, {FALSE}, {0, 1}, {NoPrefetch, Prefetch}, {TRUE}, {TRUE}) :
        \/ r.format = "GML" /\ r.prefetch = NoPrefetch
        \/ r.format = "GeoJSON" /\ r.queries = 1
        \/ r.count = 0}

(* Everything else as well.                                                *)
AnyRequests ==
    Request({"GML"}, {FALSE}, {-1, 1, 3}, {NoPrefetch}, {TRUE}, {TRUE})
    \union Request({"GeoJSON"}, {FALSE}, {-1, 1, 3}, {NoPrefetch, Prefetch}, {TRUE}, {TRUE})
    \union Request({"CSV"}, {FALSE}, {1}, {NoPrefetch, Prefetch}, {TRUE}, {TRUE})
    \union Request(Formats, {FALSE}, {1}, {NoPrefetch}, {FALSE}, {TRUE})
    \union Request({"GML", "GeoJSON"}, {FALSE}, {1}, {NoPrefetch}, {TRUE}, {FALSE})
    \union Request(Formats, {TRUE}, {0, 1}, {NoPrefetch}, {TRUE}, {TRUE})
=============================================================================
