--------------------------- MODULE PrefetchCache ---------------------------
(***************************************************************************)
(* ChunkedQuerySetIterator (output/iters.py): the features of a large      *)
(* result are streamed in chunks, the objects their relations lead to are  *)
(* prefetched for a whole chunk at a time, and the objects of foreign keys *)
(* are kept in a least-recently-used cache for the chunks to come.         *)
(*                                                                         *)
(* The rows come from a cursor, so they are those of one moment.  Every    *)
(* prefetch is a query of its own, and a feature whose relation was not    *)
(* prefetched reads it when it is rendered: other sessions change the      *)
(* related tables in between.                                              *)
(*                                                                         *)
(* A row is the key each of its relations has.  For a foreign key that is  *)
(* the value in its column; Pk gives the primary key of the object it      *)
(* refers to, which differs when the foreign key has a to_field.           *)
(***************************************************************************)
EXTENDS Integers, SequencesExt

CONSTANTS
    ForeignKeys,   \* the lookups that are a ForeignKey of the feature
    OneToOnes,     \* those that are the reverse side of a OneToOneField
    Manys,         \* those that lead to several objects
    Keys,          \* the keys a relation may have
    Pk,            \* the primary key of the object with some key
    Contents,      \* what an object may contain
    Null,          \* no key, no object
    Unloaded,      \* the relation was not prefetched
    Results,       \* the results a behaviour may start from
    InitialTables, \* the related tables it may start from
    ChunkSize,
    MaxWrites      \* bound on the writes by other database sessions

Single == ForeignKeys \union OneToOnes   \* kept in _state.fields_cache
Lookups == Single \union Manys
Row == [Lookups -> Keys \union {Null}]
Object == [pk : Keys, content : Contents]

ASSUME LookupsAssumption ==
    /\ Lookups # {}
    /\ ForeignKeys \intersect (OneToOnes \union Manys) = {}
    /\ OneToOnes \intersect Manys = {}
ASSUME KeysAssumption == Null \notin Keys /\ Null \notin Object
ASSUME ContentsAssumption == Null \notin Contents
ASSUME PkAssumption == Pk \in [Lookups -> [Keys -> Keys]]
ASSUME UnloadedAssumption == Unloaded # Null /\ Unloaded \notin Object
ASSUME ResultsAssumption == Results \subseteq Seq(Row)
ASSUME TablesAssumption ==
    InitialTables \subseteq [Lookups -> [Keys -> Contents \union {Null}]]
ASSUME ChunkSizeAssumption == ChunkSize \in Nat /\ ChunkSize >= 2
ASSUME MaxWritesAssumption == MaxWrites \in Nat

CacheSize == ChunkSize \div 2

VARIABLES
    stage,         \* where __iter__() is
    rows,          \* the result
    lo, hi,        \* the current chunk is rows lo+1 .. hi
    at,            \* the row the current loop is at
    todo,          \* the lookups that prefetch_related_objects() has to do
    allRestored,
    loaded,        \* the related objects of the instances of the chunk
    cache,         \* _fk_caches, the most recently used object first
    returned,      \* _number_returned
    related,       \* the related tables: content by key
    writes,        \* how often other sessions wrote
    past,          \* what each key led to since the iteration began
    printed,       \* the feature that was rendered last
    count          \* how many features were rendered

loop == <<stage, lo, hi, at, todo, allRestored>>
vars == <<loop, rows, loaded, cache, returned, related, writes, past, printed, count>>

-----------------------------------------------------------------------------
(* The least-recently-used cache of one lookup, keyed by primary key.      *)

Has(s, k) == \E i \in DOMAIN s : s[i].pk = k
(* Mutation: the key of the entry is not compared.                         *)
Where_First(s, k) == 1

Where(s, k) == CHOOSE i \in DOMAIN s : s[i].pk = k
Without(s, k) == IF Has(s, k) THEN RemoveAt(s, Where(s, k)) ELSE s
Use(s, k) == <<s[Where(s, k)]>> \o Without(s, k)
Keep(s) == SubSeq(s, 1, IF Len(s) < CacheSize THEN Len(s) ELSE CacheSize)
Insert(s, o) == Keep(<<o>> \o Without(s, o.pk))

(* What a relation leads to, in the database.                              *)
Current(l, k) ==
    IF k = Null \/ related[l][k] = Null THEN Null
    ELSE [pk |-> Pk[l][k], content |-> related[l][k]]

NothingLoaded == [i \in 1..Len(rows) |-> [l \in Lookups |-> Unloaded]]

-----------------------------------------------------------------------------
Init ==
    /\ stage = "chunk"
    /\ rows \in Results
    /\ lo = 0 /\ hi = 0 /\ at = 1
    /\ todo = {}
    /\ allRestored = FALSE
    /\ loaded = NothingLoaded
    /\ cache = [l \in Single |-> <<>>]
    /\ returned = 0
    /\ related \in InitialTables
    /\ writes = 0
    /\ past = [l \in Lookups |-> [k \in Keys |-> {Current(l, k)}]]
    /\ printed = <<>>
    /\ count = 0

(* Another session updates or deletes a related object, or inserts it anew.*)
Write(l, k, content) ==
    /\ stage \notin {"done", "closed"}
    /\ writes < MaxWrites
    /\ content # related[l][k]
    /\ writes' = writes + 1
    /\ related' = [related EXCEPT ![l][k] = content]
    /\ past' = [past EXCEPT ![l][k] = @ \union {Current(l, k)'}]
    /\ UNCHANGED <<loop, rows, loaded, cache, returned, printed, count>>

(* list(islice(qs_iter, chunk_size)), and what _add_prefetches() does first*)
(* with it.  An empty chunk is the end.                                    *)
(* Mutation: a chunk is always full.                                       *)
ChunkEnd_Full == hi + ChunkSize

AtEnd == hi = Len(rows)
Instances == lo+1..hi
ChunkEnd == IF hi + ChunkSize < Len(rows) THEN hi + ChunkSize ELSE Len(rows)
CachesFilled == \E l \in Single : cache[l] # <<>>

ReadChunk ==
    /\ stage = "chunk"
    /\ ~AtEnd
    /\ lo' = hi
    /\ hi' = ChunkEnd
    /\ at' = hi + 1
    /\ stage' = IF CachesFilled THEN "restore" ELSE "prefetch"
    /\ todo' = Lookups
    /\ allRestored' = TRUE
    /\ loaded' = NothingLoaded
    /\ UNCHANGED <<rows, cache, returned, related, writes, past, printed, count>>

Finish ==
    /\ stage = "chunk"
    /\ AtEnd
    /\ stage' = "done"
    /\ UNCHANGED <<lo, hi, at, todo, allRestored, rows, loaded, cache, returned, related,
                   writes, past, printed, count>>

(* A loop over the instances of the chunk goes on, or the next stage comes.*)
Advance(next) ==
    IF at < hi THEN at' = at + 1 /\ stage' = stage
    ELSE at' = lo + 1 /\ stage' = next

(* _restore_caches(), for one instance.  Only a ForeignKey has an attname. *)
(* A lookup that has found no object yet is not looked at.                 *)
Hit(l) == l \in ForeignKeys /\ rows[at][l] # Null /\ Has(cache[l], rows[at][l])

(* Mutations: the last instance decides; a lookup that cannot be restored  *)
(* is passed over.                                                         *)
Restored_LastOnly ==
    \A l \in Single : cache[l] # <<>> =>
        l \in ForeignKeys /\ (rows[at][l] = Null \/ Hit(l))
Restored_PassesOver ==
    allRestored /\ \A l \in ForeignKeys : cache[l] # <<>> =>
        rows[at][l] = Null \/ Hit(l)

Restored ==
    allRestored /\ \A l \in Single : cache[l] # <<>> =>
        l \in ForeignKeys /\ (rows[at][l] = Null \/ Hit(l))

Restore ==
    /\ stage = "restore"
    /\ at \in Instances
    /\ loaded' = [loaded EXCEPT ![at] = [l \in Lookups |->
                     IF Hit(l) THEN cache[l][Where(cache[l], rows[at][l])] ELSE @[l]]]
    /\ cache' = [l \in Single |-> IF Hit(l) THEN Use(cache[l], rows[at][l]) ELSE cache[l]]
    /\ allRestored' = Restored
    /\ Advance(IF Restored THEN "yield" ELSE "prefetch")
    /\ UNCHANGED <<lo, hi, todo, rows, returned, related, writes, past, printed, count>>

(* prefetch_related_objects(): one query for each lookup, for the instances*)
(* that do not have it yet.                                                *)
Prefetch(l) ==
    /\ stage = "prefetch"
    /\ l \in todo
    /\ loaded' = [i \in DOMAIN loaded |->
                     IF i \in Instances /\ loaded[i][l] = Unloaded
                     THEN [loaded[i] EXCEPT ![l] = Current(l, rows[i][l])]
                     ELSE loaded[i]]
    /\ todo' = todo \ {l}
    /\ stage' = IF todo' = {} THEN "persist" ELSE stage
    /\ UNCHANGED <<lo, hi, at, allRestored, rows, cache, returned, related, writes, past,
                   printed, count>>

(* _persist_prefetch_cache(), for one instance.                            *)
Persist ==
    /\ stage = "persist"
    /\ at \in Instances
    /\ cache' = [l \in Single |-> IF loaded[at][l] \in Object
                                  THEN Insert(cache[l], loaded[at][l]) ELSE cache[l]]
    /\ Advance("yield")
    /\ UNCHANGED <<lo, hi, todo, allRestored, rows, loaded, returned, related, writes, past,
                   printed, count>>

(* The instance is rendered.  A relation that was not prefetched is read   *)
(* from the database now.                                                  *)
Rendered(i) ==
    [l \in Lookups |-> IF loaded[i][l] = Unloaded THEN Current(l, rows[i][l]) ELSE loaded[i][l]]

(* Mutation: every chunk counts as a full one.                             *)
ChunkLength_Full == ChunkSize

ChunkLength == hi - lo

YieldInstance ==
    /\ stage = "yield"
    /\ at \in Instances
    /\ printed' = Rendered(at)
    /\ count' = count + 1
    /\ Advance("chunk")
    /\ returned' = IF at < hi THEN returned ELSE returned + ChunkLength
    /\ UNCHANGED <<lo, hi, todo, allRestored, rows, loaded, cache, related, writes, past>>

(* The client is gone and the generator is closed, at one of its yields.   *)
Close ==
    /\ stage = "yield"
    /\ stage' = "closed"
    /\ UNCHANGED <<lo, hi, at, todo, allRestored, rows, loaded, cache, returned, related,
                   writes, past, printed, count>>

Iterate ==
    \/ ReadChunk \/ Finish \/ Restore \/ Persist \/ YieldInstance
    \/ \E l \in Lookups : Prefetch(l)
Database == \E l \in Lookups, k \in Keys, c \in Contents \union {Null} : Write(l, k, c)

Next == Iterate \/ Close \/ Database

(* The server of the response pulls until the generator ends or it closes  *)
(* the generator.                                                          *)
Spec == Init /\ [][Next]_vars /\ WF_vars(Iterate)
-----------------------------------------------------------------------------
Known == Object \union {Null}
Done == stage = "done"

TypeOK ==
    /\ stage \in {"chunk", "restore", "prefetch", "persist", "yield", "done", "closed"}
    /\ rows \in Seq(Row)
    /\ lo \in 0..hi /\ hi \in 0..Len(rows)
    /\ at \in 1..Len(rows) + 1
    /\ todo \subseteq Lookups
    /\ allRestored \in BOOLEAN
    /\ loaded \in [1..Len(rows) -> [Lookups -> Known \union {Unloaded}]]
    /\ \A l \in Single : cache[l] \in Seq(Object) /\ Len(cache[l]) <= CacheSize
    /\ returned \in Nat
    /\ related \in [Lookups -> [Keys -> Contents \union {Null}]]
    /\ writes \in 0..MaxWrites
    /\ past \in [Lookups -> [Keys -> SUBSET Known]]
    /\ printed \in [Lookups -> Known] \union {<<>>}
    /\ count \in Nat

(* Each row is rendered once, in order, with the objects it refers to, as  *)
(* the database had them at some moment of the response: FeatureStream.    *)
Stream == INSTANCE FeatureStream WITH
    Keys    <- Keys \union {Null},
    Values  <- Known,
    keys    <- SubSeq(rows, count + 1, Len(rows)),
    current <- [l \in Lookups |-> [k \in Keys \union {Null} |-> Current(l, k)]],
    past    <- [l \in Lookups |->
                  [k \in Keys \union {Null} |-> IF k = Null THEN {Null} ELSE past[l][k]]],
    feature <- printed,
    phase   <- CASE stage = "done" -> "complete" [] stage = "closed" -> "left" [] OTHER -> "open"
RelatedObjectsAreTheRows == Stream!Spec

(* The part of it that is about objects: "Also tests correct instances are *)
(* assigned" (test_foreign_key).                                           *)
CorrectInstances ==
    count > 0 => \A l \in Lookups :
        LET k == rows[count][l]
        IN  printed[l] \in (IF k = Null THEN {Null} ELSE past[l][k])

(* number_returned is the number of features the response holds.           *)
NumberReturnedIsCounted == Done => returned = count

(* "... performs prefetch_related() behavior on each chunk": a relation is *)
(* not left to be read when the feature is rendered.                       *)
(* A foreign key for which some object was found before is prefetched or   *)
(* restored for every feature; all relations are, as long as there is no   *)
(* such foreign key, or one that is not a foreign key has found an object. *)
FoundRelationsAreLoaded ==
    stage = "yield" => \A l \in Lookups :
        \/ loaded[at][l] # Unloaded
        \/ rows[at][l] = Null
        \/ /\ l \in Manys \/ cache[l] = <<>>
           /\ \E f \in ForeignKeys : cache[f] # <<>>
           /\ \A o \in OneToOnes : cache[o] = <<>>

=============================================================================
