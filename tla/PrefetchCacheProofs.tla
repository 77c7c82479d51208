------------------------ MODULE PrefetchCacheProofs ------------------------
(***************************************************************************)
(* Proofs about PrefetchCache, for any relations, results, chunk sizes and *)
(* any number of writes by other sessions.                                 *)
(***************************************************************************)
EXTENDS PrefetchCache, SequenceTheorems, TLAPS

(* The cache holds at least one object.                                    *)
LEMMA CacheSizePositive == CacheSize \in Nat /\ CacheSize >= 1
BY ChunkSizeAssumption DEF CacheSize

(* Removing an entry leaves a sequence of what was there.                  *)
LEMMA WithoutInSeq ==
    ASSUME NEW S, NEW s \in Seq(S), NEW k
    PROVE  /\ Without(s, k) \in Seq(S)
           /\ Len(Without(s, k)) = IF Has(s, k) THEN Len(s) - 1 ELSE Len(s)
<1>1. CASE ~Has(s, k)
  BY <1>1 DEF Without
<1>2. CASE Has(s, k)
  <2>1. Where(s, k) \in 1..Len(s)
    BY <1>2 DEF Has, Where
  <2> DEFINE w == Where(s, k)
             front == SubSeq(s, 1, w - 1)
             back == SubSeq(s, w + 1, Len(s))
  <2>2. front \in Seq(S) /\ Len(front) = w - 1
    BY <2>1, SubSeqProperties
  <2>3. back \in Seq(S) /\ Len(back) = Len(s) - w
    BY <2>1, SubSeqProperties
  <2> w \in 1..Len(s) /\ Len(s) \in Nat
    BY <2>1
  <2> HIDE DEF w, front, back
  <2>4. front \o back \in Seq(S) /\ Len(front \o back) = Len(s) - 1
    <3>1. front \o back \in Seq(S) /\ Len(front \o back) = Len(front) + Len(back)
      BY <2>2, <2>3, ConcatProperties
    <3> QED BY <2>2, <2>3, <3>1
  <2> QED BY <1>2, <2>4 DEF Without, RemoveAt, w, front, back
<1> QED BY <1>1, <1>2

(* A hit keeps the entries; storing an object evicts at most old ones.     *)
LEMMA UseInSeq ==
    ASSUME NEW S, NEW s \in Seq(S), NEW k, Has(s, k)
    PROVE  /\ Use(s, k) \in Seq(S)
           /\ Len(Use(s, k)) = Len(s)
           /\ s[Where(s, k)] \in S
           /\ s[Where(s, k)].pk = k
<1>1. Where(s, k) \in 1..Len(s) /\ s[Where(s, k)].pk = k
  BY DEF Has, Where
<1>2. s[Where(s, k)] \in S
  BY <1>1
<1>3. <<s[Where(s, k)]>> \in Seq(S) /\ Len(<<s[Where(s, k)]>>) = 1
  BY <1>2
<1> QED BY <1>1, <1>2, <1>3, WithoutInSeq, ConcatProperties DEF Use

LEMMA InsertInSeq ==
    ASSUME NEW S, NEW s \in Seq(S), NEW o \in S
    PROVE  /\ Insert(s, o) \in Seq(S)
           /\ Len(Insert(s, o)) <= CacheSize
<1> DEFINE t == <<o>> \o Without(s, o.pk)
           n == IF Len(t) < CacheSize THEN Len(t) ELSE CacheSize
<1>1. <<o>> \in Seq(S) /\ Without(s, o.pk) \in Seq(S)
  BY WithoutInSeq
<1>2. t \in Seq(S)
  BY <1>1, ConcatProperties
<1> HIDE DEF t
<1>3. n \in Nat /\ n <= Len(t) /\ n <= CacheSize
  BY <1>2, CacheSizePositive
<1>4. SubSeq(t, 1, n) \in Seq(S) /\ Len(SubSeq(t, 1, n)) = n
  <2>1. \A i \in 1..n : t[i] \in S
    BY <1>2, <1>3
  <2>2. SubSeq(t, 1, n) \in Seq(S) /\ Len(SubSeq(t, 1, n)) = IF 1 <= n THEN n - 1 + 1 ELSE 0
    BY <1>3, <2>1, SubSeqProperties
  <2> QED BY <1>3, <2>2
<1> QED BY <1>3, <1>4 DEF Insert, Keep, t
-----------------------------------------------------------------------------
(* The loops stay inside the chunk, and the counts follow them.            *)
InLoop == stage \in {"restore", "prefetch", "persist", "yield"}
Loops ==
    /\ InLoop => at \in Instances
    /\ stage = "prefetch" => at = lo + 1

TypeInv == TypeOK /\ Loops

(* TypeInv holds at first, and every step keeps it.                        *)
LEMMA TypeInit == Init => TypeInv
<1> SUFFICES ASSUME Init PROVE TypeInv
  OBVIOUS
<1> USE DEF Init
<1>1. rows \in Seq(Row)
  BY ResultsAssumption
<1>2. loaded \in [1..Len(rows) -> [Lookups -> Known \union {Unloaded}]]
  BY <1>1 DEF NothingLoaded
<1>3. \A l \in Single : cache[l] \in Seq(Object) /\ Len(cache[l]) <= CacheSize
  BY CacheSizePositive
<1>4. related \in [Lookups -> [Keys -> Contents \union {Null}]]
  BY TablesAssumption
<1>5. \A l \in Lookups, k \in Keys : Current(l, k) \in Known
  BY <1>4, PkAssumption DEF Current, Known, Object
<1>6. past \in [Lookups -> [Keys -> SUBSET Known]]
  BY <1>5
<1>7. Len(rows) \in Nat /\ lo \in 0..hi /\ hi \in 0..Len(rows) /\ at \in 1..Len(rows) + 1
  BY <1>1
<1>8. writes \in 0..MaxWrites /\ printed \in [Lookups -> Known] \union {<<>>}
  BY MaxWritesAssumption
<1>9. TypeOK
  BY <1>1, <1>2, <1>3, <1>4, <1>6, <1>7, <1>8 DEF TypeOK
<1> QED
  BY <1>9 DEF TypeInv, Loops, InLoop

LEMMA TypeStep == TypeInv /\ [Next]_vars => TypeInv'
<1> SUFFICES ASSUME TypeInv, [Next]_vars PROVE TypeInv'
  OBVIOUS
<1> USE DEF TypeInv
<1>0. /\ rows \in Seq(Row) /\ Len(rows) \in Nat
      /\ lo \in Nat /\ hi \in Nat /\ lo <= hi /\ hi <= Len(rows)
      /\ at \in Nat
  BY DEF TypeOK
<1>a. \A l \in Lookups, k \in Keys \union {Null} : Current(l, k) \in Known
  BY PkAssumption DEF TypeOK, Current, Known, Object
<1>b. \A i \in 1..Len(rows) : rows[i] \in Row
  BY <1>0
<1>1. ASSUME NEW l \in Lookups, NEW k \in Keys, NEW c \in Contents \union {Null}, Write(l, k, c)
      PROVE  TypeInv'
  <2> USE <1>1 DEF Write
  <2>1. related' \in [Lookups -> [Keys -> Contents \union {Null}]]
    BY DEF TypeOK
  <2>2. Current(l, k)' \in Known
    BY <2>1, PkAssumption, KeysAssumption DEF Current, Known, Object
  <2>3. past' \in [Lookups -> [Keys -> SUBSET Known]]
    BY <2>2 DEF TypeOK
  <2>4. writes' \in 0..MaxWrites
    BY MaxWritesAssumption DEF TypeOK
  <2> QED BY <1>0, <2>1, <2>3, <2>4 DEF TypeOK, Loops, InLoop, Instances, loop
<1>2. CASE ReadChunk
  <2> USE <1>2 DEF ReadChunk
  <2>1. hi < Len(rows)
    BY <1>0 DEF AtEnd
  <2>2. hi' \in Nat /\ hi < hi' /\ hi' <= Len(rows)
    BY <1>0, <2>1, ChunkSizeAssumption DEF ChunkEnd
  <2>3. loaded' \in [1..Len(rows) -> [Lookups -> Known \union {Unloaded}]]
    BY DEF NothingLoaded
  <2> QED BY <1>0, <2>1, <2>2, <2>3 DEF TypeOK, Loops, InLoop, Instances
<1>3. CASE Finish
  BY <1>0, <1>3 DEF Finish, TypeOK, Loops, InLoop
<1>4. CASE Restore
  <2> USE <1>4 DEF Restore
  <2>1. at \in 1..Len(rows) /\ at \in Instances
    BY <1>0 DEF Instances
  <2>2. \A l \in Lookups : Hit(l) =>
           /\ l \in Single
           /\ cache[l][Where(cache[l], rows[at][l])] \in Object
           /\ Use(cache[l], rows[at][l]) \in Seq(Object)
           /\ Len(Use(cache[l], rows[at][l])) <= CacheSize
    BY UseInSeq, CacheSizePositive DEF Hit, Single, TypeOK
  <2>3. loaded' \in [1..Len(rows) -> [Lookups -> Known \union {Unloaded}]]
    BY <2>1, <2>2 DEF TypeOK, Known
  <2>4. \A l \in Single : cache'[l] \in Seq(Object) /\ Len(cache'[l]) <= CacheSize
    BY <2>2 DEF TypeOK, Lookups
  <2>5. at' \in Instances' /\ at' \in 1..Len(rows) /\ stage' \in {"restore", "prefetch", "yield"}
        /\ (stage' = "prefetch" => at' = lo + 1)
    BY <1>0, <2>1 DEF Advance, Instances
  <2>6. Restored \in BOOLEAN
    BY DEF Restored, TypeOK
  <2> QED BY <1>0, <2>3, <2>4, <2>5, <2>6 DEF TypeOK, Loops, InLoop
<1>5. ASSUME NEW l \in Lookups, Prefetch(l)
      PROVE  TypeInv'
  <2> USE <1>5 DEF Prefetch
  <2>1. \A i \in 1..Len(rows) : Current(l, rows[i][l]) \in Known
    BY <1>a, <1>b DEF Row
  <2>2. loaded' \in [1..Len(rows) -> [Lookups -> Known \union {Unloaded}]]
    BY <2>1 DEF TypeOK
  <2>3. stage' \in {"prefetch", "persist"} /\ at' \in Instances'
    BY DEF Loops, InLoop, Instances
  <2> QED BY <1>0, <2>2, <2>3 DEF TypeOK, Loops, InLoop
<1>6. CASE Persist
  <2> USE <1>6 DEF Persist
  <2>1. at \in 1..Len(rows) /\ at \in Instances
    BY <1>0 DEF Instances
  <2>2. \A l \in Single : cache'[l] \in Seq(Object) /\ Len(cache'[l]) <= CacheSize
    BY InsertInSeq DEF TypeOK
  <2>3. at' \in Instances' /\ at' \in 1..Len(rows) /\ stage' \in {"persist", "yield"}
    BY <1>0, <2>1 DEF Advance, Instances
  <2> QED BY <1>0, <2>2, <2>3 DEF TypeOK, Loops, InLoop
<1>7. CASE YieldInstance
  <2> USE <1>7 DEF YieldInstance
  <2>1. at \in 1..Len(rows) /\ at \in Instances
    BY <1>0 DEF Instances
  <2>2. printed' \in [Lookups -> Known]
    BY <1>a, <1>b, <2>1 DEF Rendered, TypeOK, Row
  <2>3. at' \in 1..Len(rows) /\ stage' \in {"yield", "chunk"}
        /\ (stage' = "yield" => at' \in Instances')
    BY <1>0, <2>1 DEF Advance, Instances
  <2>4. returned' \in Nat /\ count' \in Nat
    BY <1>0 DEF TypeOK, ChunkLength
  <2> QED BY <1>0, <2>2, <2>3, <2>4 DEF TypeOK, Loops, InLoop
<1>8. CASE Close
  BY <1>0, <1>8 DEF Close, TypeOK, Loops, InLoop
<1>9. CASE UNCHANGED vars
  BY <1>9 DEF vars, loop, TypeOK, Loops, InLoop, Instances
<1> QED
  BY <1>1, <1>2, <1>3, <1>4, <1>5, <1>6, <1>7, <1>8, <1>9 DEF Next, Iterate, Database

LEMMA TypeInvariant == Spec => []TypeInv
BY TypeInit, TypeStep, PTL DEF Spec

(* The variables keep their types, and no cache grows beyond half a chunk, *)
(* for any chunk size and any result.                                      *)
THEOREM TypeCorrect == Spec => []TypeOK
<1>1. TypeInv => TypeOK
  BY DEF TypeInv
<1> QED BY <1>1, TypeInvariant, PTL

-----------------------------------------------------------------------------
(* How many features were rendered and counted, wherever the loop is.      *)
Counting ==
    /\ stage \in {"restore", "prefetch", "persist"} => count = lo /\ returned = lo
    /\ stage = "yield" => count = at - 1 /\ returned = lo
    /\ stage \in {"chunk", "done"} => count = hi /\ returned = hi
    /\ stage = "done" => hi = Len(rows)
    /\ count <= Len(rows)

LEMMA CountingInvariant == Spec => []Counting
<1>1. Init => Counting
  <2> SUFFICES ASSUME Init PROVE Counting
    OBVIOUS
  <2>1. Len(rows) \in Nat
    BY ResultsAssumption DEF Init
  <2> QED BY <2>1 DEF Init, Counting
<1>2. TypeInv /\ Counting /\ [Next]_vars => Counting'
  <2> SUFFICES ASSUME TypeInv, Counting, [Next]_vars PROVE Counting'
    OBVIOUS
  <2>0. /\ Len(rows) \in Nat /\ lo \in Nat /\ hi \in Nat /\ lo <= hi /\ hi <= Len(rows)
        /\ at \in Nat /\ count \in Nat /\ returned \in Nat
        /\ (InLoop => lo + 1 <= at /\ at <= hi)
    BY DEF TypeInv, TypeOK, Loops, Instances
  <2>1. CASE Finish
    BY <2>0, <2>1 DEF Finish, Counting, AtEnd
  <2>2. CASE ReadChunk
    BY <2>0, <2>2 DEF ReadChunk, Counting
  <2>3. CASE Restore
    BY <2>0, <2>3 DEF Restore, Counting, Advance, Loops, InLoop
  <2>4. CASE Persist
    BY <2>0, <2>4 DEF Persist, Counting, Advance, InLoop
  <2>5. CASE YieldInstance
    <3> USE <2>5 DEF YieldInstance
    <3>1. CASE at < hi
      BY <2>0, <3>1 DEF Counting, Advance, InLoop
    <3>2. CASE ~(at < hi)
      <4>1. at = hi /\ count = hi - 1 /\ returned = lo
        BY <2>0, <3>2 DEF Counting, InLoop
      <4>2. returned' = lo + (hi - lo) /\ count' = hi /\ stage' = "chunk"
        BY <2>0, <3>2, <4>1 DEF Advance, ChunkLength
      <4> QED BY <2>0, <4>2 DEF Counting
    <3> QED BY <3>1, <3>2
  <2>6. ASSUME NEW l \in Lookups, Prefetch(l) PROVE Counting'
    BY <2>0, <2>6 DEF Prefetch, Counting
  <2>7. ASSUME NEW l \in Lookups, NEW k \in Keys, NEW c \in Contents \union {Null},
               Write(l, k, c)
        PROVE  Counting'
    BY <2>0, <2>7 DEF Write, loop, Counting
  <2>8. CASE Close
    BY <2>0, <2>8 DEF Close, Counting, InLoop
  <2>9. CASE UNCHANGED vars
    BY <2>9 DEF vars, loop, Counting
  <2> QED
    BY <2>1, <2>2, <2>3, <2>4, <2>5, <2>6, <2>7, <2>8, <2>9 DEF Next, Iterate, Database
<1> QED BY <1>1, <1>2, TypeInvariant, PTL DEF Spec

(* When the iterator is exhausted its number_returned is the number of     *)
(* features that were rendered, which a chunk that ends early, an empty    *)
(* result and a cache hit do not change.                                   *)
THEOREM NumberReturnedIsRight == Spec => []NumberReturnedIsCounted
<1>1. Counting => NumberReturnedIsCounted
  BY DEF Counting, NumberReturnedIsCounted, Done
<1> QED BY <1>1, CountingInvariant, PTL

-----------------------------------------------------------------------------
(* Foreign keys refer to primary keys: no to_field.  Without it a cache,   *)
(* which is keyed by primary key, is looked up with something else.        *)
PkIsKey == \A l \in Lookups, k \in Keys : Pk[l][k] = k

(* What key k of a relation may be rendered as, and what a cache may hold. *)
Led(l, k) == IF k = Null THEN {Null} ELSE past[l][k]
Found(l) == {o \in Object : o \in past[l][o.pk]}

PastIsByKey ==
    \A l \in Lookups, k \in Keys :
        /\ past[l][k] \subseteq {Null} \union {o \in Object : o.pk = k}
        /\ Current(l, k) \in past[l][k]
LoadedIsLed ==
    \A i \in 1..Len(rows), l \in Lookups :
        loaded[i][l] = Unloaded \/ loaded[i][l] \in Led(l, rows[i][l])
CacheIsFound == \A l \in Single : cache[l] \in Seq(Found(l))

ObjectInv == PastIsByKey /\ LoadedIsLed /\ CacheIsFound /\ CorrectInstances

LEMMA ObjectInit == PkIsKey /\ Init => ObjectInv
<1> SUFFICES ASSUME PkIsKey, Init PROVE ObjectInv
  OBVIOUS
<1>1. PastIsByKey
  <2>1. \A l \in Lookups, k \in Keys :
           Current(l, k) \in {Null} \union {o \in Object : o.pk = k}
    BY TablesAssumption, KeysAssumption DEF Init, PkIsKey, Current, Object
  <2> QED BY <2>1 DEF Init, PastIsByKey
<1>2. LoadedIsLed
  BY DEF Init, NothingLoaded, LoadedIsLed
<1>3. CacheIsFound
  BY DEF Init, CacheIsFound
<1> QED BY <1>1, <1>2, <1>3 DEF Init, CorrectInstances, ObjectInv

(* A step adds to what was found, and takes nothing away.                  *)
LEMMA PastGrows ==
    ASSUME TypeInv, [Next]_vars
    PROVE  /\ \A l \in Lookups, k \in Keys : past[l][k] \subseteq past'[l][k]
           /\ \A l \in Lookups, k \in Keys \union {Null} : Led(l, k) \subseteq Led(l, k)'
           /\ \A l \in Lookups : Found(l) \subseteq Found(l)'
           /\ rows' = rows
<1>1. /\ \A l \in Lookups, k \in Keys : past[l][k] \subseteq past'[l][k]
      /\ rows' = rows
  <2>1. CASE \E l \in Lookups, k \in Keys, c \in Contents \union {Null} : Write(l, k, c)
    BY <2>1 DEF Write, TypeInv, TypeOK
  <2>2. CASE Iterate \/ Close \/ UNCHANGED vars
    BY <2>2 DEF Iterate, Close, ReadChunk, Finish, Restore, Prefetch, Persist, YieldInstance,
                vars
  <2> QED BY <2>1, <2>2 DEF Next, Database
<1> QED BY <1>1 DEF Led, Found, Object

LEMMA ObjectStep == PkIsKey /\ TypeInv /\ Counting /\ ObjectInv /\ [Next]_vars => ObjectInv'
<1> SUFFICES ASSUME PkIsKey, TypeInv, Counting, ObjectInv, [Next]_vars PROVE ObjectInv'
  OBVIOUS
<1>0. /\ Len(rows) \in Nat /\ lo \in Nat /\ hi \in Nat /\ lo <= hi /\ hi <= Len(rows)
      /\ at \in Nat /\ count \in Nat
      /\ \A i \in 1..Len(rows) : rows[i] \in Row
  BY DEF TypeInv, TypeOK
<1>a. \A i \in 1..Len(rows), l \in Lookups : rows[i][l] \in Keys \union {Null}
  BY <1>0 DEF Row
<1>b. Single \subseteq Lookups
  BY DEF Lookups
<1>c. \A l \in Lookups, k \in Keys \union {Null} : Current(l, k) \in Led(l, k)
  BY DEF ObjectInv, PastIsByKey, Led, Current
\* What a step that leaves the database alone keeps.
<1>d. ASSUME UNCHANGED <<related, past>>
      PROVE  PastIsByKey' /\ \A l \in Lookups : Found(l)' = Found(l)
  BY <1>d DEF ObjectInv, PastIsByKey, Current, Found
<1>e. ASSUME UNCHANGED cache
      PROVE  CacheIsFound'
  <2> SUFFICES ASSUME NEW l \in Single PROVE cache[l] \in Seq(Found(l)')
    BY <1>e DEF CacheIsFound
  <2>1. cache[l] \in Seq(Found(l)) /\ Found(l) \subseteq Found(l)'
    BY <1>b, PastGrows DEF ObjectInv, CacheIsFound
  <2> HIDE DEF Found
  <2> QED BY <2>1
<1>f. ASSUME UNCHANGED loaded
      PROVE  LoadedIsLed'
  BY <1>a, <1>f, PastGrows DEF ObjectInv, LoadedIsLed
<1>g. ASSUME UNCHANGED <<printed, count>>
      PROVE  CorrectInstances'
  <2> SUFFICES ASSUME count > 0, NEW l \in Lookups PROVE printed[l] \in Led(l, rows[count][l])'
    BY <1>g DEF CorrectInstances, Led
  <2>1. count \in 1..Len(rows)
    BY <1>0 DEF Counting
  <2>2. printed[l] \in Led(l, rows[count][l])
    BY DEF ObjectInv, CorrectInstances, Led
  <2>3. rows[count][l] \in Keys \union {Null}
    BY <1>a, <2>1
  <2> QED BY <1>g, <2>2, <2>3, PastGrows
<1>1. ASSUME NEW l \in Lookups, NEW k \in Keys, NEW c \in Contents \union {Null}, Write(l, k, c)
      PROVE  ObjectInv'
  <2> USE <1>1 DEF Write
  <2>1. related' \in [Lookups -> [Keys -> Contents \union {Null}]]
    BY DEF TypeInv, TypeOK
  <2>2. Current(l, k)' \in {Null} \union {o \in Object : o.pk = k}
    BY <2>1, KeysAssumption DEF PkIsKey, Current, Object
  <2>3. PastIsByKey'
    <3> SUFFICES ASSUME NEW m \in Lookups, NEW j \in Keys
                 PROVE  /\ past'[m][j] \subseteq {Null} \union {o \in Object : o.pk = j}
                        /\ Current(m, j)' \in past'[m][j]
      BY DEF PastIsByKey
    <3>1. CASE m = l /\ j = k
      BY <2>2, <3>1 DEF TypeInv, TypeOK, ObjectInv, PastIsByKey
    <3>2. CASE ~(m = l /\ j = k)
      <4>1. past'[m][j] = past[m][j] /\ related'[m][j] = related[m][j]
        BY <3>2 DEF TypeInv, TypeOK
      <4> QED BY <4>1 DEF ObjectInv, PastIsByKey, Current
    <3> QED BY <3>1, <3>2
  <2> QED BY <1>e, <1>f, <1>g, <2>3 DEF ObjectInv
<1>2. CASE ReadChunk
  <2>1. LoadedIsLed'
    BY <1>2, PastGrows DEF ReadChunk, NothingLoaded, LoadedIsLed
  <2> QED BY <1>2, <1>d, <1>e, <1>g, <2>1 DEF ReadChunk, ObjectInv
<1>3. CASE Finish
  BY <1>3, <1>d, <1>e, <1>f, <1>g DEF Finish, ObjectInv
<1>4. CASE Restore
  <2> USE <1>4 DEF Restore
  <2>1. at \in 1..Len(rows)
    BY <1>0 DEF Instances
  <2>2. ASSUME NEW l \in Lookups, Hit(l)
        PROVE  /\ l \in Single
               /\ Use(cache[l], rows[at][l]) \in Seq(Found(l))
               /\ cache[l][Where(cache[l], rows[at][l])] \in Led(l, rows[at][l])
    <3>1. l \in Single /\ rows[at][l] # Null /\ Has(cache[l], rows[at][l])
      BY <2>2 DEF Hit, Single
    <3>2. cache[l] \in Seq(Found(l))
      BY <3>1 DEF ObjectInv, CacheIsFound
    <3> DEFINE o == cache[l][Where(cache[l], rows[at][l])]
    <3>3. o \in Found(l) /\ o.pk = rows[at][l] /\ Use(cache[l], rows[at][l]) \in Seq(Found(l))
      BY <3>1, <3>2, UseInSeq
    <3> QED BY <3>1, <3>3 DEF Found, Led
  <2>3. LoadedIsLed'
    <3> SUFFICES ASSUME NEW i \in 1..Len(rows), NEW l \in Lookups
                 PROVE  loaded'[i][l] = Unloaded \/ loaded'[i][l] \in Led(l, rows[i][l])'
      BY DEF LoadedIsLed
    <3>1. Led(l, rows[i][l])' = Led(l, rows[i][l])
      BY DEF Led
    <3>2. CASE i = at /\ Hit(l)
      <4>1. loaded'[i][l] = cache[l][Where(cache[l], rows[at][l])]
        BY <3>2 DEF TypeInv, TypeOK
      <4> QED BY <2>2, <3>1, <3>2, <4>1
    <3>3. CASE ~(i = at /\ Hit(l))
      <4>1. loaded'[i][l] = loaded[i][l]
        BY <3>3 DEF TypeInv, TypeOK
      <4> QED BY <3>1, <4>1 DEF ObjectInv, LoadedIsLed
    <3> QED BY <3>2, <3>3
  <2>4. CacheIsFound'
    <3> SUFFICES ASSUME NEW l \in Single PROVE cache'[l] \in Seq(Found(l))
      BY <1>b, <1>d DEF CacheIsFound
    <3> QED BY <1>b, <2>2 DEF ObjectInv, CacheIsFound
  <2> QED BY <1>d, <1>g, <2>3, <2>4 DEF ObjectInv
<1>5. ASSUME NEW l \in Lookups, Prefetch(l)
      PROVE  ObjectInv'
  <2> USE <1>5 DEF Prefetch
  <2>1. LoadedIsLed'
    <3> SUFFICES ASSUME NEW i \in 1..Len(rows), NEW m \in Lookups
                 PROVE  loaded'[i][m] = Unloaded \/ loaded'[i][m] \in Led(m, rows[i][m])
      BY DEF LoadedIsLed, Led
    <3>1. loaded'[i][m] = loaded[i][m] \/ (m = l /\ loaded'[i][m] = Current(l, rows[i][l]))
      BY DEF TypeInv, TypeOK
    <3> QED BY <1>a, <1>c, <3>1 DEF ObjectInv, LoadedIsLed
  <2> QED BY <1>d, <1>e, <1>g, <2>1 DEF ObjectInv
<1>6. CASE Persist
  <2> USE <1>6 DEF Persist
  <2>1. at \in 1..Len(rows)
    BY <1>0 DEF Instances
  <2>2. CacheIsFound'
    <3> SUFFICES ASSUME NEW l \in Single PROVE cache'[l] \in Seq(Found(l))
      BY <1>b, <1>d DEF CacheIsFound
    <3>1. cache[l] \in Seq(Found(l))
      BY DEF ObjectInv, CacheIsFound
    <3>2. ASSUME loaded[at][l] \in Object PROVE loaded[at][l] \in Found(l)
      <4>1. loaded[at][l] \in past[l][rows[at][l]] /\ rows[at][l] \in Keys
        BY <1>a, <1>b, <2>1, <3>2, KeysAssumption, UnloadedAssumption
        DEF ObjectInv, LoadedIsLed, Led
      <4>2. loaded[at][l].pk = rows[at][l]
        BY <1>b, <3>2, <4>1, KeysAssumption DEF ObjectInv, PastIsByKey
      <4> QED BY <3>2, <4>1, <4>2 DEF Found
    <3> HIDE DEF Found
    <3> QED BY <3>1, <3>2, InsertInSeq
  <2> QED BY <1>d, <1>f, <1>g, <2>2 DEF ObjectInv
<1>7. CASE YieldInstance
  <2> USE <1>7 DEF YieldInstance
  <2>1. at \in 1..Len(rows) /\ count' = at
    BY <1>0 DEF Instances, Counting
  <2>2. \A l \in Lookups : printed'[l] \in Led(l, rows[at][l])
    BY <1>a, <1>c, <2>1 DEF Rendered, ObjectInv, LoadedIsLed
  <2>3. CorrectInstances'
    BY <2>1, <2>2 DEF CorrectInstances, Led
  <2> QED BY <1>d, <1>e, <1>f, <2>3 DEF ObjectInv
<1>8. CASE Close
  BY <1>8, <1>d, <1>e, <1>f, <1>g DEF Close, ObjectInv
<1>9. CASE UNCHANGED vars
  BY <1>9, <1>d, <1>e, <1>f, <1>g DEF vars, ObjectInv
<1> QED
  BY <1>1, <1>2, <1>3, <1>4, <1>5, <1>6, <1>7, <1>8, <1>9 DEF Next, Iterate, Database

StreamInv == TypeInv /\ Counting /\ ObjectInv

LEMMA StreamInvariant == ASSUME PkIsKey PROVE Spec => []StreamInv
<1>1. Init => ObjectInv
  BY ObjectInit
<1>2. TypeInv /\ Counting /\ ObjectInv /\ [Next]_vars => ObjectInv'
  BY ObjectStep
<1>3. TypeInv /\ Counting /\ ObjectInv => StreamInv
  BY DEF StreamInv
<1> QED BY <1>1, <1>2, <1>3, TypeInvariant, CountingInvariant, PTL DEF Spec

(* Where foreign keys refer to primary keys, every feature is rendered     *)
(* with the objects it refers to, whether they were prefetched, restored   *)
(* from a cache that another chunk filled, or read when they were needed.  *)
THEOREM InstancesAreCorrect == ASSUME PkIsKey PROVE Spec => []CorrectInstances
<1>1. StreamInv => CorrectInstances
  BY DEF StreamInv, ObjectInv
<1> QED BY <1>1, StreamInvariant, PTL

-----------------------------------------------------------------------------
(* The refinement of FeatureStream: prefetching and caching are stuttering *)
(* steps, rendering an instance delivers a feature.                        *)
LEMMA StreamInit == PkIsKey /\ Init => Stream!Init
<1> SUFFICES ASSUME PkIsKey, Init PROVE Stream!Init
  OBVIOUS
<1>0. TypeOK /\ ObjectInv
  BY TypeInit, ObjectInit DEF TypeInv
<1>1. SubSeq(rows, count + 1, Len(rows)) = rows /\ rows \in Seq(Row)
  BY <1>0, SubSeqFull DEF Init, TypeOK
<1>2. \A l \in Lookups, k \in Keys \union {Null} : Current(l, k) \in Known
  BY <1>0, PkAssumption DEF TypeOK, Current, Known, Object
<1>3. \A l \in Lookups : \A k \in Keys \union {Null} :
         (IF k = Null THEN {Null} ELSE past[l][k]) = {Current(l, k)}
  BY DEF Init, Current
<1> QED BY <1>1, <1>2, <1>3 DEF Stream!Init, Init, Row

LEMMA StreamStep == StreamInv /\ [Next]_vars => [Stream!Next]_(Stream!vars)
<1> SUFFICES ASSUME StreamInv, [Next]_vars PROVE [Stream!Next]_(Stream!vars)
  OBVIOUS
<1>0. /\ Len(rows) \in Nat /\ hi \in Nat /\ hi <= Len(rows) /\ at \in Nat /\ count \in Nat
      /\ rows \in Seq(Row)
      /\ \A i \in 1..Len(rows) : rows[i] \in Row
  BY DEF StreamInv, TypeInv, TypeOK
<1>a. \A l \in Lookups, k \in Keys \union {Null} : Current(l, k) \in Known
  BY PkAssumption DEF StreamInv, TypeInv, TypeOK, Current, Known, Object
<1>1. ASSUME NEW l \in Lookups, NEW k \in Keys, NEW c \in Contents \union {Null}, Write(l, k, c)
      PROVE  Stream!Next
  <2> USE <1>1 DEF Write
  <2>1. TypeOK'
    BY TypeStep DEF StreamInv, TypeInv
  <2>2. \A m \in Lookups, j \in Keys \union {Null} :
           Current(m, j)' = IF m = l /\ j = k THEN Current(l, k)' ELSE Current(m, j)
    BY KeysAssumption DEF StreamInv, TypeInv, TypeOK, Current
  <2>3. Current(l, k)' \in Known
    BY <2>1, PkAssumption DEF TypeOK, Current, Known, Object
  <2>4. \A m \in Lookups, j \in Keys :
           past'[m][j] = IF m = l /\ j = k THEN past[l][k] \union {Current(l, k)'} ELSE past[m][j]
    BY DEF StreamInv, TypeInv, TypeOK
  <2>5. k # Null
    BY KeysAssumption
  <2> PICK v \in Known : v = Current(l, k)'
    BY <2>3
  <2> DEFINE now(m) == [j \in Keys \union {Null} |-> Current(m, j)]
             seen(m) == [j \in Keys \union {Null} |-> IF j = Null THEN {Null} ELSE past[m][j]]
  <2>6. \A m \in Lookups : now(m)' = IF m = l THEN [now(l) EXCEPT ![k] = v] ELSE now(m)
    BY <2>2
  <2>7. \A m \in Lookups :
           seen(m)' = IF m = l THEN [seen(l) EXCEPT ![k] = @ \union {v}] ELSE seen(m)
    BY ZenonT(30), <2>4, <2>5
  <2> HIDE DEF now, seen
  <2>8. [m \in Lookups |-> now(m)]' = [[m \in Lookups |-> now(m)] EXCEPT ![l][k] = v]
    BY <2>6
  <2>9. [m \in Lookups |-> seen(m)]' =
            [[m \in Lookups |-> seen(m)] EXCEPT ![l][k] = @ \union {v}]
    BY <2>7
  <2>10. UNCHANGED <<rows, count, printed, stage>>
    BY DEF loop
  <2>11. Stream!Change(l, k, v)
    BY <2>8, <2>9, <2>10 DEF Stream!Change, now, seen
  <2> QED BY <2>11 DEF Stream!Next
<1>2. ASSUME YieldInstance
      PROVE  Stream!Next
  <2> USE <1>2 DEF YieldInstance
  <2>1. at \in 1..Len(rows) /\ count = at - 1 /\ count' = at
    BY <1>0 DEF StreamInv, TypeInv, TypeOK, Instances, Counting
  <2> DEFINE rest == SubSeq(rows, at, Len(rows))
  <2>2. Head(rest) = rows[at] /\ Tail(rest) = SubSeq(rows, at + 1, Len(rows)) /\ rest # <<>>
    <3>1. Head(rest) = rows[at] /\ Tail(rest) = SubSeq(rows, at + 1, Len(rows))
      BY <1>0, <2>1, HeadTailOfSubSeq
    <3>2. Len(rest) = Len(rows) - at + 1
      <4>1. \A i \in at..Len(rows) : rows[i] \in Row
        BY <1>0, <2>1
      <4> QED BY <1>0, <2>1, <4>1, SubSeqProperties
    <3>3. rest # <<>>
      <4>1. Len(rest) # 0
        BY <1>0, <2>1, <3>2
      <4>2. Len(<<>>) = 0
        OBVIOUS
      <4> QED BY ONLY <4>1, <4>2
    <3> QED BY <3>1, <3>3
  <2>3. SubSeq(rows, count + 1, Len(rows)) = rest
    BY <1>0, <2>1
  <2>4. SubSeq(rows, count + 1, Len(rows))' = Tail(rest)
    BY <2>1, <2>2
  <2> HIDE DEF rest
  <2>5. \A l \in Lookups : rows[at][l] \in Keys \union {Null}
    BY <1>0, <2>1 DEF Row
  <2>6. \A l \in Lookups : printed'[l] \in Led(l, rows[at][l])
    BY <2>1, <2>5 DEF Rendered, StreamInv, ObjectInv, LoadedIsLed, PastIsByKey, Led, Current
  <2>7. printed' \in [Lookups -> Known]
    BY <1>a, <2>1, <2>5 DEF Rendered, StreamInv, TypeInv, TypeOK
  <2>8. stage = "yield" /\ stage' \in {"yield", "chunk"}
    BY DEF Advance
  <2>9. Stream!Deliver
    BY <2>2, <2>3, <2>4, <2>5, <2>6, <2>7, <2>8 DEF Stream!Deliver, Led, Current
  <2> QED BY <2>9 DEF Stream!Next
<1>3. ASSUME Finish
      PROVE  Stream!Next
  <2>1. count = Len(rows)
    BY <1>3 DEF Finish, AtEnd, StreamInv, Counting
  <2>2. SubSeq(rows, count + 1, Len(rows)) = <<>>
    BY <1>0, <2>1, SubSeqEmpty
  <2>3. Stream!Complete
    BY <1>3, <2>2 DEF Finish, Stream!Complete, Current
  <2> QED BY <2>3 DEF Stream!Next
<1>4. ASSUME Close
      PROVE  Stream!Next
  BY <1>4 DEF Close, Stream!Leave, Stream!Next, Current
<1>5. ASSUME ReadChunk \/ Restore \/ Persist \/ \E l \in Lookups : Prefetch(l)
      PROVE  UNCHANGED Stream!vars
  <2>1. /\ UNCHANGED <<rows, count, related, past, printed>>
        /\ stage \notin {"done", "closed"} /\ stage' \notin {"done", "closed"}
    BY <1>5 DEF ReadChunk, Restore, Persist, Prefetch, Advance
  <2> QED BY <2>1 DEF Stream!vars, Current
<1>6. ASSUME UNCHANGED vars
      PROVE  UNCHANGED Stream!vars
  BY <1>6 DEF vars, loop, Stream!vars, Current
<1> QED
  BY <1>1, <1>2, <1>3, <1>4, <1>5, <1>6 DEF Next, Iterate, Database

(* The prefetching iterator implements FeatureStream: whatever is          *)
(* prefetched, restored, evicted or read late, the features come as from   *)
(* a plain iteration over the result.                                      *)
THEOREM StreamIsImplemented == ASSUME PkIsKey PROVE Spec => RelatedObjectsAreTheRows
<1>1. Init => Stream!Init
  BY StreamInit
<1> QED BY <1>1, StreamStep, StreamInvariant, PTL DEF Spec, RelatedObjectsAreTheRows, Stream!Spec
-----------------------------------------------------------------------------
(* What is loaded, wherever the loops are: the instances that were restored*)
(* while all could be have every relation whose cache holds something, and *)
(* after a prefetch nothing is missing.                                    *)
RestoredAt(i) ==
    \A l \in Single : cache[l] # <<>> =>
        l \in ForeignKeys /\ (rows[i][l] = Null \/ loaded[i][l] # Unloaded)
LoadedFor(lookups) == \A i \in Instances, l \in lookups : loaded[i][l] # Unloaded
RestoredChunk ==
    /\ \E f \in ForeignKeys : cache[f] # <<>>
    /\ \A i \in Instances : RestoredAt(i)

Loading ==
    /\ stage = "restore" =>
          /\ CachesFilled
          /\ todo = Lookups
          /\ allRestored => \A i \in lo+1..at-1 : RestoredAt(i)
    /\ stage = "prefetch" => LoadedFor(Lookups \ todo)
    /\ stage = "persist" => LoadedFor(Lookups)
    /\ stage = "yield" => LoadedFor(Lookups) \/ RestoredChunk

(* Restoring an instance loads what its caches hold, and empties no cache. *)
LEMMA RestoreLoads ==
    ASSUME TypeInv, Loading, Restore
    PROVE  /\ \A l \in Single : cache'[l] = <<>> <=> cache[l] = <<>>
           /\ Restored => \A i \in lo+1..at : RestoredAt(i)'
<1> USE DEF Restore
<1>0. at \in 1..Len(rows) /\ lo \in Nat /\ rows' = rows
  BY DEF TypeInv, TypeOK, Instances
<1>1. ASSUME NEW l \in Single
      PROVE  cache'[l] = <<>> <=> cache[l] = <<>>
  <2>1. cache[l] \in Seq(Object)
    BY DEF TypeInv, TypeOK
  <2>2. CASE Hit(l)
    <3>1. Use(cache[l], rows[at][l]) \in Seq(Object)
          /\ Len(Use(cache[l], rows[at][l])) = Len(cache[l])
      BY <2>1, <2>2, UseInSeq DEF Hit
    <3>2. cache'[l] = Use(cache[l], rows[at][l])
      BY <2>2
    <3> HIDE DEF Use
    <3> QED BY <2>1, <3>1, <3>2
  <2>3. CASE ~Hit(l)
    BY <2>3
  <2> QED BY <2>2, <2>3
<1>2. ASSUME NEW i \in lo+1..at-1, RestoredAt(i)
      PROVE  RestoredAt(i)'
  <2>1. loaded'[i] = loaded[i]
    BY <1>0, <1>2 DEF TypeInv, TypeOK
  <2> QED BY <1>0, <1>1, <1>2, <2>1 DEF RestoredAt
<1>3. ASSUME Restored, NEW i \in lo+1..at, i = at
      PROVE  RestoredAt(i)'
  <2> SUFFICES ASSUME NEW l \in Single, cache'[l] # <<>>
               PROVE  l \in ForeignKeys /\ (rows[at][l] = Null \/ loaded'[at][l] # Unloaded)
    BY <1>0, <1>3 DEF RestoredAt
  <2>1. l \in ForeignKeys /\ (rows[at][l] = Null \/ Hit(l))
    BY <1>1, <1>3 DEF Restored
  <2>2. ASSUME Hit(l)
        PROVE  loaded'[at][l] # Unloaded
    <3>1. cache[l] \in Seq(Object) /\ Has(cache[l], rows[at][l])
      BY <2>2 DEF Hit, TypeInv, TypeOK
    <3>2. cache[l][Where(cache[l], rows[at][l])] \in Object
      BY <3>1, UseInSeq
    <3>3. loaded'[at][l] = cache[l][Where(cache[l], rows[at][l])]
      BY <1>0, <2>2 DEF TypeInv, TypeOK, Lookups
    <3> QED BY <3>2, <3>3, UnloadedAssumption
  <2> QED BY <2>1, <2>2
<1>4. Restored => \A i \in lo+1..at-1 : RestoredAt(i)
  BY DEF Restored, Loading
<1>5. \A i \in lo+1..at : i = at \/ i \in lo+1..at-1
  BY <1>0
<1> QED BY <1>1, <1>2, <1>3, <1>4, <1>5

LEMMA LoadingInvariant == Spec => []Loading
<1>1. Init => Loading
  BY DEF Init, Loading
<1>2. TypeInv /\ Loading /\ [Next]_vars => Loading'
  <2> SUFFICES ASSUME TypeInv, Loading, [Next]_vars PROVE Loading'
    OBVIOUS
  <2>0. /\ Len(rows) \in Nat /\ lo \in Nat /\ hi \in Nat /\ lo <= hi /\ hi <= Len(rows)
        /\ at \in Nat
        /\ \A i \in 1..Len(rows) : rows[i] \in Row
    BY DEF TypeInv, TypeOK
  <2>1. CASE ReadChunk
    <3>1. stage' \in {"restore", "prefetch"} /\ todo' = Lookups /\ cache' = cache
          /\ lo' = hi /\ at' = hi + 1 /\ (stage' = "restore" => CachesFilled)
      BY <2>1 DEF ReadChunk
    <3>2. lo'+1..at'-1 = {}
      BY <2>0, <3>1
    <3> QED BY <3>1, <3>2 DEF Loading, LoadedFor, CachesFilled
  <2>2. CASE Finish
    BY <2>2 DEF Finish, Loading
  <2>3. CASE Restore
    <3> USE <2>3 DEF Restore
    <3>0. at \in lo+1..hi /\ CachesFilled /\ todo = Lookups /\ lo' = lo /\ hi' = hi
      BY DEF Instances, Loading
    <3>1. CachesFilled'
      BY <3>0, RestoreLoads DEF CachesFilled
    <3>2. Restored => \A i \in lo+1..at : RestoredAt(i)'
      BY RestoreLoads
    <3>3. CASE at < hi
      <4>1. stage' = "restore" /\ at' = at + 1
        BY <3>3 DEF Advance
      <4>2. lo'+1..at'-1 = lo+1..at
        BY <2>0, <3>0, <4>1
      <4> QED BY <3>0, <3>1, <3>2, <4>1, <4>2 DEF Loading
    <3>4. CASE ~(at < hi) /\ Restored
      <4>1. stage' = "yield" /\ Instances' = lo+1..at
        BY <2>0, <3>0, <3>4 DEF Advance, Instances
      <4>2. \A i \in Instances' : RestoredAt(i)'
        BY <3>2, <3>4, <4>1
      <4>3. PICK i \in lo+1..at : RestoredAt(i)'
        BY <2>0, <3>0, <3>2, <3>4
      <4>4. \E f \in ForeignKeys : cache'[f] # <<>>
        BY <3>1, <4>3 DEF CachesFilled, RestoredAt
      <4> QED BY <4>1, <4>2, <4>4 DEF Loading, RestoredChunk
    <3>5. CASE ~(at < hi) /\ ~Restored
      <4>1. stage' = "prefetch" /\ todo' = Lookups
        BY <3>0, <3>5 DEF Advance
      <4> QED BY <4>1 DEF Loading, LoadedFor
    <3> QED BY <3>3, <3>4, <3>5
  <2>4. ASSUME NEW l \in Lookups, Prefetch(l)
        PROVE  Loading'
    <3> USE <2>4 DEF Prefetch
    <3>1. ASSUME NEW i \in Instances, NEW m \in Lookups, m \notin todo'
          PROVE  loaded'[i][m] # Unloaded
      <4>1. i \in 1..Len(rows) /\ i \in DOMAIN loaded
        BY <2>0 DEF Instances, TypeInv, TypeOK
      <4>2. Current(l, rows[i][l]) \in Known
        <5>1. rows[i][l] \in Keys \union {Null}
          BY <2>0, <4>1 DEF Row
        <5> QED BY <5>1, PkAssumption DEF TypeInv, TypeOK, Current, Known, Object
      <4>3. CASE m = l /\ loaded[i][l] = Unloaded
        <5>1. loaded'[i][m] = Current(l, rows[i][l])
          BY <4>1, <4>3 DEF TypeInv, TypeOK
        <5> QED BY <4>2, <5>1, UnloadedAssumption DEF Known
      <4>4. CASE ~(m = l /\ loaded[i][l] = Unloaded)
        <5>1. loaded'[i][m] = loaded[i][m]
          BY <4>1, <4>4 DEF TypeInv, TypeOK
        <5>2. m # l => m \in Lookups \ todo
          BY <3>1
        <5> QED BY <4>4, <5>1, <5>2 DEF Loading, LoadedFor
      <4> QED BY <4>3, <4>4
    <3>2. LoadedFor(Lookups \ todo)'
      BY <3>1 DEF LoadedFor, Instances
    <3>3. stage' = "prefetch" \/ (stage' = "persist" /\ todo' = {})
      OBVIOUS
    <3> QED BY <3>2, <3>3 DEF Loading, LoadedFor
  <2>5. CASE Persist
    <3>1. stage' \in {"persist", "yield"} /\ LoadedFor(Lookups)'
      BY <2>5 DEF Persist, Advance, Loading, LoadedFor, Instances
    <3> QED BY <3>1 DEF Loading
  <2>6. CASE YieldInstance
    <3>1. stage' \in {"yield", "chunk"} /\ UNCHANGED <<lo, hi, rows, cache, loaded>>
      BY <2>6 DEF YieldInstance, Advance
    <3> QED BY <2>6, <3>1
        DEF YieldInstance, Loading, LoadedFor, RestoredChunk, RestoredAt, Instances
  <2>7. ASSUME NEW l \in Lookups, NEW k \in Keys, NEW c \in Contents \union {Null},
               Write(l, k, c)
        PROVE  Loading'
    BY <2>7 DEF Write, loop, Loading, LoadedFor, RestoredChunk, RestoredAt, Instances,
                CachesFilled
  <2>8. CASE Close
    BY <2>8 DEF Close, Loading
  <2>9. CASE UNCHANGED vars
    BY <2>9 DEF vars, loop, Loading, LoadedFor, RestoredChunk, RestoredAt, Instances,
                CachesFilled
  <2> QED
    BY <2>1, <2>2, <2>3, <2>4, <2>5, <2>6, <2>7, <2>8, <2>9 DEF Next, Iterate, Database
<1> QED BY <1>1, <1>2, TypeInvariant, PTL DEF Spec

(* No relation is left to be read when its feature is rendered, but for    *)
(* the ones a chunk restored from the caches never looks at: those for     *)
(* which nothing was found before, and those that lead to several objects. *)
(* That holds whatever was evicted, for any relations and any chunk size.  *)
THEOREM FoundIsLoaded == Spec => []FoundRelationsAreLoaded
<1>1. TypeInv /\ Loading => FoundRelationsAreLoaded
  <2> SUFFICES ASSUME TypeInv, Loading, stage = "yield", NEW l \in Lookups,
                      loaded[at][l] = Unloaded, rows[at][l] # Null
               PROVE  /\ l \in Manys \/ cache[l] = <<>>
                      /\ \E f \in ForeignKeys : cache[f] # <<>>
                      /\ \A o \in OneToOnes : cache[o] = <<>>
    BY DEF FoundRelationsAreLoaded
  <2>1. at \in Instances
    BY DEF TypeInv, Loops, InLoop
  <2>2. RestoredChunk /\ RestoredAt(at)
    BY <2>1 DEF Loading, LoadedFor, RestoredChunk
  <2>3. \A o \in OneToOnes : o \in Single /\ o \notin ForeignKeys
    BY LookupsAssumption DEF Single
  <2> QED BY <2>2, <2>3 DEF RestoredChunk, RestoredAt, Lookups
<1> QED BY <1>1, TypeInvariant, LoadingInvariant, PTL
=============================================================================
