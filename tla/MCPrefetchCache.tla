-------------------------- MODULE MCPrefetchCache --------------------------
(***************************************************************************)
(* Values of PrefetchCache's constants for TLC: features with relations of *)
(* all three kinds in chunks of four, so that a cache holds two objects    *)
(* and has to evict the third.  The first chunk is full, and one or two    *)
(* features or none follow it; or there is no feature at all.              *)
(***************************************************************************)
EXTENDS PrefetchCache

MCPk == [l \in Lookups |-> [k \in Keys |-> k]]
\* A to_field that counts the other way round.
ToFieldPk == [l \in Lookups |-> [k \in Keys |-> 4 - k]]

MCTables == [Lookups -> {[k \in Keys |-> CHOOSE c \in Contents : TRUE]}]

\* Keys are interchangeable: a new one is the smallest that is unused.
Canonical(s) ==
    \A i \in DOMAIN s : s[i] \in {1, Null} \/ \E j \in 1..(i - 1) : s[j] = s[i] - 1
\* The first and the last feature have a style and maybe a permit, all have
\* hours.
Feature(i, n, owner, permit) ==
    [l \in Lookups |-> CASE l = "owner" -> owner
                         [] l = "hours" -> 1
                         [] i \notin {1, n} -> Null
                         [] l = "style" -> 1
                         [] l = "permit" -> permit]
Features(owners, permit) ==
    [i \in DOMAIN owners |-> Feature(i, Len(owners), owners[i], permit)]
\* The second chunk has one or two features, or there is none.
Permitted == {s \in [1..5 -> Keys \union {Null}] :
                 Canonical(s) /\ s[2] # 1 /\ \A i \in 3..5 : s[i] # Null}
MCResults ==
    {Features(s, 1) : s \in {<<>>, <<1, 2, 1, Null>>} \union Permitted}
    \union {Features(<<1, 2, 1, 1>> \o s, Null) : s \in [1..2 -> Keys]}
=============================================================================
