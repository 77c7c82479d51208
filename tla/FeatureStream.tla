--------------------------- MODULE FeatureStream ---------------------------
(***************************************************************************)
(* What iterating over features with related objects promises to whoever   *)
(* renders them, however the related objects are obtained: every row comes *)
(* once, in the order of the result, and with each of its relations comes  *)
(* the object that this row refers to, as the database had it at some      *)
(* moment since the iteration began.  The reader may leave at any moment.  *)
(* PrefetchCache implements this specification.                            *)
(***************************************************************************)
EXTENDS Naturals, Sequences

CONSTANTS Lookups,  \* the relations of a feature
          Keys,     \* the values of a foreign key
          Values    \* what a relation can lead to: an object, or none

VARIABLES
    keys,       \* the row that comes next and those after it: their foreign keys
    current,    \* what each relation leads to in the database, by key
    past,       \* everything it led to since the iteration began
    feature,    \* the feature that came last, with its related objects
    phase       \* "open", "complete" or "left"

vars == <<keys, current, past, feature, phase>>

Init ==
    /\ keys \in Seq([Lookups -> Keys])
    /\ current \in [Lookups -> [Keys -> Values]]
    /\ past = [l \in Lookups |-> [k \in Keys |-> {current[l][k]}]]
    /\ feature = <<>>
    /\ phase = "open"

(* Somebody changes a related object.                                      *)
Change(l, k, v) ==
    /\ current' = [current EXCEPT ![l][k] = v]
    /\ past' = [past EXCEPT ![l][k] = @ \union {v}]
    /\ UNCHANGED <<keys, feature, phase>>

Deliver ==
    /\ phase = "open"
    /\ keys # <<>>
    /\ feature' \in [Lookups -> Values]
    /\ \A l \in Lookups : feature'[l] \in past[l][Head(keys)[l]]
    /\ keys' = Tail(keys)
    /\ UNCHANGED <<current, past, phase>>

Complete ==
    /\ phase = "open"
    /\ keys = <<>>
    /\ phase' = "complete"
    /\ UNCHANGED <<keys, current, past, feature>>

Leave ==
    /\ phase = "open"
    /\ phase' = "left"
    /\ UNCHANGED <<keys, current, past, feature>>

Next ==
    \/ \E l \in Lookups, k \in Keys, v \in Values : Change(l, k, v)
    \/ Deliver
    \/ Complete
    \/ Leave

Spec == Init /\ [][Next]_vars
=============================================================================
