----------------------------- MODULE PagedRead -----------------------------
(***************************************************************************)
(* What paging through a GetFeature result promises to a client: a reader  *)
(* that keeps asking for the next page until there is none has received    *)
(* every row it was promised when it started, and no row on two pages.     *)
(* The promise is for rows that stay, in a table that only grows at its    *)
(* end: LIMIT/OFFSET paging cannot keep it in a table where rows before    *)
(* the current offset come and go, and such a table is marked `disturbed'. *)
(* GetFeaturePaging implements this specification.                         *)
(***************************************************************************)
EXTENDS Integers

CONSTANTS Collections,  \* the queries of a request, one collection each
          Rows          \* the primary keys, ordered as the query sorts them

VARIABLES
    phase,      \* "before", "reading" or "over"
    table,      \* the rows that match each query
    promised,   \* the rows the reader has to receive
    disturbed,  \* a row was removed, or inserted before another one
    earlier,    \* the rows received on earlier pages
    page        \* the rows received of the current page

vars == <<phase, table, promised, disturbed, earlier, page>>

Nothing == [c \in Collections |-> {}]

Init ==
    /\ phase = "before"
    /\ table \in [Collections -> SUBSET Rows]
    /\ promised = Nothing
    /\ disturbed = [c \in Collections |-> FALSE]
    /\ earlier = Nothing
    /\ page = Nothing

(* The reader starts: it is promised rows that are in the table.           *)
Begin ==
    /\ phase = "before"
    /\ phase' = "reading"
    /\ promised' \in [Collections -> SUBSET Rows]
    /\ \A c \in Collections : promised'[c] \subseteq table[c]
    /\ disturbed' = [c \in Collections |-> FALSE]
    /\ UNCHANGED <<table, earlier, page>>

(* Somebody writes to the table, while the reader reads or not.            *)
Append(c, r) ==
    /\ \A q \in table[c] : q < r
    /\ table' = [table EXCEPT ![c] = @ \union {r}]
    /\ UNCHANGED <<phase, promised, disturbed, earlier, page>>

Disturb(c) ==
    /\ disturbed' = [disturbed EXCEPT ![c] = TRUE]
    /\ \E t \in SUBSET Rows : table' = [table EXCEPT ![c] = t]
    /\ \E p \in SUBSET promised[c] : promised' = [promised EXCEPT ![c] = p]
    /\ UNCHANGED <<phase, earlier, page>>

(* Rows of the current page arrive.  None of them came before, unless the  *)
(* table was disturbed.                                                    *)
Deliver ==
    /\ phase = "reading"
    /\ page' \in [Collections -> SUBSET Rows]
    /\ \A c \in Collections :
          /\ page[c] \subseteq page'[c]
          /\ disturbed[c] \/ (page'[c] \ page[c]) \cap earlier[c] = {}
    /\ UNCHANGED <<phase, table, promised, disturbed, earlier>>

TurnPage ==
    /\ phase = "reading"
    /\ earlier' = [c \in Collections |-> earlier[c] \union page[c]]
    /\ page' = Nothing
    /\ UNCHANGED <<phase, table, promised, disturbed>>

(* The reader may stop once it has everything it was promised.             *)
Finish ==
    /\ phase = "reading"
    /\ \A c \in Collections :
          disturbed[c] \/ promised[c] \subseteq earlier[c] \union page[c]
    /\ phase' = "over"
    /\ UNCHANGED <<table, promised, disturbed, earlier, page>>

Next ==
    \/ Begin
    \/ \E c \in Collections, r \in Rows : Append(c, r)
    \/ \E c \in Collections : Disturb(c)
    \/ Deliver
    \/ TurnPage
    \/ Finish

Spec == Init /\ [][Next]_vars
=============================================================================
