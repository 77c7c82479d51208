-------------------------- MODULE MCStreamResponse --------------------------
(***************************************************************************)
(* Values of StreamResponse's constants for TLC: responses of one to three *)
(* collections that have up to two features each, and one that is longer   *)
(* than any buffer may become; chunks of one feature, of a few, and one    *)
(* chunk that takes most responses whole.                                  *)
(***************************************************************************)
EXTENDS StreamResponse

MCPages == UNION {[1..n -> 0..2] : n \in 1..3} \union {<<6>>}
MCChunkSizes == {0, 4, 9}
=============================================================================
