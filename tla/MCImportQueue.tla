--------------------------- MODULE MCImportQueue ---------------------------
(* Instances of ImportQueue for TLC. *)
EXTENDS ImportQueue, TLC

(* Two repositories, classified automatically. *)
TwoNames == {[name |-> n, topic |-> FALSE] : n \in {"a", "b"}}

(* Three repositories for a queue with two places; one may also be         *)
(* submitted with a chosen topic, a different request that must not join   *)
(* the queue beside the first.                                             *)
Conflicting ==
    {[name |-> n, topic |-> FALSE] : n \in {"a", "b", "c"}} \cup {[name |-> "a", topic |-> TRUE]}

Symmetry == Permutations(Workers)
=============================================================================
