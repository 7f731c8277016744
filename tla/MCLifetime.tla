----------------------------- MODULE MCLifetime -----------------------------
(* Instances of Lifetime for the model checker.                            *)
EXTENDS Lifetime

(* Rows expire after a second.                                             *)
MCTtl == [t \in TableNames |-> 1]
=============================================================================
