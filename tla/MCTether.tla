------------------------------ MODULE MCTether ------------------------------
(* Two adapters; two flows from the first to the second, and one back.     *)
EXTENDS Tether

CONSTANTS a1, a2

MCFlows == {[src |-> a1, dst |-> a2, port |-> p] : p \in {1, 2}}
             \cup {[src |-> a2, dst |-> a1, port |-> 1]}

MCPolicy == {[src |-> a1, dst |-> a2, port |-> p] : p \in {0, 1}}
              \cup {[src |-> a2, dst |-> a1, port |-> 0]}
=============================================================================
