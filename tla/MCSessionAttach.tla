-------------------------- MODULE MCSessionAttach --------------------------
EXTENDS SessionAttach, TLC

(* Connections, with the agents and sessions named after them, and notes   *)
(* are interchangeable.                                                    *)
Symmetry == Permutations(Conns) \cup Permutations(Notes)
=============================================================================
