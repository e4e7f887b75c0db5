--------------------------- MODULE MCSystemProxy ---------------------------
(* SystemProxy with the symmetry of its network services and endpoints. *)
EXTENDS SystemProxy, TLC

Symmetry == Permutations(Services) \cup Permutations(Configs)
=============================================================================
