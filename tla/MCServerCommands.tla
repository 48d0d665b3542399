--------------------------- MODULE MCServerCommands ---------------------------
(* Small instances of ServerCommands.  Identities are model values; the       *)
(* numeric bounds are given by each configuration.                            *)
EXTENDS ServerCommands, TLC

Symmetry ==
  Permutations(Instances) \cup Permutations(Ports) \cup Permutations(Requests)
    \cup Permutations(Handlers)
===============================================================================
