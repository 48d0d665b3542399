--------------------------- MODULE MCNodeEnrollment ---------------------------
(* Small instances of NodeEnrollment: model values for every identity, a plan  *)
(* of one node per organization, as the Free plan has.                         *)
EXTENDS NodeEnrollment, TLC

CONSTANTS h1, h2, x, y

OneNodeEach == [o \in Orgs |-> 1]

(* Two hosts with names of their own. *)
OwnNames == (h1 :> x) @@ (h2 :> y)

(* One host. *)
OneName == h1 :> x

Symmetry ==
  Permutations(Nodes) \cup Permutations(Enrollments) \cup Permutations(Tokens)
    \cup Permutations(Orgs) \cup Permutations(Beats)
===============================================================================
