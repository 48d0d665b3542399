------------------------------ MODULE MCAccounts ------------------------------
(* Small instances of Accounts: an owner from an older deployment and accounts *)
(* that register.                                                              *)
EXTENDS Accounts, TLC

Symmetry ==
  Permutations(Passwords) \cup Permutations(Sessions) \cup Permutations(Links)
    \cup Permutations(Requests)
===============================================================================
