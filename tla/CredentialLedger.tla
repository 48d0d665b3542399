--------------------------- MODULE CredentialLedger ---------------------------
(***************************************************************************)
(* What node enrolment promises an organization, with none of its          *)
(* requests, codes or node rows: an organization is granted node           *)
(* credentials up to its plan's limit, each credential is armed with at    *)
(* most one secret in its life, and revocation is final.  NodeEnrollment   *)
(* implements this module.                                                 *)
(***************************************************************************)
EXTENDS Naturals, FiniteSets

CONSTANTS Orgs, Nodes, Tokens, MaxNodes, None

VARIABLES
  holder,   \* the organization a node was granted to
  stage,    \* "free", then "granted", then "revoked"
  key       \* the secret that opens the credential, None until it is armed

ledgerVars == <<holder, stage, key>>

Held(o) == {n \in Nodes : holder[n] = o /\ stage[n] = "granted"}

LedgerInit ==
  /\ holder = [n \in Nodes |-> None]
  /\ stage = [n \in Nodes |-> "free"]
  /\ key = [n \in Nodes |-> None]

Grant(o, n) ==
  /\ stage[n] = "free"
  /\ Cardinality(Held(o)) < MaxNodes[o]
  /\ holder' = [holder EXCEPT ![n] = o]
  /\ stage' = [stage EXCEPT ![n] = "granted"]
  /\ UNCHANGED key

Arm(n, t) ==
  /\ stage[n] = "granted"
  /\ key[n] = None
  /\ \A m \in Nodes : key[m] # t
  /\ key' = [key EXCEPT ![n] = t]
  /\ UNCHANGED <<holder, stage>>

RevokeGrant(n) ==
  /\ stage[n] = "granted"
  /\ stage' = [stage EXCEPT ![n] = "revoked"]
  /\ UNCHANGED <<holder, key>>

LedgerNext ==
  \/ \E n \in Nodes : RevokeGrant(n)
  \/ \E n \in Nodes, o \in Orgs : Grant(o, n)
  \/ \E n \in Nodes, t \in Tokens : Arm(n, t)

LedgerSpec == LedgerInit /\ [][LedgerNext]_ledgerVars
===============================================================================
