------------------------------- MODULE Accounts -------------------------------
(***************************************************************************)
(* The control plane's accounts: registration, e-mail verification, login  *)
(* with the rehash of old password hashes, sessions, password changes and  *)
(* roles.                                                                  *)
(*                                                                         *)
(* No handler locks the user row: each reads it, decides, and writes       *)
(* columns back in later statements, so every handler is one action per    *)
(* statement or transaction.  A transaction that deletes rows deletes the  *)
(* ones committed when its DELETE ran, which is before it commits.  A      *)
(* request that is refused on its first read changes nothing and is left   *)
(* out.  A session or verification token is random: an element of Sessions *)
(* or Links that no row and no request has.                                *)
(***************************************************************************)
EXTENDS Naturals, FiniteSets

CONSTANTS
  Users,        \* identities an account can be registered under
  Founders,     \* accounts that may be there from before: owners, with bcrypt hashes
  Passwords,    \* passwords the policy accepts
  Sessions,     \* session tokens
  Links,        \* verification tokens
  Requests,     \* requests served at once
  None

ASSUME FoundersAssumption == Founders \subseteq Users
ASSUME NoneAssumption == None \notin Users \cup Passwords

VARIABLES
  (* rows of users *)
  password,           \* None when there is no such account
  bcrypt,             \* accounts whose hash is a legacy one
  role, verified,
  (* rows of user_sessions and email_verifications that are not expired *)
  sessionOf, linkOf,  \* the account of each token that has one
  request,
  (* history *)
  chosen,             \* the password each account's holder last chose
  proof,              \* the password each session's holder last proved
  late,               \* sessions inserted after the password they were opened with had changed
  cut,                \* accounts whose password change ended before the sessions were deleted
  overlapped          \* accounts two verification or resend requests of which overlapped

userVars == <<password, bcrypt, role, verified>>
historyVars == <<chosen, proof, late, cut, overlapped>>
vars == <<userVars, sessionOf, linkOf, request, historyVars>>

(* "user" stands for support and moderator too: no decision here tells them apart. *)
Roles == {"user", "admin", "owner"}

Idle == [op |-> "idle"]
LoginRequest == [op : {"login"}, user : Users, given : Passwords, pc : {"rehash", "open"}]
ChangeRequest == [op : {"change"}, user : Users, cookie : Sessions, new : Passwords,
                  pc : {"checked", "updated"}]
RoleRequest == [op : {"role"}, actor : Users, power : Roles, target : Users \cup {None},
                was : Roles, next : Roles]
LinkRequest == [op : {"verify", "resend", "resending"}, user : Users, gone : SUBSET Links]

(* Types: accounts, sessions and links, and each request at one of its statements. *)
TypeOK ==
  /\ password \in [Users -> Passwords \cup {None}]
  /\ bcrypt \subseteq Users
  /\ role \in [Users -> Roles]
  /\ verified \subseteq Users
  /\ sessionOf \in [Sessions -> Users \cup {None}]
  /\ linkOf \in [Links -> Users \cup {None}]
  /\ request \in [Requests ->
                    {Idle} \cup LoginRequest \cup ChangeRequest \cup RoleRequest \cup LinkRequest]
  /\ chosen \in [Users -> Passwords \cup {None}]
  /\ proof \in [Sessions -> Passwords \cup {None}]
  /\ late \subseteq Sessions
  /\ cut \subseteq Users
  /\ overlapped \subseteq Users

(* An empty database, or one with its first owners: no request makes the first. *)
Init ==
  /\ \E p \in Passwords, there \in {{}, Founders} :
       /\ password = [u \in Users |-> IF u \in there THEN p ELSE None]
       /\ bcrypt = there
       /\ role = [u \in Users |-> IF u \in there THEN "owner" ELSE "user"]
       /\ verified = there
  /\ sessionOf = [s \in Sessions |-> None]
  /\ linkOf = [l \in Links |-> None]
  /\ request = [r \in Requests |-> Idle]
  /\ chosen = password
  /\ proof = [s \in Sessions |-> None]
  /\ late = {}
  /\ cut = {}
  /\ overlapped = {}

Registered(u) == password[u] # None

Open == {s \in Sessions : sessionOf[s] # None}

SessionsOf(u) == {s \in Sessions : sessionOf[s] = u}
LinksOf(u) == {l \in Links : linkOf[l] = u}

CloseSessions(S) ==
  /\ sessionOf' = [s \in Sessions |-> IF s \in S THEN None ELSE sessionOf[s]]
  /\ proof' = [s \in Sessions |-> IF s \in S THEN None ELSE proof[s]]
  /\ late' = late \ S

-------------------------------------------------------------------------------
(* register, and the login that ends it when no mail is sent. *)

CreateUser(u, p, newRole) ==
  /\ ~Registered(u)
  /\ password' = [password EXCEPT ![u] = p]
  /\ role' = [role EXCEPT ![u] = newRole]
  /\ chosen' = [chosen EXCEPT ![u] = p]

(* The links of deleted, if they are still there, make room for the new one. *)
CreateLink(u, l, deleted) ==
  /\ linkOf[l] = None
  /\ \A r \in Requests : request[r].op = "resending" => l \notin request[r].gone
  /\ linkOf' = [k \in Links |-> IF k = l THEN u ELSE IF k \in deleted THEN None ELSE linkOf[k]]

RegisterWithMail(u, p, l) ==
  /\ CreateUser(u, p, "user")
  /\ CreateLink(u, l, {})
  /\ UNCHANGED <<bcrypt, verified, sessionOf, request, proof, late, cut, overlapped>>

RegisterWithoutMail(r, u, p) ==
  /\ request[r] = Idle
  /\ CreateUser(u, p, "user")
  /\ verified' = verified \cup {u}
  /\ request' = [request EXCEPT ![r] = [op |-> "login", user |-> u, given |-> p, pc |-> "open"]]
  /\ UNCHANGED <<bcrypt, sessionOf, linkOf, proof, late, cut, overlapped>>

(* Mutant: every login writes the hash again. *)
NeedsRehashAlways(u) == TRUE

NeedsRehash(u) == u \in bcrypt

LoginVerify(r, u, p) ==
  /\ request[r] = Idle
  /\ Registered(u)
  /\ password[u] = p
  /\ u \in verified
  /\ request' = [request EXCEPT ![r] = [op |-> "login", user |-> u, given |-> p,
                                        pc |-> IF NeedsRehash(u) THEN "rehash" ELSE "open"]]
  /\ UNCHANGED <<userVars, sessionOf, linkOf, historyVars>>

(* The Update writes the hash of the password that was given, or fails unnoticed. *)
LoginRehash(r) ==
  /\ request[r].op = "login"
  /\ request[r].pc = "rehash"
  /\ request' = [request EXCEPT ![r].pc = "open"]
  /\ \/ /\ password' = [password EXCEPT ![request[r].user] = request[r].given]
        /\ bcrypt' = bcrypt \ {request[r].user}
     \/ UNCHANGED <<password, bcrypt>>
  /\ UNCHANGED <<role, verified, sessionOf, linkOf, historyVars>>

StartSession(r, s) ==
  /\ request[r].op = "login"
  /\ request[r].pc = "open"
  /\ s \notin Open
  /\ \A q \in Requests : request[q].op = "change" => request[q].cookie # s
  /\ sessionOf' = [sessionOf EXCEPT ![s] = request[r].user]
  /\ proof' = [proof EXCEPT ![s] = request[r].given]
  /\ late' = IF request[r].given # chosen[request[r].user] THEN late \cup {s} ELSE late
  /\ request' = [request EXCEPT ![r] = Idle]
  /\ UNCHANGED <<userVars, linkOf, chosen, cut, overlapped>>

(* logout, or the end of the seven days. *)
CloseSession(s) ==
  /\ s \in Open
  /\ CloseSessions({s})
  /\ UNCHANGED <<userVars, linkOf, request, chosen, cut, overlapped>>

-------------------------------------------------------------------------------
(* changePassword. *)

(* currentUser, and the current password verified against the row it returned. *)
ChangeCheck(r, s, new) ==
  /\ request[r] = Idle
  /\ s \in Open
  /\ request' = [request EXCEPT ![r] = [op |-> "change", user |-> sessionOf[s], cookie |-> s,
                                        new |-> new, pc |-> "checked"]]
  /\ UNCHANGED <<userVars, sessionOf, linkOf, historyVars>>

ChangeUpdate(r) ==
  LET u == request[r].user IN
  /\ request[r].op = "change"
  /\ request[r].pc = "checked"
  /\ password' = [password EXCEPT ![u] = request[r].new]
  /\ bcrypt' = bcrypt \ {u}
  /\ chosen' = [chosen EXCEPT ![u] = request[r].new]
  /\ proof' = [proof EXCEPT ![request[r].cookie] = IF request[r].cookie \in Open
                                                   THEN request[r].new ELSE @]
  /\ request' = [request EXCEPT ![r].pc = "updated"]
  /\ UNCHANGED <<role, verified, sessionOf, linkOf, late, cut, overlapped>>

(* Mutant: only the session of the request is deleted. *)
OthersInverted(u, cookie) == SessionsOf(u) \cap {cookie}

Others(u, cookie) == SessionsOf(u) \ {cookie}

(* The deletion of the other sessions, whose failure goes unnoticed. *)
ChangeRevoke(r) ==
  /\ request[r].op = "change"
  /\ request[r].pc = "updated"
  /\ request' = [request EXCEPT ![r] = Idle]
  /\ \/ /\ CloseSessions(Others(request[r].user, request[r].cookie))
        /\ UNCHANGED cut
     \/ /\ cut' = cut \cup {request[r].user}
        /\ UNCHANGED <<sessionOf, proof, late>>
  /\ UNCHANGED <<userVars, linkOf, chosen, overlapped>>

-------------------------------------------------------------------------------
(* updateUserRole: the actor and the target are read one after the other. *)

(* Mutant: an admin may demote an owner. *)
CanManageRoleAbove(actorRole, targetRole, nextRole) ==
  actorRole = "owner" \/ (actorRole = "admin" /\ nextRole # "owner")

CanManageRole(actorRole, targetRole, nextRole) ==
  \/ actorRole = "owner"
  \/ actorRole = "admin" /\ targetRole # "owner" /\ nextRole # "owner"

(* Mutant: the role is taken as it was sent. *)
UncheckedRoles == Roles \cup {"root"}

AssignableRoles == Roles

RoleActor(r, s) ==
  LET u == sessionOf[s] IN
  /\ request[r] = Idle
  /\ s \in Open
  /\ role[u] \in {"admin", "owner"}
  /\ request' = [request EXCEPT ![r] = [op |-> "role", actor |-> u, power |-> role[u],
                                        target |-> None, was |-> "user", next |-> "user"]]
  /\ UNCHANGED <<userVars, sessionOf, linkOf, historyVars>>

RoleTarget(r, t, next) ==
  /\ request[r].op = "role"
  /\ request[r].target = None
  /\ t # request[r].actor
  /\ Registered(t)
  /\ request' = [request EXCEPT ![r] =
                   IF CanManageRole(request[r].power, role[t], next)
                   THEN [@ EXCEPT !.target = t, !.was = role[t], !.next = next] ELSE Idle]
  /\ UNCHANGED <<userVars, sessionOf, linkOf, historyVars>>

RoleUpdate(r) ==
  /\ request[r].op = "role"
  /\ request[r].target # None
  /\ role' = [role EXCEPT ![request[r].target] = request[r].next]
  /\ request' = [request EXCEPT ![r] = Idle]
  /\ UNCHANGED <<password, bcrypt, verified, sessionOf, linkOf, historyVars>>

-------------------------------------------------------------------------------
(* verifyEmail and resendVerification. *)

LinkRequestsOf(u) ==
  {r \in Requests : request[r].op \in {"verify", "resend", "resending"} /\ request[r].user = u}

Begin(r, op, u) ==
  /\ request[r] = Idle
  /\ request' = [request EXCEPT ![r] = [op |-> op, user |-> u, gone |-> {}]]
  /\ overlapped' = IF LinkRequestsOf(u) = {} THEN overlapped ELSE overlapped \cup {u}
  /\ UNCHANGED <<userVars, sessionOf, linkOf, chosen, proof, late, cut>>

VerifyRead(r, l) == linkOf[l] # None /\ Begin(r, "verify", linkOf[l])

VerifyCommit(r) ==
  LET u == request[r].user IN
  /\ request[r].op = "verify"
  /\ verified' = verified \cup {u}
  /\ linkOf' = [l \in Links |-> IF l \in LinksOf(u) THEN None ELSE linkOf[l]]
  /\ request' = [request EXCEPT ![r] = Idle]
  /\ UNCHANGED <<password, bcrypt, role, sessionOf, historyVars>>

ResendRead(r, u) == Registered(u) /\ u \notin verified /\ Begin(r, "resend", u)

(* Mutant: the older links stay. *)
SupersedesNone(u) == {}

Supersedes(u) == LinksOf(u)

ResendDelete(r) ==
  /\ request[r].op = "resend"
  /\ request' = [request EXCEPT ![r].op = "resending",
                                ![r].gone = Supersedes(request[r].user)]
  /\ UNCHANGED <<userVars, sessionOf, linkOf, historyVars>>

ResendCommit(r, l) ==
  /\ request[r].op = "resending"
  /\ CreateLink(request[r].user, l, request[r].gone)
  /\ request' = [request EXCEPT ![r] = Idle]
  /\ UNCHANGED <<userVars, sessionOf, historyVars>>

(* Thirty minutes go by, or the mail never arrives. *)
LinkExpires(l) ==
  /\ linkOf[l] # None
  /\ linkOf' = [linkOf EXCEPT ![l] = None]
  /\ UNCHANGED <<userVars, sessionOf, request, historyVars>>

-------------------------------------------------------------------------------
(* At startup, when one is configured and no account is above user: an admin, whose       *)
(* address is not verified.                                                                *)
EnsureAdmin(u, p) ==
  /\ \A v \in Users : Registered(v) => role[v] = "user"
  /\ CreateUser(u, p, "admin")
  /\ UNCHANGED <<bcrypt, verified>>

(* The requests die where they are. *)
OrchestratorRestart ==
  /\ request' = [r \in Requests |-> Idle]
  /\ cut' = cut \cup {u \in Users : \E r \in Requests :
              request[r].op = "change" /\ request[r].user = u /\ request[r].pc = "updated"}
  /\ \/ \E u \in Users, p \in Passwords : EnsureAdmin(u, p)
     \/ UNCHANGED <<userVars, chosen>>
  /\ UNCHANGED <<sessionOf, linkOf, proof, late, overlapped>>

-------------------------------------------------------------------------------
LoginNext ==
  \E r \in Requests :
    \/ \E u \in Users, p \in Passwords : RegisterWithoutMail(r, u, p) \/ LoginVerify(r, u, p)
    \/ LoginRehash(r)
    \/ \E s \in Sessions : StartSession(r, s)

ChangeNext ==
  \E r \in Requests :
    \/ \E s \in Sessions, new \in Passwords : ChangeCheck(r, s, new)
    \/ ChangeUpdate(r)
    \/ ChangeRevoke(r)

RoleNext ==
  \E r \in Requests :
    \/ \E s \in Sessions : RoleActor(r, s)
    \/ \E t \in Users, next \in AssignableRoles : RoleTarget(r, t, next)
    \/ RoleUpdate(r)

LinkNext ==
  \E r \in Requests :
    \/ \E l \in Links : VerifyRead(r, l) \/ ResendCommit(r, l)
    \/ VerifyCommit(r)
    \/ \E u \in Users : ResendRead(r, u)
    \/ ResendDelete(r)

Next ==
  \/ \E u \in Users, p \in Passwords, l \in Links : RegisterWithMail(u, p, l)
  \/ LoginNext
  \/ ChangeNext
  \/ RoleNext
  \/ LinkNext
  \/ \E s \in Sessions : CloseSession(s)
  \/ \E l \in Links : LinkExpires(l)
  \/ OrchestratorRestart

Spec == Init /\ [][Next]_vars

-------------------------------------------------------------------------------
(* The password its holder last chose is the one an account accepts, however logins and    *)
(* changes run into each other, unless the account once had a bcrypt hash: a login that    *)
(* verified the old hash writes it back over a change.                                     *)
ChosenPasswordStands == \A u \in Users : password[u] # chosen[u] => u \in Founders

(* A session outlives the password it was opened with only when it was inserted after the  *)
(* change, by a login that had verified before it, or when the change has not deleted the  *)
(* other sessions yet, or never will: it failed, or died with the orchestrator.            *)
OldPasswordSessions ==
  \A s \in Open :
    LET u == sessionOf[s] IN
    proof[s] # chosen[u] =>
      \/ s \in late
      \/ u \in cut
      \/ \E r \in Requests :
           request[r].op = "change" /\ request[r].user = u /\ request[r].pc = "updated"

(* An account has one verification link at most, and none once it is verified, unless two  *)
(* of its verification or resend requests overlapped.                                      *)
OneLink ==
  \A u \in Users \ overlapped :
    Cardinality(LinksOf(u)) <= (IF u \in verified THEN 0 ELSE 1)

(* The last owner loses the role only to a request whose decision rests on a role, of its  *)
(* actor or of its target, that has changed since it was read: two owners that demote each  *)
(* other, or an admin whose target becomes an owner meanwhile.                              *)
OwnerRemains ==
  [][(\E u \in Users : role[u] = "owner") /\ ~(\E u \in Users : role'[u] = "owner") =>
       \E r \in Requests :
         /\ request[r].op = "role"
         /\ request[r].target # None
         /\ \/ role[request[r].actor] # request[r].power
            \/ role[request[r].target] # request[r].was]_vars
===============================================================================
