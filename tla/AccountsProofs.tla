---------------------------- MODULE AccountsProofs ----------------------------
(***************************************************************************)
(* Proofs about Accounts for any users, passwords, sessions, links and     *)
(* requests.  Three inductive invariants: IInv, the types, what sessions   *)
(* and requests refer to, who can still have a bcrypt hash, and which of   *)
(* the password changes in progress set the password last; LinkInv, what   *)
(* keeps one verification link in hand; and RoleInv, what a request that   *)
(* is about to write a role has decided.                                   *)
(***************************************************************************)
EXTENDS Accounts, FiniteSetTheorems, TLAPS

-------------------------------------------------------------------------------
(* Types. *)

(* A busy request has the fields of its operation. *)
LEMMA Shape ==
  ASSUME TypeOK, NEW r \in Requests
  PROVE  /\ request[r].op = "login" => request[r] \in LoginRequest
         /\ request[r].op = "change" => request[r] \in ChangeRequest
         /\ request[r].op = "role" => request[r] \in RoleRequest
         /\ request[r].op \in {"verify", "resend", "resending"} => request[r] \in LinkRequest
BY DEF TypeOK, Idle, LoginRequest, ChangeRequest, RoleRequest, LinkRequest

Shapes == {Idle} \cup LoginRequest \cup ChangeRequest \cup RoleRequest \cup LinkRequest

(* One request moves on, the others stay: the shapes are kept. *)
LEMMA ReplaceRequest ==
  ASSUME TypeOK, NEW r \in Requests, NEW q \in Shapes, request' = [request EXCEPT ![r] = q]
  PROVE  request' \in [Requests -> Shapes]
<1>1. request \in [Requests -> Shapes]
  BY DEF TypeOK, Shapes
<1>. QED  BY <1>1

(* The first state is typed. *)
LEMMA InitTypes == Init => TypeOK
BY FoundersAssumption DEF Init, TypeOK, Roles

(* Types, through each statement of register and login. *)
LEMMA LoginStepTypes == TypeOK /\ LoginNext => TypeOK'
<1> SUFFICES ASSUME TypeOK, NEW r \in Requests,
                    \/ \E u \in Users, p \in Passwords :
                         RegisterWithoutMail(r, u, p) \/ LoginVerify(r, u, p)
                    \/ LoginRehash(r)
                    \/ \E s \in Sessions : StartSession(r, s)
             PROVE  TypeOK'
  BY DEF LoginNext
<1> USE DEF userVars, historyVars
<1>1. ASSUME NEW u \in Users, NEW p \in Passwords, RegisterWithoutMail(r, u, p)
      PROVE  TypeOK'
  <2>1. [op |-> "login", user |-> u, given |-> p, pc |-> "open"] \in Shapes
    BY DEF Shapes, LoginRequest
  <2>2. request' \in [Requests -> Shapes]
    BY <1>1, <2>1, ReplaceRequest DEF RegisterWithoutMail
  <2>. QED  BY <1>1, <2>2 DEF RegisterWithoutMail, CreateUser, TypeOK, Shapes, Roles
<1>2. ASSUME NEW u \in Users, NEW p \in Passwords, LoginVerify(r, u, p)
      PROVE  TypeOK'
  <2>. DEFINE q == [op |-> "login", user |-> u, given |-> p,
                    pc |-> IF NeedsRehash(u) THEN "rehash" ELSE "open"]
  <2>1. q \in Shapes
    BY DEF Shapes, LoginRequest
  <2>2. request' = [request EXCEPT ![r] = q]
    BY <1>2 DEF LoginVerify
  <2>3. request' \in [Requests -> Shapes]
    BY <2>1, <2>2, ReplaceRequest
  <2>. QED  BY <1>2, <2>3 DEF LoginVerify, TypeOK, Shapes
<1>3. CASE LoginRehash(r)
  <2>1. request[r] \in LoginRequest
    BY <1>3, Shape DEF LoginRehash
  <2>2. [request[r] EXCEPT !.pc = "open"] \in Shapes
    BY <2>1 DEF LoginRequest, Shapes
  <2>3. request' = [request EXCEPT ![r] = [request[r] EXCEPT !.pc = "open"]]
    BY <1>3 DEF LoginRehash
  <2>4. request' \in [Requests -> Shapes]
    BY <2>2, <2>3, ReplaceRequest
  <2>. QED  BY <1>3, <2>1, <2>4 DEF LoginRehash, TypeOK, Shapes, LoginRequest
<1>4. ASSUME NEW s \in Sessions, StartSession(r, s)
      PROVE  TypeOK'
  <2>1. request[r] \in LoginRequest
    BY <1>4, Shape DEF StartSession
  <2>2. request' \in [Requests -> Shapes]
    BY <1>4, ReplaceRequest DEF StartSession, Shapes
  <2>. QED  BY <1>4, <2>1, <2>2 DEF StartSession, TypeOK, Shapes, LoginRequest
<1>. QED  BY <1>1, <1>2, <1>3, <1>4

(* Closing sessions keeps the three session variables typed. *)
LEMMA CloseSessionsTypes ==
  ASSUME TypeOK, NEW S \in SUBSET Sessions, CloseSessions(S)
  PROVE  /\ sessionOf' \in [Sessions -> Users \cup {None}]
         /\ proof' \in [Sessions -> Passwords \cup {None}]
         /\ late' \subseteq Sessions
BY DEF CloseSessions, TypeOK

(* Types, through each statement of changePassword. *)
LEMMA ChangeStepTypes == TypeOK /\ ChangeNext => TypeOK'
<1> SUFFICES ASSUME TypeOK, NEW r \in Requests,
                    \/ \E s \in Sessions, new \in Passwords : ChangeCheck(r, s, new)
                    \/ ChangeUpdate(r)
                    \/ ChangeRevoke(r)
             PROVE  TypeOK'
  BY DEF ChangeNext
<1> USE DEF userVars, historyVars
<1>1. ASSUME NEW s \in Sessions, NEW new \in Passwords, ChangeCheck(r, s, new)
      PROVE  TypeOK'
  <2>. DEFINE q == [op |-> "change", user |-> sessionOf[s], cookie |-> s, new |-> new,
                    pc |-> "checked"]
  <2>1. sessionOf[s] \in Users
    BY <1>1 DEF ChangeCheck, Open, TypeOK
  <2>2. q \in Shapes
    BY <2>1 DEF Shapes, ChangeRequest
  <2>3. request' \in [Requests -> Shapes]
    BY <1>1, <2>2, ReplaceRequest DEF ChangeCheck
  <2>. QED  BY <1>1, <2>3 DEF ChangeCheck, TypeOK, Shapes
<1>2. CASE ChangeUpdate(r)
  <2>1. request[r] \in ChangeRequest
    BY <1>2, Shape DEF ChangeUpdate
  <2>2. [request[r] EXCEPT !.pc = "updated"] \in Shapes
    BY <2>1 DEF ChangeRequest, Shapes
  <2>3. request' = [request EXCEPT ![r] = [request[r] EXCEPT !.pc = "updated"]]
    BY <1>2 DEF ChangeUpdate
  <2>4. request' \in [Requests -> Shapes]
    BY <2>2, <2>3, ReplaceRequest
  <2>. QED  BY <1>2, <2>1, <2>4 DEF ChangeUpdate, TypeOK, Shapes, ChangeRequest
<1>3. CASE ChangeRevoke(r)
  <2>1. request[r] \in ChangeRequest
    BY <1>3, Shape DEF ChangeRevoke
  <2>2. request' \in [Requests -> Shapes]
    BY <1>3, ReplaceRequest DEF ChangeRevoke, Shapes
  <2>3. Others(request[r].user, request[r].cookie) \in SUBSET Sessions
    BY DEF Others, SessionsOf
  <2>4. /\ sessionOf' \in [Sessions -> Users \cup {None}]
        /\ proof' \in [Sessions -> Passwords \cup {None}]
        /\ late' \subseteq Sessions
    BY <1>3, <2>3, CloseSessionsTypes DEF ChangeRevoke, TypeOK
  <2>. QED  BY <1>3, <2>1, <2>2, <2>4 DEF ChangeRevoke, TypeOK, Shapes, ChangeRequest
<1>. QED  BY <1>1, <1>2, <1>3

(* Types, through each statement of updateUserRole. *)
LEMMA RoleStepTypes == TypeOK /\ RoleNext => TypeOK'
<1> SUFFICES ASSUME TypeOK, NEW r \in Requests,
                    \/ \E s \in Sessions : RoleActor(r, s)
                    \/ \E t \in Users, next \in AssignableRoles : RoleTarget(r, t, next)
                    \/ RoleUpdate(r)
             PROVE  TypeOK'
  BY DEF RoleNext
<1> USE DEF userVars, historyVars
<1>1. ASSUME NEW s \in Sessions, RoleActor(r, s)
      PROVE  TypeOK'
  <2>. DEFINE q == [op |-> "role", actor |-> sessionOf[s], power |-> role[sessionOf[s]],
                    target |-> None, was |-> "user", next |-> "user"]
  <2>1. sessionOf[s] \in Users
    BY <1>1 DEF RoleActor, Open, TypeOK
  <2>2. q \in Shapes
    BY <2>1 DEF Shapes, RoleRequest, TypeOK, Roles
  <2>3. request' = [request EXCEPT ![r] = q]
    BY <1>1 DEF RoleActor
  <2>4. request' \in [Requests -> Shapes]
    BY <2>2, <2>3, ReplaceRequest
  <2>. QED  BY <1>1, <2>4 DEF RoleActor, TypeOK, Shapes
<1>2. ASSUME NEW t \in Users, NEW next \in AssignableRoles, RoleTarget(r, t, next)
      PROVE  TypeOK'
  <2>. DEFINE q == IF CanManageRole(request[r].power, role[t], next)
                   THEN [request[r] EXCEPT !.target = t, !.was = role[t], !.next = next]
                   ELSE Idle
  <2>1. request[r] \in RoleRequest /\ role[t] \in Roles /\ next \in Roles
    BY <1>2, Shape DEF RoleTarget, TypeOK, AssignableRoles
  <2>2. [request[r] EXCEPT !.target = t, !.was = role[t], !.next = next] \in RoleRequest
    BY <2>1 DEF RoleRequest
  <2>3. q \in Shapes
    BY <2>2 DEF Shapes
  <2>4. request' = [request EXCEPT ![r] = q]
    BY <1>2 DEF RoleTarget
  <2>5. request' \in [Requests -> Shapes]
    BY <2>3, <2>4, ReplaceRequest
  <2>. QED  BY <1>2, <2>5 DEF RoleTarget, TypeOK, Shapes
<1>3. CASE RoleUpdate(r)
  <2>1. request[r] \in RoleRequest
    BY <1>3, Shape DEF RoleUpdate
  <2>2. request' \in [Requests -> Shapes]
    BY <1>3, ReplaceRequest DEF RoleUpdate, Shapes
  <2>. QED  BY <1>3, <2>1, <2>2 DEF RoleUpdate, TypeOK, Shapes, RoleRequest
<1>. QED  BY <1>1, <1>2, <1>3

(* A new link keeps the links typed. *)
LEMMA CreateLinkTypes ==
  ASSUME TypeOK, NEW u \in Users, NEW l \in Links, NEW deleted, CreateLink(u, l, deleted)
  PROVE  linkOf' \in [Links -> Users \cup {None}]
BY DEF CreateLink, TypeOK

(* A verification or resend request that begins keeps every type. *)
LEMMA BeginTypes ==
  ASSUME TypeOK, NEW r \in Requests, NEW op \in {"verify", "resend"}, NEW u \in Users,
         Begin(r, op, u)
  PROVE  TypeOK'
<1>. DEFINE q == [op |-> op, user |-> u, gone |-> {}]
<1>1. q \in Shapes
  BY DEF Shapes, LinkRequest
<1>2. request' \in [Requests -> Shapes]
  BY <1>1, ReplaceRequest DEF Begin
<1>3. overlapped' \subseteq Users
  BY DEF Begin, TypeOK
<1>. QED  BY <1>2, <1>3 DEF Begin, TypeOK, Shapes, userVars

(* Types, through each statement of verifyEmail and resendVerification. *)
LEMMA LinkStepTypes == TypeOK /\ LinkNext => TypeOK'
<1> SUFFICES ASSUME TypeOK, NEW r \in Requests,
                    \/ \E l \in Links : VerifyRead(r, l) \/ ResendCommit(r, l)
                    \/ VerifyCommit(r)
                    \/ \E u \in Users : ResendRead(r, u)
                    \/ ResendDelete(r)
             PROVE  TypeOK'
  BY DEF LinkNext
<1> USE DEF userVars, historyVars
<1>1. ASSUME NEW l \in Links, VerifyRead(r, l)
      PROVE  TypeOK'
  <2>1. linkOf[l] \in Users
    BY <1>1 DEF VerifyRead, TypeOK
  <2>. QED  BY <1>1, <2>1, BeginTypes DEF VerifyRead
<1>2. ASSUME NEW l \in Links, ResendCommit(r, l)
      PROVE  TypeOK'
  <2>1. request[r] \in LinkRequest
    BY <1>2, Shape DEF ResendCommit
  <2>2. request' \in [Requests -> Shapes]
    BY <1>2, ReplaceRequest DEF ResendCommit, Shapes
  <2>3. linkOf' \in [Links -> Users \cup {None}]
    BY <1>2, <2>1, CreateLinkTypes DEF ResendCommit, LinkRequest
  <2>. QED  BY <1>2, <2>2, <2>3 DEF ResendCommit, TypeOK, Shapes
<1>3. CASE VerifyCommit(r)
  <2>1. request[r] \in LinkRequest
    BY <1>3, Shape DEF VerifyCommit
  <2>2. request' \in [Requests -> Shapes]
    BY <1>3, ReplaceRequest DEF VerifyCommit, Shapes
  <2>3. linkOf' \in [Links -> Users \cup {None}] /\ verified' \subseteq Users
    BY <1>3, <2>1 DEF VerifyCommit, LinkRequest, TypeOK
  <2>. QED  BY <1>3, <2>2, <2>3 DEF VerifyCommit, TypeOK, Shapes
<1>4. ASSUME NEW u \in Users, ResendRead(r, u)
      PROVE  TypeOK'
  BY <1>4, BeginTypes DEF ResendRead
<1>5. CASE ResendDelete(r)
  <2>. DEFINE gone == Supersedes(request[r].user)
              q == [request[r] EXCEPT !.op = "resending", !.gone = gone]
  <2>1. request[r] \in LinkRequest
    BY <1>5, Shape DEF ResendDelete
  <2>2. gone \in SUBSET Links
    BY DEF Supersedes, LinksOf
  <2>3. q \in Shapes
    <3>. HIDE DEF gone
    <3>. QED  BY <2>1, <2>2 DEF LinkRequest, Shapes
  <2>4. request' = [request EXCEPT ![r] = q]
    BY <1>5 DEF ResendDelete, TypeOK
  <2>5. request' \in [Requests -> Shapes]
    <3>. HIDE DEF q
    <3>. QED  BY <2>3, <2>4, ReplaceRequest
  <2>. QED  BY <1>5, <2>5 DEF ResendDelete, TypeOK, Shapes
<1>. QED  BY <1>1, <1>2, <1>3, <1>4, <1>5

(* Every step keeps every type. *)
LEMMA StepTypes == TypeOK /\ [Next]_vars => TypeOK'
<1> SUFFICES ASSUME TypeOK, [Next]_vars
             PROVE  TypeOK'
  OBVIOUS
<1> USE DEF userVars, historyVars
<1>1. ASSUME NEW u \in Users, NEW p \in Passwords, NEW l \in Links, RegisterWithMail(u, p, l)
      PROVE  TypeOK'
  <2>1. linkOf' \in [Links -> Users \cup {None}]
    BY <1>1, CreateLinkTypes DEF RegisterWithMail
  <2>. QED  BY <1>1, <2>1 DEF RegisterWithMail, CreateUser, TypeOK, Roles
<1>2. ASSUME NEW s \in Sessions, CloseSession(s)
      PROVE  TypeOK'
  BY <1>2, CloseSessionsTypes DEF CloseSession, TypeOK
<1>3. ASSUME NEW l \in Links, LinkExpires(l)
      PROVE  TypeOK'
  BY <1>3 DEF LinkExpires, TypeOK
<1>4. CASE OrchestratorRestart
  <2>1. /\ password' \in [Users -> Passwords \cup {None}]
        /\ bcrypt' \subseteq Users
        /\ role' \in [Users -> Roles]
        /\ verified' \subseteq Users
        /\ chosen' \in [Users -> Passwords \cup {None}]
    BY <1>4 DEF OrchestratorRestart, EnsureAdmin, CreateUser, TypeOK, Roles
  <2>2. request' \in [Requests -> Shapes] /\ cut' \subseteq Users
    BY <1>4 DEF OrchestratorRestart, Shapes, TypeOK
  <2>. QED  BY <1>4, <2>1, <2>2 DEF OrchestratorRestart, TypeOK, Shapes
<1>5. CASE UNCHANGED vars
  BY <1>5 DEF vars, TypeOK
<1>. QED  BY <1>1, <1>2, <1>3, <1>4, <1>5, LoginStepTypes, ChangeStepTypes, RoleStepTypes,
             LinkStepTypes DEF Next

(* Every variable keeps its type, whatever requests run into each other.                   *)
THEOREM TypeCorrect == Spec => []TypeOK
BY InitTypes, StepTypes, PTL DEF Spec

-------------------------------------------------------------------------------
(* The inductive invariant. *)

(* Sessions and the requests of logins and password changes are of registered accounts; a  *)
(* change's cookie, if it is still a session's, is of the account it changes.              *)
Referenced ==
  /\ \A s \in Open : Registered(sessionOf[s])
  /\ \A r \in Requests :
       /\ request[r].op \in {"login", "change"} => Registered(request[r].user)
       /\ request[r].op = "change" /\ request[r].cookie \in Open =>
            sessionOf[request[r].cookie] = request[r].user

RehashOfFounders ==
  /\ bcrypt \subseteq Founders
  /\ \A r \in Requests :
       request[r].op = "login" /\ request[r].pc = "rehash" => request[r].user \in Founders

(* A change of u's password that has still to delete the other sessions. *)
Updated(r, u) == request[r].op = "change" /\ request[r].user = u /\ request[r].pc = "updated"

(* The session the change was made with is gone, or proved the password chosen last. *)
Newest(r) ==
  request[r].cookie \in Open => proof[request[r].cookie] = chosen[request[r].user]

(* Of an account's changes in progress, one is the newest. *)
NewestInProgress ==
  \A u \in Users \ cut, r \in Requests :
    Updated(r, u) => \E q \in Requests : Updated(q, u) /\ Newest(q)

IInv ==
  /\ TypeOK
  /\ Referenced
  /\ RehashOfFounders
  /\ ChosenPasswordStands
  /\ NewestInProgress
  /\ OldPasswordSessions

(* The first state satisfies the inductive invariant. *)
LEMMA InitIInv == Init => IInv
<1> SUFFICES ASSUME Init
             PROVE  IInv
  OBVIOUS
<1>1. Referenced /\ RehashOfFounders
  BY DEF Init, Referenced, RehashOfFounders, Open, Idle
<1>2. ChosenPasswordStands /\ OldPasswordSessions
  BY DEF Init, ChosenPasswordStands, OldPasswordSessions, Open
<1>3. NewestInProgress
  BY DEF Init, NewestInProgress, Updated, Idle
<1>. QED  BY InitTypes, <1>1, <1>2, <1>3 DEF IInv

(* Who is registered stays so. *)
LEMMA StepRegistered ==
  ASSUME TypeOK, [Next]_vars
  PROVE  \A u \in Users : password[u] # None => password'[u] # None
<1> USE DEF Registered, userVars, historyVars
<1>1. ASSUME NEW u \in Users, NEW p \in Passwords, NEW newRole, CreateUser(u, p, newRole)
      PROVE  \A v \in Users : password[v] # None => password'[v] # None
  BY <1>1, NoneAssumption DEF CreateUser, TypeOK
<1>2. CASE UNCHANGED password
  BY <1>2
<1>3. ASSUME NEW r \in Requests, LoginRehash(r)
      PROVE  \A v \in Users : password[v] # None => password'[v] # None
  <2>1. request[r].given \in Passwords
    BY <1>3, Shape DEF LoginRehash, LoginRequest
  <2>. QED  BY <1>3, <2>1, NoneAssumption DEF LoginRehash, TypeOK
<1>4. ASSUME NEW r \in Requests, ChangeUpdate(r)
      PROVE  \A v \in Users : password[v] # None => password'[v] # None
  <2>1. request[r].new \in Passwords
    BY <1>4, Shape DEF ChangeUpdate, ChangeRequest
  <2>. QED  BY <1>4, <2>1, NoneAssumption DEF ChangeUpdate, TypeOK
<1>5. \/ UNCHANGED password
      \/ \E u \in Users, p \in Passwords : \E newRole : CreateUser(u, p, newRole)
      \/ \E r \in Requests : LoginRehash(r) \/ ChangeUpdate(r)
  <2>1. CASE LoginNext
    BY <2>1 DEF LoginNext, RegisterWithoutMail, LoginVerify, StartSession
  <2>2. CASE ChangeNext
    BY <2>2 DEF ChangeNext, ChangeCheck, ChangeRevoke
  <2>3. CASE RoleNext \/ LinkNext
    BY <2>3 DEF RoleNext, LinkNext, RoleActor, RoleTarget, RoleUpdate, VerifyRead, ResendRead,
                Begin, VerifyCommit, ResendDelete, ResendCommit
  <2>4. CASE OrchestratorRestart
    BY <2>4 DEF OrchestratorRestart, EnsureAdmin
  <2>5. CASE \E u \in Users, p \in Passwords, l \in Links : RegisterWithMail(u, p, l)
    BY <2>5 DEF RegisterWithMail
  <2>6. CASE UNCHANGED vars \/ (\E s \in Sessions : CloseSession(s))
               \/ (\E l \in Links : LinkExpires(l))
    BY <2>6 DEF vars, CloseSession, LinkExpires
  <2>. QED  BY <2>1, <2>2, <2>3, <2>4, <2>5, <2>6 DEF Next
<1>. QED  BY <1>1, <1>2, <1>3, <1>4, <1>5

(* A step that leaves passwords and sessions alone, and the requests of logins and changes. *)
LEMMA QuietStep ==
  ASSUME IInv, [Next]_vars,
         UNCHANGED <<password, bcrypt, sessionOf, chosen, proof, late, cut>>,
         \A r \in Requests :
           request[r].op \in {"login", "change"} \/ request'[r].op \in {"login", "change"}
             => request'[r] = request[r]
  PROVE  IInv'
<1>1. TypeOK'
  BY StepTypes DEF IInv
<1>2. Open' = Open
  BY DEF Open
<1>3. Referenced'
  BY <1>2 DEF IInv, Referenced, Registered
<1>4. RehashOfFounders' /\ ChosenPasswordStands'
  BY DEF IInv, RehashOfFounders, ChosenPasswordStands
<1>5. ASSUME NEW r \in Requests, NEW u
      PROVE  /\ Updated(r, u)' <=> Updated(r, u)
             /\ Updated(r, u) /\ Newest(r) => Newest(r)'
  BY <1>2 DEF Updated, Newest
<1>6. NewestInProgress'
  <2> SUFFICES ASSUME NEW u \in Users \ cut, NEW r \in Requests, Updated(r, u)
               PROVE  \E q \in Requests : Updated(q, u)' /\ Newest(q)'
    BY <1>5 DEF NewestInProgress
  <2>1. PICK q \in Requests : Updated(q, u) /\ Newest(q)
    BY DEF IInv, NewestInProgress
  <2>. QED  BY <1>5, <2>1
<1>7. OldPasswordSessions'
  <2> SUFFICES ASSUME NEW s \in Open, proof[s] # chosen[sessionOf[s]], s \notin late,
                      sessionOf[s] \notin cut
               PROVE  \E r \in Requests : Updated(r, sessionOf[s])'
    BY <1>2 DEF OldPasswordSessions, Updated
  <2>1. \E r \in Requests : Updated(r, sessionOf[s])
    BY DEF IInv, OldPasswordSessions, Updated
  <2>. QED  BY <1>5, <2>1
<1>. QED  BY <1>1, <1>3, <1>4, <1>6, <1>7 DEF IInv

(* A new account has no session and no request. *)
LEMMA CreateUserStep ==
  ASSUME IInv, [Next]_vars,
         NEW u \in Users, NEW p \in Passwords, NEW newRole, CreateUser(u, p, newRole),
         UNCHANGED <<bcrypt, sessionOf, proof, late, cut>>,
         \A r \in Requests :
           \/ request'[r] = request[r]
           \/ /\ request[r].op # "change"
              /\ request'[r] = [op |-> "login", user |-> u, given |-> p, pc |-> "open"]
  PROVE  IInv'
<1>1. TypeOK'
  BY StepTypes DEF IInv
<1>2. Open' = Open /\ \A s \in Open : sessionOf[s] \in Users /\ sessionOf[s] # u
  BY DEF Open, IInv, Referenced, CreateUser, TypeOK
<1>3. \A v \in Users : password[v] # None => password'[v] # None
  BY StepRegistered DEF IInv
<1>4. password'[u] # None
  BY NoneAssumption DEF CreateUser, IInv, TypeOK
<1>5. \A r \in Requests : request[r].op \in {"login", "change"} =>
         request[r].user \in Users /\ request[r].user # u
  BY Shape DEF IInv, Referenced, CreateUser, LoginRequest, ChangeRequest
<1>6. \A v \in Users : v # u => chosen'[v] = chosen[v] /\ password'[v] = password[v]
  BY DEF CreateUser, IInv, TypeOK
<1>7. Referenced'
  <2>1. \A s \in Open : password'[sessionOf[s]] # None
    BY <1>2, <1>3 DEF IInv, Referenced, Registered
  <2>2. ASSUME NEW r \in Requests
        PROVE  /\ request'[r].op \in {"login", "change"} => password'[request'[r].user] # None
               /\ request'[r].op = "change" /\ request'[r].cookie \in Open =>
                    sessionOf[request'[r].cookie] = request'[r].user
    <3>1. CASE request'[r] = request[r]
      BY <1>3, <1>5, <3>1 DEF IInv, Referenced, Registered
    <3>2. CASE request'[r] = [op |-> "login", user |-> u, given |-> p, pc |-> "open"]
      BY <1>4, <3>2
    <3>. QED  BY <3>1, <3>2
  <2>. QED  BY <1>2, <2>1, <2>2 DEF Referenced, Registered
<1>8. RehashOfFounders'
  BY DEF IInv, RehashOfFounders
<1>9. ChosenPasswordStands'
  BY <1>6 DEF IInv, ChosenPasswordStands, CreateUser, TypeOK
<1>10. ASSUME NEW r \in Requests, NEW v \in Users
       PROVE  /\ Updated(r, v)' => Updated(r, v)
              /\ Updated(r, v) => Updated(r, v)' /\ (Newest(r) => Newest(r)')
  <2>1. Updated(r, v)' => Updated(r, v)
    BY DEF Updated
  <2>2. Updated(r, v) => Updated(r, v)'
    BY DEF Updated
  <2>3. Updated(r, v) /\ Newest(r) => Newest(r)'
    BY <1>2, <1>5, <1>6 DEF Updated, Newest
  <2>. QED  BY <2>1, <2>2, <2>3
<1>11. NewestInProgress'
  <2> SUFFICES ASSUME NEW v \in Users \ cut, NEW r \in Requests, Updated(r, v)'
               PROVE  \E q \in Requests : Updated(q, v)' /\ Newest(q)'
    BY DEF NewestInProgress
  <2>1. PICK q \in Requests : Updated(q, v) /\ Newest(q)
    BY <1>10 DEF IInv, NewestInProgress
  <2>. QED  BY <1>10, <2>1
<1>12. OldPasswordSessions'
  <2> SUFFICES ASSUME NEW s \in Open, proof[s] # chosen'[sessionOf[s]], s \notin late,
                      sessionOf[s] \notin cut
               PROVE  \E r \in Requests : Updated(r, sessionOf[s])'
    BY <1>2 DEF OldPasswordSessions, Updated
  <2>1. proof[s] # chosen[sessionOf[s]]
    BY <1>2, <1>6
  <2>2. \E r \in Requests : Updated(r, sessionOf[s])
    BY <2>1 DEF IInv, OldPasswordSessions, Updated
  <2>. QED  BY <1>2, <1>10, <2>2
<1>. QED  BY <1>1, <1>7, <1>8, <1>9, <1>11, <1>12 DEF IInv

(* While no change moves on, one stays the newest. *)
LEMMA ChangesKept ==
  ASSUME IInv, UNCHANGED <<chosen, cut>>,
         \A r \in Requests :
           request[r].op = "change" \/ request'[r].op = "change" => request'[r] = request[r],
         \A r \in Requests :
           request[r].op = "change" /\ request[r].cookie \in Open' =>
             request[r].cookie \in Open /\ proof'[request[r].cookie] = proof[request[r].cookie]
  PROVE  /\ NewestInProgress'
         /\ \A r \in Requests, u \in Users : Updated(r, u)' <=> Updated(r, u)
<1>1. ASSUME NEW r \in Requests, NEW u \in Users
      PROVE  /\ Updated(r, u)' <=> Updated(r, u)
             /\ Updated(r, u) /\ Newest(r) => Newest(r)'
  BY DEF Updated, Newest
<1>2. NewestInProgress'
  <2> SUFFICES ASSUME NEW u \in Users \ cut, NEW r \in Requests, Updated(r, u)
               PROVE  \E q \in Requests : Updated(q, u)' /\ Newest(q)'
    BY <1>1 DEF NewestInProgress
  <2>1. PICK q \in Requests : Updated(q, u) /\ Newest(q)
    BY DEF IInv, NewestInProgress
  <2>. QED  BY <1>1, <2>1
<1>. QED  BY <1>1, <1>2

(* A login that has read its account keeps the invariant. *)
LEMMA LoginVerifyStep ==
  ASSUME IInv, [Next]_vars,
         NEW r \in Requests, NEW u \in Users, NEW p \in Passwords, LoginVerify(r, u, p)
  PROVE  IInv'
<1> USE DEF userVars, historyVars
<1>1. TypeOK' /\ TypeOK
  BY StepTypes DEF IInv
<1>2. /\ UNCHANGED <<password, bcrypt, sessionOf, chosen, proof, late, cut>>
      /\ Open' = Open
      /\ request[r].op = "idle"
      /\ request'[r] = [op |-> "login", user |-> u, given |-> p,
                        pc |-> IF NeedsRehash(u) THEN "rehash" ELSE "open"]
      /\ \A q \in Requests \ {r} : request'[q] = request[q]
  BY <1>1 DEF LoginVerify, Open, TypeOK, Idle
<1>3. Referenced'
  BY <1>2 DEF IInv, Referenced, LoginVerify, Registered
<1>4. RehashOfFounders' /\ ChosenPasswordStands'
  BY <1>2 DEF IInv, RehashOfFounders, ChosenPasswordStands, NeedsRehash
<1>5. /\ NewestInProgress'
      /\ \A q \in Requests, v \in Users : Updated(q, v)' <=> Updated(q, v)
  BY <1>2, ChangesKept
<1>6. OldPasswordSessions'
  <2> SUFFICES ASSUME NEW s \in Open, proof[s] # chosen[sessionOf[s]], s \notin late,
                      sessionOf[s] \notin cut
               PROVE  \E q \in Requests : Updated(q, sessionOf[s])'
    BY <1>2 DEF OldPasswordSessions, Updated
  <2>1. \E q \in Requests : Updated(q, sessionOf[s])
    BY DEF IInv, OldPasswordSessions, Updated
  <2>2. sessionOf[s] \in Users
    BY <1>1 DEF TypeOK, Open
  <2>. QED  BY <1>2, <1>5, <2>1, <2>2 DEF Updated
<1>. QED  BY <1>1, <1>3, <1>4, <1>5, <1>6 DEF IInv

(* A rehash can only bring back an old password of a founder. *)
LEMMA LoginRehashStep ==
  ASSUME IInv, [Next]_vars, NEW r \in Requests, LoginRehash(r)
  PROVE  IInv'
<1> USE DEF userVars, historyVars
<1>1. TypeOK' /\ TypeOK
  BY StepTypes DEF IInv
<1>2. request[r] \in LoginRequest
  BY <1>1, Shape DEF LoginRehash
<1>3. /\ UNCHANGED <<sessionOf, chosen, proof, late, cut>>
      /\ Open' = Open
      /\ request[r].op = "login"
      /\ request'[r] = [request[r] EXCEPT !.pc = "open"]
      /\ \A q \in Requests \ {r} : request'[q] = request[q]
  BY <1>1 DEF LoginRehash, Open, TypeOK
<1>4. request'[r].op = "login" /\ request'[r].user = request[r].user /\ request'[r].pc = "open"
  BY <1>2, <1>3 DEF LoginRequest
<1>5. \A v \in Users : password[v] # None => password'[v] # None
  BY <1>1, StepRegistered
<1>6. \A q \in Requests : request[q].op \in {"login", "change"} => request[q].user \in Users
  BY <1>1, Shape DEF LoginRequest, ChangeRequest
<1>7. Referenced'
  <2>1. \A s \in Open : sessionOf[s] \in Users
    BY <1>1 DEF TypeOK, Open
  <2>2. \A s \in Open : password'[sessionOf[s]] # None
    BY <1>5, <2>1 DEF IInv, Referenced, Registered
  <2>3. ASSUME NEW q \in Requests
        PROVE  /\ request'[q].op \in {"login", "change"} => password'[request'[q].user] # None
               /\ request'[q].op = "change" /\ request'[q].cookie \in Open =>
                    sessionOf[request'[q].cookie] = request'[q].user
    <3>1. CASE q = r
      BY <1>3, <1>4, <1>5, <1>6, <3>1 DEF IInv, Referenced, Registered
    <3>2. CASE q # r
      BY <1>3, <1>5, <1>6, <3>2 DEF IInv, Referenced, Registered
    <3>. QED  BY <3>1, <3>2
  <2>. QED  BY <1>3, <2>2, <2>3 DEF Referenced, Registered
<1>8. RehashOfFounders'
  BY <1>3, <1>4 DEF LoginRehash, IInv, RehashOfFounders
<1>9. ChosenPasswordStands'
  <2>1. request[r].user \in Founders
    BY DEF LoginRehash, IInv, RehashOfFounders
  <2>2. \A v \in Users : v \in Founders \/ password'[v] = password[v]
    BY <1>1, <2>1 DEF LoginRehash, TypeOK
  <2>. QED  BY <1>3, <2>2 DEF IInv, ChosenPasswordStands
<1>10. /\ NewestInProgress'
       /\ \A q \in Requests, v \in Users : Updated(q, v)' <=> Updated(q, v)
  BY <1>3, <1>4, ChangesKept
<1>11. OldPasswordSessions'
  <2> SUFFICES ASSUME NEW s \in Open, proof[s] # chosen[sessionOf[s]], s \notin late,
                      sessionOf[s] \notin cut
               PROVE  \E q \in Requests : Updated(q, sessionOf[s])'
    BY <1>3 DEF OldPasswordSessions, Updated
  <2>1. \E q \in Requests : Updated(q, sessionOf[s])
    BY DEF IInv, OldPasswordSessions, Updated
  <2>2. sessionOf[s] \in Users
    BY <1>1 DEF TypeOK, Open
  <2>. QED  BY <1>3, <1>10, <2>1, <2>2 DEF Updated
<1>. QED  BY <1>1, <1>7, <1>8, <1>9, <1>10, <1>11 DEF IInv

(* A session with an old password, when it is inserted, is in late. *)
LEMMA StartSessionStep ==
  ASSUME IInv, [Next]_vars, NEW r \in Requests, NEW s \in Sessions, StartSession(r, s)
  PROVE  IInv'
<1> USE DEF userVars, historyVars
<1>1. TypeOK' /\ TypeOK
  BY StepTypes DEF IInv
<1>2. request[r] \in LoginRequest
  BY <1>1, Shape DEF StartSession
<1>3. /\ UNCHANGED <<password, bcrypt, chosen, cut>>
      /\ Open' = Open \cup {s}
      /\ s \notin Open
      /\ sessionOf'[s] = request[r].user
      /\ proof'[s] = request[r].given
      /\ \A x \in Open : sessionOf'[x] = sessionOf[x] /\ proof'[x] = proof[x]
      /\ late \subseteq late'
      /\ request[r].op = "login"
      /\ request'[r].op = "idle"
      /\ \A q \in Requests \ {r} : request'[q] = request[q]
      /\ \A q \in Requests : request[q].op = "change" => request[q].cookie # s
  BY <1>1, <1>2, NoneAssumption DEF StartSession, Open, TypeOK, Idle, LoginRequest
<1>4. Referenced'
  <2>1. password[request[r].user] # None
    BY <1>3 DEF IInv, Referenced, Registered
  <2>2. \A x \in Open : password[sessionOf[x]] # None
    BY DEF IInv, Referenced, Registered
  <2>3. \A x \in Open' : password'[sessionOf'[x]] # None
    BY <1>3, <2>1, <2>2
  <2>4. ASSUME NEW q \in Requests
        PROVE  /\ request'[q].op \in {"login", "change"} => password'[request'[q].user] # None
               /\ request'[q].op = "change" /\ request'[q].cookie \in Open' =>
                    sessionOf'[request'[q].cookie] = request'[q].user
    BY <1>3 DEF IInv, Referenced, Registered
  <2>. QED  BY <2>3, <2>4 DEF Referenced, Registered
<1>5. RehashOfFounders' /\ ChosenPasswordStands'
  BY <1>3 DEF IInv, RehashOfFounders, ChosenPasswordStands
<1>6. /\ NewestInProgress'
      /\ \A q \in Requests, v \in Users : Updated(q, v)' <=> Updated(q, v)
  BY <1>3, ChangesKept
<1>7. OldPasswordSessions'
  <2>1. ASSUME NEW x \in Open', proof'[x] # chosen[sessionOf'[x]], x \notin late'
        PROVE  x # s /\ x \in Open
    BY <1>3, <2>1 DEF StartSession
  <2>2. ASSUME NEW x \in Open', proof'[x] # chosen[sessionOf'[x]], x \notin late',
               sessionOf'[x] \notin cut
        PROVE  \E q \in Requests : /\ request'[q].op = "change"
                                   /\ request'[q].user = sessionOf'[x]
                                   /\ request'[q].pc = "updated"
    <3>1. PICK q \in Requests : Updated(q, sessionOf[x])
      BY <1>3, <2>1, <2>2 DEF IInv, OldPasswordSessions, Updated
    <3>2. q # r
      BY <1>3, <3>1 DEF Updated
    <3>. QED  BY <1>3, <2>1, <2>2, <3>1, <3>2 DEF Updated
  <2>. QED  BY <1>3, <2>2 DEF OldPasswordSessions
<1>. QED  BY <1>1, <1>4, <1>5, <1>6, <1>7 DEF IInv

(* The sessions that are left are the ones there were. *)
LEMMA ClosedSessions ==
  ASSUME TypeOK, NEW S \in SUBSET Sessions, CloseSessions(S)
  PROVE  /\ Open' = Open \ S
         /\ \A x \in Open' : sessionOf'[x] = sessionOf[x] /\ proof'[x] = proof[x]
         /\ late' = late \ S
BY DEF CloseSessions, Open, TypeOK

(* A session that ends keeps the invariant. *)
LEMMA CloseSessionStep ==
  ASSUME IInv, [Next]_vars, NEW s \in Sessions, CloseSession(s)
  PROVE  IInv'
<1> USE DEF userVars, historyVars
<1>1. TypeOK' /\ TypeOK
  BY StepTypes DEF IInv
<1>2. CloseSessions({s})
  BY DEF CloseSession
<1>3. /\ Open' = Open \ {s}
      /\ \A x \in Open' : sessionOf'[x] = sessionOf[x] /\ proof'[x] = proof[x]
      /\ late' = late \ {s}
  BY <1>1, <1>2, ClosedSessions
<1>4. UNCHANGED <<password, bcrypt, chosen, cut, request>>
  BY DEF CloseSession
<1>5. Referenced'
  BY <1>3, <1>4 DEF IInv, Referenced, Registered
<1>6. RehashOfFounders' /\ ChosenPasswordStands'
  BY <1>4 DEF IInv, RehashOfFounders, ChosenPasswordStands
<1>7. NewestInProgress'
  BY <1>3, <1>4, ChangesKept
<1>8. OldPasswordSessions'
  BY <1>3, <1>4 DEF IInv, OldPasswordSessions
<1>. QED  BY <1>1, <1>5, <1>6, <1>7, <1>8 DEF IInv

(* A change that has read its account keeps the invariant. *)
LEMMA ChangeCheckStep ==
  ASSUME IInv, [Next]_vars,
         NEW r \in Requests, NEW s \in Sessions, NEW new \in Passwords, ChangeCheck(r, s, new)
  PROVE  IInv'
<1> USE DEF userVars, historyVars
<1>1. TypeOK' /\ TypeOK
  BY StepTypes DEF IInv
<1>2. /\ UNCHANGED <<password, bcrypt, sessionOf, chosen, proof, late, cut>>
      /\ Open' = Open
      /\ s \in Open
      /\ request[r].op = "idle"
      /\ request'[r] = [op |-> "change", user |-> sessionOf[s], cookie |-> s, new |-> new,
                        pc |-> "checked"]
      /\ \A q \in Requests \ {r} : request'[q] = request[q]
  BY <1>1 DEF ChangeCheck, Open, TypeOK, Idle
<1>3. Referenced'
  BY <1>2 DEF IInv, Referenced, Registered
<1>4. RehashOfFounders' /\ ChosenPasswordStands'
  BY <1>2 DEF IInv, RehashOfFounders, ChosenPasswordStands
<1>5. ASSUME NEW q \in Requests, NEW u \in Users
      PROVE  /\ Updated(q, u)' <=> Updated(q, u)
             /\ Updated(q, u) /\ Newest(q) => Newest(q)'
  BY <1>2 DEF Updated, Newest
<1>6. NewestInProgress'
  <2> SUFFICES ASSUME NEW u \in Users \ cut, NEW q \in Requests, Updated(q, u)
               PROVE  \E t \in Requests : Updated(t, u)' /\ Newest(t)'
    BY <1>2, <1>5 DEF NewestInProgress
  <2>1. PICK t \in Requests : Updated(t, u) /\ Newest(t)
    BY DEF IInv, NewestInProgress
  <2>. QED  BY <1>5, <2>1
<1>7. OldPasswordSessions'
  <2> SUFFICES ASSUME NEW x \in Open, proof[x] # chosen[sessionOf[x]], x \notin late,
                      sessionOf[x] \notin cut
               PROVE  \E q \in Requests : Updated(q, sessionOf[x])'
    BY <1>2 DEF OldPasswordSessions, Updated
  <2>1. \E q \in Requests : Updated(q, sessionOf[x])
    BY DEF IInv, OldPasswordSessions, Updated
  <2>2. sessionOf[x] \in Users
    BY <1>1 DEF TypeOK, Open
  <2>. QED  BY <1>2, <1>5, <2>1, <2>2 DEF Updated
<1>. QED  BY <1>1, <1>3, <1>4, <1>6, <1>7 DEF IInv

(* The change that has just written the password is the newest. *)
LEMMA ChangeUpdateStep ==
  ASSUME IInv, [Next]_vars, NEW r \in Requests, ChangeUpdate(r)
  PROVE  IInv'
<1> USE DEF userVars, historyVars
<1>. DEFINE u == request[r].user
            c == request[r].cookie
            new == request[r].new
<1>1. TypeOK' /\ TypeOK
  BY StepTypes DEF IInv
<1>2. /\ request[r] \in ChangeRequest
      /\ u \in Users /\ c \in Sessions /\ new \in Passwords
  BY <1>1, Shape DEF ChangeUpdate, ChangeRequest
<1>3. /\ UNCHANGED <<sessionOf, late, cut>>
      /\ Open' = Open
      /\ \A v \in Users \ {u} : password'[v] = password[v] /\ chosen'[v] = chosen[v]
      /\ password'[u] = new /\ chosen'[u] = new
      /\ bcrypt' \subseteq bcrypt
      /\ \A s \in Sessions \ {c} : proof'[s] = proof[s]
      /\ c \in Open => proof'[c] = new
      /\ request[r].op = "change"
      /\ request'[r] = [request[r] EXCEPT !.pc = "updated"]
      /\ \A q \in Requests \ {r} : request'[q] = request[q]
  BY <1>1, <1>2 DEF ChangeUpdate, Open, TypeOK
<1>4. /\ request'[r].op = "change" /\ request'[r].user = u
      /\ request'[r].cookie = c /\ request'[r].pc = "updated"
  BY <1>2, <1>3 DEF ChangeRequest
<1>5. c \in Open => sessionOf[c] = u
  BY <1>3 DEF IInv, Referenced
<1>6. \A q \in Requests : request[q].op \in {"login", "change"} => request[q].user \in Users
  BY <1>1, Shape DEF LoginRequest, ChangeRequest
<1>7. \A s \in Open : s \in Sessions /\ sessionOf[s] \in Users
  BY <1>1 DEF TypeOK, Open
<1>. HIDE DEF u, c, new
<1>8. Referenced'
  <2>1. \A v \in Users : password[v] # None => password'[v] # None
    BY <1>1, StepRegistered
  <2>2. \A s \in Open : password'[sessionOf[s]] # None
    BY <1>7, <2>1 DEF IInv, Referenced, Registered
  <2>3. ASSUME NEW q \in Requests
        PROVE  /\ request'[q].op \in {"login", "change"} => password'[request'[q].user] # None
               /\ request'[q].op = "change" /\ request'[q].cookie \in Open =>
                    sessionOf[request'[q].cookie] = request'[q].user
    <3>1. CASE q = r
      BY <1>2, <1>3, <1>4, <1>5, <3>1, NoneAssumption
    <3>2. CASE q # r
      BY <1>3, <1>6, <2>1, <3>2 DEF IInv, Referenced, Registered
    <3>. QED  BY <3>1, <3>2
  <2>. QED  BY <1>3, <2>2, <2>3 DEF Referenced, Registered
<1>9. RehashOfFounders'
  BY <1>3, <1>4 DEF IInv, RehashOfFounders
<1>10. ChosenPasswordStands'
  BY <1>3 DEF IInv, ChosenPasswordStands
<1>11. Updated(r, u)' /\ Newest(r)'
  BY <1>3, <1>4 DEF Updated, Newest, u
<1>12. ASSUME NEW q \in Requests, NEW v \in Users \ {u}
       PROVE  /\ Updated(q, v)' <=> Updated(q, v)
              /\ Updated(q, v) /\ Newest(q) => Newest(q)'
  <2>1. Updated(q, v) \/ Updated(q, v)' => q # r
    BY <1>4 DEF Updated, u
  <2>2. Updated(q, v)' <=> Updated(q, v)
    BY <1>3, <2>1 DEF Updated
  <2>3. ASSUME Updated(q, v), request[q].cookie \in Open
        PROVE  proof'[request[q].cookie] = proof[request[q].cookie]
    <3>1. sessionOf[request[q].cookie] = v
      BY <2>3 DEF IInv, Referenced, Updated
    <3>. QED  BY <1>3, <1>5, <1>7, <2>3, <3>1
  <2>4. Updated(q, v) /\ Newest(q) => Newest(q)'
    BY <1>3, <2>1, <2>3 DEF Updated, Newest
  <2>. QED  BY <2>2, <2>4
<1>13. NewestInProgress'
  <2>1. ASSUME NEW v \in Users \ cut, NEW q \in Requests, request'[q].op = "change",
               request'[q].user = v, request'[q].pc = "updated"
        PROVE  \E t \in Requests : /\ request'[t].op = "change" /\ request'[t].user = v
                                   /\ request'[t].pc = "updated"
                                   /\ Newest(t)'
    <3>1. CASE v = u
      BY <1>11, <1>4, <3>1
    <3>2. CASE v # u
      <4>1. Updated(q, v)
        BY <1>12, <2>1, <3>2 DEF Updated
      <4>2. PICK t \in Requests : Updated(t, v) /\ Newest(t)
        BY <4>1 DEF IInv, NewestInProgress
      <4>3. Updated(t, v)' /\ Newest(t)'
        BY <1>12, <3>2, <4>2
      <4>. QED  BY <4>3 DEF Updated
    <3>. QED  BY <3>1, <3>2
  <2>. QED  BY <1>3, <2>1 DEF NewestInProgress, Updated
<1>14. OldPasswordSessions'
  <2>1. ASSUME NEW s \in Open, proof'[s] # chosen'[sessionOf[s]], s \notin late,
               sessionOf[s] \notin cut
        PROVE  \E q \in Requests : /\ request'[q].op = "change"
                                   /\ request'[q].user = sessionOf[s]
                                   /\ request'[q].pc = "updated"
    <3>1. CASE sessionOf[s] = u
      BY <1>4, <3>1
    <3>2. CASE sessionOf[s] # u
      <4>1. proof[s] # chosen[sessionOf[s]]
        BY <1>3, <1>5, <1>7, <2>1, <3>2
      <4>2. PICK q \in Requests : Updated(q, sessionOf[s])
        BY <2>1, <4>1 DEF IInv, OldPasswordSessions, Updated
      <4>3. q # r
        BY <3>2, <4>2 DEF Updated, u
      <4>. QED  BY <1>3, <4>2, <4>3 DEF Updated
    <3>. QED  BY <3>1, <3>2
  <2>. QED  BY <1>3, <2>1 DEF OldPasswordSessions
<1>. QED  BY <1>1, <1>8, <1>9, <1>10, <1>13, <1>14 DEF IInv

(* The end of a change leaves no session with an older password, or a newer change that    *)
(* has still to delete the sessions, or an account in cut.                                 *)
LEMMA ChangeRevokeStep ==
  ASSUME IInv, [Next]_vars, NEW r \in Requests, ChangeRevoke(r)
  PROVE  IInv'
<1> USE DEF userVars, historyVars
<1>1. TypeOK' /\ TypeOK
  BY StepTypes DEF IInv
<1>2. PICK u \in Users, c \in Sessions : u = request[r].user /\ c = request[r].cookie
  BY <1>1, Shape DEF ChangeRevoke, ChangeRequest
<1>3. \/ cut' = cut /\ CloseSessions(Others(u, c))
      \/ cut' = cut \cup {u} /\ UNCHANGED <<sessionOf, proof, late>>
  BY <1>2 DEF ChangeRevoke
<1>4. /\ UNCHANGED <<password, bcrypt, chosen>>
      /\ Updated(r, u)
      /\ request'[r].op = "idle"
      /\ \A q \in Requests \ {r} : request'[q] = request[q]
  BY <1>1, <1>2 DEF ChangeRevoke, TypeOK, Idle, Updated
<1>5. /\ Open' \subseteq Open
      /\ \A x \in Open' : sessionOf'[x] = sessionOf[x] /\ proof'[x] = proof[x]
      /\ \A x \in Open' : x \in late => x \in late'
      /\ cut \subseteq cut'
      /\ u \in cut' \/ \A x \in Open' : sessionOf[x] = u => x = c
  <2>1. Others(u, c) \in SUBSET Sessions
    BY DEF Others, SessionsOf
  <2>2. CASE cut' = cut /\ CloseSessions(Others(u, c))
    <3>1. /\ Open' = Open \ Others(u, c)
          /\ \A x \in Open' : sessionOf'[x] = sessionOf[x] /\ proof'[x] = proof[x]
          /\ late' = late \ Others(u, c)
      BY <1>1, <2>1, <2>2, ClosedSessions
    <3>. QED  BY <2>2, <3>1 DEF Others, SessionsOf, Open
  <2>3. CASE cut' = cut \cup {u} /\ UNCHANGED <<sessionOf, proof, late>>
    BY <2>3 DEF Open
  <2>. QED  BY <1>3, <2>2, <2>3
<1>6. Referenced'
  BY <1>4, <1>5 DEF IInv, Referenced, Registered
<1>7. RehashOfFounders' /\ ChosenPasswordStands'
  BY <1>4 DEF IInv, RehashOfFounders, ChosenPasswordStands
<1>8. ASSUME NEW q \in Requests \ {r}, NEW v \in Users
      PROVE  /\ Updated(q, v)' <=> Updated(q, v)
             /\ Updated(q, v) /\ Newest(q) => Newest(q)'
  BY <1>4, <1>5 DEF Updated, Newest
<1>9. \A v : ~Updated(r, v)'
  BY <1>4 DEF Updated
<1>10. Newest(r) =>
         \/ u \in cut'
         \/ \A x \in Open' : sessionOf[x] = u => proof[x] = chosen[u]
  BY <1>2, <1>5 DEF Newest
<1>11. ~Newest(r) =>
         \/ u \in cut'
         \/ \E q \in Requests \ {r} : Updated(q, u)' /\ Newest(q)'
  <2> SUFFICES ASSUME ~Newest(r), u \notin cut'
               PROVE  \E q \in Requests \ {r} : Updated(q, u)' /\ Newest(q)'
    OBVIOUS
  <2>1. PICK q \in Requests : Updated(q, u) /\ Newest(q)
    BY <1>2, <1>4, <1>5 DEF IInv, NewestInProgress
  <2>2. q # r
    BY <2>1
  <2>. QED  BY <1>8, <2>1, <2>2
<1>12. NewestInProgress'
  <2>1. ASSUME NEW v \in Users \ cut', NEW q \in Requests \ {r}, Updated(q, v)
        PROVE  \E t \in Requests \ {r} : Updated(t, v) /\ Newest(t)'
    <3>1. CASE v = u /\ Newest(r)
      <4>1. request[q].cookie \in Open' => sessionOf[request[q].cookie] = u
        BY <1>5, <2>1, <3>1 DEF IInv, Referenced, Updated
      <4>2. Newest(q)'
        BY <1>4, <1>5, <1>2, <1>10, <2>1, <3>1, <4>1 DEF Newest, Updated
      <4>. QED  BY <2>1, <4>2
    <3>2. CASE v = u /\ ~Newest(r)
      <4>1. PICK t \in Requests \ {r} : Updated(t, u)' /\ Newest(t)'
        BY <1>11, <2>1, <3>2
      <4>2. Updated(t, v)
        BY <1>4, <3>2, <4>1 DEF Updated
      <4>. QED  BY <4>1, <4>2
    <3>3. CASE v # u
      <4>1. PICK t \in Requests : Updated(t, v) /\ Newest(t)
        BY <1>5, <2>1 DEF IInv, NewestInProgress
      <4>2. t # r
        BY <1>4, <3>3, <4>1 DEF Updated
      <4>. QED  BY <1>8, <4>1, <4>2
    <3>. QED  BY <3>1, <3>2, <3>3
  <2>2. ASSUME NEW v \in Users \ cut', NEW q \in Requests, Updated(q, v)'
        PROVE  \E t \in Requests : Updated(t, v)' /\ Newest(t)'
    <3>1. q # r
      BY <1>9, <2>2 DEF Updated
    <3>2. Updated(q, v)
      BY <1>8, <2>2, <3>1 DEF Updated
    <3>3. PICK t \in Requests \ {r} : Updated(t, v) /\ Newest(t)'
      BY <2>1, <3>1, <3>2
    <3>. QED  BY <1>8, <3>3 DEF Updated
  <2>. QED  BY <2>2 DEF NewestInProgress, Updated
<1>13. OldPasswordSessions'
  <2>1. ASSUME NEW x \in Open', proof[x] # chosen[sessionOf[x]], x \notin late,
               sessionOf[x] \notin cut'
        PROVE  \E q \in Requests \ {r} : Updated(q, sessionOf[x])
    <3>1. x \in Open /\ sessionOf[x] \in Users
      BY <1>1, <1>5 DEF TypeOK, Open
    <3>2. CASE sessionOf[x] = u
      <4>1. ~Newest(r)
        BY <1>10, <2>1, <3>2
      <4>2. PICK q \in Requests \ {r} : Updated(q, u)'
        BY <1>11, <2>1, <3>2, <4>1
      <4>. QED  BY <1>4, <3>2, <4>2 DEF Updated
    <3>3. CASE sessionOf[x] # u
      <4>1. PICK q \in Requests : Updated(q, sessionOf[x])
        BY <1>5, <2>1, <3>1 DEF IInv, OldPasswordSessions, Updated
      <4>2. q # r
        BY <1>4, <3>3, <4>1 DEF Updated
      <4>. QED  BY <4>1, <4>2
    <3>. QED  BY <3>2, <3>3
  <2>. QED  BY <1>4, <1>5, <2>1 DEF OldPasswordSessions, Updated
<1>. QED  BY <1>1, <1>6, <1>7, <1>12, <1>13 DEF IInv

(* The accounts whose change dies between its two writes join cut. *)
LEMMA RestartStep ==
  ASSUME IInv, [Next]_vars, OrchestratorRestart
  PROVE  IInv'
<1> USE DEF userVars, historyVars
<1>1. TypeOK' /\ TypeOK
  BY StepTypes DEF IInv
<1>2. /\ UNCHANGED <<sessionOf, proof, late, bcrypt>>
      /\ Open' = Open
      /\ \A r \in Requests : request'[r].op = "idle"
      /\ \A u \in Users, r \in Requests : Updated(r, u) => u \in cut'
      /\ cut \subseteq cut'
  BY DEF OrchestratorRestart, EnsureAdmin, Open, Idle, Updated
<1>3. \A u \in Users : password[u] # None => password'[u] # None
  BY <1>1, StepRegistered
<1>4. \A u \in Users :
        \/ password'[u] = password[u] /\ chosen'[u] = chosen[u]
        \/ password[u] = None /\ password'[u] = chosen'[u]
  BY <1>1 DEF OrchestratorRestart, EnsureAdmin, CreateUser, Registered, TypeOK
<1>5. \A s \in Open : sessionOf[s] \in Users /\ password[sessionOf[s]] # None
  BY <1>1 DEF IInv, Referenced, Registered, TypeOK, Open
<1>6. Referenced'
  <2>1. \A s \in Open : password'[sessionOf[s]] # None
    BY <1>3, <1>5
  <2>. QED  BY <1>2, <2>1 DEF Referenced, Registered
<1>7. RehashOfFounders'
  BY <1>2 DEF IInv, RehashOfFounders
<1>8. ChosenPasswordStands'
  BY <1>4 DEF IInv, ChosenPasswordStands
<1>9. NewestInProgress'
  BY <1>2 DEF NewestInProgress, Updated
<1>10. OldPasswordSessions'
  <2>1. ASSUME NEW s \in Open, proof[s] # chosen'[sessionOf[s]], s \notin late,
               sessionOf[s] \notin cut'
        PROVE  FALSE
    <3>1. proof[s] # chosen[sessionOf[s]]
      BY <1>4, <1>5, <2>1
    <3>2. PICK r \in Requests : Updated(r, sessionOf[s])
      BY <1>2, <2>1, <3>1 DEF IInv, OldPasswordSessions, Updated
    <3>. QED  BY <1>2, <1>5, <2>1, <3>2
  <2>. QED  BY <1>2, <2>1 DEF OldPasswordSessions
<1>. QED  BY <1>1, <1>6, <1>7, <1>8, <1>9, <1>10 DEF IInv

(* Both forms of registration keep the invariant. *)
LEMMA RegisterStep ==
  ASSUME IInv, [Next]_vars, NEW u \in Users, NEW p \in Passwords,
         \/ \E l \in Links : RegisterWithMail(u, p, l)
         \/ \E r \in Requests : RegisterWithoutMail(r, u, p)
  PROVE  IInv'
<1>1. CASE \E l \in Links : RegisterWithMail(u, p, l)
  <2>1. /\ CreateUser(u, p, "user")
        /\ UNCHANGED <<bcrypt, sessionOf, proof, late, cut, request>>
    BY <1>1 DEF RegisterWithMail
  <2>. QED  BY <2>1, CreateUserStep
<1>2. ASSUME NEW r \in Requests, RegisterWithoutMail(r, u, p)
      PROVE  IInv'
  <2>1. /\ CreateUser(u, p, "user")
        /\ UNCHANGED <<bcrypt, sessionOf, proof, late, cut>>
        /\ request[r].op # "change"
        /\ request'[r] = [op |-> "login", user |-> u, given |-> p, pc |-> "open"]
        /\ \A q \in Requests \ {r} : request'[q] = request[q]
    BY <1>2 DEF RegisterWithoutMail, Idle, IInv, TypeOK
  <2>. QED  BY <2>1, CreateUserStep
<1>. QED  BY <1>1, <1>2

(* The statements of register and login keep the invariant. *)
LEMMA LoginNextStep ==
  ASSUME IInv, [Next]_vars, LoginNext
  PROVE  IInv'
BY RegisterStep, LoginVerifyStep, LoginRehashStep, StartSessionStep DEF LoginNext

(* The statements of changePassword keep the invariant. *)
LEMMA ChangeNextStep ==
  ASSUME IInv, [Next]_vars, ChangeNext
  PROVE  IInv'
BY ChangeCheckStep, ChangeUpdateStep, ChangeRevokeStep DEF ChangeNext

(* Roles and links are no part of what the passwords and sessions depend on. *)
LEMMA RoleNextStep ==
  ASSUME IInv, [Next]_vars, RoleNext
  PROVE  IInv'
<1> USE DEF userVars, historyVars
<1>1. PICK r \in Requests : \/ \E s \in Sessions : RoleActor(r, s)
                            \/ \E t \in Users, next \in AssignableRoles : RoleTarget(r, t, next)
                            \/ RoleUpdate(r)
  BY DEF RoleNext
<1>2. UNCHANGED <<password, bcrypt, sessionOf, chosen, proof, late, cut>>
  BY <1>1 DEF RoleActor, RoleTarget, RoleUpdate
<1>3. /\ request[r].op \notin {"login", "change"}
      /\ request'[r].op \notin {"login", "change"}
      /\ \A q \in Requests \ {r} : request'[q] = request[q]
  <2>1. CASE \E s \in Sessions : RoleActor(r, s)
    BY <2>1 DEF RoleActor, Idle, IInv, TypeOK
  <2>2. ASSUME NEW t \in Users, NEW next \in AssignableRoles, RoleTarget(r, t, next)
        PROVE  <1>3
    <3>1. request[r] \in RoleRequest
      BY <2>2, Shape DEF RoleTarget, IInv
    <3>. QED  BY <2>2, <3>1 DEF RoleTarget, Idle, IInv, TypeOK, RoleRequest
  <2>3. CASE RoleUpdate(r)
    BY <2>3 DEF RoleUpdate, Idle, IInv, TypeOK
  <2>. QED  BY <1>1, <2>1, <2>2, <2>3
<1>. QED  BY <1>2, <1>3, QuietStep

(* The statements of verifyEmail and resendVerification keep the invariant. *)
LEMMA LinkNextStep ==
  ASSUME IInv, [Next]_vars, LinkNext
  PROVE  IInv'
<1> USE DEF userVars, historyVars
<1>1. PICK r \in Requests : \/ \E l \in Links : VerifyRead(r, l) \/ ResendCommit(r, l)
                            \/ VerifyCommit(r)
                            \/ \E u \in Users : ResendRead(r, u)
                            \/ ResendDelete(r)
  BY DEF LinkNext
<1>2. UNCHANGED <<password, bcrypt, sessionOf, chosen, proof, late, cut>>
  BY <1>1 DEF VerifyRead, ResendRead, Begin, VerifyCommit, ResendDelete, ResendCommit
<1>3. /\ request[r].op \notin {"login", "change"}
      /\ request'[r].op \notin {"login", "change"}
      /\ \A q \in Requests \ {r} : request'[q] = request[q]
  <2>1. CASE \E l \in Links : VerifyRead(r, l)
    BY <2>1 DEF VerifyRead, Begin, Idle, IInv, TypeOK
  <2>2. CASE \E u \in Users : ResendRead(r, u)
    BY <2>2 DEF ResendRead, Begin, Idle, IInv, TypeOK
  <2>3. CASE VerifyCommit(r) \/ \E l \in Links : ResendCommit(r, l)
    BY <2>3 DEF VerifyCommit, ResendCommit, Idle, IInv, TypeOK
  <2>4. CASE ResendDelete(r)
    <3>1. request[r] \in LinkRequest
      BY <2>4, Shape DEF ResendDelete, IInv
    <3>. QED  BY <2>4, <3>1 DEF ResendDelete, IInv, TypeOK, LinkRequest
  <2>. QED  BY <1>1, <2>1, <2>2, <2>3, <2>4
<1>. QED  BY <1>2, <1>3, QuietStep

(* Every step keeps the inductive invariant. *)
LEMMA StepIInv == IInv /\ [Next]_vars => IInv'
<1> SUFFICES ASSUME IInv, [Next]_vars
             PROVE  IInv'
  OBVIOUS
<1>1. CASE \E u \in Users, p \in Passwords, l \in Links : RegisterWithMail(u, p, l)
  BY <1>1, RegisterStep
<1>2. CASE LoginNext
  BY <1>2, LoginNextStep
<1>3. CASE ChangeNext
  BY <1>3, ChangeNextStep
<1>4. CASE RoleNext
  BY <1>4, RoleNextStep
<1>5. CASE LinkNext
  BY <1>5, LinkNextStep
<1>6. CASE \E s \in Sessions : CloseSession(s)
  BY <1>6, CloseSessionStep
<1>7. CASE OrchestratorRestart
  BY <1>7, RestartStep
<1>8. CASE UNCHANGED vars \/ \E l \in Links : LinkExpires(l)
  <2>1. UNCHANGED <<password, bcrypt, sessionOf, chosen, proof, late, cut, request>>
    BY <1>8 DEF vars, LinkExpires, userVars, historyVars
  <2>. QED  BY <2>1, QuietStep
<1>. QED  BY <1>1, <1>2, <1>3, <1>4, <1>5, <1>6, <1>7, <1>8 DEF Next

(* The invariant that makes the two properties inductive: what the rows and requests refer *)
(* to, who still has a bcrypt hash, and which change in progress is the newest.            *)
THEOREM Invariance == Spec => []IInv
BY InitIInv, StepIInv, PTL DEF Spec

(* login, changePassword and the restart, in any order and however many run at once, leave *)
(* an account without a legacy hash with the password its holder chose last.               *)
THEOREM ChosenPasswordStandsHolds == Spec => []ChosenPasswordStands
<1>1. IInv => ChosenPasswordStands
  BY DEF IInv
<1>. QED  BY Invariance, <1>1, PTL

(* changePassword leaves a session opened with an older password only in the three ways    *)
(* OldPasswordSessions names, for any number of overlapping changes and logins.            *)
THEOREM OldPasswordSessionsHolds == Spec => []OldPasswordSessions
<1>1. IInv => OldPasswordSessions
  BY DEF IInv
<1>. QED  BY Invariance, <1>1, PTL

-------------------------------------------------------------------------------
(* Verification links. *)

LinkOps == {"verify", "resend", "resending"}

(* Links and verification requests are of registered accounts, and only those are verified. *)
LinksReferenced ==
  /\ \A l \in Links : linkOf[l] # None => Registered(linkOf[l])
  /\ \A u \in verified : Registered(u)
  /\ \A u \in Users : LinkRequestsOf(u) # {} => Registered(u)

(* One request and one link of u at a time; a resend in progress has deleted every link u   *)
(* has; once u is verified no link is left and no request will make one.                    *)
InHand(u) ==
  /\ \A q, r \in LinkRequestsOf(u) : q = r
  /\ \A k, l \in LinksOf(u) : k = l
  /\ u \in verified =>
       LinksOf(u) = {} /\ \A r \in LinkRequestsOf(u) : request[r].op = "verify"
  /\ \A r \in LinkRequestsOf(u) :
       request[r].op = "resending" => LinksOf(u) \subseteq request[r].gone

LinkInv ==
  /\ TypeOK
  /\ LinksReferenced
  /\ \A u \in Users \ overlapped : InHand(u)

(* At first there are no links and no requests. *)
LEMMA InitLinkInv == Init => LinkInv
<1> SUFFICES ASSUME Init
             PROVE  LinkInv
  OBVIOUS
<1>1. \A u \in Users : LinkRequestsOf(u) = {} /\ LinksOf(u) = {}
  BY NoneAssumption DEF Init, LinkRequestsOf, LinksOf, Idle
<1>2. LinksReferenced
  BY <1>1, NoneAssumption, FoundersAssumption DEF Init, LinksReferenced, Registered
<1>. QED  BY <1>1, <1>2, InitTypes DEF LinkInv, InHand

(* A step that makes no link and no verification request keeps the invariant. *)
LEMMA FewerLinks ==
  ASSUME LinkInv, [Next]_vars, UNCHANGED overlapped,
         \A l \in Links : linkOf'[l] \in {linkOf[l], None},
         \A r \in Requests : request'[r] = request[r] \/ request'[r].op \notin LinkOps,
         \A u \in verified' \ verified :
           Registered(u)' /\ LinksOf(u)' = {} /\ LinkRequestsOf(u)' = {},
         verified \subseteq verified'
  PROVE  LinkInv'
<1>1. TypeOK /\ TypeOK'
  BY StepTypes DEF LinkInv
<1>2. \A u \in Users : Registered(u) => Registered(u)'
  BY <1>1, StepRegistered DEF Registered
<1>3. ASSUME NEW u \in Users
      PROVE  /\ LinksOf(u)' \subseteq LinksOf(u)
             /\ LinkRequestsOf(u)' \subseteq LinkRequestsOf(u)
             /\ \A r \in LinkRequestsOf(u)' : request'[r] = request[r]
  BY <1>1, NoneAssumption DEF LinksOf, LinkRequestsOf, LinkOps
<1>4. LinksReferenced'
  <2>1. \A l \in Links : linkOf'[l] # None => password'[linkOf'[l]] # None
    BY <1>1, <1>2 DEF LinkInv, LinksReferenced, Registered, TypeOK
  <2>2. \A u \in verified' : Registered(u)'
    BY <1>1, <1>2 DEF LinkInv, LinksReferenced, TypeOK
  <2>3. \A u \in Users : LinkRequestsOf(u)' # {} => Registered(u)'
    BY <1>2, <1>3 DEF LinkInv, LinksReferenced
  <2>. QED  BY <2>1, <2>2, <2>3 DEF LinksReferenced, Registered
<1>5. ASSUME NEW u \in Users \ overlapped
      PROVE  InHand(u)'
  <2>1. InHand(u)
    BY DEF LinkInv
  <2>2. u \in verified' =>
          LinksOf(u)' = {} /\ \A r \in LinkRequestsOf(u)' : request'[r].op = "verify"
    BY <1>3, <2>1 DEF InHand
  <2>. QED  BY <1>3, <2>1, <2>2 DEF InHand
<1>. QED  BY <1>1, <1>4, <1>5 DEF LinkInv

(* A link for an account that has none, or whose links are all deleted with it. *)
LEMMA CreateLinkKept ==
  ASSUME LinkInv, [Next]_vars, UNCHANGED <<overlapped, verified>>,
         NEW u \in Users, NEW l \in Links, NEW deleted \in SUBSET Links,
         CreateLink(u, l, deleted), Registered(u)',
         \A r \in Requests : request'[r] = request[r] \/ request'[r].op \notin LinkOps,
         u \notin overlapped =>
           /\ LinksOf(u) \subseteq deleted
           /\ u \notin verified
           /\ LinkRequestsOf(u)' = {}
  PROVE  LinkInv'
<1>1. TypeOK /\ TypeOK'
  BY StepTypes DEF LinkInv
<1>2. \A v \in Users : Registered(v) => Registered(v)'
  BY <1>1, StepRegistered DEF Registered
<1>3. ASSUME NEW v \in Users
      PROVE  /\ LinkRequestsOf(v)' \subseteq LinkRequestsOf(v)
             /\ \A r \in LinkRequestsOf(v)' : request'[r] = request[r]
  BY DEF LinkRequestsOf, LinkOps
<1>4. LinksReferenced'
  <2>1. \A k \in Links : linkOf'[k] # None => password'[linkOf'[k]] # None
    BY <1>1, <1>2 DEF LinkInv, LinksReferenced, Registered, TypeOK, CreateLink
  <2>2. \A v \in verified' : Registered(v)'
    BY <1>1, <1>2 DEF LinkInv, LinksReferenced, TypeOK
  <2>3. \A v \in Users : LinkRequestsOf(v)' # {} => Registered(v)'
    BY <1>2, <1>3 DEF LinkInv, LinksReferenced
  <2>. QED  BY <2>1, <2>2, <2>3 DEF LinksReferenced, Registered
<1>5. ASSUME NEW v \in Users \ overlapped, v # u
      PROVE  InHand(v)'
  <2>1. InHand(v)
    BY DEF LinkInv
  <2>2. LinksOf(v)' \subseteq LinksOf(v)
    BY <1>5, NoneAssumption DEF LinksOf, CreateLink
  <2>. QED  BY <1>3, <2>1, <2>2 DEF InHand
<1>6. ASSUME u \notin overlapped
      PROVE  InHand(u)'
  <2>1. LinksOf(u)' \subseteq {l}
    BY <1>6, NoneAssumption DEF LinksOf, CreateLink
  <2>. QED  BY <1>6, <2>1 DEF InHand
<1>. QED  BY <1>1, <1>4, <1>5, <1>6 DEF LinkInv

(* A second request of an account makes it overlapped. *)
LEMMA BeginKept ==
  ASSUME LinkInv, [Next]_vars, NEW r \in Requests, NEW op \in {"verify", "resend"},
         NEW u \in Users, Begin(r, op, u), Registered(u), op = "resend" => u \notin verified
  PROVE  LinkInv'
<1>1. TypeOK /\ TypeOK'
  BY StepTypes DEF LinkInv
<1>2. /\ UNCHANGED <<password, verified, linkOf>>
      /\ request[r].op = "idle"
      /\ request'[r] = [op |-> op, user |-> u, gone |-> {}]
      /\ \A q \in Requests \ {r} : request'[q] = request[q]
      /\ overlapped \subseteq overlapped'
      /\ u \in overlapped' \/ LinkRequestsOf(u) = {}
  BY <1>1 DEF Begin, userVars, Idle, TypeOK
<1>3. \A v \in Users : LinksOf(v)' = LinksOf(v)
  BY <1>2 DEF LinksOf
<1>4. \A v \in Users \ {u} :
        LinkRequestsOf(v)' = LinkRequestsOf(v)
          /\ \A q \in LinkRequestsOf(v) : request'[q] = request[q]
  BY <1>2 DEF LinkRequestsOf
<1>5. u \notin overlapped' => LinkRequestsOf(u)' = {r}
  BY <1>2 DEF LinkRequestsOf
<1>6. LinksReferenced'
  BY <1>2, <1>4 DEF LinkInv, LinksReferenced, Registered
<1>7. ASSUME NEW v \in Users \ overlapped'
      PROVE  InHand(v)'
  <2>1. InHand(v)
    BY <1>2 DEF LinkInv
  <2>2. CASE v # u
    BY <1>2, <1>3, <1>4, <2>1, <2>2 DEF InHand
  <2>3. CASE v = u
    BY <1>2, <1>3, <1>5, <2>1, <2>3 DEF InHand
  <2>. QED  BY <2>2, <2>3
<1>. QED  BY <1>1, <1>6, <1>7 DEF LinkInv

(* A new account has no link, and no request that could make one. *)
LEMMA NewAccountLinks ==
  ASSUME LinkInv, NEW u \in Users, NEW p \in Passwords, NEW newRole, CreateUser(u, p, newRole)
  PROVE  LinksOf(u) = {} /\ LinkRequestsOf(u) = {} /\ u \notin verified /\ Registered(u)'
BY NoneAssumption DEF CreateUser, LinkInv, LinksReferenced, LinksOf, Registered, TypeOK

(* register with mail: the first link of the account. *)
LEMMA RegisterWithMailLinkStep ==
  ASSUME LinkInv, [Next]_vars,
         NEW u \in Users, NEW p \in Passwords, NEW l \in Links, RegisterWithMail(u, p, l)
  PROVE  LinkInv'
<1>1. CreateUser(u, p, "user") /\ CreateLink(u, l, {})
        /\ UNCHANGED <<overlapped, verified, request>>
  BY DEF RegisterWithMail
<1>2. LinksOf(u) = {} /\ LinkRequestsOf(u) = {} /\ u \notin verified /\ Registered(u)'
  BY <1>1, NewAccountLinks
<1>3. LinkRequestsOf(u)' = {}
  BY <1>1, <1>2 DEF LinkRequestsOf
<1>. QED  BY <1>1, <1>2, <1>3, CreateLinkKept

(* register without mail: verified, and no link. *)
LEMMA RegisterWithoutMailLinkStep ==
  ASSUME LinkInv, [Next]_vars,
         NEW r \in Requests, NEW u \in Users, NEW p \in Passwords, RegisterWithoutMail(r, u, p)
  PROVE  LinkInv'
<1>1. TypeOK
  BY DEF LinkInv
<1>2. /\ CreateUser(u, p, "user")
      /\ UNCHANGED <<linkOf, overlapped>>
      /\ verified' = verified \cup {u}
      /\ request'[r].op = "login"
      /\ \A q \in Requests \ {r} : request'[q] = request[q]
  BY <1>1 DEF RegisterWithoutMail, TypeOK
<1>3. LinksOf(u) = {} /\ LinkRequestsOf(u) = {} /\ Registered(u)'
  BY <1>2, NewAccountLinks
<1>4. LinksOf(u)' = {} /\ LinkRequestsOf(u)' = {}
  BY <1>2, <1>3 DEF LinksOf, LinkRequestsOf
<1>5. /\ \A l \in Links : linkOf'[l] \in {linkOf[l], None}
      /\ \A q \in Requests : request'[q] = request[q] \/ request'[q].op \notin LinkOps
  BY <1>2 DEF LinkOps
<1>. QED  BY <1>2, <1>3, <1>4, <1>5, FewerLinks

(* login, changePassword and updateUserRole make no link and no verification request. *)
LEMMA OtherLinkStep ==
  ASSUME LinkInv, [Next]_vars,
         \/ \E r \in Requests, u \in Users, p \in Passwords : LoginVerify(r, u, p)
         \/ \E r \in Requests : LoginRehash(r)
         \/ \E r \in Requests, s \in Sessions : StartSession(r, s)
         \/ ChangeNext
         \/ RoleNext
         \/ \E s \in Sessions : CloseSession(s)
         \/ \E l \in Links : LinkExpires(l)
         \/ OrchestratorRestart
         \/ UNCHANGED vars
  PROVE  LinkInv'
<1> USE DEF userVars, historyVars
<1>1. TypeOK
  BY DEF LinkInv
<1>2. /\ UNCHANGED <<overlapped, verified>>
      /\ \A l \in Links : linkOf'[l] \in {linkOf[l], None}
  <2>1. CASE \/ \E r \in Requests, u \in Users, p \in Passwords : LoginVerify(r, u, p)
             \/ \E r \in Requests : LoginRehash(r)
             \/ \E r \in Requests, s \in Sessions : StartSession(r, s)
    BY <2>1 DEF LoginVerify, LoginRehash, StartSession
  <2>2. CASE ChangeNext \/ \E s \in Sessions : CloseSession(s)
    BY <2>2 DEF ChangeNext, ChangeCheck, ChangeUpdate, ChangeRevoke, CloseSession
  <2>3. CASE RoleNext
    <3>1. ASSUME NEW r \in Requests, NEW t \in Users, NEW next \in AssignableRoles,
                 RoleTarget(r, t, next)
          PROVE  UNCHANGED <<overlapped, verified, linkOf>>
      BY <3>1 DEF RoleTarget
    <3>. QED  BY <2>3, <3>1 DEF RoleNext, RoleActor, RoleUpdate
  <2>4. CASE \E l \in Links : LinkExpires(l)
    BY <1>1, <2>4 DEF LinkExpires, TypeOK
  <2>5. CASE OrchestratorRestart
    <3>1. UNCHANGED <<linkOf, overlapped>> /\ (UNCHANGED verified \/ \E u, p : EnsureAdmin(u, p))
      BY <2>5 DEF OrchestratorRestart
    <3>. QED  BY <3>1 DEF EnsureAdmin
  <2>6. CASE UNCHANGED vars
    BY <2>6 DEF vars
  <2>. QED  BY <2>1, <2>2, <2>3, <2>4, <2>5, <2>6
<1>3. \A q \in Requests : request'[q] = request[q] \/ request'[q].op \notin LinkOps
  <2>1. CASE \E r \in Requests, u \in Users, p \in Passwords : LoginVerify(r, u, p)
    BY <1>1, <2>1 DEF LoginVerify, TypeOK, LinkOps
  <2>2. ASSUME NEW r \in Requests, LoginRehash(r)
        PROVE  \A q \in Requests : request'[q] = request[q] \/ request'[q].op \notin LinkOps
    <3>1. request[r] \in LoginRequest
      BY <1>1, <2>2, Shape DEF LoginRehash
    <3>. QED  BY <1>1, <2>2, <3>1 DEF LoginRehash, TypeOK, LinkOps, LoginRequest
  <2>3. CASE \E r \in Requests, s \in Sessions : StartSession(r, s)
    BY <1>1, <2>3 DEF StartSession, TypeOK, LinkOps, Idle
  <2>4. CASE ChangeNext
    <3>1. ASSUME NEW r \in Requests, ChangeUpdate(r)
          PROVE  \A q \in Requests : request'[q] = request[q] \/ request'[q].op \notin LinkOps
      <4>1. request[r] \in ChangeRequest
        BY <1>1, <3>1, Shape DEF ChangeUpdate
      <4>. QED  BY <1>1, <3>1, <4>1 DEF ChangeUpdate, TypeOK, LinkOps, ChangeRequest
    <3>. QED  BY <1>1, <2>4, <3>1 DEF ChangeNext, ChangeCheck, ChangeRevoke, TypeOK, LinkOps, Idle
  <2>5. CASE RoleNext
    <3>1. ASSUME NEW r \in Requests, NEW t \in Users, NEW next \in AssignableRoles,
                 RoleTarget(r, t, next)
          PROVE  \A q \in Requests : request'[q] = request[q] \/ request'[q].op \notin LinkOps
      <4>1. request[r] \in RoleRequest
        BY <1>1, <3>1, Shape DEF RoleTarget
      <4>. QED  BY <1>1, <3>1, <4>1 DEF RoleTarget, TypeOK, LinkOps, RoleRequest, Idle
    <3>. QED  BY <1>1, <2>5, <3>1 DEF RoleNext, RoleActor, RoleUpdate, TypeOK, LinkOps, Idle
  <2>6. CASE OrchestratorRestart
    BY <2>6 DEF OrchestratorRestart, LinkOps, Idle
  <2>7. CASE UNCHANGED request
    BY <2>7
  <2>. QED  BY <2>1, <2>2, <2>3, <2>4, <2>5, <2>6, <2>7 DEF CloseSession, LinkExpires, vars
<1>. QED  BY <1>2, <1>3, FewerLinks

(* verifyEmail commits: the account's links go, and a request that resends one would have   *)
(* overlapped with this one.                                                                *)
LEMMA VerifyCommitLinkStep ==
  ASSUME LinkInv, [Next]_vars, NEW r \in Requests, VerifyCommit(r)
  PROVE  LinkInv'
<1>1. TypeOK /\ TypeOK'
  BY StepTypes DEF LinkInv
<1>. PICK u \in Users : u = request[r].user
  BY <1>1, Shape DEF VerifyCommit, LinkRequest
<1>2. /\ u \in Users
      /\ UNCHANGED <<overlapped, password>>
      /\ verified' = verified \cup {u}
      /\ \A l \in Links : linkOf'[l] = IF l \in LinksOf(u) THEN None ELSE linkOf[l]
      /\ request'[r].op = "idle"
      /\ \A q \in Requests \ {r} : request'[q] = request[q]
      /\ r \in LinkRequestsOf(u)
  BY <1>1, Shape DEF VerifyCommit, LinkRequest, TypeOK, Idle, userVars, historyVars, LinkRequestsOf
<1>3. \A v \in Users : LinksOf(v)' \subseteq LinksOf(v)
  BY <1>1, <1>2, NoneAssumption DEF LinksOf
<1>4. LinksOf(u)' = {}
  BY <1>1, <1>2, NoneAssumption DEF LinksOf
<1>5. \A v \in Users : /\ LinkRequestsOf(v)' \subseteq LinkRequestsOf(v) \ {r}
                       /\ \A q \in LinkRequestsOf(v)' : request'[q] = request[q]
  BY <1>2 DEF LinkRequestsOf
<1>6. LinksReferenced'
  <2>1. Registered(u)
    BY <1>2 DEF LinkInv, LinksReferenced
  <2>2. \A l \in Links : linkOf'[l] # None => Registered(linkOf[l]) /\ linkOf'[l] = linkOf[l]
    BY <1>2 DEF LinkInv, LinksReferenced
  <2>. QED  BY <1>2, <1>5, <2>1, <2>2 DEF LinkInv, LinksReferenced, Registered
<1>7. ASSUME NEW v \in Users \ overlapped
      PROVE  InHand(v)'
  <2>1. InHand(v)
    BY DEF LinkInv
  <2>2. v = u => LinkRequestsOf(v)' = {}
    BY <1>2, <1>5, <2>1 DEF InHand
  <2>. QED  BY <1>2, <1>3, <1>4, <1>5, <2>1, <2>2 DEF InHand
<1>. QED  BY <1>1, <1>2, <1>6, <1>7 DEF LinkInv

(* resendVerification deletes: from here the links it will have deleted are all there are. *)
LEMMA ResendDeleteLinkStep ==
  ASSUME LinkInv, [Next]_vars, NEW r \in Requests, ResendDelete(r)
  PROVE  LinkInv'
<1>. DEFINE u == request[r].user
<1>1. TypeOK /\ TypeOK'
  BY StepTypes DEF LinkInv
<1>2. request[r] \in LinkRequest
  BY <1>1, Shape DEF ResendDelete
<1>3. /\ u \in Users
      /\ UNCHANGED <<overlapped, password, verified, linkOf>>
      /\ request[r].op = "resend"
      /\ request'[r].op = "resending" /\ request'[r].user = u /\ request'[r].gone = LinksOf(u)
      /\ \A q \in Requests \ {r} : request'[q] = request[q]
  BY <1>1, <1>2 DEF ResendDelete, Supersedes, LinkRequest, TypeOK, userVars, historyVars
<1>4. \A v \in Users : LinksOf(v)' = LinksOf(v)
  BY <1>3 DEF LinksOf
<1>5. \A v \in Users : LinkRequestsOf(v)' = LinkRequestsOf(v)
  BY <1>3 DEF LinkRequestsOf
<1>6. r \in LinkRequestsOf(u) /\ \A v \in Users \ {u} : r \notin LinkRequestsOf(v)
  BY <1>3 DEF LinkRequestsOf
<1>7. LinksReferenced'
  BY <1>3, <1>5 DEF LinkInv, LinksReferenced, Registered
<1>8. ASSUME NEW v \in Users \ overlapped
      PROVE  InHand(v)'
  <2>1. InHand(v)
    BY DEF LinkInv
  <2>2. LinkRequestsOf(v) \subseteq Requests
    BY DEF LinkRequestsOf
  <2>3. CASE v = u
    BY <1>3, <1>4, <1>5, <1>6, <2>1, <2>2, <2>3 DEF InHand
  <2>4. CASE v # u
    BY <1>3, <1>4, <1>5, <1>6, <2>1, <2>2, <2>4 DEF InHand
  <2>. QED  BY <2>3, <2>4
<1>. QED  BY <1>1, <1>3, <1>7, <1>8 DEF LinkInv

(* Every step keeps the links in hand. *)
LEMMA StepLinkInv == LinkInv /\ [Next]_vars => LinkInv'
<1> SUFFICES ASSUME LinkInv, [Next]_vars
             PROVE  LinkInv'
  OBVIOUS
<1>1. TypeOK
  BY DEF LinkInv
<1>2. CASE \E u \in Users, p \in Passwords, l \in Links : RegisterWithMail(u, p, l)
  BY <1>2, RegisterWithMailLinkStep
<1>3. CASE LoginNext
  BY <1>3, RegisterWithoutMailLinkStep, OtherLinkStep DEF LoginNext
<1>4. CASE LinkNext
  <2>1. PICK r \in Requests : \/ \E l \in Links : VerifyRead(r, l) \/ ResendCommit(r, l)
                              \/ VerifyCommit(r)
                              \/ \E u \in Users : ResendRead(r, u)
                              \/ ResendDelete(r)
    BY <1>4 DEF LinkNext
  <2>2. ASSUME NEW l \in Links, VerifyRead(r, l)
        PROVE  LinkInv'
    <3>1. linkOf[l] \in Users /\ Registered(linkOf[l])
      BY <1>1, <2>2 DEF VerifyRead, TypeOK, LinkInv, LinksReferenced
    <3>. QED  BY <2>2, <3>1, BeginKept DEF VerifyRead
  <2>3. ASSUME NEW u \in Users, ResendRead(r, u)
        PROVE  LinkInv'
    BY <2>3, BeginKept DEF ResendRead
  <2>4. ASSUME NEW l \in Links, ResendCommit(r, l)
        PROVE  LinkInv'
    <3>. PICK u \in Users : u = request[r].user
      BY <1>1, <2>4, Shape DEF ResendCommit, LinkRequest
    <3>1. request[r] \in LinkRequest /\ request[r].gone \in SUBSET Links
      BY <1>1, <2>4, Shape DEF ResendCommit, LinkRequest
    <3>2. /\ UNCHANGED <<overlapped, verified, password>>
          /\ request[r].op = "resending"
          /\ request'[r].op = "idle"
          /\ \A q \in Requests \ {r} : request'[q] = request[q]
          /\ CreateLink(u, l, request[r].gone)
      BY <1>1, <2>4 DEF ResendCommit, TypeOK, Idle, userVars, historyVars
    <3>3. r \in LinkRequestsOf(u)
      BY <3>2 DEF LinkRequestsOf
    <3>4. Registered(u)'
      BY <3>1, <3>2, <3>3 DEF LinkInv, LinksReferenced, Registered
    <3>5. ASSUME u \notin overlapped
          PROVE  /\ LinksOf(u) \subseteq request[r].gone
                 /\ u \notin verified
                 /\ LinkRequestsOf(u)' = {}
      <4>1. InHand(u)
        BY <3>1, <3>5 DEF LinkInv
      <4>2. \A q \in LinkRequestsOf(u) : q = r
        BY <3>3, <4>1 DEF InHand
      <4>3. LinkRequestsOf(u)' = {}
        BY <3>2, <4>2 DEF LinkRequestsOf
      <4>. QED  BY <3>2, <3>3, <4>1, <4>3 DEF InHand
    <3>6. \A q \in Requests : request'[q] = request[q] \/ request'[q].op \notin LinkOps
      BY <3>2 DEF LinkOps
    <3>. QED  BY <3>1, <3>2, <3>4, <3>5, <3>6, CreateLinkKept
  <2>. QED  BY <2>1, <2>2, <2>3, <2>4, VerifyCommitLinkStep, ResendDeleteLinkStep
<1>. QED  BY <1>2, <1>3, <1>4, OtherLinkStep DEF Next

(* The invariant behind OneLink: what a link and a request for one refer to, and that the   *)
(* requests of an account that never overlap leave one link in hand.                        *)
THEOREM LinksInHand == Spec => []LinkInv
BY InitLinkInv, StepLinkInv, PTL DEF Spec

(* register, verifyEmail and resendVerification leave an account one link at most, and none *)
(* once it is verified, for any number of requests, restarts and expiries between their     *)
(* statements, unless two requests of the account overlapped.                               *)
THEOREM OneLinkHolds == Spec => []OneLink
<1>1. ASSUME LinkInv, NEW u \in Users \ overlapped
      PROVE  Cardinality(LinksOf(u)) <= (IF u \in verified THEN 0 ELSE 1)
  <2>1. InHand(u)
    BY <1>1 DEF LinkInv
  <2>2. LinksOf(u) = {} \/ \E l \in LinksOf(u) : LinksOf(u) = {l}
    BY <2>1 DEF InHand
  <2>3. CASE LinksOf(u) = {}
    BY <2>3, FS_EmptySet
  <2>4. CASE \E l \in LinksOf(u) : LinksOf(u) = {l}
    BY <2>1, <2>4, FS_Singleton DEF InHand
  <2>. QED  BY <2>2, <2>3, <2>4
<1>2. LinkInv => OneLink
  BY <1>1 DEF OneLink
<1>. QED  BY LinksInHand, <1>2, PTL

-------------------------------------------------------------------------------
(* Roles. *)

(* An account that is not registered has no power; a request that is about to write a role  *)
(* has decided that its actor, by the roles it read, may, and its actor is someone else.    *)
RoleInv ==
  /\ TypeOK
  /\ \A u \in Users : ~Registered(u) => role[u] = "user"
  /\ \A r \in Requests :
       request[r].op = "role" /\ request[r].target # None =>
         /\ request[r].target # request[r].actor
         /\ Registered(request[r].target)
         /\ CanManageRole(request[r].power, request[r].was, request[r].next)

(* At first the founders are owners, and nobody else is registered. *)
LEMMA InitRoleInv == Init => RoleInv
<1>1. Init => \A u \in Users : ~Registered(u) => role[u] = "user"
  BY NoneAssumption DEF Init, Registered
<1>2. Init => \A r \in Requests : request[r].op # "role"
  BY DEF Init, Idle
<1>. QED  BY <1>1, <1>2, InitTypes DEF RoleInv

(* What one step does to the roles: an account is created, or a role is written. *)
LEMMA StepRoles ==
  ASSUME TypeOK, [Next]_vars
  PROVE  \/ UNCHANGED role
         \/ \E u \in Users, p \in Passwords, newRole \in Roles : CreateUser(u, p, newRole)
         \/ \E r \in Requests : RoleUpdate(r)
<1> USE DEF userVars, historyVars
<1>1. CASE LoginNext
  BY <1>1 DEF LoginNext, RegisterWithoutMail, LoginVerify, LoginRehash, StartSession, Roles
<1>2. CASE ChangeNext \/ \E s \in Sessions : CloseSession(s)
  BY <1>2 DEF ChangeNext, ChangeCheck, ChangeUpdate, ChangeRevoke, CloseSession
<1>3. CASE RoleNext
  <2>1. ASSUME NEW r \in Requests, NEW t \in Users, NEW next \in AssignableRoles,
               RoleTarget(r, t, next)
        PROVE  UNCHANGED role
    BY <2>1 DEF RoleTarget
  <2>. QED  BY <1>3, <2>1 DEF RoleNext, RoleActor
<1>4. CASE LinkNext \/ \E l \in Links : LinkExpires(l)
  BY <1>4 DEF LinkNext, VerifyRead, ResendRead, Begin, VerifyCommit, ResendDelete, ResendCommit,
              LinkExpires
<1>5. CASE \E u \in Users, p \in Passwords, l \in Links : RegisterWithMail(u, p, l)
  BY <1>5 DEF RegisterWithMail, Roles
<1>6. CASE OrchestratorRestart
  <2>1. UNCHANGED role \/ \E u \in Users, p \in Passwords : EnsureAdmin(u, p)
    BY <1>6 DEF OrchestratorRestart
  <2>. QED  BY <2>1 DEF EnsureAdmin, Roles
<1>7. CASE UNCHANGED vars
  BY <1>7 DEF vars
<1>. QED  BY <1>1, <1>2, <1>3, <1>4, <1>5, <1>6, <1>7 DEF Next

(* A role request gets its target from RoleTarget, and keeps what it has decided. *)
LEMMA StepRoleRequests ==
  ASSUME TypeOK, [Next]_vars, NEW q \in Requests, request'[q] # request[q],
         request'[q].op = "role", request'[q].target # None
  PROVE  \E t \in Users, next \in AssignableRoles :
           /\ RoleTarget(q, t, next)
           /\ request'[q] \in RoleRequest
           /\ request'[q].actor = request[q].actor /\ request'[q].power = request[q].power
           /\ request'[q].target = t /\ request'[q].was = role[t] /\ request'[q].next = next
           /\ CanManageRole(request[q].power, role[t], next)
<1> USE DEF userVars, historyVars
<1>1. CASE LoginNext
  <2>1. ASSUME NEW r \in Requests, LoginRehash(r)
        PROVE  request'[r].op = "login" /\ \A x \in Requests \ {r} : request'[x] = request[x]
    <3>1. request[r] \in LoginRequest
      BY <2>1, Shape DEF LoginRehash
    <3>. QED  BY <2>1, <3>1 DEF LoginRehash, TypeOK, LoginRequest
  <2>2. ASSUME NEW r \in Requests,
               \/ \E u \in Users, p \in Passwords :
                    RegisterWithoutMail(r, u, p) \/ LoginVerify(r, u, p)
               \/ \E s \in Sessions : StartSession(r, s)
        PROVE  request'[r].op # "role" /\ \A x \in Requests \ {r} : request'[x] = request[x]
    BY <2>2 DEF RegisterWithoutMail, LoginVerify, StartSession, TypeOK, Idle
  <2>. QED  BY <1>1, <2>1, <2>2 DEF LoginNext
<1>2. CASE ChangeNext
  <2>1. ASSUME NEW r \in Requests, ChangeUpdate(r)
        PROVE  request'[r].op = "change" /\ \A x \in Requests \ {r} : request'[x] = request[x]
    <3>1. request[r] \in ChangeRequest
      BY <2>1, Shape DEF ChangeUpdate
    <3>. QED  BY <2>1, <3>1 DEF ChangeUpdate, TypeOK, ChangeRequest
  <2>2. ASSUME NEW r \in Requests,
               (\E s \in Sessions, new \in Passwords : ChangeCheck(r, s, new)) \/ ChangeRevoke(r)
        PROVE  request'[r].op # "role" /\ \A x \in Requests \ {r} : request'[x] = request[x]
    BY <2>2 DEF ChangeCheck, ChangeRevoke, TypeOK, Idle
  <2>. QED  BY <1>2, <2>1, <2>2 DEF ChangeNext
<1>3. CASE RoleNext
  <2>1. ASSUME NEW r \in Requests, (\E s \in Sessions : RoleActor(r, s)) \/ RoleUpdate(r)
        PROVE  /\ request'[r].op # "role" \/ request'[r].target = None
               /\ \A x \in Requests \ {r} : request'[x] = request[x]
    BY <2>1 DEF RoleActor, RoleUpdate, TypeOK, Idle
  <2>2. PICK r \in Requests, t \in Users, next \in AssignableRoles : RoleTarget(r, t, next)
    BY <1>3, <2>1 DEF RoleNext
  <2>3. request[r] \in RoleRequest
    BY <2>2, Shape DEF RoleTarget
  <2>4. /\ r = q
        /\ CanManageRole(request[r].power, role[t], next)
        /\ request'[q] = [request[r] EXCEPT !.target = t, !.was = role[t], !.next = next]
    <3>. DEFINE new == [request[r] EXCEPT !.target = t, !.was = role[t], !.next = next]
    <3>1. request' = [request EXCEPT ![r] =
                        IF CanManageRole(request[r].power, role[t], next) THEN new ELSE Idle]
      BY <2>2 DEF RoleTarget
    <3>. HIDE DEF new
    <3>2. \A x \in Requests \ {r} : request'[x] = request[x]
      BY <3>1 DEF TypeOK
    <3>3. r = q
      BY <3>2
    <3>4. request'[q] = IF CanManageRole(request[r].power, role[t], next) THEN new ELSE Idle
      BY <3>1, <3>3 DEF TypeOK
    <3>. QED  BY <3>3, <3>4 DEF Idle, new
  <2>5. role[t] \in Roles /\ next \in Roles
    BY DEF TypeOK, AssignableRoles
  <2>. QED  BY <2>2, <2>3, <2>4, <2>5 DEF RoleRequest
<1>4. CASE LinkNext
  <2>1. ASSUME NEW r \in Requests, ResendDelete(r)
        PROVE  request'[r].op = "resending" /\ \A x \in Requests \ {r} : request'[x] = request[x]
    <3>1. request[r] \in LinkRequest
      BY <2>1, Shape DEF ResendDelete
    <3>. QED  BY <2>1, <3>1 DEF ResendDelete, TypeOK, LinkRequest
  <2>2. ASSUME NEW r \in Requests,
               \/ \E l \in Links : VerifyRead(r, l) \/ ResendCommit(r, l)
               \/ VerifyCommit(r)
               \/ \E u \in Users : ResendRead(r, u)
        PROVE  request'[r].op # "role" /\ \A x \in Requests \ {r} : request'[x] = request[x]
    BY <2>2 DEF VerifyRead, ResendCommit, VerifyCommit, ResendRead, Begin, TypeOK, Idle
  <2>. QED  BY <1>4, <2>1, <2>2 DEF LinkNext
<1>5. CASE UNCHANGED request
  BY <1>5
<1>6. CASE OrchestratorRestart
  BY <1>6 DEF OrchestratorRestart, Idle
<1>. QED  BY <1>1, <1>2, <1>3, <1>4, <1>5, <1>6
          DEF Next, RegisterWithMail, CloseSession, LinkExpires, vars

(* Every step keeps the invariant of the roles. *)
LEMMA StepRoleInv == RoleInv /\ [Next]_vars => RoleInv'
<1> SUFFICES ASSUME RoleInv, [Next]_vars
             PROVE  RoleInv'
  OBVIOUS
<1>1. TypeOK /\ TypeOK'
  BY StepTypes DEF RoleInv
<1>2. \A u \in Users : Registered(u) => Registered(u)'
  BY <1>1, StepRegistered DEF Registered
<1>3. ASSUME NEW u \in Users, ~Registered(u)'
      PROVE  role'[u] = "user"
  <2>1. ~Registered(u) /\ role[u] = "user"
    BY <1>2, <1>3 DEF RoleInv
  <2>2. ASSUME NEW v \in Users, NEW p \in Passwords, NEW newRole \in Roles,
               CreateUser(v, p, newRole)
        PROVE  role'[u] = "user"
    <3>1. v # u
      BY <1>1, <1>3, <2>2, NoneAssumption DEF CreateUser, Registered, TypeOK
    <3>. QED  BY <1>1, <2>1, <2>2, <3>1 DEF CreateUser, TypeOK
  <2>3. ASSUME NEW r \in Requests, RoleUpdate(r)
        PROVE  role'[u] = "user"
    <3>1. request[r].target # u
      BY <2>1, <2>3 DEF RoleInv, RoleUpdate
    <3>. QED  BY <1>1, <2>1, <2>3, <3>1 DEF RoleUpdate, TypeOK
  <2>. QED  BY <1>1, <2>1, <2>2, <2>3, StepRoles
<1>4. ASSUME NEW q \in Requests, request'[q].op = "role", request'[q].target # None
      PROVE  /\ request'[q].target # request'[q].actor
             /\ password'[request'[q].target] # None
             /\ CanManageRole(request'[q].power, request'[q].was, request'[q].next)
  <2>1. CASE request'[q] = request[q]
    <3>1. request[q].target \in Users
      BY <1>1, <1>4, <2>1, Shape DEF RoleRequest
    <3>. QED  BY <1>2, <1>4, <2>1, <3>1 DEF RoleInv, Registered
  <2>2. CASE request'[q] # request[q]
    <3>1. PICK t \in Users, next \in AssignableRoles :
            /\ RoleTarget(q, t, next)
            /\ request'[q] \in RoleRequest
            /\ request'[q].actor = request[q].actor /\ request'[q].power = request[q].power
            /\ request'[q].target = t /\ request'[q].was = role[t] /\ request'[q].next = next
            /\ CanManageRole(request[q].power, role[t], next)
      BY <1>1, <1>4, <2>2, StepRoleRequests
    <3>2. t # request[q].actor /\ Registered(t)
      BY <3>1 DEF RoleTarget
    <3>. QED  BY <1>2, <3>1, <3>2 DEF Registered
  <2>. QED  BY <2>1, <2>2
<1>. QED  BY <1>1, <1>3, <1>4 DEF RoleInv, Registered, CanManageRole

(* updateUserRole takes the role from the last owner only when one of the two roles it has  *)
(* read is no longer what it was; no other request and no restart takes it at all.          *)
THEOREM OwnerRemainsHolds == Spec => OwnerRemains
<1>. DEFINE Stale == \E r \in Requests :
                       /\ request[r].op = "role"
                       /\ request[r].target # None
                       /\ \/ role[request[r].actor] # request[r].power
                          \/ role[request[r].target] # request[r].was
            Kept == (\E u \in Users : role[u] = "owner") /\ ~(\E u \in Users : role'[u] = "owner")
                      => Stale
<1>1. ASSUME RoleInv, [Next]_vars
      PROVE  Kept
  <2> SUFFICES ASSUME NEW u \in Users, role[u] = "owner", \A v \in Users : role'[v] # "owner"
               PROVE  Stale
    OBVIOUS
  <2>1. TypeOK
    BY <1>1 DEF RoleInv
  <2>2. ~UNCHANGED role
    OBVIOUS
  <2>3. ASSUME NEW v \in Users, NEW p \in Passwords, NEW newRole \in Roles,
               CreateUser(v, p, newRole)
        PROVE  FALSE
    <3>1. v # u
      BY <1>1, <2>3 DEF CreateUser, RoleInv
    <3>. QED  BY <2>1, <2>3, <3>1 DEF CreateUser, TypeOK
  <2>4. PICK r \in Requests : RoleUpdate(r)
    BY <1>1, <2>1, <2>2, <2>3, StepRoles
  <2>5. request[r] \in RoleRequest /\ request[r].op = "role" /\ request[r].target # None
    BY <2>1, <2>4, Shape DEF RoleUpdate
  <2>6. /\ request[r].target \in Users /\ request[r].actor \in Users
        /\ request[r].target # request[r].actor
        /\ CanManageRole(request[r].power, request[r].was, request[r].next)
    BY <1>1, <2>5 DEF RoleInv, RoleRequest
  <2>7. \A v \in Users : role'[v] = IF v = request[r].target THEN request[r].next ELSE role[v]
    BY <2>1, <2>4 DEF RoleUpdate, TypeOK
  <2>8. u = request[r].target /\ request[r].next # "owner"
    BY <2>6, <2>7
  <2>9. role[request[r].actor] # "owner"
    BY <2>6, <2>7
  <2>10. \/ role[request[r].actor] # request[r].power
         \/ role[request[r].target] # request[r].was
    BY <2>6, <2>8, <2>9 DEF CanManageRole
  <2>. QED  BY <2>5, <2>10
<1>2. RoleInv /\ [Next]_vars => [Kept]_vars
  BY <1>1
<1>. QED  BY <1>2, InitRoleInv, StepRoleInv, PTL DEF Spec, OwnerRemains
===============================================================================
