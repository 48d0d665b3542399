---------------------------- MODULE AuthPagesProofs ----------------------------
(***************************************************************************)
(* Proofs about the register, login and verify pages for any number of     *)
(* links, visits, submissions and lost requests.  The inductive invariant, *)
(* AuthIInv, adds what an answer on its way to the verify page stands for. *)
(***************************************************************************)
EXTENDS WebConsole, TLAPS

(* A token was issued, and an answer of verifyEmail tells what the server did. *)
AnswerKnows ==
  /\ token \in used \cup {NoLink}
  /\ page = "verify" /\ request = "ok" => account = "verified"
  /\ page = "verify" /\ request = "refused" => token = NoLink \/ token # link

AuthIInv == AuthTypeOK /\ AnswerKnows /\ ButtonFollowsRequest /\ VerdictIsTrue

(* The first state satisfies the inductive invariant. *)
LEMMA AuthInitIInv == AuthInit => AuthIInv
<1> SUFFICES ASSUME AuthInit PROVE AuthIInv
  OBVIOUS
<1> USE DEF AuthInit
<1>1. visits \in 0 .. MaxVisits /\ submits \in 0 .. MaxSubmits /\ drops \in 0 .. MaxDrops
  BY AuthBoundsAssumption
<1>2. mailed \subseteq used /\ used \subseteq Links
  OBVIOUS
<1>3. AuthTypeOK
  BY <1>1, <1>2 DEF AuthTypeOK
<1>4. AnswerKnows /\ ButtonFollowsRequest /\ VerdictIsTrue
  BY DEF AnswerKnows, ButtonFollowsRequest, VerdictIsTrue
<1>. QED  BY <1>3, <1>4 DEF AuthIInv

(* A link that is issued is new, so that no page holds it as its token. *)
LEMMA IssueFresh ==
  ASSUME AuthIInv, NEW l \in Links, Issue(l)
  PROVE  /\ link' \in used' /\ mailed' \subseteq used' /\ used \subseteq used'
         /\ used' \subseteq Links
         /\ link' = l /\ l # NoLink /\ token # l
BY NoLinkAssumption DEF AuthIInv, AuthTypeOK, AnswerKnows, Issue

(* Opening a page. *)
LEMMA VisitStep ==
  ASSUME AuthIInv, NEW p \in {"register", "login", "verify"}, NEW t \in mailed \cup {NoLink},
         Visit(p, t), p # "verify" => t = NoLink
  PROVE  AuthIInv'
<1> USE DEF AuthIInv, AuthTypeOK, mailVars, Visit
<1>1. AuthTypeOK'
  <2>1. /\ page' \in {"register", "login", "verify", "console"}
        /\ token' \in Links \cup {NoLink}
        /\ request' \in {"none", "sent"}
        /\ form' = "ready" /\ verdict' = "waiting" /\ missed' = FALSE
        /\ resend' = "absent" /\ resending' = "none"
    OBVIOUS
  <2>2. visits' \in 0 .. MaxVisits
    BY AuthBoundsAssumption
  <2>. QED  BY <2>1, <2>2
<1>2. AnswerKnows'
  BY DEF AnswerKnows
<1>3. ButtonFollowsRequest'
  BY DEF ButtonFollowsRequest
<1>4. VerdictIsTrue'
  BY DEF VerdictIsTrue
<1>. QED  BY <1>1, <1>2, <1>3, <1>4

(* What the server does. *)
LEMMA ServeStep ==
  ASSUME AuthIInv,
         ServeRegister \/ ServeLogin \/ ServeVerify \/ ServeResend \/ Expire
  PROVE  AuthIInv'
<1> USE DEF AuthIInv, AuthTypeOK, formVars, resendVars, boundVars, mailVars
<1>1. CASE ServeRegister
  <2>1. CASE \E l \in Links : account = "none" /\ Issue(l) /\ account' = "unverified"
    <3>1. PICK l \in Links : account = "none" /\ Issue(l) /\ account' = "unverified"
      BY <2>1
    <3>2. /\ link' \in used' /\ mailed' \subseteq used' /\ used \subseteq used'
          /\ used' \subseteq Links
          /\ link' = l /\ l # NoLink /\ token # l
      BY <3>1, IssueFresh
    <3>3. request' \in {"refused", "pending"} /\ page = "register" /\ request = "sent"
      BY <1>1, <3>1 DEF ServeRegister, Issue
    <3>. QED  BY <1>1, <3>1, <3>2, <3>3
              DEF ServeRegister, AnswerKnows, ButtonFollowsRequest, VerdictIsTrue
  <2>2. CASE /\ UNCHANGED <<link, mailed, used>>
             /\ \/ account = "none" /\ account' = "verified" /\ request' = "ok"
                \/ account' = account /\ request' = "refused"
    BY <1>1, <2>2 DEF ServeRegister, AnswerKnows, ButtonFollowsRequest, VerdictIsTrue
  <2>. QED  BY <1>1, <2>1, <2>2 DEF ServeRegister
<1>2. CASE ServeLogin
  BY <1>2 DEF ServeLogin, AnswerKnows, ButtonFollowsRequest, VerdictIsTrue
<1>3. CASE ServeVerify
  BY <1>3, NoLinkAssumption DEF ServeVerify, AnswerKnows, ButtonFollowsRequest, VerdictIsTrue
<1>4. CASE ServeResend
  <2>1. CASE \E l \in Links : account = "unverified" /\ Issue(l)
    <3>1. PICK l \in Links : account = "unverified" /\ Issue(l)
      BY <2>1
    <3>2. /\ link' \in used' /\ mailed' \subseteq used' /\ used \subseteq used'
          /\ used' \subseteq Links
          /\ link' = l /\ l # NoLink /\ token # l
      BY <3>1, IssueFresh
    <3>. QED  BY <1>4, <3>1, <3>2
              DEF ServeResend, AnswerKnows, ButtonFollowsRequest, VerdictIsTrue
  <2>2. CASE UNCHANGED <<link, mailed, used>>
    BY <1>4, <2>2 DEF ServeResend, AnswerKnows, ButtonFollowsRequest, VerdictIsTrue
  <2>. QED  BY <1>4, <2>1, <2>2 DEF ServeResend
<1>5. CASE Expire
  BY <1>5 DEF Expire, AnswerKnows, ButtonFollowsRequest, VerdictIsTrue
<1>. QED  BY <1>1, <1>2, <1>3, <1>4, <1>5

(* What the pages send, and what they do with the answers. *)
LEMMA PageStep ==
  ASSUME AuthIInv,
         \/ Submit \/ Resend \/ FormAnswer \/ VerifyAnswer \/ ResendAnswer \/ Drop \/ DropResend
  PROVE  AuthIInv'
<1> USE AuthBoundsAssumption
    DEF AuthIInv, AuthTypeOK, AnswerKnows, ButtonFollowsRequest, VerdictIsTrue,
        formVars, resendVars, boundVars, mailVars
<1>1. CASE Submit
  BY <1>1 DEF Submit
<1>2. CASE Resend
  BY <1>2 DEF Resend
<1>3. CASE FormAnswer
  BY <1>3 DEF FormAnswer
<1>4. CASE VerifyAnswer
  BY <1>4 DEF VerifyAnswer
<1>5. CASE ResendAnswer
  BY <1>5 DEF ResendAnswer
<1>6. CASE Drop
  BY <1>6 DEF Drop, AfterDrop
<1>7. CASE DropResend
  BY <1>7 DEF DropResend
<1>. QED  BY <1>1, <1>2, <1>3, <1>4, <1>5, <1>6, <1>7

(* Every step keeps the inductive invariant. *)
LEMMA AuthStepIInv == AuthIInv /\ [AuthNext]_authVars => AuthIInv'
<1> SUFFICES ASSUME AuthIInv, [AuthNext]_authVars PROVE AuthIInv'
  OBVIOUS
<1>1. CASE UNCHANGED authVars
  BY <1>1 DEF authVars, formVars, resendVars, boundVars, mailVars, AuthIInv, AuthTypeOK,
              AnswerKnows, ButtonFollowsRequest, VerdictIsTrue
<1>2. CASE \E p \in {"register", "login"} : OpenForm(p)
  BY <1>2, VisitStep DEF OpenForm
<1>3. CASE \E l \in Links : OpenLink(l)
  BY <1>3, VisitStep DEF OpenLink
<1>4. CASE ReloadVerify
  BY <1>4, VisitStep DEF ReloadVerify
<1>. QED  BY <1>1, <1>2, <1>3, <1>4, ServeStep, PageStep DEF AuthNext

(* These pages are among the console's pages. *)
LEMMA SpecAuth == Spec => AuthInit /\ [][AuthNext]_authVars
<1>1. Init => AuthInit
  BY DEF Init
<1>2. [Next]_vars => [AuthNext]_authVars
  BY DEF Next, vars, authVars
<1>. QED  BY <1>1, <1>2, PTL DEF Spec

(* The inductive invariant of these pages holds throughout. *)
LEMMA AuthInvariant == Spec => []AuthIInv
BY SpecAuth, AuthInitIInv, AuthStepIInv, PTL

(* A button is disabled exactly while the request of its form is under way, whichever       *)
(* requests and answers are lost.                                                           *)
THEOREM ButtonsFollowRequests == Spec => []ButtonFollowsRequest
<1>1. AuthIInv => ButtonFollowsRequest
  BY DEF AuthIInv
<1>. QED  BY <1>1, AuthInvariant, PTL

(* The verdict of the verify page is true of the account and of the link.                   *)
THEOREM VerdictsAreTrue == Spec => []VerdictIsTrue
<1>1. AuthIInv => VerdictIsTrue
  BY DEF AuthIInv
<1>. QED  BY <1>1, AuthInvariant, PTL
===============================================================================
