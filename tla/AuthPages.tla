------------------------------- MODULE AuthPages -------------------------------
(***************************************************************************)
(* The pages register, login and verify (assets/auth.js) with the account  *)
(* they are about and the links that are mailed for it.                    *)
(*                                                                         *)
(* A form's button is disabled while its request is under way.  The verify *)
(* page takes the token out of its address and sends it once.  Requests    *)
(* and their answers get lost; a page that is left takes its request along.*)
(***************************************************************************)
EXTENDS Naturals

CONSTANTS
  Links,
  MaxVisits,  \* pages opened
  MaxSubmits, \* forms submitted
  MaxDrops,   \* requests, or their answers, that get lost
  NoLink

ASSUME NoLinkAssumption == NoLink \notin Links
ASSUME AuthBoundsAssumption == MaxVisits \in Nat /\ MaxSubmits \in Nat /\ MaxDrops \in Nat

VARIABLES
  mailer,    \* whether a mail server is configured
  account,   \* "none", "unverified" or "verified"
  link,      \* the row of email_verifications, NoLink if there is none
  mailed,    \* the links that were mailed
  used,      \* the links that were issued
  page,
  form,      \* "ready", "busy" (the button is disabled), "refused", "unverified" or "hidden"
  resend,    \* the resend form of the login page
  token,     \* the token of the verify page
  verdict,   \* what the verify page says
  request,   \* the request of the form, or of the verify page
  resending, \* the request of the resend form
  visits, submits, drops,
  missed     \* the verify page has lost an answer

mailVars == <<mailer, account, link, mailed, used>>
formVars == <<page, form, token, verdict, request, missed>>
resendVars == <<resend, resending>>
boundVars == <<visits, submits, drops>>
authVars == <<mailVars, formVars, resendVars, boundVars>>

AuthTypeOK ==
  /\ mailer \in BOOLEAN
  /\ account \in {"none", "unverified", "verified"}
  /\ link \in Links \cup {NoLink}
  /\ mailed \subseteq used
  /\ used \subseteq Links
  /\ page \in {"register", "login", "verify", "console"}
  /\ form \in {"ready", "busy", "refused", "unverified", "hidden"}
  /\ resend \in {"absent", "ready", "busy", "sent", "unavailable"}
  /\ token \in Links \cup {NoLink}
  /\ verdict \in {"waiting", "valid", "invalid"}
  /\ request \in {"none", "sent", "ok", "pending", "refused", "unverified"}
  /\ resending \in {"none", "sent", "answered"}
  /\ visits \in 0 .. MaxVisits
  /\ submits \in 0 .. MaxSubmits
  /\ drops \in 0 .. MaxDrops
  /\ missed \in BOOLEAN
  /\ link # NoLink => link \in used /\ account = "unverified"

AuthInit ==
  /\ mailer \in BOOLEAN
  /\ account = "none"
  /\ link = NoLink
  /\ mailed = {} /\ used = {}
  /\ page \in {"register", "login"}
  /\ form = "ready"
  /\ resend = "absent" /\ resending = "none"
  /\ token = NoLink
  /\ verdict = "waiting"
  /\ request = "none"
  /\ visits = 0 /\ submits = 0 /\ drops = 0
  /\ missed = FALSE

-------------------------------------------------------------------------------
(* Pages. *)

(* A page starts from scratch; the verify page sends its token at once. *)
Visit(p, t) ==
  /\ visits < MaxVisits
  /\ visits' = visits + 1
  /\ page' = p
  /\ form' = "ready"
  /\ token' = t
  /\ verdict' = "waiting"
  /\ request' = IF p = "verify" THEN "sent" ELSE "none"
  /\ missed' = FALSE
  /\ resend' = "absent" /\ resending' = "none"
  /\ UNCHANGED <<mailVars, submits, drops>>

OpenForm(p) == p \in {"register", "login"} /\ Visit(p, NoLink)

OpenLink(l) == l \in mailed /\ Visit("verify", l)

(* The address has no token any more. *)
ReloadVerify == page = "verify" /\ Visit("verify", NoLink)

Submittable == form \in {"ready", "refused", "unverified"}

Submit ==
  /\ page \in {"register", "login"}
  /\ Submittable
  /\ submits < MaxSubmits
  /\ submits' = submits + 1
  /\ form' = "busy"
  /\ request' = "sent"
  /\ UNCHANGED <<mailVars, page, token, verdict, missed, resendVars, visits, drops>>

-------------------------------------------------------------------------------
(* The server. *)

(* A new link takes the place of the old one; its mail may fail. *)
Issue(l) ==
  /\ l \notin used
  /\ used' = used \cup {l}
  /\ link' = l
  /\ mailed' \in {mailed, mailed \cup {l}}

(* register: a session without a mailer, 202 with a link, 503 if the mail failed, 409. *)
ServeRegister ==
  /\ page = "register" /\ request = "sent"
  /\ \/ /\ account = "none" /\ mailer
        /\ account' = "unverified"
        /\ \E l \in Links : Issue(l)
        /\ request' = IF mailed' = mailed THEN "refused" ELSE "pending"
     \/ /\ account = "none" /\ ~mailer
        /\ account' = "verified"
        /\ request' = "ok"
        /\ UNCHANGED <<link, mailed, used>>
     \/ /\ request' = "refused"
        /\ UNCHANGED <<account, link, mailed, used>>
  /\ UNCHANGED <<mailer, page, form, token, verdict, missed, resendVars, boundVars>>

(* login: 401 and the like, 403 before the address is verified, the user. *)
ServeLogin ==
  /\ page = "login" /\ request = "sent"
  /\ \/ request' = "refused"
     \/ account = "unverified" /\ request' = "unverified"
     \/ account = "verified" /\ request' = "ok"
  /\ UNCHANGED <<mailVars, page, form, token, verdict, missed, resendVars, boundVars>>

(* Mutant: the account's links are not deleted. *)
ServeVerifyKeepsLink ==
  /\ page = "verify" /\ request = "sent"
  /\ IF token # NoLink /\ token = link
       THEN account' = "verified" /\ request' = "ok"
       ELSE request' = "refused" /\ UNCHANGED account
  /\ UNCHANGED <<mailer, link, mailed, used, page, form, token, verdict, missed, resendVars,
                 boundVars>>

(* verifyEmail: the address is verified and the account's links are deleted. *)
ServeVerify ==
  /\ page = "verify" /\ request = "sent"
  /\ IF token # NoLink /\ token = link
       THEN account' = "verified" /\ link' = NoLink /\ request' = "ok"
       ELSE request' = "refused" /\ UNCHANGED <<account, link>>
  /\ UNCHANGED <<mailer, mailed, used, page, form, token, verdict, missed, resendVars, boundVars>>

(* The link expires. *)
Expire ==
  /\ link # NoLink
  /\ link' = NoLink
  /\ UNCHANGED <<mailer, account, mailed, used, formVars, resendVars, boundVars>>

ServeResend ==
  /\ resending = "sent"
  /\ resending' = "answered"
  /\ \/ /\ account = "unverified" /\ mailer
        /\ \E l \in Links : Issue(l)
     \/ UNCHANGED <<link, mailed, used>>
  /\ UNCHANGED <<mailer, account, formVars, resend, boundVars>>

-------------------------------------------------------------------------------
(* The answers. *)

FormAnswer ==
  /\ page \in {"register", "login"}
  /\ \/ /\ request = "ok"
        /\ page' = "console"
        /\ UNCHANGED <<form, resend>>
     \/ /\ request = "pending"
        /\ form' = "hidden"
        /\ UNCHANGED <<page, resend>>
     \/ /\ request = "refused"
        /\ form' = "refused"
        /\ UNCHANGED <<page, resend>>
     \/ /\ request = "unverified"
        /\ form' = "unverified"
        /\ resend' = IF resend = "absent" THEN "ready" ELSE resend
        /\ UNCHANGED page
  /\ request' = "none"
  /\ UNCHANGED <<mailVars, token, verdict, missed, resending, boundVars>>

(* Mutant: response.ok is not looked at. *)
VerifyAnswerUnchecked ==
  /\ page = "verify"
  /\ request \in {"ok", "refused"}
  /\ verdict' = "valid"
  /\ request' = "none"
  /\ UNCHANGED <<mailVars, page, form, token, missed, resendVars, boundVars>>

VerifyAnswer ==
  /\ page = "verify"
  /\ request \in {"ok", "refused"}
  /\ verdict' = IF request = "ok" THEN "valid" ELSE "invalid"
  /\ request' = "none"
  /\ UNCHANGED <<mailVars, page, form, token, missed, resendVars, boundVars>>

(* Mutant: the button stays disabled when the request fails. *)
AfterDropStuck == form

(* The catch: the button of a form is enabled again. *)
AfterDrop == IF page = "verify" THEN form ELSE "refused"

(* The request is lost before or after the server has handled it. *)
Drop ==
  /\ request # "none" /\ page # "console"
  /\ drops < MaxDrops
  /\ drops' = drops + 1
  /\ form' = AfterDrop
  /\ verdict' = IF page = "verify" THEN "invalid" ELSE verdict
  /\ missed' = TRUE
  /\ request' = "none"
  /\ UNCHANGED <<mailVars, page, token, resendVars, visits, submits>>

Resend ==
  /\ page = "login" /\ resend = "ready"
  /\ submits < MaxSubmits
  /\ submits' = submits + 1
  /\ resend' = "busy"
  /\ resending' = "sent"
  /\ UNCHANGED <<mailVars, formVars, visits, drops>>

(* Whatever the status of the answer. *)
ResendAnswer ==
  /\ resending = "answered"
  /\ resend' = "sent"
  /\ resending' = "none"
  /\ UNCHANGED <<mailVars, formVars, boundVars>>

DropResend ==
  /\ resending # "none"
  /\ drops < MaxDrops
  /\ drops' = drops + 1
  /\ resend' = "unavailable"
  /\ resending' = "none"
  /\ UNCHANGED <<mailVars, formVars, visits, submits>>

AuthNext ==
  \/ \E p \in {"register", "login"} : OpenForm(p)
  \/ \E l \in Links : OpenLink(l)
  \/ ReloadVerify \/ Submit \/ Resend
  \/ ServeRegister \/ ServeLogin \/ ServeVerify \/ ServeResend \/ Expire
  \/ FormAnswer \/ VerifyAnswer \/ ResendAnswer \/ Drop \/ DropResend

AuthSpec == AuthInit /\ [][AuthNext]_authVars

-------------------------------------------------------------------------------
(* A form's button is disabled exactly while its request is under way: one click is one     *)
(* request, and an answer of any kind, or none, gives the button back, until the page is    *)
(* left.                                                                                    *)
ButtonFollowsRequest ==
  page \in {"register", "login"} => (form = "busy" <=> request # "none")

(* The verify page tells the truth: "Adresse vérifiée" of a verified account, and "Lien     *)
(* invalide" only if the link is not the account's, or its answer was lost on the way, or   *)
(* the page was loaded again without its token.                                             *)
VerdictIsTrue ==
  /\ verdict = "valid" => account = "verified"
  /\ verdict = "invalid" => token = NoLink \/ token # link \/ missed
===============================================================================
