----------------------------- MODULE CandidateAuth -----------------------------
(***************************************************************************)
(* Sign-up and sign-in of a candidate: passwords, links sent by mail, the  *)
(* reset of a forgotten password, and the sessions these give.             *)
(*                                                                         *)
(* The account of one mail address, and the browsers its owner uses.  A    *)
(* request is the sequence of statements of its handler, each a step.  A   *)
(* session is a signed token in a cookie: nothing is stored of it, and     *)
(* each request it comes with compares its version with the account's.     *)
(* The throttles in front of these requests are in module Throttles.  A    *)
(* ..._Mutant is the definition after it with a bug in it; no action uses  *)
(* it.                                                                     *)
(***************************************************************************)
EXTENDS Integers, Sequences

CONSTANTS
  Browser,
  Password,
  MaxLinks,      \* bound on the links made
  MaxRequests,   \* bound on the requests made
  None

AuthConstants == /\ MaxLinks \in Nat /\ MaxRequests \in Nat
                 /\ None \notin Password

VARIABLES
  account,       \* the row of the candidate
  links,         \* login links and reset links, in the order they were made
  mailbox,       \* those that were mailed
  visit,         \* the request of each browser
  cookie,        \* the session of each browser
  overwritten,   \* a registration has replaced a password that was set after its check
  requests       \* made so far

vars == <<account, links, mailbox, visit, cookie, overwritten, requests>>

Link == 1..MaxLinks

\* id: of this account among those the address has had; version: tokenVersion.
AccountRow == [id : Nat, exists : BOOLEAN, password : Password \union {None}, version : Nat,
            verified : BOOLEAN]
Unknown == [id |-> 0, exists |-> FALSE, password |-> None, version |-> 0, verified |-> FALSE]

\* live: neither consumed nor expired.
LinkRow == [kind : {"login", "reset"}, of : Nat, live : BOOLEAN]

\* by: the password that was given for it, if one was.
Session   == [of : Nat, version : Nat, by : Password \union {None}]
NoSession == [of |-> 0, version |-> 0, by |-> None]
Issued(row, by) == [of |-> row.id, version |-> row.version, by |-> by]

\* CandidateJwtStrategy.validate().
Accepted(s) == account.exists /\ s.of = account.id /\ s.version = account.version

Idle == [op |-> "none", step |-> "idle", link |-> 0, password |-> None, session |-> NoSession, seen |-> {}]
Step == {"idle", "check", "upsert", "consume", "create", "mail", "use", "answer"}

-----------------------------------------------------------------------------
(* A browser asks; one request at a time, the button of the form is        *)
(* disabled until it is answered.                                          *)
Ask(p, op, step, l, pw) ==
  /\ visit[p].step = "idle" /\ requests < MaxRequests
  /\ visit' = [visit EXCEPT ![p] = [Idle EXCEPT !.op = op, !.step = step, !.link = l, !.password = pw]]
  /\ requests' = requests + 1
  /\ UNCHANGED <<account, links, mailbox, cookie, overwritten>>

AskLink(p)             == Ask(p, "link", "upsert", 0, None)
AskRegister(p, pw)     == Ask(p, "register", "check", 0, pw)
AskLogin(p, pw)        == Ask(p, "login", "check", 0, pw)
AskReset(p)            == Ask(p, "forgot", "check", 0, None)
OpenLink(p, l)         == l \in mailbox /\ links[l].kind = "login" /\ Ask(p, "verify", "check", l, None)
OpenReset(p, l, pw)    == l \in mailbox /\ links[l].kind = "reset" /\ Ask(p, "confirm", "check", l, pw)

Refuse(p) == visit' = [visit EXCEPT ![p] = Idle]
Goto(p, step) == visit' = [visit EXCEPT ![p].step = step]
Answer(p, s) == visit' = [visit EXCEPT ![p].step = "answer", ![p].session = s]

Of(l) == account.exists /\ links[l].of = account.id

\* The read each handler begins with, and what it checks of it.  login() compares the
\* password with the row it has read, and takes the version of its session from it.
Check(p) ==
  LET v == visit[p]
  IN /\ v.step = "check"
     /\ CASE v.op = "register" -> IF account.password # None THEN Refuse(p) ELSE Goto(p, "upsert")
          [] v.op = "login"    -> IF account.password # v.password THEN Refuse(p)
                                  ELSE Answer(p, Issued(account, v.password))
          [] v.op = "forgot"   -> IF account.exists THEN Goto(p, "consume") ELSE Refuse(p)
          [] OTHER             -> IF Of(v.link) /\ links[v.link].live THEN Goto(p, "use") ELSE Refuse(p)
     /\ UNCHANGED <<account, links, mailbox, cookie, overwritten, requests>>

\* The row as it is, or a new one.
Known == IF account.exists THEN account ELSE [Unknown EXCEPT !.id = account.id + 1, !.exists = TRUE]

\* CandidatesService.create() of requestLink(), and the upsert of register().
Upsert(p) ==
  LET v   == visit[p]
      row == [Known EXCEPT !.password = IF v.op = "register" THEN v.password ELSE @]
  IN /\ v.step = "upsert"
     /\ account' = row
     /\ overwritten' = (overwritten \/ (v.op = "register" /\ account.password # None))
     /\ visit' = [visit EXCEPT ![p].step = "consume", ![p].session =
                    IF v.op = "register" THEN Issued(row, v.password) ELSE NoSession]
     /\ UNCHANGED <<links, mailbox, cookie, requests>>

\* issueAndSendVerificationEmail() and requestPasswordReset(): the transaction consumes
\* the links of its kind that it sees and makes a new one.  It does not see one that
\* another transaction has not committed yet.
Kind(op) == IF op = "forgot" THEN "reset" ELSE "login"

Consume(p) ==
  LET open == {l \in DOMAIN links : Of(l) /\ links[l].kind = Kind(visit[p].op) /\ links[l].live}
  IN /\ visit[p].step = "consume"
     /\ visit' = [visit EXCEPT ![p].step = "create", ![p].seen = open]
     /\ UNCHANGED <<account, links, mailbox, cookie, overwritten, requests>>

\* register() ignores what goes wrong with its mail, the others answer with an error.
NoMail(p) == IF visit[p].op = "register" THEN Goto(p, "answer") ELSE Refuse(p)

Create(p) ==
  LET v   == visit[p]
      new == [kind |-> Kind(v.op), of |-> account.id, live |-> TRUE]
  IN /\ v.step = "create"
     /\ IF account.exists /\ Len(links) < MaxLinks
          THEN /\ links' = Append([l \in DOMAIN links |->
                              [links[l] EXCEPT !.live = @ /\ l \notin v.seen]], new)
               /\ visit' = [visit EXCEPT ![p].step = "mail", ![p].link = Len(links) + 1, ![p].seen = {}]
          ELSE NoMail(p) /\ UNCHANGED links   \* the account is gone, or the connection
     /\ UNCHANGED <<account, mailbox, cookie, overwritten, requests>>

Mail(p) ==
  /\ visit[p].step = "mail"
  /\ \/ Goto(p, "answer") /\ mailbox' = mailbox \union {visit[p].link}
     \/ NoMail(p) /\ UNCHANGED mailbox
  /\ UNCHANGED <<account, links, cookie, overwritten, requests>>

\* The transactions of verify() and confirmPasswordReset(); neither looks again whether
\* the link was consumed, and both fail when the account is gone.
Reset_Mutant(row, pw) == [row EXCEPT !.password = pw]
Reset(row, pw)        == [row EXCEPT !.password = pw, !.version = @ + 1]

Use(p) ==
  LET v   == visit[p]
      row == IF v.op = "verify" THEN [account EXCEPT !.verified = TRUE] ELSE Reset(account, v.password)
  IN /\ v.step = "use"
     /\ IF Of(v.link)
          THEN /\ account' = row
               /\ links' = [links EXCEPT ![v.link].live = FALSE]
               /\ overwritten' = (overwritten /\ v.op = "verify")
               /\ Answer(p, Issued(row, v.password))
          ELSE Refuse(p) /\ UNCHANGED <<account, links, overwritten>>
     /\ UNCHANGED <<mailbox, cookie, requests>>

\* issueSession(), and the page leaves for another one.
Respond(p) ==
  /\ visit[p].step = "answer"
  /\ cookie' = IF visit[p].session = NoSession THEN cookie
               ELSE [cookie EXCEPT ![p] = visit[p].session]
  /\ Refuse(p)
  /\ UNCHANGED <<account, links, mailbox, overwritten, requests>>

\* logout(), or the cookie expires.
Logout(p) ==
  /\ cookie[p] # NoSession /\ visit[p].step = "idle"
  /\ cookie' = [cookie EXCEPT ![p] = NoSession]
  /\ UNCHANGED <<account, links, mailbox, visit, overwritten, requests>>

\* DELETE /me, at its commit (module Erasure has its statements); the links go with it.
Erase(p) ==
  /\ cookie[p] # NoSession /\ Accepted(cookie[p]) /\ requests < MaxRequests
  /\ account' = [Unknown EXCEPT !.id = account.id]
  /\ cookie' = [cookie EXCEPT ![p] = NoSession]
  /\ requests' = requests + 1
  /\ UNCHANGED <<links, mailbox, visit, overwritten>>

\* Fifteen minutes.
Expire(l) ==
  /\ links[l].live
  /\ links' = [links EXCEPT ![l].live = FALSE]
  /\ UNCHANGED <<account, mailbox, visit, cookie, overwritten, requests>>

-----------------------------------------------------------------------------
Init ==
  /\ account = Unknown /\ links = << >> /\ mailbox = {}
  /\ visit = [p \in Browser |-> Idle] /\ cookie = [p \in Browser |-> NoSession]
  /\ overwritten = FALSE /\ requests = 0

Request(p) ==
  \/ AskLink(p) \/ AskReset(p)
  \/ \E pw \in Password : AskRegister(p, pw) \/ AskLogin(p, pw)
  \/ \E l \in DOMAIN links : OpenLink(p, l) \/ \E pw \in Password : OpenReset(p, l, pw)

Handle(p) == Check(p) \/ Upsert(p) \/ Consume(p) \/ Create(p) \/ Mail(p) \/ Use(p) \/ Respond(p)

Next ==
  \/ \E p \in Browser : Request(p) \/ Handle(p) \/ Logout(p) \/ Erase(p)
  \/ \E l \in DOMAIN links : Expire(l)

Spec == Init /\ [][Next]_vars

-----------------------------------------------------------------------------
(* Properties.                                                             *)

\* Every row, link, request and session has a value of its kind.
TypeOK ==
  /\ account \in AccountRow
  /\ links \in Seq(LinkRow) /\ Len(links) <= MaxLinks /\ mailbox \subseteq DOMAIN links
  /\ visit \in [Browser -> [op : {"none", "link", "register", "login", "forgot", "verify", "confirm"},
                            step : Step, link : 0..MaxLinks, password : Password \union {None},
                            session : Session, seen : SUBSET Link]]
  /\ cookie \in [Browser -> Session]
  /\ overwritten \in BOOLEAN /\ requests \in 0..MaxRequests

\* A session that was given for a password, and that is still accepted, was given for
\* the password in force: a reset ends all that were given for an earlier one, those
\* included that were about to be given.  Only two registrations that overlap, or one
\* that overlaps with a reset, can break this, until the next reset.
PasswordSessionsAreCurrent ==
  \A p \in Browser :
    LET s == cookie[p]
    IN s.by # None /\ Accepted(s) /\ ~overwritten => s.by = account.password
===============================================================================
