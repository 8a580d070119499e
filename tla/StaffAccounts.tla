----------------------------- MODULE StaffAccounts -----------------------------
(***************************************************************************)
(* The accounts of admins, moderators and staff: their management by       *)
(* admins, the page it is done on, sign-in, and the change of one's own    *)
(* password.                                                               *)
(*                                                                         *)
(* A request is the sequence of statements of its handler, each a step;    *)
(* requests of different people interleave.  An account is known by its    *)
(* user name, which is unique and never changes.  Of a password the model  *)
(* keeps whether the person it is for knows it.  The page is followed for  *)
(* the root admin; what others see on theirs is not restricted.  A         *)
(* ..._Mutant is the definition after it with a bug in it; no action uses  *)
(* it.                                                                     *)
(***************************************************************************)
EXTENDS Integers, FiniteSets

CONSTANTS
  Account,       \* user names of accounts made by an admin
  Root,          \* the account that is seeded at boot
  Seeded,        \* accounts of admins made before the behaviour starts
  MaxOperations, \* bound on the requests made
  MaxCrashes,    \* bound on failed statements and restarts of the api
  None

StaffConstants ==
  /\ Root \notin Account /\ Seeded \subseteq Account /\ None \notin Account \union {Root}
  /\ MaxOperations \in Nat /\ MaxCrashes \in Nat

VARIABLES
  moderator,   \* the table of accounts
  signedIn,    \* who has a session cookie that has not expired
  knowing,     \* who knows the password of their account
  asked,       \* the request of each person under way
  page,        \* of the root admin: the list shown, and the lists still on their way
  raced,       \* whether an admin was removed while the removal of another was past its check
  spent        \* requests and crashes so far

Person == Account \union {Root}
Role   == {"admin", "moderator", "staff"}
Row    == [exists : BOOLEAN, role : Role, active : BOOLEAN]
NoRow  == [exists |-> FALSE, role |-> "staff", active |-> FALSE]
NewRow(r) == [exists |-> TRUE, role |-> r, active |-> TRUE]

table == <<moderator, knowing>>
vars  == <<table, signedIn, asked, page, raced, spent>>

-----------------------------------------------------------------------------
(* Permissions.                                                            *)

StaffPermissions     == {"queue:read", "search:read", "analytics:read", "round_types:read"}
ModeratorPermissions == StaffPermissions \union
  {"queue:approve", "queue:reject", "queue:flag", "queue:claim", "queue:release", "round_types:write"}
AdminPermissions     == ModeratorPermissions \union {"staff:manage"}

RolePermissions == [r \in Role |-> CASE r = "staff"     -> StaffPermissions
                                     [] r = "moderator" -> ModeratorPermissions
                                     [] r = "admin"     -> AdminPermissions]

\* The session names a person; role and activity are read anew for each request.
Session(p) == p \in signedIn /\ moderator[p].exists /\ moderator[p].active
Manages(p) == Session(p) /\ "staff:manage" \in RolePermissions[moderator[p].role]

-----------------------------------------------------------------------------
(* The page.                                                               *)

Accounts == [a \in Account |-> moderator[a]]   \* list(): without the root admin

\* loadAccounts(), on opening the page and after each change.
Load(pg) == [pg EXCEPT !.coming = @ \union {Accounts}]

\* Lists are shown in the order in which they arrive.
Arrive(list) ==
  /\ list \in page.coming
  /\ page' = [shown |-> list, coming |-> page.coming \ {list}]
  /\ UNCHANGED <<table, signedIn, asked, raced, spent>>

OpenPage ==
  /\ Manages(Root) /\ page.coming = {}
  /\ page' = Load(page)
  /\ UNCHANGED <<table, signedIn, asked, raced, spent>>

\* The forms and buttons of the page: "Save role" for another role than the one shown,
\* "Deactivate" or "Reactivate" by the state shown, "Reset password", "Create account".
Offered(op, a, r) ==
  CASE op = "role"       -> page.shown[a].exists /\ r # page.shown[a].role
    [] op = "deactivate" -> page.shown[a].active
    [] op = "reactivate" -> page.shown[a].exists /\ ~page.shown[a].active
    [] op = "reset"      -> page.shown[a].exists
    [] OTHER             -> TRUE

-----------------------------------------------------------------------------
(* StaffAccountsService and AdminAuthService.                              *)

Operation == {"create", "role", "deactivate", "reactivate", "reset", "own"}
Idle == [op |-> "none", on |-> None, role |-> "staff", step |-> "idle"]

Ask(p, op, a, r) ==
  /\ asked[p].step = "idle" /\ spent.requests < MaxOperations
  /\ IF op = "own" THEN a = p /\ Session(p) ELSE Manages(p)
  /\ p = Root /\ op # "own" => a # Root /\ Offered(op, a, r)
  /\ op \notin {"create", "role"} => r = Idle.role   \* no other request has a role
  /\ asked' = [asked EXCEPT ![p] = [op |-> op, on |-> a, role |-> r, step |-> "read"]]
  /\ spent' = [spent EXCEPT !.requests = @ + 1]
  /\ UNCHANGED <<table, signedIn, page, raced>>

Advance(p, step) == asked' = [asked EXCEPT ![p].step = step]
Answer(p)        == asked' = [asked EXCEPT ![p] = Idle]

\* The request takes an admin away: its count has to show that another one stays.
Removing(j)     == j.op = "deactivate" \/ (j.op = "role" /\ j.role # "admin")
Removes(row, j) == row.role = "admin" /\ row.active /\ Removing(j)

\* findUniqueOrThrow() and assertNotRoot(); create() reads nothing, one's own password
\* is compared with the one that is stored.
Read(p) ==
  LET j == asked[p]
  IN /\ j.step = "read"
     /\ CASE j.op = "create" -> Advance(p, "write")
          [] j.op = "own"    -> IF p \in knowing THEN Advance(p, "write") ELSE Answer(p)
          [] OTHER -> IF ~moderator[j.on].exists \/ j.on = Root THEN Answer(p)
                      ELSE Advance(p, IF Removes(moderator[j.on], j) THEN "count" ELSE "write")
     /\ UNCHANGED <<table, signedIn, page, raced, spent>>

\* Accounts that an admin of the list can still be managed by.
Admins == {a \in Account : moderator[a].exists /\ moderator[a].role = "admin" /\ moderator[a].active}

OtherAdmins_Mutant(a) == {b \in Account \ {a} : moderator[b].role = "admin"}
OtherAdmins(a) == Admins \ {a}

\* countOtherActiveNonRootAdmins().
Count(p) ==
  /\ asked[p].step = "count"
  /\ IF OtherAdmins(asked[p].on) = {} THEN Answer(p) ELSE Advance(p, "write")
  /\ UNCHANGED <<table, signedIn, page, raced, spent>>

\* The removal of p is written while another one is between its count and its write.
Overlaps(p) ==
  Removing(asked[p]) /\ \E q \in Person \ {p} : asked[q].step = "write" /\ Removing(asked[q])

Written(row, op, r) ==
  CASE op = "create"     -> NewRow(r)
    [] op = "role"       -> [row EXCEPT !.role = r]
    [] op = "deactivate" -> [row EXCEPT !.active = FALSE]
    [] op = "reactivate" -> [row EXCEPT !.active = TRUE]
    [] OTHER             -> row

\* The write.  A user name that is taken is refused by the unique constraint.
Write(p) ==
  LET j == asked[p]
  IN /\ j.step = "write"
     /\ IF j.op = "create" /\ moderator[j.on].exists
          THEN Answer(p) /\ UNCHANGED <<table, raced>>
          ELSE /\ moderator' = [moderator EXCEPT ![j.on] = Written(@, j.op, j.role)]
               /\ knowing' = CASE j.op \in {"create", "reset"} -> knowing \ {j.on}
                               [] j.op = "own"                 -> knowing \union {p}
                               [] OTHER                        -> knowing
               /\ raced' = (raced \/ Overlaps(p))
               /\ Advance(p, "finish")
     /\ UNCHANGED <<signedIn, page, spent>>

\* The row of the audit log, the event and the answer: the password that was made goes
\* to its owner by mail, or by way of the admin who is shown it once.  The page reloads
\* its list, except after the reset of a password.
Finish(p) ==
  LET j == asked[p]
  IN /\ j.step = "finish" /\ Answer(p)
     /\ knowing' = IF j.op \in {"create", "reset"} THEN knowing \union {j.on} ELSE knowing
     /\ page' = IF p = Root /\ j.op \notin {"reset", "own"} THEN Load(page) ELSE page
     /\ UNCHANGED <<moderator, signedIn, raced, spent>>

\* A statement fails: nothing after it is done, and what was done before it stays.
Fail(p) ==
  /\ asked[p].step \notin {"idle", "read"} /\ spent.crashes < MaxCrashes
  /\ spent' = [spent EXCEPT !.crashes = @ + 1]
  /\ Answer(p)
  /\ UNCHANGED <<table, signedIn, page, raced>>

\* A restart of the api; onModuleInit() restores the root admin and its password.
Boot ==
  /\ spent.crashes < MaxCrashes /\ spent' = [spent EXCEPT !.crashes = @ + 1]
  /\ moderator' = [moderator EXCEPT ![Root] = NewRow("admin")]
  /\ knowing' = knowing \union {Root}
  /\ asked' = [p \in Person |-> Idle]
  /\ UNCHANGED <<signedIn, page, raced>>

\* validateAdmin() and issueToken(); logout, or the hour is over.
SignIn(p) ==
  /\ p \notin signedIn
  /\ moderator[p].exists /\ p \in knowing /\ moderator[p].active
  /\ signedIn' = signedIn \union {p}
  /\ UNCHANGED <<table, asked, page, raced, spent>>

SignOut(p) ==
  /\ p \in signedIn /\ asked[p].step = "idle"
  /\ signedIn' = signedIn \ {p}
  /\ UNCHANGED <<table, asked, page, raced, spent>>

-----------------------------------------------------------------------------
Init ==
  /\ moderator = [p \in Person |-> IF p \in Seeded \union {Root} THEN NewRow("admin") ELSE NoRow]
  /\ signedIn = Seeded \union {Root} /\ knowing = Seeded \union {Root}
  /\ asked = [p \in Person |-> Idle]
  /\ page = [shown |-> Accounts, coming |-> {}]
  /\ raced = FALSE
  /\ spent = [requests |-> 0, crashes |-> 0]

Handle(p) == Read(p) \/ Count(p) \/ Write(p) \/ Finish(p)

Next ==
  \/ \E p, a \in Person, op \in Operation, r \in Role : Ask(p, op, a, r)
  \/ \E p \in Person : Handle(p) \/ Fail(p) \/ SignIn(p) \/ SignOut(p)
  \/ \E list \in page.coming : Arrive(list)
  \/ OpenPage \/ Boot

Spec == Init /\ [][Next]_vars

-----------------------------------------------------------------------------
(* Properties.                                                             *)

\* Every row, request, list and counter has a value of its kind.
TypeOK ==
  /\ moderator \in [Person -> Row]
  /\ signedIn \subseteq Person /\ knowing \subseteq Person
  /\ asked \in [Person -> [op : Operation \union {"none"}, on : Person \union {None}, role : Role,
                           step : {"idle", "read", "count", "write", "finish"}]]
  /\ page \in [shown : [Account -> Row], coming : SUBSET [Account -> Row]]
  /\ raced \in BOOLEAN
  /\ spent \in [requests : 0..MaxOperations, crashes : 0..MaxCrashes]

\* However requests interleave, as long as no two removals are past their counts at the
\* same time: an admin other than the root one remains.  (Two that are have each counted
\* the admin whom the other removes, and the last admin goes.)
AnAdminRemains == Seeded # {} /\ ~raced => Admins # {}
===============================================================================
