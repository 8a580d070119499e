---------------------------- MODULE AccountProofs ------------------------------
(***************************************************************************)
(* The accounts of the staff and of candidates, the throttles and the      *)
(* erasure of a candidate, for any number of accounts, requests, rows and  *)
(* restarts: the inductive invariant of each, and from it the property     *)
(* that the parts are checked for.                                         *)
(***************************************************************************)
EXTENDS MCServices, Sequences, TLAPS

-----------------------------------------------------------------------------
(* The admins that remain.                                                 *)

\* A request under way is about somebody.
Directed == \A p \in Staff!Person : asked[p].step # "idle" => asked[p].on \in Staff!Person

\* A removal that is past its count, or needed none, leaves an admin behind.
Counted == \A p \in Staff!Person :
  asked[p].step = "write" /\ Staff!Removing(asked[p]) => Staff!Admins \ {asked[p].on} # {}

StaffSafe == Seeded # {} /\ ~raced => Staff!Admins # {} /\ Counted
StaffInv == Staff!TypeOK /\ Directed /\ StaffSafe

Request == [op : Staff!Operation \union {"none"}, on : Staff!Person \union {None}, role : Staff!Role,
            step : {"idle", "read", "count", "write", "finish"}]

LEMMA IdleIsRequest == Staff!Idle \in Request /\ Staff!Idle.step = "idle"
  BY DEF Staff!Idle, Request, Staff!Role

LEMMA WrittenIsRow ==
  ASSUME NEW row \in Staff!Row, NEW op, NEW r \in Staff!Role
  PROVE Staff!Written(row, op, r) \in Staff!Row
  <1>1. CASE op = "create"
    BY <1>1 DEF Staff!Written, Staff!NewRow, Staff!Row
  <1>2. CASE op = "role"
    BY <1>2 DEF Staff!Written, Staff!Row
  <1>3. CASE op = "deactivate" \/ op = "reactivate"
    BY <1>3 DEF Staff!Written, Staff!Row
  <1>4. CASE op \notin {"create", "role", "deactivate", "reactivate"}
    BY <1>4 DEF Staff!Written
  <1> QED
    BY <1>1, <1>2, <1>3, <1>4

\* Requests move on, or are answered.
LEMMA RequestsMove ==
  ASSUME Staff!TypeOK, Directed, NEW p \in Staff!Person, asked[p].step # "idle",
         NEW s \in {"count", "write", "finish"}, Staff!Advance(p, s) \/ Staff!Answer(p)
  PROVE  asked' \in [Staff!Person -> Request] /\ Directed'
  <1>1. asked \in [Staff!Person -> Request] /\ asked[p] \in Request /\ asked[p].on \in Staff!Person
    BY DEF Staff!TypeOK, Directed, Request
  <1>2. CASE Staff!Advance(p, s)
    <2>1. asked' = [asked EXCEPT ![p].step = s]
      BY <1>2 DEF Staff!Advance
    <2>2. asked' \in [Staff!Person -> Request]
      BY <1>1, <2>1 DEF Request
    <2>3. \A q \in Staff!Person : asked'[q].on = asked[q].on /\ (asked'[q].step # "idle" => asked[q].step # "idle")
      BY <1>1, <2>1 DEF Request
    <2> QED
      BY <2>2, <2>3 DEF Directed
  <1>3. CASE Staff!Answer(p)
    BY <1>1, <1>3, IdleIsRequest DEF Staff!Answer, Directed
  <1> QED
    BY <1>2, <1>3

LEMMA StaffInit == ASSUME Staff!StaffConstants, Staff!Init PROVE StaffInv
  <1> USE DEF Staff!StaffConstants, Staff!Init
  <1>1. /\ \A r \in Staff!Role : Staff!NewRow(r) \in Staff!Row
        /\ Staff!NoRow \in Staff!Row
    BY DEF Staff!NewRow, Staff!NoRow, Staff!Row, Staff!Role
  <1>2. moderator \in [Staff!Person -> Staff!Row]
    BY <1>1 DEF Staff!Role
  <1>3. Staff!Accounts \in [Account -> Staff!Row]
    BY <1>2 DEF Staff!Accounts, Staff!Person
  <1>4. Staff!TypeOK
    <2>1. asked \in [Staff!Person -> Request]
      BY IdleIsRequest
    <2>2. page \in [shown : [Account -> Staff!Row], coming : SUBSET [Account -> Staff!Row]]
      BY <1>3
    <2>3. signedIn \subseteq Staff!Person /\ knowing \subseteq Staff!Person
      BY DEF Staff!Person
    <2>4. spent \in [requests : 0..MaxOperations, crashes : 0..MaxCrashes]
      OBVIOUS
    <2> QED
      BY <1>2, <2>1, <2>2, <2>3, <2>4 DEF Staff!TypeOK, Request
  <1>5. \A p \in Staff!Person : asked[p].step = "idle"
    BY IdleIsRequest
  <1>6. Seeded # {} => Staff!Admins # {}
    <2> SUFFICES ASSUME NEW a \in Seeded PROVE a \in Staff!Admins
      OBVIOUS
    <2>1. a \in Account /\ a \in Staff!Person /\ moderator[a] = Staff!NewRow("admin")
      BY DEF Staff!Person
    <2> QED
      BY <2>1 DEF Staff!Admins, Staff!NewRow
  <1> QED
    BY <1>4, <1>5, <1>6 DEF StaffInv, Directed, StaffSafe, Counted

(* What a write does to the admins.                                        *)

\* A write changes the row of one account, and none but a removal makes an admin less.
LEMMA WriteKeepsOthers ==
  ASSUME Staff!TypeOK, Directed, NEW p \in Staff!Person, Staff!Write(p)
  PROVE  /\ Staff!Admins \ {asked[p].on} \subseteq Staff!Admins'
         /\ ~Staff!Removing(asked[p]) => Staff!Admins \subseteq Staff!Admins'
  <1> DEFINE j == asked[p]
  <1>1. j \in Request /\ j.step = "write" /\ j.on \in Staff!Person
    BY DEF Staff!TypeOK, Directed, Staff!Write, Request
  <1>2. CASE j.op = "create" /\ moderator[j.on].exists
    <2>1. moderator' = moderator
      BY <1>2 DEF Staff!Write, Staff!table
    <2> QED
      BY <2>1 DEF Staff!Admins
  <1>3. CASE ~(j.op = "create" /\ moderator[j.on].exists)
    <2>1. moderator' = [moderator EXCEPT ![j.on] = Staff!Written(moderator[j.on], j.op, j.role)]
      BY <1>3 DEF Staff!Write
    <2>2. \A a \in Account : a # j.on => moderator'[a] = moderator[a]
      BY <2>1 DEF Staff!TypeOK, Staff!Person
    <2>3. Staff!Admins \ {j.on} \subseteq Staff!Admins'
      BY <2>2 DEF Staff!Admins
    <2>4. ASSUME ~Staff!Removing(j), j.on \in Staff!Admins PROVE j.on \in Staff!Admins'
      <3>1. moderator[j.on] \in Staff!Row
            /\ moderator'[j.on] = Staff!Written(moderator[j.on], j.op, j.role)
        BY <1>1, <2>1 DEF Staff!TypeOK
      <3>2. moderator[j.on].exists /\ moderator[j.on].role = "admin" /\ moderator[j.on].active
            /\ j.on \in Account
        BY <2>4 DEF Staff!Admins
      <3>3. j.op # "deactivate" /\ (j.op = "role" => j.role = "admin") /\ j.op # "create"
        BY <1>3, <2>4, <3>2 DEF Staff!Removing
      <3>4. /\ Staff!Written(moderator[j.on], j.op, j.role).exists
            /\ Staff!Written(moderator[j.on], j.op, j.role).role = "admin"
            /\ Staff!Written(moderator[j.on], j.op, j.role).active
        BY <3>1, <3>2, <3>3 DEF Staff!Written, Staff!Row
      <3> QED
        BY <3>1, <3>2, <3>4 DEF Staff!Admins
    <2> QED
      BY <2>3, <2>4
  <1> QED
    BY <1>2, <1>3

(* Every step keeps the invariant.                                         *)

LEMMA NextTyped == ASSUME Staff!StaffConstants, Staff!TypeOK, Directed,
                          [Staff!Next]_(Staff!vars) PROVE Staff!TypeOK' /\ Directed'
  <1> USE DEF Staff!table
  <1> DEFINE Pages == [shown : [Account -> Staff!Row], coming : SUBSET [Account -> Staff!Row]]
             Spending == [requests : 0..MaxOperations, crashes : 0..MaxCrashes]
  <1>1. /\ asked \in [Staff!Person -> Request] /\ moderator \in [Staff!Person -> Staff!Row]
        /\ page \in Pages /\ spent \in Spending /\ raced \in BOOLEAN
        /\ signedIn \subseteq Staff!Person /\ knowing \subseteq Staff!Person
    BY DEF Staff!TypeOK, Request
  <1>2. ASSUME asked' \in [Staff!Person -> Request], moderator' \in [Staff!Person -> Staff!Row],
               page' \in Pages,
               spent' \in Spending, raced' \in BOOLEAN, signedIn' \subseteq Staff!Person,
                   knowing' \subseteq Staff!Person
        PROVE  Staff!TypeOK'
    BY <1>2 DEF Staff!TypeOK, Request
  <1>3. Staff!Load(page) \in Pages
    <2>1. Staff!Accounts \in [Account -> Staff!Row]
      BY <1>1 DEF Staff!Accounts, Staff!Person
    <2> QED
      BY <1>1, <2>1 DEF Staff!Load
  <1>4. ASSUME NEW p \in Staff!Person, NEW a \in Staff!Person, NEW op \in Staff!Operation,
               NEW r \in Staff!Role, Staff!Ask(p, op, a, r)
        PROVE  Staff!TypeOK' /\ Directed'
    <2>1. asked' = [asked EXCEPT ![p] = [op |-> op, on |-> a, role |-> r, step |-> "read"]]
          /\ spent' = [spent EXCEPT !.requests = @ + 1] /\ spent.requests < MaxOperations
          /\ UNCHANGED <<moderator, knowing, signedIn, page, raced>>
      BY <1>4 DEF Staff!Ask
    <2>2. asked' \in [Staff!Person -> Request]
      BY <1>1, <2>1 DEF Request
    <2>3. spent' \in Spending
      BY <1>1, <2>1 DEF Staff!StaffConstants
    <2>4. Staff!TypeOK'
      BY <1>1, <1>2, <2>1, <2>2, <2>3
    <2> QED
      BY <1>1, <2>1, <2>4 DEF Directed
  <1>5. ASSUME NEW p \in Staff!Person, Staff!Read(p) PROVE Staff!TypeOK' /\ Directed'
    <2>1. asked[p].step # "idle" /\ (Staff!Advance(p, "count") \/ Staff!Advance(p, "write") \/ Staff!Answer(p))
      BY <1>5 DEF Staff!Read
    <2>2. asked' \in [Staff!Person -> Request] /\ Directed'
      BY <2>1, RequestsMove
    <2> QED
      BY <1>1, <1>2, <1>5, <2>2 DEF Staff!Read
  <1>6. ASSUME NEW p \in Staff!Person, Staff!Count(p) PROVE Staff!TypeOK' /\ Directed'
    <2>1. asked[p].step # "idle" /\ (Staff!Advance(p, "write") \/ Staff!Answer(p))
      BY <1>6 DEF Staff!Count
    <2>2. asked' \in [Staff!Person -> Request] /\ Directed'
      BY <2>1, RequestsMove
    <2> QED
      BY <1>1, <1>2, <1>6, <2>2 DEF Staff!Count
  <1>7. ASSUME NEW p \in Staff!Person, Staff!Write(p) PROVE Staff!TypeOK' /\ Directed'
    <2> DEFINE j == asked[p]
    <2>1. j.step # "idle" /\ (Staff!Advance(p, "finish") \/ Staff!Answer(p))
      BY <1>7 DEF Staff!Write
    <2>2. asked' \in [Staff!Person -> Request] /\ Directed'
      BY <2>1, RequestsMove
    <2>3. j \in Request /\ j.on \in Staff!Person
      BY <1>1, <2>1 DEF Directed
    <2>4. Staff!Written(moderator[j.on], j.op, j.role) \in Staff!Row
      BY <1>1, <2>3, WrittenIsRow DEF Request
    <2>5. CASE j.op = "create" /\ moderator[j.on].exists
      BY <1>1, <1>2, <1>7, <2>2, <2>5 DEF Staff!Write
    <2>6. CASE ~(j.op = "create" /\ moderator[j.on].exists)
      <3>1. moderator' \in [Staff!Person -> Staff!Row]
        BY <1>1, <1>7, <2>3, <2>4, <2>6 DEF Staff!Write
      <3>2. knowing' \subseteq Staff!Person /\ UNCHANGED <<signedIn, page, spent>>
        BY <1>1, <1>7, <2>6 DEF Staff!Write
      <3>3. raced' \in BOOLEAN
        BY <1>1, <1>7, <2>6 DEF Staff!Write
      <3> QED
        BY <1>1, <1>2, <2>2, <3>1, <3>2, <3>3
    <2> QED
      BY <2>5, <2>6
  <1>8. ASSUME NEW p \in Staff!Person, Staff!Finish(p) PROVE Staff!TypeOK' /\ Directed'
    <2>1. asked[p].step # "idle" /\ Staff!Answer(p) /\ asked[p].on \in Staff!Person
      BY <1>8 DEF Staff!Finish, Directed
    <2>2. asked' \in [Staff!Person -> Request] /\ Directed'
      BY <2>1, RequestsMove
    <2>3. page' \in Pages
      BY <1>1, <1>3, <1>8 DEF Staff!Finish
    <2>4. knowing' \subseteq Staff!Person /\ UNCHANGED <<moderator, signedIn, raced, spent>>
      BY <1>1, <1>8, <2>1 DEF Staff!Finish
    <2> QED
      BY <1>1, <1>2, <2>2, <2>3, <2>4
  <1>9. ASSUME NEW p \in Staff!Person, Staff!Fail(p) PROVE Staff!TypeOK' /\ Directed'
    <2>1. asked[p].step # "idle" /\ Staff!Answer(p)
          /\ UNCHANGED <<moderator, knowing, signedIn, page, raced>>
          /\ spent.crashes < MaxCrashes /\ spent' = [spent EXCEPT !.crashes = @ + 1]
      BY <1>9 DEF Staff!Fail
    <2>2. asked' \in [Staff!Person -> Request] /\ Directed'
      BY <2>1, RequestsMove
    <2>3. spent' \in Spending
      BY <1>1, <2>1 DEF Staff!StaffConstants
    <2> QED
      BY <1>1, <1>2, <2>1, <2>2, <2>3
  <1>10. ASSUME NEW p \in Staff!Person, Staff!SignIn(p) \/ Staff!SignOut(p)
    PROVE Staff!TypeOK' /\ Directed'
    BY <1>1, <1>2, <1>10 DEF Staff!SignIn, Staff!SignOut, Directed
  <1>11. ASSUME NEW answer \in page.coming, Staff!Arrive(answer) PROVE Staff!TypeOK' /\ Directed'
    <2>1. page' \in Pages
      BY <1>1, <1>11 DEF Staff!Arrive
    <2> QED
      BY <1>1, <1>2, <1>11, <2>1 DEF Staff!Arrive, Directed
  <1>12. CASE Staff!OpenPage
    BY <1>1, <1>2, <1>3, <1>12 DEF Staff!OpenPage, Directed
  <1>13. CASE Staff!Boot
    <2>1. Staff!NewRow("admin") \in Staff!Row
      BY DEF Staff!NewRow, Staff!Row, Staff!Role
    <2>2. moderator' \in [Staff!Person -> Staff!Row]
      BY <1>1, <1>13, <2>1 DEF Staff!Boot
    <2>3. spent' \in Spending
      BY <1>1, <1>13 DEF Staff!Boot, Staff!StaffConstants
    <2>4. knowing' \subseteq Staff!Person
      BY <1>1, <1>13 DEF Staff!Boot, Staff!Person
    <2>5. asked' \in [Staff!Person -> Request] /\ \A p \in Staff!Person : asked'[p].step = "idle"
      BY <1>13, IdleIsRequest DEF Staff!Boot
    <2>6. UNCHANGED <<signedIn, page, raced>>
      BY <1>13 DEF Staff!Boot
    <2> QED
      BY <1>1, <1>2, <2>2, <2>3, <2>4, <2>5, <2>6 DEF Directed
  <1>14. CASE UNCHANGED Staff!vars
    BY <1>1, <1>2, <1>14 DEF Staff!vars, Directed
  <1> QED
    BY <1>4, <1>5, <1>6, <1>7, <1>8, <1>9, <1>10, <1>11, <1>12, <1>13, <1>14
    DEF Staff!Next, Staff!Handle

LEMMA NextSafe == ASSUME Staff!StaffConstants, StaffInv, [Staff!Next]_(Staff!vars) PROVE StaffSafe'
  <1> USE DEF Staff!table
  <1>1. asked \in [Staff!Person -> Request] /\ moderator \in [Staff!Person -> Staff!Row]
        /\ Directed /\ StaffSafe
    BY DEF StaffInv, Staff!TypeOK, Request
  \* Most steps neither change an admin nor bring a removal to its write.
  <1>2. ASSUME Staff!Admins' = Staff!Admins, raced' = raced,
               \A p \in Staff!Person : asked'[p].step = "write" => asked'[p] = asked[p]
        PROVE  StaffSafe'
    BY <1>1, <1>2 DEF StaffSafe, Counted, Staff!Removing
  <1>3. moderator' = moderator => Staff!Admins' = Staff!Admins
    BY DEF Staff!Admins
  <1>4. ASSUME NEW p \in Staff!Person,
               Staff!Answer(p) \/ Staff!Advance(p, "count") \/ Staff!Advance(p, "finish")
        PROVE  \A q \in Staff!Person : asked'[q].step = "write" => asked'[q] = asked[q]
    BY <1>1, <1>4, IdleIsRequest DEF Staff!Answer, Staff!Advance, Request
  \* A removal comes to its write while another admin is there.
  <1>5. ASSUME NEW p \in Staff!Person, Staff!Advance(p, "write"), moderator' = moderator,
               raced' = raced,
               Seeded # {} /\ ~raced /\ Staff!Removing(asked[p]) => Staff!Admins \ {asked[p].on} # {}
        PROVE  StaffSafe'
    <2>1. asked' = [asked EXCEPT ![p].step = "write"]
      BY <1>5 DEF Staff!Advance
    <2>2. \A q \in Staff!Person : q # p => asked'[q] = asked[q]
      BY <1>1, <2>1
    <2>3. asked'[p].on = asked[p].on /\ asked'[p].op = asked[p].op /\ asked'[p].role = asked[p].role
      BY <1>1, <2>1 DEF Request
    <2> QED
      BY <1>1, <1>3, <1>5, <2>2, <2>3 DEF StaffSafe, Counted, Staff!Removing
  <1>6. ASSUME NEW p \in Staff!Person, NEW a \in Staff!Person, NEW op \in Staff!Operation,
               NEW r \in Staff!Role, Staff!Ask(p, op, a, r)
        PROVE  StaffSafe'
    <2>1. \A q \in Staff!Person : asked'[q].step = "write" => asked'[q] = asked[q]
      BY <1>1, <1>6 DEF Staff!Ask
    <2> QED
      BY <1>2, <1>3, <1>6, <2>1 DEF Staff!Ask
  <1>7. ASSUME NEW p \in Staff!Person, Staff!Read(p) PROVE StaffSafe'
    <2> DEFINE j == asked[p]
    <2>1. UNCHANGED <<moderator, raced>>
      BY <1>7 DEF Staff!Read
    <2>2. CASE Staff!Answer(p) \/ Staff!Advance(p, "count")
      BY <1>2, <1>3, <1>4, <2>1, <2>2
    <2>3. CASE Staff!Advance(p, "write") /\ ~Staff!Removing(j)
      BY <1>5, <2>1, <2>3
    <2>4. CASE Staff!Advance(p, "write") /\ Staff!Removing(j) /\ ~Staff!Answer(p) /\ ~Staff!Advance(p, "count")
      <3>1. j.op \notin {"create", "own"}
        BY <2>4 DEF Staff!Removing
      <3>2. ~Staff!Removes(moderator[j.on], j)
        BY <1>7, <2>4, <3>1 DEF Staff!Read
      <3>3. j.on \notin Staff!Admins
        BY <2>4, <3>2 DEF Staff!Removes, Staff!Admins
      <3> QED
        BY <1>1, <1>5, <2>1, <2>4, <3>3 DEF StaffSafe
    <2> QED
      BY <1>7, <2>2, <2>3, <2>4 DEF Staff!Read
  <1>8. ASSUME NEW p \in Staff!Person, Staff!Count(p) PROVE StaffSafe'
    <2>1. UNCHANGED <<moderator, raced>>
      BY <1>8 DEF Staff!Count
    <2>2. CASE Staff!Answer(p)
      BY <1>2, <1>3, <1>4, <2>1, <2>2
    <2>3. CASE Staff!Advance(p, "write") /\ Staff!OtherAdmins(asked[p].on) # {}
      BY <1>5, <2>1, <2>3 DEF Staff!OtherAdmins
    <2> QED
      BY <1>8, <2>2, <2>3 DEF Staff!Count
  <1>9. ASSUME NEW p \in Staff!Person, Staff!Write(p) PROVE StaffSafe'
    <2> DEFINE j == asked[p]
    <2>1. Staff!Admins \ {j.on} \subseteq Staff!Admins' /\ (~Staff!Removing(j) => Staff!Admins \subseteq Staff!Admins') /\ j.step = "write"
      BY <1>9, WriteKeepsOthers DEF StaffInv, Staff!Write
    <2>2. \A q \in Staff!Person : asked'[q].step = "write" => asked'[q] = asked[q] /\ q # p
      BY <1>1, <1>9, IdleIsRequest DEF Staff!Write, Staff!Answer, Staff!Advance, Request
    <2>3. CASE j.op = "create" /\ moderator[j.on].exists
      BY <1>2, <1>3, <1>9, <2>2, <2>3 DEF Staff!Write
    <2>4. CASE ~(j.op = "create" /\ moderator[j.on].exists)
      <3>1. raced' = (raced \/ Staff!Overlaps(p))
        BY <1>9, <2>4 DEF Staff!Write
      <3>2. ASSUME Seeded # {}, ~raced' PROVE Staff!Admins' # {} /\ Counted'
        <4>1. ~raced /\ ~Staff!Overlaps(p) /\ Staff!Admins # {} /\ Counted
          BY <1>1, <3>1, <3>2 DEF StaffSafe
        <4>2. CASE Staff!Removing(j)
          <5>1. Staff!Admins \ {j.on} # {}
            BY <2>1, <4>1, <4>2 DEF Counted
          <5>2. \A q \in Staff!Person : asked'[q].step = "write" => ~Staff!Removing(asked'[q])
            BY <2>2, <4>1, <4>2 DEF Staff!Overlaps
          <5> QED
            BY <2>1, <5>1, <5>2 DEF Counted, Staff!Removing
        <4>3. CASE ~Staff!Removing(j)
          BY <2>1, <2>2, <4>1, <4>3 DEF Counted, Staff!Removing
        <4> QED
          BY <4>2, <4>3
      <3> QED
        BY <3>2 DEF StaffSafe
    <2> QED
      BY <2>3, <2>4
  <1>10. ASSUME NEW p \in Staff!Person, Staff!Finish(p) \/ Staff!Fail(p) PROVE StaffSafe'
    BY <1>2, <1>3, <1>4, <1>10 DEF Staff!Finish, Staff!Fail
  <1>11. ASSUME NEW p \in Staff!Person, Staff!SignIn(p) \/ Staff!SignOut(p) PROVE StaffSafe'
    BY <1>2, <1>3, <1>11 DEF Staff!SignIn, Staff!SignOut
  <1>12. ASSUME NEW answer \in page.coming, Staff!Arrive(answer) PROVE StaffSafe'
    BY <1>2, <1>3, <1>12 DEF Staff!Arrive
  <1>13. CASE Staff!OpenPage
    BY <1>2, <1>3, <1>13 DEF Staff!OpenPage
  <1>14. CASE Staff!Boot
    <2>1. \A a \in Account : moderator'[a] = moderator[a]
      BY <1>1, <1>14 DEF Staff!Boot, Staff!StaffConstants, Staff!Person
    <2>2. Staff!Admins' = Staff!Admins
      BY <2>1 DEF Staff!Admins
    <2>3. \A p \in Staff!Person : asked'[p].step # "write"
      BY <1>14, IdleIsRequest DEF Staff!Boot
    <2> QED
      BY <1>2, <1>14, <2>2, <2>3 DEF Staff!Boot
  <1>15. CASE UNCHANGED Staff!vars
    BY <1>2, <1>3, <1>15 DEF Staff!vars
  <1> QED
    BY <1>6, <1>7, <1>8, <1>9, <1>10, <1>11, <1>12, <1>13, <1>14, <1>15 DEF Staff!Next, Staff!Handle

\* However the requests on the accounts interleave, fail or are cut off by a restart: as
\* long as no two removals are past their counts at the same time, an admin other than
\* the root one remains.  The types come with it.
THEOREM StaffInvariant == ASSUME Staff!StaffConstants PROVE Staff!Spec => []StaffInv
  <1>1. StaffInv /\ [Staff!Next]_(Staff!vars) => StaffInv'
    BY NextTyped, NextSafe DEF StaffInv
  <1> QED
    BY <1>1, StaffInit, PTL DEF Staff!Spec

\* What the invariant is for: the types, and the admin who remains.
THEOREM AdminsRemain == ASSUME Staff!StaffConstants
PROVE Staff!Spec => [](Staff!TypeOK /\ Staff!AnAdminRemains)
  <1>1. StaffInv => Staff!TypeOK /\ Staff!AnAdminRemains
    BY DEF StaffInv, StaffSafe, Staff!AnAdminRemains
  <1> QED
    BY <1>1, StaffInvariant, PTL

-----------------------------------------------------------------------------
(* The sessions of a candidate.                                            *)

Visit == [op : {"none", "link", "register", "login", "forgot", "verify", "confirm"},
          step : Candidate!Step, link : 0..MaxLinks, password : Password \union {None},
          session : Candidate!Session, seen : SUBSET Candidate!Link]

\* A session of this account, by its id and version, was given for the password in force.
Current(s) == s.by # None /\ Candidate!Accepted(s) /\ ~overwritten => s.by = account.password

\* No session is of an account, or of a version of one, that is still to come.
Dated(s) == s.of <= account.id /\ (account.exists /\ s.of = account.id => s.version <= account.version)

\* The sessions in the browsers and those that requests are about to give.
SessionsSound ==
  \A p \in Browser : /\ Current(cookie[p]) /\ Dated(cookie[p])
                     /\ Current(visit[p].session) /\ Dated(visit[p].session)

\* A link signs in without a password.
LinksGiveNone == \A p \in Browser : visit[p].op = "verify" => visit[p].password = None

\* A link that is about to be mailed was made.
MailsAreOfLinks == \A p \in Browser : visit[p].step = "mail" => visit[p].link \in 1..Len(links)

CandidateInv == Candidate!TypeOK /\ SessionsSound /\ LinksGiveNone /\ MailsAreOfLinks

\* The links are a sequence, and stay the ones they are where a handler leaves them alone.
LEMMA LinksTyped ==
  ASSUME Candidate!TypeOK
  PROVE  /\ links \in Seq(Candidate!LinkRow) /\ Len(links) \in Nat /\ DOMAIN links = 1..Len(links)
         /\ Len(links) <= MaxLinks /\ mailbox \subseteq 1..Len(links) /\ Len(links) <= Len(links)
  <1>1. links \in Seq(Candidate!LinkRow) /\ Len(links) <= MaxLinks /\ mailbox \subseteq DOMAIN links
    BY DEF Candidate!TypeOK
  <1>2. Len(links) \in Nat /\ DOMAIN links = 1..Len(links)
    BY <1>1
  <1> QED
    BY <1>1, <1>2

LEMMA Kinds ==
  /\ Candidate!NoSession \in Candidate!Session /\ Candidate!Unknown \in Candidate!AccountRow
  /\ MaxLinks \in Nat => Candidate!Idle \in Visit
  BY DEF Candidate!NoSession, Candidate!Session, Candidate!Unknown, Candidate!AccountRow,
     Candidate!Idle, Visit, Candidate!Step, Candidate!Link

LEMMA IssuedIsSession ==
  ASSUME NEW row \in Candidate!AccountRow, NEW by \in Password \union {None}
  PROVE Candidate!Issued(row, by) \in Candidate!Session
  BY DEF Candidate!Issued, Candidate!Session, Candidate!AccountRow

\* While the account stays, a request moves on with a session that is sound.
LEMMA VisitMoves ==
  ASSUME CandidateInv, NEW p \in Browser, NEW v \in Visit, visit' = [visit EXCEPT ![p] = v],
         UNCHANGED <<account, cookie, overwritten>>,
         v.session = visit[p].session \/ (Current(v.session) /\ Dated(v.session)),
         v.op = "verify" => v.password = None, v.step = "mail" => v.link \in 1..Len(links'),
         links' \in Seq(Candidate!LinkRow), Len(links) <= Len(links')
  PROVE  visit' \in [Browser -> Visit] /\ SessionsSound' /\ LinksGiveNone' /\ MailsAreOfLinks'
  <1>1. visit \in [Browser -> Visit]
    BY DEF CandidateInv, Candidate!TypeOK, Visit
  <1>2. visit' \in [Browser -> Visit] /\ visit'[p] = v /\ \A q \in Browser \ {p} : visit'[q] = visit[q]
    BY <1>1
  <1>3. LinksGiveNone'
    BY <1>2 DEF CandidateInv, LinksGiveNone
  <1>4. \A s : (Current(s)' <=> Current(s)) /\ (Dated(s)' <=> Dated(s))
    BY DEF Current, Dated, Candidate!Accepted
  <1>5. SessionsSound'
    <2> SUFFICES ASSUME NEW q \in Browser
                 PROVE  /\ Current(cookie[q]) /\ Dated(cookie[q])
                        /\ Current(visit'[q].session) /\ Dated(visit'[q].session)
      BY <1>4 DEF SessionsSound
    <2> QED
      BY <1>2 DEF CandidateInv, SessionsSound
  <1>6. MailsAreOfLinks'
    BY <1>2 DEF CandidateInv, Candidate!TypeOK, MailsAreOfLinks
  <1> QED
    BY <1>2, <1>3, <1>5, <1>6

LEMMA CandidateInit == Candidate!AuthConstants /\ Candidate!Init => CandidateInv
  <1> SUFFICES ASSUME Candidate!AuthConstants, Candidate!Init PROVE CandidateInv
    OBVIOUS
  <1>1. Candidate!TypeOK
    <2>1. visit \in [Browser -> Visit]
      BY Kinds DEF Candidate!AuthConstants, Candidate!Init
    <2>2. links \in Seq(Candidate!LinkRow) /\ Len(links) = 0 /\ mailbox \subseteq DOMAIN links
      BY DEF Candidate!Init
    <2>3. account \in Candidate!AccountRow /\ cookie \in [Browser -> Candidate!Session]
      BY Kinds DEF Candidate!Init
    <2>4. overwritten \in BOOLEAN
      BY DEF Candidate!Init
    <2>5. requests \in 0..MaxRequests
      BY DEF Candidate!AuthConstants, Candidate!Init
    <2> QED
      BY <2>1, <2>2, <2>3, <2>4, <2>5 DEF Candidate!AuthConstants, Candidate!TypeOK, Visit
  <1>2. \A p \in Browser : cookie[p] = Candidate!NoSession /\ visit[p] = Candidate!Idle /\ Candidate!Idle.session = Candidate!NoSession
                           /\ Candidate!Idle.op = "none" /\ Candidate!Idle.step = "idle"
    BY DEF Candidate!Init, Candidate!Idle
  <1>3. Current(Candidate!NoSession) /\ Dated(Candidate!NoSession)
    BY DEF Current, Dated, Candidate!NoSession, Candidate!Init, Candidate!Unknown
  <1> QED
    BY <1>1, <1>2, <1>3 DEF CandidateInv, SessionsSound, LinksGiveNone, MailsAreOfLinks

\* Asking and refusing leave no session; the rest of a request keeps the one it has.
LEMMA RequestKeeps ==
  ASSUME Candidate!AuthConstants, CandidateInv, NEW p \in Browser, Candidate!Request(p)
  PROVE  CandidateInv'
  <1>1. PICK op \in {"link", "register", "login", "forgot", "verify", "confirm"},
             step \in {"check", "upsert"}, l \in 0..MaxLinks, pw \in Password \union {None} :
          Candidate!Ask(p, op, step, l, pw) /\ (op = "verify" => pw = None)
    <2>1. ASSUME NEW l \in DOMAIN links PROVE l \in 0..MaxLinks
      BY DEF CandidateInv, Candidate!TypeOK, Candidate!AuthConstants
    <2>2. 0 \in 0..MaxLinks
      BY DEF Candidate!AuthConstants
    <2> QED
      BY <2>1, <2>2
      DEF Candidate!Request, Candidate!AskLink, Candidate!AskReset, Candidate!AskRegister,
      Candidate!AskLogin, Candidate!OpenLink, Candidate!OpenReset
  <1> DEFINE v == [Candidate!Idle EXCEPT !.op = op, !.step = step, !.link = l, !.password = pw]
  <1>2. v \in Visit /\ v.session = Candidate!NoSession /\ v.op = op /\ v.password = pw
        /\ v.step = step
    BY DEF Candidate!Idle, Visit, Candidate!Step, Candidate!NoSession, Candidate!Session,
       Candidate!Link
  <1>3. visit' = [visit EXCEPT ![p] = v]
        /\ UNCHANGED <<account, links, mailbox, cookie, overwritten>>
    BY <1>1 DEF Candidate!Ask
  <1>5. requests' \in 0..MaxRequests
    BY <1>1 DEF Candidate!Ask, CandidateInv, Candidate!TypeOK, Candidate!AuthConstants
  <1>4. Current(Candidate!NoSession) /\ Dated(Candidate!NoSession)
    BY DEF Current, Dated, Candidate!NoSession, CandidateInv, Candidate!TypeOK, Candidate!AccountRow
  <1> HIDE DEF v
  <1> QED
    <2>1. visit' \in [Browser -> Visit] /\ SessionsSound' /\ LinksGiveNone' /\ MailsAreOfLinks'
      BY <1>1, <1>2, <1>3, <1>4, LinksTyped, VisitMoves DEF CandidateInv
    <2> QED
      BY <1>3, <1>5, <2>1 DEF CandidateInv, Candidate!TypeOK, Visit

\* Statements that touch neither the account nor a cookie.
LEMMA CandidateReadKeeps ==
  ASSUME Candidate!AuthConstants, CandidateInv, NEW p \in Browser,
         Candidate!Check(p) \/ Candidate!Consume(p)
  PROVE  CandidateInv'
  <1> DEFINE v == visit[p]
  <1>1. /\ visit \in [Browser -> Visit] /\ v \in Visit /\ account \in Candidate!AccountRow
        /\ v.op = "verify" => v.password = None
        /\ Current(v.session) /\ Dated(v.session)
    BY DEF CandidateInv, Candidate!TypeOK, Visit, LinksGiveNone, SessionsSound
  <1>2. UNCHANGED <<account, links, mailbox, cookie, overwritten, requests>>
    BY DEF Candidate!Check, Candidate!Consume
  <1> HIDE DEF v
  <1>3. ASSUME NEW w \in Visit, visit' = [visit EXCEPT ![p] = w],
               w.session = v.session \/ (Current(w.session) /\ Dated(w.session)),
               w.op = "verify" => w.password = None, w.step # "mail"
        PROVE  CandidateInv'
    <2>1. visit' \in [Browser -> Visit] /\ SessionsSound' /\ LinksGiveNone' /\ MailsAreOfLinks'
      BY <1>2, <1>3, LinksTyped, VisitMoves DEF CandidateInv, v
    <2> QED
      BY <1>2, <2>1 DEF CandidateInv, Candidate!TypeOK, Visit
  <1>4. ASSUME NEW l \in Candidate!Step, l # "mail", visit' = [visit EXCEPT ![p].step = l]
        PROVE  CandidateInv'
    <2>1. [v EXCEPT !.step = l] \in Visit /\ visit' = [visit EXCEPT ![p] = [v EXCEPT !.step = l]]
          /\ [v EXCEPT !.step = l].session = v.session
          /\ [v EXCEPT !.step = l].op = v.op /\ [v EXCEPT !.step = l].password = v.password
          /\ [v EXCEPT !.step = l].step = l
      BY <1>1, <1>4 DEF Visit, v
    <2> QED
      BY <1>1, <1>3, <1>4, <2>1
  <1>5. ASSUME visit' = [visit EXCEPT ![p] = Candidate!Idle]
        PROVE  CandidateInv'
    <2>1. Candidate!Idle \in Visit /\ Candidate!Idle.session = Candidate!NoSession
          /\ Candidate!Idle.op = "none" /\ Candidate!Idle.step = "idle"
      BY Kinds DEF Candidate!AuthConstants, Candidate!Idle
    <2>2. Current(Candidate!NoSession) /\ Dated(Candidate!NoSession)
      BY <1>1 DEF Current, Dated, Candidate!NoSession, Candidate!AccountRow
    <2> QED
      BY <1>3, <1>5, <2>1, <2>2
  <1>6. CASE Candidate!Consume(p)
    <2> DEFINE w == [v EXCEPT !.step = "create", !.seen =
                       {l \in DOMAIN links : Candidate!Of(l) /\ links[l].kind = Candidate!Kind(v.op) /\ links[l].live}]
    <2>1. DOMAIN links \subseteq Candidate!Link
      BY LinksTyped DEF CandidateInv, Candidate!Link, Candidate!AuthConstants
    <2>2. w \in Visit /\ visit' = [visit EXCEPT ![p] = w] /\ w.session = v.session
          /\ w.op = v.op /\ w.password = v.password /\ w.step = "create"
      BY <1>1, <1>6, <2>1 DEF Candidate!Consume, Visit, Candidate!Step, v
    <2> QED
      BY <1>1, <1>3, <2>2
  <1>7. CASE Candidate!Check(p)
    <2>1. ASSUME Candidate!Answer(p, Candidate!Issued(account, v.password)), v.op = "login",
                 account.password = v.password
          PROVE  CandidateInv'
      <3> DEFINE w == [v EXCEPT !.step = "answer", !.session = Candidate!Issued(account, v.password)]
      <3>1. w \in Visit /\ visit' = [visit EXCEPT ![p] = w] /\ w.op = "login" /\ w.step = "answer"
            /\ w.session = Candidate!Issued(account, v.password)
        BY <1>1, <2>1, IssuedIsSession DEF Candidate!Answer, Visit, Candidate!Step, v
      <3>2. Current(w.session) /\ Dated(w.session)
        BY <1>1, <2>1, <3>1 DEF Current, Dated, Candidate!Issued, Candidate!AccountRow
      <3> QED
        BY <1>3, <3>1, <3>2
    <2>2. \/ Candidate!Answer(p, Candidate!Issued(account, v.password)) /\ v.op = "login" /\ account.password = v.password
          \/ Candidate!Refuse(p) \/ \E l \in {"upsert", "consume", "use"} : Candidate!Goto(p, l)
      BY <1>7 DEF Candidate!Check, v
    <2> QED
      BY <1>4, <1>5, <2>1, <2>2 DEF Candidate!Refuse, Candidate!Goto, Candidate!Step
  <1> QED
    BY <1>6, <1>7

LinksSound == links \in Seq(Candidate!LinkRow) /\ Len(links) <= MaxLinks /\ mailbox \subseteq DOMAIN links

\* A request whose mail fails, or is not made, answers without it or refuses.
LEMMA MailKeeps ==
  ASSUME Candidate!AuthConstants, CandidateInv, NEW p \in Browser,
         Candidate!Create(p) \/ Candidate!Mail(p)
  PROVE  CandidateInv'
  <1> DEFINE v == visit[p]
  <1>1. /\ visit \in [Browser -> Visit] /\ v \in Visit /\ account \in Candidate!AccountRow
        /\ v.op = "verify" => v.password = None
        /\ v.step = "mail" => v.link \in 1..Len(links)
        /\ LinksSound /\ Len(links) \in Nat /\ DOMAIN links = 1..Len(links)
    BY LinksTyped
    DEF LinksSound, CandidateInv, Candidate!TypeOK, Visit, LinksGiveNone, MailsAreOfLinks
  <1>2. UNCHANGED <<account, cookie, overwritten, requests>>
    BY DEF Candidate!Create, Candidate!Mail
  <1> HIDE DEF v
  <1>3. ASSUME NEW w \in Visit, visit' = [visit EXCEPT ![p] = w], LinksSound',
               w.session \in {v.session, Candidate!NoSession}, w.op = "verify" => w.password = None,
               w.step = "mail" => w.link \in 1..Len(links'), Len(links) <= Len(links')
        PROVE  CandidateInv'
    <2>1. Current(Candidate!NoSession) /\ Dated(Candidate!NoSession)
      BY <1>1 DEF Current, Dated, Candidate!NoSession, Candidate!AccountRow
    <2> QED
      <3>1. visit' \in [Browser -> Visit] /\ SessionsSound' /\ LinksGiveNone' /\ MailsAreOfLinks'
        BY <1>1, <1>2, <1>3, <2>1, VisitMoves DEF CandidateInv, v, LinksSound
      <3> QED
        BY <1>2, <1>3, <3>1 DEF CandidateInv, Candidate!TypeOK, Visit, LinksSound
  <1>4. ASSUME Candidate!NoMail(p) \/ Candidate!Goto(p, "answer"), UNCHANGED links, LinksSound'
        PROVE  CandidateInv'
    <2>3. LinksSound' /\ Len(links) <= Len(links')
      BY <1>1, <1>4
    <2>1. CASE visit' = [visit EXCEPT ![p] = Candidate!Idle]
      <3>1. Candidate!Idle \in Visit /\ Candidate!Idle.session = Candidate!NoSession
            /\ Candidate!Idle.op = "none" /\ Candidate!Idle.step = "idle"
        BY Kinds DEF Candidate!AuthConstants, Candidate!Idle
      <3> QED
        BY <1>3, <2>1, <2>3, <3>1
    <2>2. CASE visit' = [visit EXCEPT ![p].step = "answer"]
      <3> DEFINE w == [v EXCEPT !.step = "answer"]
      <3>1. w \in Visit /\ visit' = [visit EXCEPT ![p] = w] /\ w.session = v.session
            /\ w.op = v.op /\ w.password = v.password /\ w.step = "answer"
        BY <1>1, <2>2 DEF Visit, Candidate!Step, v
      <3> QED
        BY <1>1, <1>3, <2>3, <3>1
    <2> QED
      BY <1>4, <2>1, <2>2 DEF Candidate!NoMail, Candidate!Goto, Candidate!Refuse
  <1>5. CASE Candidate!Mail(p)
    <2>1. v.link \in DOMAIN links /\ UNCHANGED links
      BY <1>1, <1>5 DEF Candidate!Mail, v
    <2>2. mailbox' \in {mailbox, mailbox \union {v.link}} /\ (Candidate!NoMail(p) \/ Candidate!Goto(p, "answer"))
      BY <1>5 DEF Candidate!Mail, v
    <2>3. LinksSound'
      BY <1>1, <2>1, <2>2 DEF LinksSound
    <2> QED
      BY <1>4, <2>1, <2>2, <2>3
  <1>6. CASE Candidate!Create(p)
    <2>1. CASE UNCHANGED links /\ Candidate!NoMail(p)
      <3>1. LinksSound'
        BY <1>1, <1>6, <2>1 DEF Candidate!Create, LinksSound
      <3> QED
        BY <1>4, <2>1, <3>1
    <2>2. CASE ~(UNCHANGED links /\ Candidate!NoMail(p))
      <3> DEFINE new  == [kind |-> Candidate!Kind(v.op), of |-> account.id, live |-> TRUE]
                 rest == [l \in DOMAIN links |-> [links[l] EXCEPT !.live = @ /\ l \notin v.seen]]
                 w    == [v EXCEPT !.step = "mail", !.link = Len(links) + 1, !.seen = {}]
      <3>1. links' = Append(rest, new) /\ Len(links) < MaxLinks /\ visit' = [visit EXCEPT ![p] = w]
            /\ mailbox' = mailbox
        BY <1>1, <1>6, <2>2 DEF Candidate!Create, v
      <3>2. new \in Candidate!LinkRow /\ rest \in Seq(Candidate!LinkRow)
            /\ Len(rest) = Len(links) /\ Len(links) \in Nat
        <4>1. new \in Candidate!LinkRow
          BY <1>1 DEF Candidate!LinkRow, Candidate!AccountRow, Candidate!Kind
        <4>2. ASSUME NEW l \in DOMAIN links PROVE rest[l] \in Candidate!LinkRow
          <5> DEFINE b == links[l].live /\ l \notin v.seen
          <5>1. links[l] \in Candidate!LinkRow /\ b \in BOOLEAN
            BY <1>1 DEF LinksSound
          <5>2. rest[l] = [links[l] EXCEPT !.live = b]
            BY <4>2
          <5> HIDE DEF b, rest
          <5> QED
            BY <5>1, <5>2 DEF Candidate!LinkRow
        <4>3. rest \in [1..Len(links) -> Candidate!LinkRow]
          BY <1>1, <4>2
        <4> HIDE DEF rest
        <4> QED
          BY <1>1, <4>1, <4>3
      <3>3. LinksSound'
        BY <1>1, <3>1, <3>2 DEF Candidate!AuthConstants, LinksSound
      <3>4. /\ w \in Visit /\ w.session = v.session /\ w.op = v.op /\ w.password = v.password
            /\ w.link \in 1..Len(links') /\ Len(links) <= Len(links')
        <4>1. Len(links') = Len(links) + 1
          BY <3>1, <3>2
        <4>2. Len(links) + 1 \in 0..MaxLinks
          BY <3>1, <3>2 DEF Candidate!AuthConstants
        <4>3. w \in Visit
          BY <1>1, <4>2 DEF Visit, Candidate!Step
        <4>4. /\ w.session = v.session /\ w.op = v.op /\ w.password = v.password
              /\ w.link = Len(links) + 1
          BY <1>1 DEF Visit
        <4> QED
          BY <1>1, <4>1, <4>3, <4>4
      <3> QED
        BY <1>1, <1>3, <3>1, <3>3, <3>4
    <2> QED
      BY <2>1, <2>2
  <1> QED
    BY <1>5, <1>6
(* Statements that change the account: what becomes of every session.      *)

\* When request p goes on with v, and every sound session stays sound.
LEMMA AccountChanges ==
  ASSUME CandidateInv, NEW p \in Browser, NEW v \in Visit, visit' = [visit EXCEPT ![p] = v],
         \A s \in Candidate!Session : Current(s) /\ Dated(s) => (Current(s) /\ Dated(s))',
         UNCHANGED cookie, v.op = visit[p].op, v.password = visit[p].password, v.step # "mail",
         Len(links') = Len(links),
         (Current(v.session) /\ Dated(v.session))'
  PROVE  visit' \in [Browser -> Visit] /\ SessionsSound' /\ LinksGiveNone' /\ MailsAreOfLinks'
  <1>1. visit \in [Browser -> Visit] /\ cookie \in [Browser -> Candidate!Session]
        /\ \A q \in Browser : visit[q].session \in Candidate!Session
    BY DEF CandidateInv, Candidate!TypeOK, Visit
  <1>2. visit' \in [Browser -> Visit] /\ visit'[p] = v /\ \A q \in Browser \ {p} : visit'[q] = visit[q]
    BY <1>1
  <1>3. ASSUME NEW q \in Browser
        PROVE  /\ (Current(cookie[q]) /\ Dated(cookie[q]))'
               /\ (Current(visit[q].session) /\ Dated(visit[q].session))'
    <2>1. cookie'[q] = cookie[q] /\ cookie[q] \in Candidate!Session /\ Current(cookie[q])
          /\ Dated(cookie[q])
      BY <1>1 DEF CandidateInv, SessionsSound
    <2>2. visit[q].session \in Candidate!Session /\ Current(visit[q].session)
          /\ Dated(visit[q].session)
      BY <1>1 DEF CandidateInv, SessionsSound
    <2>3. CASE q = p
      BY <1>2, <2>1, <2>3 DEF Current, Dated, Candidate!Accepted
    <2>4. CASE q # p
      BY <1>2, <2>1, <2>2, <2>4 DEF Current, Dated, Candidate!Accepted
    <2> QED
      BY <2>3, <2>4
  <1> QED
    BY <1>2, <1>3 DEF CandidateInv, SessionsSound, LinksGiveNone, MailsAreOfLinks

LEMMA UpsertKeeps ==
  ASSUME Candidate!AuthConstants, CandidateInv, NEW p \in Browser, Candidate!Upsert(p)
  PROVE  CandidateInv'
  <1> DEFINE v   == visit[p]
             row == [Candidate!Known EXCEPT !.password = IF v.op = "register" THEN v.password ELSE @]
             s1  == IF v.op = "register" THEN Candidate!Issued(row, v.password) ELSE Candidate!NoSession
             w   == [v EXCEPT !.step = "consume", !.session = s1]
  <1>1. /\ v \in Visit /\ account \in Candidate!AccountRow /\ overwritten \in BOOLEAN
    BY DEF CandidateInv, Candidate!TypeOK, Visit
  <1>2. /\ Candidate!Known \in Candidate!AccountRow /\ Candidate!Known.exists
        /\ account.exists => Candidate!Known = account
        /\ ~account.exists => Candidate!Known.id = account.id + 1
    <2>1. CASE account.exists
      BY <1>1, <2>1 DEF Candidate!Known
    <2>2. CASE ~account.exists
      <3>1. Candidate!Known = [id |-> account.id + 1, exists |-> TRUE, password |-> None, version |-> 0,
                     verified |-> FALSE]
        BY <2>2 DEF Candidate!Known, Candidate!Unknown
      <3> QED
        BY <1>1, <2>2, <3>1 DEF Candidate!AccountRow
    <2> QED
      BY <2>1, <2>2
  <1>3. /\ row \in Candidate!AccountRow /\ row.id = Candidate!Known.id /\ row.version = Candidate!Known.version /\ row.exists
        /\ row.password = IF v.op = "register" THEN v.password ELSE Candidate!Known.password
    BY <1>1, <1>2 DEF Candidate!AccountRow, Visit
  <1>4. account' = row /\ visit' = [visit EXCEPT ![p].step = "consume", ![p].session = s1]
        /\ (overwritten' <=> (overwritten \/ (v.op = "register" /\ account.password # None)))
        /\ UNCHANGED <<links, mailbox, cookie, requests>>
    BY DEF Candidate!Upsert
  <1>5. overwritten' \in BOOLEAN
    BY DEF Candidate!Upsert
  <1>6. s1 \in Candidate!Session
    BY <1>1, <1>3, Kinds, IssuedIsSession DEF Visit
  <1> HIDE DEF row, s1
  <1>7. /\ w \in Visit /\ visit' = [visit EXCEPT ![p] = w] /\ w.session = s1
        /\ w.op = v.op /\ w.password = v.password /\ w.step = "consume"
    BY <1>1, <1>4, <1>6 DEF Visit, Candidate!Step
  <1>8. ASSUME NEW s \in Candidate!Session, Current(s), Dated(s)
        PROVE  (Current(s) /\ Dated(s))'
    BY <1>1, <1>2, <1>3, <1>4, <1>8
    DEF Current, Dated, Candidate!Accepted, Candidate!AccountRow, Candidate!Session
  <1>9. PICK x \in Candidate!Session : x = s1
    BY <1>6
  <1>10. (Current(x) /\ Dated(x))'
    <2>1. CASE v.op = "register"
      BY <1>3, <1>4, <1>9, <2>1 DEF s1, Current, Dated, Candidate!Issued, Candidate!AccountRow
    <2>2. CASE v.op # "register"
      BY <1>3, <1>4, <1>9, <2>2 DEF s1, Current, Dated, Candidate!NoSession, Candidate!AccountRow
    <2> QED
      BY <2>1, <2>2
  <1>12. PICK y \in Visit : y = w
    BY <1>7
  <1> HIDE DEF w
  <1>11. visit' \in [Browser -> Visit] /\ SessionsSound' /\ LinksGiveNone' /\ MailsAreOfLinks'
    BY <1>4, <1>7, <1>8, <1>9, <1>10, <1>12, AccountChanges DEF v
  <1> QED
    BY <1>3, <1>4, <1>5, <1>11 DEF CandidateInv, Candidate!TypeOK, Visit

\* A link signs in; a reset ends every session by a new version and gives one of that.
LEMMA UseKeeps ==
  ASSUME Candidate!AuthConstants, CandidateInv, NEW p \in Browser, Candidate!Use(p)
  PROVE  CandidateInv'
  <1> DEFINE v   == visit[p]
             row == IF v.op = "verify" THEN [account EXCEPT !.verified = TRUE] ELSE Candidate!Reset(account, v.password)
             s1  == Candidate!Issued(row, v.password)
             w   == [v EXCEPT !.step = "answer", !.session = s1]
  <1>1. /\ visit \in [Browser -> Visit] /\ v \in Visit /\ account \in Candidate!AccountRow
        /\ overwritten \in BOOLEAN /\ links \in Seq(Candidate!LinkRow)
        /\ v.op = "verify" => v.password = None
    BY DEF CandidateInv, Candidate!TypeOK, Visit, LinksGiveNone
  <1>2. UNCHANGED <<mailbox, cookie, requests>>
    BY DEF Candidate!Use
  <1>3. CASE ~Candidate!Of(v.link)
    <2>1. UNCHANGED <<account, links, overwritten>> /\ visit' = [visit EXCEPT ![p] = Candidate!Idle]
      BY <1>3 DEF Candidate!Use, Candidate!Refuse
    <2>2. /\ Candidate!Idle \in Visit /\ Candidate!Idle.session = Candidate!NoSession /\ Candidate!Idle.op = "none" /\ Candidate!Idle.step = "idle"
          /\ Current(Candidate!NoSession) /\ Dated(Candidate!NoSession)
      BY <1>1, Kinds
      DEF Candidate!AuthConstants, Candidate!Idle, Current, Dated, Candidate!NoSession,
      Candidate!AccountRow
    <2>3. visit' \in [Browser -> Visit] /\ SessionsSound' /\ LinksGiveNone' /\ MailsAreOfLinks'
      BY <1>1, <1>2, <2>1, <2>2, LinksTyped, VisitMoves DEF CandidateInv
    <2> QED
      BY <1>2, <2>1, <2>3 DEF CandidateInv, Candidate!TypeOK, Visit
  <1>4. CASE Candidate!Of(v.link)
    <2>1. /\ account' = row /\ visit' = [visit EXCEPT ![p].step = "answer", ![p].session = s1]
          /\ links' = [links EXCEPT ![v.link].live = FALSE]
          /\ overwritten' = (overwritten /\ v.op = "verify") /\ account.exists
      BY <1>4 DEF Candidate!Use, Candidate!Answer, Candidate!Of
    <2>2. /\ row \in Candidate!AccountRow /\ row.id = account.id /\ row.exists
          /\ v.op = "verify" => row.version = account.version /\ row.password = account.password
          /\ v.op # "verify" => row.version = account.version + 1 /\ row.password = v.password
      <3>1. CASE v.op = "verify"
        <4>1. row = [account EXCEPT !.verified = TRUE]
          BY <3>1
        <4> HIDE DEF row
        <4> QED
          BY <1>1, <2>1, <3>1, <4>1 DEF Candidate!AccountRow
      <3>2. CASE v.op # "verify"
        <4>1. row = [account EXCEPT !.password = v.password, !.version = @ + 1]
          BY <3>2 DEF Candidate!Reset
        <4>2. v.password \in Password \union {None}
          BY <1>1 DEF Visit
        <4>3. row = [account EXCEPT !.password = v.password, !.version = account.version + 1]
              /\ account.version + 1 \in Nat
          BY <1>1, <4>1 DEF Candidate!AccountRow
        <4> HIDE DEF row, v
        <4> QED
          BY <1>1, <2>1, <3>2, <4>2, <4>3 DEF Candidate!AccountRow
      <3> QED
        BY <3>1, <3>2
    <2>3. s1 \in Candidate!Session
      BY <1>1, <2>2, IssuedIsSession DEF Visit
    <2> HIDE DEF row, s1
    <2>4. /\ w \in Visit /\ visit' = [visit EXCEPT ![p] = w] /\ w.session = s1
          /\ w.op = v.op /\ w.password = v.password /\ w.step = "answer"
      BY <1>1, <2>1, <2>3 DEF Visit, Candidate!Step
    <2>5. overwritten' \in BOOLEAN /\ (overwritten' <=> (overwritten /\ v.op = "verify"))
      BY <2>1
    <2>6. ASSUME NEW s \in Candidate!Session, Current(s), Dated(s)
          PROVE  (Current(s) /\ Dated(s))'
      BY <1>1, <2>1, <2>2, <2>5, <2>6
      DEF Current, Dated, Candidate!Accepted, Candidate!AccountRow, Candidate!Session
    <2>7. PICK x \in Candidate!Session : x = s1
      BY <2>3
    <2>8. (Current(x) /\ Dated(x))'
      BY <1>1, <2>1, <2>2, <2>7 DEF s1, Current, Dated, Candidate!Issued, Candidate!AccountRow
    <2>9. PICK y \in Visit : y = w
      BY <2>4
    <2> HIDE DEF w
    <2>10. links' \in Seq(Candidate!LinkRow) /\ Len(links') = Len(links)
      <3> DEFINE old == links[v.link]
      <3>1. CASE v.link \in DOMAIN links
        <4>1. links[v.link] \in Candidate!LinkRow
          BY <1>1, <3>1
        <4>2. [links[v.link] EXCEPT !.live = FALSE] \in Candidate!LinkRow
          BY <4>1 DEF Candidate!LinkRow
        <4> QED
          BY <1>1, <2>1, <3>1, <4>2
      <3>2. CASE v.link \notin DOMAIN links
        <4>1. DOMAIN links = 1..Len(links)
          BY <1>1
        <4>2. DOMAIN links' = 1..Len(links)
          BY <4>1, <2>1
        <4>3. \A i \in 1..Len(links) : links'[i] = links[i]
          BY <4>1, <2>1, <3>2
        <4>4. links' = [i \in DOMAIN links' |-> links'[i]]
          BY <2>1
        <4>5. links' = [i \in 1..Len(links) |-> links[i]]
          BY <4>2, <4>3, <4>4
        <4>6. links = [i \in 1..Len(links) |-> links[i]]
          BY <1>1
        <4> QED
          BY <1>1, <4>5, <4>6
      <3> QED
        BY <3>1, <3>2
    <2>11. visit' \in [Browser -> Visit] /\ SessionsSound' /\ LinksGiveNone' /\ MailsAreOfLinks'
      BY <1>2, <2>4, <2>6, <2>7, <2>8, <2>9, <2>10, AccountChanges DEF v
    <2>12. Len(links') <= MaxLinks /\ mailbox' \subseteq DOMAIN links'
      BY <1>2, <2>10, LinksTyped DEF CandidateInv
    <2> QED
      BY <1>2, <2>1, <2>2, <2>5, <2>10, <2>11, <2>12 DEF CandidateInv, Candidate!TypeOK, Visit
  <1> QED
    BY <1>3, <1>4

\* A cookie is replaced by the session of an answer, or removed.
LEMMA CookieKeeps ==
  ASSUME Candidate!AuthConstants, CandidateInv, NEW p \in Browser,
         Candidate!Respond(p) \/ Candidate!Logout(p)
  PROVE  CandidateInv'
  <1>1. /\ visit \in [Browser -> Visit] /\ cookie \in [Browser -> Candidate!Session] /\ account \in Candidate!AccountRow
        /\ visit[p].session \in Candidate!Session /\ Current(visit[p].session) /\ Dated(visit[p].session)
    BY DEF CandidateInv, Candidate!TypeOK, Visit, SessionsSound
  <1>2. UNCHANGED <<account, links, mailbox, overwritten, requests>>
    BY DEF Candidate!Respond, Candidate!Logout
  <1>3. Candidate!NoSession \in Candidate!Session /\ Current(Candidate!NoSession)
        /\ Dated(Candidate!NoSession)
    BY <1>1, Kinds DEF Current, Dated, Candidate!NoSession, Candidate!AccountRow
  <1>4. /\ Candidate!Idle \in Visit /\ Candidate!Idle.session = Candidate!NoSession /\ Candidate!Idle.op = "none" /\ Candidate!Idle.step = "idle"
    BY Kinds DEF Candidate!AuthConstants, Candidate!Idle
  <1>5. PICK s \in Candidate!Session : cookie' \in {cookie, [cookie EXCEPT ![p] = s]}
        /\ Current(s) /\ Dated(s)
    BY <1>1, <1>3 DEF Candidate!Respond, Candidate!Logout
  <1>6. visit' \in {visit, [visit EXCEPT ![p] = Candidate!Idle]}
    BY DEF Candidate!Respond, Candidate!Logout, Candidate!Refuse
  <1>7. \A x : (Current(x)' <=> Current(x)) /\ (Dated(x)' <=> Dated(x))
    BY <1>2 DEF Current, Dated, Candidate!Accepted
  <1>8. \A q \in Browser : /\ Current(cookie'[q]) /\ Dated(cookie'[q])
                           /\ Current(visit'[q].session) /\ Dated(visit'[q].session)
    BY <1>1, <1>3, <1>4, <1>5, <1>6 DEF CandidateInv, SessionsSound
  <1>9. SessionsSound'
    BY <1>7, <1>8 DEF SessionsSound
  <1>10. visit' \in [Browser -> Visit] /\ cookie' \in [Browser -> Candidate!Session]
    BY <1>1, <1>4, <1>5, <1>6
  <1>11. LinksGiveNone' /\ MailsAreOfLinks'
    BY <1>1, <1>2, <1>4, <1>6 DEF CandidateInv, LinksGiveNone, MailsAreOfLinks
  <1> QED
    BY <1>2, <1>9, <1>10, <1>11 DEF CandidateInv, Candidate!TypeOK, Visit

LEMMA EraseKeeps ==
  ASSUME Candidate!AuthConstants, CandidateInv, NEW p \in Browser, Candidate!Erase(p)
  PROVE  CandidateInv'
  <1>1. /\ visit \in [Browser -> Visit] /\ cookie \in [Browser -> Candidate!Session] /\ account \in Candidate!AccountRow
        /\ requests \in 0..MaxRequests
    BY DEF CandidateInv, Candidate!TypeOK, Visit
  <1>2. account' = [Candidate!Unknown EXCEPT !.id = account.id]
        /\ cookie' = [cookie EXCEPT ![p] = Candidate!NoSession]
        /\ requests' = requests + 1 /\ requests < MaxRequests
        /\ UNCHANGED <<links, mailbox, visit, overwritten>>
    BY DEF Candidate!Erase
  <1>3. account' \in Candidate!AccountRow /\ ~account'.exists /\ account'.id = account.id
    BY <1>1, <1>2, Kinds DEF Candidate!AccountRow, Candidate!Unknown
  <1>4. cookie' \in [Browser -> Candidate!Session] /\ \A q \in Browser : cookie'[q] \in {cookie[q], Candidate!NoSession}
    BY <1>1, <1>2, Kinds
  <1>5. \A x : Current(x)' /\ (x.of <= account.id => Dated(x)')
    BY <1>3 DEF Current, Dated, Candidate!Accepted
  <1>6. \A q \in Browser : cookie'[q].of <= account.id /\ visit'[q].session.of <= account.id
    BY <1>1, <1>2, <1>4
    DEF CandidateInv, SessionsSound, Dated, Candidate!NoSession, Candidate!AccountRow
  <1>7. SessionsSound'
    BY <1>5, <1>6 DEF SessionsSound
  <1>8. requests' \in 0..MaxRequests
    BY <1>1, <1>2 DEF Candidate!AuthConstants
  <1> QED
    BY <1>2, <1>3, <1>4, <1>7, <1>8
    DEF CandidateInv, Candidate!TypeOK, LinksGiveNone, MailsAreOfLinks

LEMMA ExpireKeeps ==
  ASSUME Candidate!AuthConstants, CandidateInv, NEW l \in DOMAIN links, Candidate!Expire(l)
  PROVE  CandidateInv'
  <1>1. links' = [links EXCEPT ![l].live = FALSE]
        /\ UNCHANGED <<account, mailbox, visit, cookie, overwritten, requests>>
    BY DEF Candidate!Expire
  <1>2. links \in Seq(Candidate!LinkRow) /\ links[l] \in Candidate!LinkRow
    BY LinksTyped DEF CandidateInv
  <1>3. [links[l] EXCEPT !.live = FALSE] \in Candidate!LinkRow
    BY <1>2 DEF Candidate!LinkRow
  <1>4. links' \in Seq(Candidate!LinkRow) /\ Len(links') = Len(links)
        /\ DOMAIN links' = DOMAIN links
    BY <1>1, <1>2, <1>3
  <1>5. SessionsSound' /\ LinksGiveNone' /\ MailsAreOfLinks'
    BY <1>1, <1>4
    DEF CandidateInv, SessionsSound, LinksGiveNone, MailsAreOfLinks, Current, Dated,
    Candidate!Accepted
  <1> QED
    BY <1>1, <1>4, <1>5 DEF CandidateInv, Candidate!TypeOK

LEMMA CandidateStep == ASSUME Candidate!AuthConstants, CandidateInv,
                              [Candidate!Next]_(Candidate!vars) PROVE CandidateInv'
  <1>1. ASSUME NEW p \in Browser,
               Candidate!Request(p) \/ Candidate!Handle(p) \/ Candidate!Logout(p) \/ Candidate!Erase(p)
        PROVE  CandidateInv'
    BY <1>1, RequestKeeps, CandidateReadKeeps, MailKeeps, UpsertKeeps, UseKeeps, CookieKeeps,
       EraseKeeps DEF Candidate!Handle
  <1>2. CASE UNCHANGED Candidate!vars
    BY <1>2 DEF Candidate!vars, CandidateInv, Candidate!TypeOK, SessionsSound, LinksGiveNone,
       MailsAreOfLinks, Current, Dated, Candidate!Accepted
  <1> QED
    BY <1>1, <1>2, ExpireKeeps DEF Candidate!Next

\* However requests of the same account interleave, between every two statements: the
\* sessions in the browsers and the ones that are about to be given are of the password in
\* force or of a version that is no longer accepted.
THEOREM CandidateInvariant == ASSUME Candidate!AuthConstants PROVE Candidate!Spec => []CandidateInv
  <1>1. CandidateInv /\ [Candidate!Next]_(Candidate!vars) => CandidateInv'
    BY CandidateStep
  <1> QED
    BY <1>1, CandidateInit, PTL DEF Candidate!Spec

\* What the invariant is for: a session that is still accepted was given for the password
\* in force, until two registrations, or one and a reset, overlap.
THEOREM SessionsEndWithPasswords ==
  ASSUME Candidate!AuthConstants
  PROVE Candidate!Spec => [](Candidate!TypeOK /\ Candidate!PasswordSessionsAreCurrent)
  <1>1. CandidateInv => Candidate!TypeOK /\ Candidate!PasswordSessionsAreCurrent
    BY DEF CandidateInv, SessionsSound, Current, Candidate!PasswordSessionsAreCurrent
  <1> QED
    BY <1>1, CandidateInvariant, PTL

-----------------------------------------------------------------------------
(* What the throttles grant.                                               *)

\* The grants of all windows before the current one fill at most their limits, and the
\* current one has granted what it counts.
Filled(w, n) == w # Throttle!NoTally => n.granted <= Limit * (n.starts - 1) + w.count

ThrottleInv == Throttle!TypeOK /\ Throttle!GrantsAreBounded /\ Filled(tally, edits) /\ Filled(memory, attempts)

\* One more window, and the one before, in the product with the limit.
LEMMA OneMore ==
  ASSUME NEW L \in Nat, NEW s \in Int
  PROVE  L * (s + 1) = L * s + L /\ L * (s - 1) + L = L * s /\ L * ((s + 1) - 1) = L * s
  BY SMT

\* recordAttemptIfAllowed() and recordAttempt() change a count in two ways: they start a
\* window, or grant one more in a window that is not full.  Both keep what the windows
\* grant within the limits.
LEMMA StartKeeps ==
  ASSUME Throttle!ThrottleConstants, NEW n \in Throttle!Totals, n.granted <= Limit * n.starts,
         NEW t \in Nat
  PROVE  /\ Throttle!Restarted(n) \in Throttle!Totals
         /\ Throttle!Restarted(n).granted <= Limit * Throttle!Restarted(n).starts
         /\ Throttle!Count(1, t) \in Throttle!Counted /\ Filled(Throttle!Count(1, t), Throttle!Restarted(n))
  <1>1. Limit \in Nat /\ Limit >= 1
    BY DEF Throttle!ThrottleConstants
  <1>2. Limit * (n.starts + 1) = Limit * n.starts + Limit
        /\ Limit * ((n.starts + 1) - 1) = Limit * n.starts
    BY <1>1, OneMore DEF Throttle!Totals
  <1>3. Limit * n.starts \in Int
    BY <1>1 DEF Throttle!Totals
  <1>4. /\ Throttle!Restarted(n).granted = n.granted + 1
        /\ Throttle!Restarted(n).starts = n.starts + 1
    BY DEF Throttle!Restarted, Throttle!Totals
  <1>5. Throttle!Restarted(n) \in Throttle!Totals
    BY DEF Throttle!Restarted, Throttle!Totals
  <1>6. Throttle!Restarted(n).granted <= Limit * Throttle!Restarted(n).starts
    BY <1>1, <1>2, <1>3, <1>4 DEF Throttle!Totals
  <1>7. Throttle!Count(1, t) \in Throttle!Counted /\ Throttle!Count(1, t).count = 1
    BY <1>1 DEF Throttle!Count, Throttle!Counted
  <1>8. Filled(Throttle!Count(1, t), Throttle!Restarted(n))
    BY <1>1, <1>2, <1>3, <1>4, <1>7 DEF Filled, Throttle!Totals
  <1> QED
    BY <1>5, <1>6, <1>7, <1>8

LEMMA GrantKeeps ==
  ASSUME Throttle!ThrottleConstants, NEW n \in Throttle!Totals, NEW w \in Throttle!Counted,
         w # Throttle!NoTally, w.count < Limit,
         n.granted <= Limit * n.starts, Filled(w, n)
  PROVE  /\ Throttle!Granted(n) \in Throttle!Totals /\ Throttle!Granted(n).granted <= Limit * Throttle!Granted(n).starts
         /\ [w EXCEPT !.count = @ + 1] \in Throttle!Counted
         /\ Filled([w EXCEPT !.count = @ + 1], Throttle!Granted(n))
  <1>1. Limit \in Nat /\ Limit >= 1
    BY DEF Throttle!ThrottleConstants
  <1>2. Limit * (n.starts - 1) + Limit = Limit * n.starts
    BY <1>1, OneMore DEF Throttle!Totals
  <1>3. Limit * n.starts \in Int /\ Limit * (n.starts - 1) \in Int
    BY <1>1 DEF Throttle!Totals
  <1>4. Throttle!Granted(n).granted = n.granted + 1 /\ Throttle!Granted(n).starts = n.starts
        /\ Throttle!Granted(n) \in Throttle!Totals
    BY DEF Throttle!Granted, Throttle!Totals
  <1>5. n.granted <= Limit * (n.starts - 1) + w.count
    BY DEF Filled
  <1>6. [w EXCEPT !.count = @ + 1] \in Throttle!Counted
        /\ [w EXCEPT !.count = @ + 1].count = w.count + 1
    BY <1>1 DEF Throttle!Counted
  <1>7. Throttle!Granted(n).granted <= Limit * Throttle!Granted(n).starts
    BY <1>1, <1>2, <1>3, <1>4, <1>5 DEF Throttle!Totals, Throttle!Counted
  <1>8. Filled([w EXCEPT !.count = @ + 1], Throttle!Granted(n))
    BY <1>3, <1>4, <1>5, <1>6 DEF Filled, Throttle!Totals, Throttle!Counted
  <1> QED
    BY <1>4, <1>6, <1>7, <1>8

\* The table is empty at first, and nothing is granted.
LEMMA ThrottleInit == ASSUME Throttle!ThrottleConstants, Throttle!Init PROVE ThrottleInv
  <1>1. Limit \in Nat /\ Window \in Nat /\ Limit * 0 = 0
    BY DEF Throttle!ThrottleConstants
  <1>2. Throttle!TypeOK
    BY <1>1 DEF Throttle!Init, Throttle!TypeOK, Throttle!Counted, Throttle!Totals,
       Throttle!NoTally, Throttle!Waiting
  <1>3. Throttle!GrantsAreBounded
    BY <1>1 DEF Throttle!Init, Throttle!GrantsAreBounded
  <1> QED
    BY <1>2, <1>3 DEF ThrottleInv, Throttle!Init, Filled

LEMMA ThrottleStep == ASSUME Throttle!ThrottleConstants, ThrottleInv,
                             [Throttle!Next]_(Throttle!vars) PROVE ThrottleInv'
  <1> USE DEF ThrottleInv, Throttle!table, Throttle!local
  <1>1. Limit \in Nat /\ Limit >= 1 /\ Window \in Nat
    BY DEF Throttle!ThrottleConstants
  <1> DEFINE Steps == {"idle", "bump", "read", "start"}
             Calls == [Caller -> [step : Steps, now : Nat]]
  <1>2. CASE UNCHANGED <<tally, edits, memory, attempts>> /\ clock' \in Nat /\ caller' \in Calls
    BY <1>2 DEF Throttle!TypeOK, Throttle!GrantsAreBounded, Filled
  <1>3. Throttle!Waiting \in [step : Steps, now : Nat]
    BY DEF Throttle!Waiting
  <1>4. CASE Throttle!Tick
    BY <1>2, <1>4 DEF Throttle!Tick, Throttle!TypeOK
  <1>5. ASSUME NEW p \in Caller, Throttle!Enter(p) PROVE ThrottleInv'
    BY <1>2, <1>5 DEF Throttle!Enter, Throttle!TypeOK
  <1>6. ASSUME NEW p \in Caller, Throttle!Bump(p) PROVE ThrottleInv'
    <2>1. caller' \in Calls /\ clock' = clock
      BY <1>3, <1>6 DEF Throttle!Bump, Throttle!TypeOK
    <2>2. CASE ~Throttle!Bumpable(caller[p].now)
      BY <1>2, <1>6, <2>1, <2>2 DEF Throttle!Bump, Throttle!TypeOK
    <2>3. CASE Throttle!Bumpable(caller[p].now)
      <3>1. tally' = [tally EXCEPT !.count = @ + 1] /\ edits' = Throttle!Granted(edits)
            /\ UNCHANGED <<memory, attempts>>
        BY <1>6, <2>3 DEF Throttle!Bump
      <3>2. tally # Throttle!NoTally /\ tally.count < Limit
        BY <1>1, <2>3
        DEF Throttle!Bumpable, Throttle!Current, Throttle!NoTally, Throttle!TypeOK, Throttle!Counted
      <3> QED
        BY <2>1, <3>1, <3>2, GrantKeeps DEF Throttle!TypeOK, Throttle!GrantsAreBounded, Filled
    <2> QED
      BY <2>2, <2>3
  <1>7. ASSUME NEW p \in Caller, Throttle!Read(p) PROVE ThrottleInv'
    <2>1. caller' \in Calls
      BY <1>3, <1>7 DEF Throttle!Read, Throttle!TypeOK
    <2> QED
      BY <1>2, <1>7, <2>1 DEF Throttle!Read, Throttle!TypeOK
  <1>8. ASSUME NEW p \in Caller, Throttle!Start(p) PROVE ThrottleInv'
    <2>1. caller' \in Calls /\ clock' = clock /\ caller[p].now \in Nat
      BY <1>3, <1>8 DEF Throttle!Start, Throttle!TypeOK
    <2>2. tally' = Throttle!Count(1, caller[p].now) /\ edits' = Throttle!Restarted(edits)
          /\ UNCHANGED <<memory, attempts>>
      BY <1>8 DEF Throttle!Start
    <2> QED
      BY <2>1, <2>2, StartKeeps DEF Throttle!TypeOK, Throttle!GrantsAreBounded, Filled
  <1>9. ASSUME NEW p \in Caller, Throttle!Lose(p) PROVE ThrottleInv'
    <2>1. caller' \in Calls
      BY <1>3, <1>9 DEF Throttle!Lose, Throttle!TypeOK
    <2> QED
      BY <1>2, <1>9, <2>1 DEF Throttle!Lose, Throttle!TypeOK
  <1>10. CASE Throttle!Attempt
    <2>1. clock' = clock /\ UNCHANGED <<tally, caller, edits>>
      BY <1>10 DEF Throttle!Attempt
    <2>2. CASE memory = Throttle!NoTally \/ Throttle!Elapsed(memory)
      <3>1. memory' = Throttle!Count(1, clock) /\ attempts' = Throttle!Restarted(attempts)
        BY <1>10, <2>2 DEF Throttle!Attempt
      <3> QED
        BY <2>1, <3>1, StartKeeps DEF Throttle!TypeOK, Throttle!GrantsAreBounded, Filled
    <2>3. CASE ~(memory = Throttle!NoTally \/ Throttle!Elapsed(memory))
      <3>1. memory' = [memory EXCEPT !.count = @ + 1] /\ attempts' = Throttle!Granted(attempts)
        BY <1>10, <2>3 DEF Throttle!Attempt
      <3>2. memory # Throttle!NoTally /\ memory.count < Limit
        BY <1>1, <1>10, <2>3
        DEF Throttle!Attempt, Throttle!Blocked, Throttle!TypeOK, Throttle!Counted
      <3> QED
        BY <2>1, <3>1, <3>2, GrantKeeps DEF Throttle!TypeOK, Throttle!GrantsAreBounded, Filled
    <2> QED
      BY <2>2, <2>3
  <1>11. CASE Throttle!Restart
    <2>1. Throttle!NoTally \in Throttle!Counted
      BY <1>1 DEF Throttle!NoTally, Throttle!Counted
    <2> QED
      BY <1>11, <2>1 DEF Throttle!Restart, Throttle!TypeOK, Throttle!GrantsAreBounded, Filled
  <1>12. CASE UNCHANGED Throttle!vars
    BY <1>2, <1>12 DEF Throttle!vars, Throttle!TypeOK
  <1> QED
    BY <1>4, <1>5, <1>6, <1>7, <1>8, <1>9, <1>10, <1>11, <1>12 DEF Throttle!Next

\* Nothing but the windows that are started lets requests through: whatever the requests
\* of a candidate do at the same time, and whenever the api restarts, each window grants
\* at most the limit.  The inductive invariant has the types too.
THEOREM ThrottleInvariant == ASSUME Throttle!ThrottleConstants PROVE Throttle!Spec => []ThrottleInv
  BY ThrottleInit, ThrottleStep, PTL DEF Throttle!Spec

\* The counts of both throttles keep to their limits.
THEOREM GrantsBounded == ASSUME Throttle!ThrottleConstants
PROVE Throttle!Spec => [](Throttle!TypeOK /\ Throttle!GrantsAreBounded)
  <1>1. ThrottleInv => Throttle!TypeOK /\ Throttle!GrantsAreBounded
    BY DEF ThrottleInv
  <1> QED
    BY <1>1, ThrottleInvariant, PTL

-----------------------------------------------------------------------------
(* What an erasure leaves.                                                 *)

TableOf(r) == IF r \in RoundRating THEN "ratings" ELSE "others"

\* The transaction takes every row, and nothing adds one without its candidate.
NothingLeft == ~owner => /\ \A r \in Rating : ~Erase!HasRow(r)
                         /\ \A p \in Process : process[p] = "none"

\* The erasure reads and deletes for a candidate that is there, after all reads.
PhasesFollow == /\ eraser.step \in {"read", "delete"} => owner
                /\ eraser.step = "purge" => ~owner
                /\ eraser.step = "delete" => eraser.left = {}

\* Until then entries have their ratings, each request finds its rating as it left it,
\* and a document that is not of an approved rating is one of an earlier text.
RowsStand ==
  owner => \A r \in Rating :
    /\ r \in queued => Erase!HasRow(r)
    /\ work[r] = "submit" => rating[r] = "unused"
    /\ work[r] = "decide" => rating[r] = "pending"
    /\ work[r] \in {"fetch", "index"} => rating[r] = "approved"
    /\ r \in public \ edited => rating[r] = "approved"

\* Only ratings of rounds are on their way into the index.
RoundsAreIndexed == \A r \in Rating : work[r] \in {"fetch", "index"} => r \in RoundRating

\* What the erasure has read is all there is of the tables it has read.
ReadsAreComplete ==
  eraser.step \in {"read", "delete"} =>
    \A r \in Rating \ missed :
      /\ Erase!HasRow(r) /\ TableOf(r) \notin eraser.left => r \in eraser.ids
      /\ r \in public \ edited /\ "ratings" \notin eraser.left => r \in eraser.shown

\* What it has not taken out yet.
RemainsAreKnown ==
  ~owner => /\ queued \subseteq missed
            /\ public \subseteq missed \cup edited \cup (IF eraser.step = "purge" THEN eraser.shown ELSE {})

ErasureSafe == /\ NothingLeft /\ PhasesFollow /\ RowsStand /\ RoundsAreIndexed
        /\ ReadsAreComplete /\ RemainsAreKnown

ErasureInv == Erase!TypeOK /\ ErasureSafe

Eraser == [step : {"idle", "read", "delete", "purge"}, left : SUBSET Erase!Table,
           ids : SUBSET Rating, shown : SUBSET RoundRating, homes : SUBSET Process]

LEMMA UnreadTyped == Erase!Unread \in Eraser
  BY DEF Erase!Unread, Eraser, Erase!Table

LEMMA ErasureInit == Erase!ErasureConstants /\ Erase!Init => ErasureInv
  <1> SUFFICES ASSUME Erase!ErasureConstants, Erase!Init PROVE ErasureInv
    OBVIOUS
  <1>1. Erase!TypeOK
    <2>1. eraser \in Eraser /\ owner \in BOOLEAN
      BY UnreadTyped DEF Erase!Init
    <2> QED
      BY <2>1 DEF Erase!Init, Erase!TypeOK, Erase!ErasureConstants, Eraser, Erase!Kinds
  <1>2. owner /\ eraser.step = "idle"
    BY DEF Erase!Init, Erase!Unread
  <1>3. RowsStand
    BY DEF Erase!Init, RowsStand
  <1>4. RoundsAreIndexed
    BY DEF Erase!Init, RoundsAreIndexed
  <1> QED
    BY <1>1, <1>2, <1>3, <1>4
    DEF ErasureInv, ErasureSafe, NothingLeft, PhasesFollow, ReadsAreComplete, RemainsAreKnown

(* Requests on one rating leave the others, the candidate, the processes   *)
(* and the erasure alone.                                                  *)

\* It is enough to look at that rating, and after the begin of an erasure not even at it.
LEMMA RatingStep ==
  ASSUME Erase!TypeOK, ErasureSafe, NEW r \in Rating, UNCHANGED <<owner, process, eraser>>,
         \A q \in Rating \ {r} :
           /\ rating'[q] = rating[q] /\ work'[q] = work[q]
           /\ q \in queued' <=> q \in queued
           /\ q \in public' <=> q \in public
           /\ q \in edited' <=> q \in edited
           /\ q \in missed' <=> q \in missed,
         Erase!Erasing => r \in missed',
         queued' \subseteq Rating, public' \subseteq Rating,
         ~owner => ~Erase!HasRow(r)',
         work'[r] \in {"fetch", "index"} => r \in RoundRating,
         owner => /\ r \in queued' => Erase!HasRow(r)'
                  /\ work'[r] = "submit" => rating'[r] = "unused"
                  /\ work'[r] = "decide" => rating'[r] = "pending"
                  /\ work'[r] \in {"fetch", "index"} => rating'[r] = "approved"
                  /\ r \in public' \ edited' => rating'[r] = "approved"
  PROVE  ErasureSafe'
  <1>1. \A q \in Rating \ {r} : Erase!HasRow(q)' <=> Erase!HasRow(q)
    BY DEF Erase!HasRow
  <1>2. NothingLeft'
    BY <1>1 DEF ErasureSafe, NothingLeft
  <1>3. PhasesFollow'
    BY DEF ErasureSafe, PhasesFollow
  <1>4. RowsStand'
    <2> SUFFICES ASSUME owner, NEW q \in Rating
                 PROVE  /\ q \in queued' => Erase!HasRow(q)'
                        /\ work'[q] = "submit" => rating'[q] = "unused"
                        /\ work'[q] = "decide" => rating'[q] = "pending"
                        /\ work'[q] \in {"fetch", "index"} => rating'[q] = "approved"
                        /\ q \in public' \ edited' => rating'[q] = "approved"
      BY DEF RowsStand
    <2> QED
      BY <1>1 DEF ErasureSafe, RowsStand
  <1>5. ReadsAreComplete'
    <2> SUFFICES ASSUME eraser.step \in {"read", "delete"}, NEW q \in Rating \ missed'
                 PROVE  /\ Erase!HasRow(q)' /\ TableOf(q) \notin eraser.left => q \in eraser.ids
                        /\ q \in public' \ edited' /\ "ratings" \notin eraser.left => q \in eraser.shown
      BY DEF ReadsAreComplete, TableOf
    <2>1. q # r /\ q \in Rating \ missed
      BY DEF Erase!Erasing
    <2> QED
      BY <1>1, <2>1 DEF ErasureSafe, ReadsAreComplete
  <1>6. RemainsAreKnown'
    <2> SUFFICES ASSUME ~owner
                 PROVE  /\ queued' \subseteq missed'
                        /\ public' \subseteq missed' \cup edited' \cup
                                             (IF eraser.step = "purge" THEN eraser.shown ELSE {})
      BY DEF RemainsAreKnown
    <2>1. r \in missed'
      BY DEF Erase!Erasing
    <2> QED
      BY <2>1 DEF ErasureSafe, RemainsAreKnown
  <1>7. RoundsAreIndexed'
    BY DEF ErasureSafe, RoundsAreIndexed
  <1> QED
    BY <1>2, <1>3, <1>4, <1>5, <1>6, <1>7 DEF ErasureSafe

\* The guard, the transaction and the index calls of a request on r.
LEMMA ContentKeeps ==
  ASSUME Erase!ErasureConstants, Erase!TypeOK, ErasureSafe, NEW r \in Rating, Erase!Content(r)
  PROVE  ErasureInv'
  <1>1. /\ rating \in [Rating -> {"unused", "pending", "approved", "rejected", "gone"}]
        /\ work \in [Rating -> {"rest", "submit", "edit", "decide", "fetch", "index"}]
        /\ queued \subseteq Rating /\ public \subseteq RoundRating /\ edited \subseteq RoundRating
        /\ missed \subseteq Rating /\ audited \subseteq Rating /\ RoundRating \subseteq Rating
        /\ home \in [Rating -> Process] /\ requested \in 0..MaxWork /\ MaxWork \in Nat
    BY DEF Erase!TypeOK, Erase!ErasureConstants
  <1>2. /\ owner => /\ r \in queued => Erase!HasRow(r)
                    /\ work[r] = "submit" => rating[r] = "unused"
                    /\ work[r] = "decide" => rating[r] = "pending"
                    /\ work[r] \in {"fetch", "index"} => rating[r] = "approved"
                    /\ r \in public \ edited => rating[r] = "approved"
        /\ ~owner => ~Erase!HasRow(r)
        /\ work[r] \in {"fetch", "index"} => r \in RoundRating
        /\ ~owner /\ r \in queued => r \in missed
    BY DEF ErasureSafe, RowsStand, NothingLeft, RoundsAreIndexed, RemainsAreKnown
  <1> DEFINE Typed == /\ rating \in [Rating -> {"unused", "pending", "approved", "rejected", "gone"}]
                      /\ work \in [Rating -> {"rest", "submit", "edit", "decide", "fetch", "index"}]
                      /\ queued \subseteq Rating /\ public \subseteq RoundRating
                      /\ edited \subseteq RoundRating /\ missed \subseteq Rating /\ audited \subseteq Rating
                      /\ home \in [Rating -> Process] /\ requested \in 0..MaxWork
  <1>3. ASSUME Typed', ErasureSafe', UNCHANGED <<owner, process, eraser>> PROVE ErasureInv'
    BY <1>3 DEF Erase!TypeOK, ErasureInv
  <1>4. ASSUME NEW p \in Process, Erase!StartSubmit(r, p) PROVE ErasureInv'
    <2>1. Typed'
      BY <1>1, <1>4 DEF Erase!StartSubmit, Erase!Goto, Erase!Missed, Erase!Request, Erase!derived
    <2>2. ErasureSafe'
      BY <1>1, <1>2, <1>4, RatingStep
      DEF Erase!StartSubmit, Erase!Goto, Erase!Missed, Erase!derived, Erase!HasRow
    <2> QED
      BY <1>3, <1>4, <2>1, <2>2 DEF Erase!StartSubmit
  <1>5. CASE Erase!Submit(r)
    <2>1. Typed'
      BY <1>1, <1>5 DEF Erase!Submit, Erase!Goto, Erase!Missed
    <2>2. ErasureSafe'
      BY <1>1, <1>2, <1>5, RatingStep DEF Erase!Submit, Erase!Goto, Erase!Missed, Erase!HasRow
    <2> QED
      BY <1>3, <1>5, <2>1, <2>2 DEF Erase!Submit
  <1>6. CASE Erase!StartEdit(r)
    <2>1. Typed'
      BY <1>1, <1>6
      DEF Erase!StartEdit, Erase!Goto, Erase!Missed, Erase!Request, Erase!rows, Erase!derived
    <2>2. ErasureSafe'
      BY <1>1, <1>2, <1>6, RatingStep
      DEF Erase!StartEdit, Erase!Goto, Erase!Missed, Erase!rows, Erase!derived, Erase!HasRow
    <2> QED
      BY <1>3, <1>6, <2>1, <2>2 DEF Erase!StartEdit, Erase!rows
  <1>7. CASE Erase!Edit(r)
    <2>1. Typed'
      BY <1>1, <1>7 DEF Erase!Edit, Erase!Goto, Erase!Missed
    <2>2. ErasureSafe'
      BY <1>1, <1>2, <1>7, RatingStep DEF Erase!Edit, Erase!Goto, Erase!Missed, Erase!HasRow
    <2> QED
      BY <1>3, <1>7, <2>1, <2>2 DEF Erase!Edit
  <1>8. CASE Erase!StartDecide(r)
    <2>1. Typed'
      BY <1>1, <1>8
      DEF Erase!StartDecide, Erase!Goto, Erase!Missed, Erase!Request, Erase!rows, Erase!derived
    <2>2. ErasureSafe'
      BY <1>1, <1>2, <1>8, RatingStep
      DEF Erase!StartDecide, Erase!Goto, Erase!Missed, Erase!rows, Erase!derived, Erase!HasRow
    <2> QED
      BY <1>3, <1>8, <2>1, <2>2 DEF Erase!StartDecide, Erase!rows
  <1>9. ASSUME NEW verdict \in {"approved", "rejected"}, NEW automatic \in BOOLEAN,
               Erase!Decide(r, verdict, automatic)
        PROVE  ErasureInv'
    <2>1. Typed'
      BY <1>1, <1>9 DEF Erase!Decide, Erase!Goto, Erase!Missed
    <2>2. ErasureSafe'
      BY <1>1, <1>2, <1>9, RatingStep DEF Erase!Decide, Erase!Goto, Erase!Missed, Erase!HasRow
    <2> QED
      BY <1>3, <1>9, <2>1, <2>2 DEF Erase!Decide
  <1>10. CASE Erase!Fetch(r)
    <2>1. Typed'
      BY <1>1, <1>10 DEF Erase!Fetch, Erase!Goto, Erase!Missed, Erase!rows, Erase!derived
    <2>2. ErasureSafe'
      BY <1>1, <1>2, <1>10, RatingStep
      DEF Erase!Fetch, Erase!Goto, Erase!Missed, Erase!rows, Erase!derived, Erase!HasRow
    <2> QED
      BY <1>3, <1>10, <2>1, <2>2 DEF Erase!Fetch, Erase!rows
  <1>11. CASE Erase!Index(r)
    <2>1. Typed'
      BY <1>1, <1>2, <1>11 DEF Erase!Index, Erase!Goto, Erase!Missed, Erase!rows
    <2>2. ErasureSafe'
      BY <1>1, <1>2, <1>11, RatingStep
      DEF Erase!Index, Erase!Goto, Erase!Missed, Erase!rows, Erase!HasRow
    <2> QED
      BY <1>3, <1>11, <2>1, <2>2 DEF Erase!Index, Erase!rows
  <1>12. CASE Erase!Heal(r)
    <2>1. Typed'
      BY <1>1, <1>12 DEF Erase!Heal, Erase!rows, Erase!ghosts
    <2>2. ErasureSafe'
      BY <1>1, <1>2, <1>12, RatingStep DEF Erase!Heal, Erase!rows, Erase!ghosts, Erase!HasRow
    <2> QED
      BY <1>3, <1>12, <2>1, <2>2 DEF Erase!Heal, Erase!rows
  <1>13. CASE Erase!LoseWork(r)
    <2>1. Typed'
      BY <1>1, <1>13 DEF Erase!LoseWork, Erase!Goto, Erase!Missed, Erase!rows, Erase!derived
    <2>2. ErasureSafe'
      BY <1>1, <1>2, <1>13, RatingStep
      DEF Erase!LoseWork, Erase!Goto, Erase!Missed, Erase!rows, Erase!derived, Erase!HasRow
    <2> QED
      BY <1>3, <1>13, <2>1, <2>2 DEF Erase!LoseWork, Erase!rows
  <1> QED
    BY <1>4, <1>5, <1>6, <1>7, <1>8, <1>9, <1>10, <1>11, <1>12, <1>13 DEF Erase!Content

(* Processes.                                                              *)

LEMMA StructureKeeps ==
  ASSUME Erase!ErasureConstants, Erase!TypeOK, ErasureSafe, Erase!Structure
  PROVE  ErasureInv'
  <1>1. PICK p \in Process : Erase!CreateProcess(p) \/ Erase!CreateRound(p) \/ Erase!RemoveProcess(p)
    BY DEF Erase!Structure
  <1>2. /\ UNCHANGED <<owner, rating, home, queued, audited, public, eraser, work, missed, edited>>
        /\ \E k \in Erase!Kinds : process' = [process EXCEPT ![p] = k] /\ (k # "none" => owner \/ process[p] # "none")
        /\ requested < MaxWork /\ requested' = requested + 1
    BY <1>1 DEF Erase!CreateProcess, Erase!CreateRound, Erase!RemoveProcess, Erase!Request,
       Erase!derived, Erase!ghosts, Erase!Kinds
  <1>3. process' \in [Process -> Erase!Kinds] /\ requested' \in 0..MaxWork
    BY <1>2 DEF Erase!TypeOK, Erase!ErasureConstants
  <1>4. ~owner => \A q \in Process : process'[q] = "none"
    BY <1>2 DEF ErasureSafe, NothingLeft, Erase!TypeOK
  <1>5. Erase!TypeOK'
    BY <1>2, <1>3 DEF Erase!TypeOK
  <1>6. NothingLeft' /\ PhasesFollow'
    BY <1>2, <1>4 DEF ErasureSafe, NothingLeft, PhasesFollow, Erase!HasRow
  <1>7. RowsStand' /\ RoundsAreIndexed' /\ ReadsAreComplete' /\ RemainsAreKnown'
    BY <1>2 DEF ErasureSafe, RowsStand, RoundsAreIndexed, ReadsAreComplete, RemainsAreKnown,
       Erase!HasRow, TableOf
  <1> QED
    BY <1>5, <1>6, <1>7 DEF ErasureInv, ErasureSafe

(* The erasure.                                                            *)

LEMMA BeginKeeps ==
  ASSUME Erase!ErasureConstants, Erase!TypeOK, ErasureSafe, Erase!Begin
  PROVE  ErasureInv'
  <1>1. /\ owner /\ eraser' = [Erase!Unread EXCEPT !.step = "read", !.left = Erase!Table]
        /\ requested < MaxWork /\ requested' = requested + 1
        /\ UNCHANGED <<owner, process, rating, home, queued, audited, public, work, missed, edited>>
    BY DEF Erase!Begin, Erase!Request, Erase!rows, Erase!derived, Erase!ghosts
  <1>2. eraser' \in Eraser /\ eraser'.step = "read" /\ eraser'.left = Erase!Table
    BY <1>1, UnreadTyped DEF Eraser, Erase!Unread
  <1>3. requested' \in 0..MaxWork
    BY <1>1 DEF Erase!TypeOK, Erase!ErasureConstants
  <1>4. Erase!TypeOK'
    BY <1>1, <1>2, <1>3 DEF Erase!TypeOK, Eraser
  <1>5. ReadsAreComplete'
    BY <1>2 DEF ReadsAreComplete, Erase!Table, TableOf
  <1>6. RowsStand'
    BY <1>1 DEF ErasureSafe, RowsStand, Erase!HasRow
  <1> QED
    BY <1>1, <1>2, <1>4, <1>5, <1>6
    DEF ErasureInv, ErasureSafe, RoundsAreIndexed, NothingLeft, PhasesFollow, RemainsAreKnown

LEMMA ErasureReadKeeps ==
  ASSUME Erase!ErasureConstants, Erase!TypeOK, ErasureSafe, NEW table \in Erase!Table,
         Erase!Read(table)
  PROVE  ErasureInv'
  <1>1. /\ UNCHANGED <<owner, process, rating, home, queued, audited, public, work, missed, edited, requested>>
        /\ eraser.step = "read" /\ table \in eraser.left /\ eraser \in Eraser
    BY DEF Erase!Read, Erase!rows, Erase!derived, Erase!ghosts, Erase!TypeOK, Eraser
  <1> DEFINE step == IF eraser.left = {table} THEN "delete" ELSE "read"
             ids == eraser.ids \cup (IF table = "processes" THEN {} ELSE Erase!Own(table))
             shown == IF table = "ratings" THEN {r \in Erase!Own(table) : rating[r] = "approved"} ELSE eraser.shown
             homes == IF table = "processes" THEN {p \in Process : process[p] # "none"} ELSE eraser.homes
  <1>2. eraser' = [step |-> step, left |-> eraser.left \ {table}, ids |-> ids, shown |-> shown, homes |-> homes]
    BY <1>1 DEF Erase!Read, Eraser
  <1>3. Erase!Own("ratings") \subseteq RoundRating /\ Erase!Own(table) \subseteq Rating
    BY DEF Erase!Own
  <1>4. eraser' \in Eraser
    BY <1>1, <1>2, <1>3 DEF Eraser
  <1>5. Erase!TypeOK'
    BY <1>1, <1>4 DEF Erase!TypeOK, Eraser
  <1>6. eraser'.step \in {"read", "delete"} /\ (eraser'.step = "delete" => eraser'.left = {}) /\ owner
    BY <1>1, <1>2 DEF ErasureSafe, PhasesFollow
  <1>7. ReadsAreComplete'
    <2> SUFFICES ASSUME NEW r \in Rating \ missed
                 PROVE  /\ Erase!HasRow(r) /\ TableOf(r) \notin eraser'.left => r \in eraser'.ids
                        /\ r \in public \ edited /\ "ratings" \notin eraser'.left => r \in eraser'.shown
      BY <1>1 DEF ReadsAreComplete, TableOf, Erase!HasRow
    <2>1. /\ Erase!HasRow(r) /\ TableOf(r) \notin eraser.left => r \in eraser.ids
          /\ r \in public \ edited /\ "ratings" \notin eraser.left => r \in eraser.shown
      BY <1>1 DEF ErasureSafe, ReadsAreComplete
    <2>2. ASSUME Erase!HasRow(r), TableOf(r) = table PROVE r \in eraser'.ids
      BY <1>2, <2>2 DEF TableOf, Erase!Own
    <2>3. ASSUME r \in public \ edited, table = "ratings" PROVE r \in eraser'.shown
      <3>1. rating[r] = "approved" /\ r \in RoundRating
        BY <1>6, <2>3 DEF ErasureSafe, RowsStand, Erase!TypeOK
      <3> QED
        BY <1>2, <2>3, <3>1 DEF Erase!Own, Erase!HasRow
    <2> QED
      BY <1>2, <2>1, <2>2, <2>3
  <1>8. RowsStand'
    BY <1>1 DEF ErasureSafe, RowsStand, Erase!HasRow
  <1> QED
    BY <1>1, <1>5, <1>6, <1>7, <1>8
    DEF ErasureInv, ErasureSafe, RoundsAreIndexed, NothingLeft, PhasesFollow, RemainsAreKnown

\* The transaction; it takes the queue entries of the ratings that were read.
LEMMA DeleteKeeps ==
  ASSUME Erase!ErasureConstants, Erase!TypeOK, ErasureSafe, Erase!Delete
  PROVE  ErasureInv'
  <1>1. /\ eraser.step = "delete" /\ owner /\ eraser.left = {} /\ eraser \in Eraser
        /\ UNCHANGED <<home, audited, public, work, missed, edited, requested>>
    BY DEF Erase!Delete, ErasureSafe, PhasesFollow, Erase!TypeOK, Eraser, Erase!rows, Erase!ghosts
  <1>2. CASE Erase!Held
    <2>1. eraser' = Erase!Unread /\ UNCHANGED <<owner, process, rating, queued>>
      BY <1>2 DEF Erase!Delete, Erase!rows
    <2>2. Erase!TypeOK'
      BY <1>1, <2>1, UnreadTyped DEF Erase!TypeOK, Eraser
    <2>3. eraser'.step = "idle"
      BY <2>1 DEF Erase!Unread
    <2>4. RowsStand'
      BY <1>1, <2>1 DEF ErasureSafe, RowsStand, Erase!HasRow
    <2> QED
      BY <1>1, <2>1, <2>2, <2>3, <2>4
      DEF ErasureInv, ErasureSafe, RoundsAreIndexed, NothingLeft, PhasesFollow, ReadsAreComplete,
      RemainsAreKnown
  <1>3. CASE ~Erase!Held
    <2>1. /\ owner' = FALSE /\ process' = [p \in Process |-> "none"]
          /\ queued' = queued \ eraser.ids
          /\ rating' = [r \in Rating |-> IF Erase!HasRow(r) THEN "gone" ELSE rating[r]]
          /\ eraser' = [eraser EXCEPT !.step = "purge"]
      BY <1>3 DEF Erase!Delete
    <2>2. eraser' \in Eraser /\ eraser'.step = "purge" /\ eraser'.shown = eraser.shown
      BY <1>1, <2>1 DEF Eraser
    <2>3. rating' \in [Rating -> {"unused", "pending", "approved", "rejected", "gone"}]
          /\ \A r \in Rating : ~Erase!HasRow(r)'
      BY <2>1 DEF Erase!HasRow, Erase!TypeOK
    <2>4. Erase!TypeOK'
      BY <1>1, <2>1, <2>2, <2>3 DEF Erase!TypeOK, Eraser, Erase!Kinds
    <2>5. queued' \subseteq missed'
      <3> SUFFICES ASSUME NEW r \in queued, r \notin missed PROVE r \in eraser.ids
        BY <1>1, <2>1
      <3>1. r \in Rating /\ Erase!HasRow(r)
        BY <1>1 DEF ErasureSafe, RowsStand, Erase!TypeOK
      <3> QED
        BY <1>1, <3>1 DEF ErasureSafe, ReadsAreComplete
    <2>6. public' \subseteq missed' \cup edited' \cup eraser'.shown
      BY <1>1, <2>2 DEF ErasureSafe, ReadsAreComplete, Erase!TypeOK, Erase!ErasureConstants
    <2>7. RoundsAreIndexed'
      BY <1>1 DEF ErasureSafe, RoundsAreIndexed
    <2> QED
      BY <2>1, <2>2, <2>3, <2>4, <2>5, <2>6, <2>7
        DEF ErasureInv, ErasureSafe, NothingLeft, PhasesFollow, RowsStand, ReadsAreComplete,
            RemainsAreKnown
  <1> QED
    BY <1>2, <1>3

LEMMA PurgeKeeps ==
  ASSUME Erase!ErasureConstants, Erase!TypeOK, ErasureSafe, NEW r \in Rating, Erase!Purge(r)
  PROVE  ErasureInv'
  <1>1. /\ eraser.step = "purge" /\ ~owner /\ r \in eraser.shown /\ eraser \in Eraser
        /\ eraser' = [eraser EXCEPT !.shown = @ \ {r}]
        /\ \/ public' = public \ {r} /\ missed' = missed
           \/ public' = public /\ missed' = missed \cup {r}
        /\ UNCHANGED <<owner, process, rating, home, queued, audited, work, edited, requested>>
    BY DEF Erase!Purge, ErasureSafe, PhasesFollow, Erase!TypeOK, Eraser, Erase!rows
  <1>2. eraser' \in Eraser /\ eraser'.step = "purge" /\ eraser'.shown = eraser.shown \ {r}
    BY <1>1 DEF Eraser
  <1>3. Erase!TypeOK'
    BY <1>1, <1>2 DEF Erase!TypeOK, Eraser
  <1>4. NothingLeft'
    BY <1>1 DEF ErasureSafe, NothingLeft, Erase!HasRow
  <1>5. RemainsAreKnown'
    BY <1>1, <1>2 DEF ErasureSafe, RemainsAreKnown
  <1> QED
    BY <1>1, <1>2, <1>3, <1>4, <1>5
    DEF ErasureInv, ErasureSafe, RoundsAreIndexed, PhasesFollow, RowsStand, ReadsAreComplete

\* Done, or stopped at any step; what was not taken out counts as lost.
LEMMA EndKeeps ==
  ASSUME Erase!ErasureConstants, Erase!TypeOK, ErasureSafe, Erase!Done \/ Erase!LoseErasure
  PROVE  ErasureInv'
  <1>1. /\ eraser' = Erase!Unread /\ eraser \in Eraser
        /\ missed \subseteq missed' /\ missed' \subseteq missed \cup eraser.shown
        /\ ~owner /\ eraser.step = "purge" => eraser.shown \subseteq missed'
        /\ UNCHANGED <<owner, process, rating, home, queued, audited, public, work, edited, requested>>
    BY DEF Erase!Done, Erase!LoseErasure, Erase!TypeOK, Eraser, Erase!rows, Erase!derived,
       Erase!ghosts
  <1>2. eraser'.step = "idle" /\ eraser' \in Eraser
    BY <1>1, UnreadTyped DEF Erase!Unread
  <1>3. Erase!TypeOK'
    BY <1>1, <1>2 DEF Erase!TypeOK, Eraser, Erase!ErasureConstants
  <1>4. NothingLeft'
    BY <1>1 DEF ErasureSafe, NothingLeft, Erase!HasRow
  <1>5. RowsStand'
    BY <1>1 DEF ErasureSafe, RowsStand, Erase!HasRow
  <1>6. RemainsAreKnown'
    BY <1>1, <1>2 DEF ErasureSafe, RemainsAreKnown
  <1>7. RoundsAreIndexed'
    BY <1>1 DEF ErasureSafe, RoundsAreIndexed
  <1> QED
    BY <1>2, <1>3, <1>4, <1>5, <1>6, <1>7
    DEF ErasureInv, ErasureSafe, PhasesFollow, ReadsAreComplete

LEMMA ErasureStep == ASSUME Erase!ErasureConstants, ErasureInv, [Erase!Next]_(Erase!eVars)
PROVE ErasureInv'
  <1>1. Erase!TypeOK /\ ErasureSafe
    BY DEF ErasureInv
  <1>2. CASE UNCHANGED Erase!eVars
    BY <1>2 DEF Erase!eVars, Erase!rows, Erase!derived, Erase!ghosts, ErasureInv, ErasureSafe,
       RoundsAreIndexed, Erase!TypeOK, NothingLeft, PhasesFollow, RowsStand,
                ReadsAreComplete, RemainsAreKnown, Erase!HasRow, TableOf
  <1> QED
    BY <1>1, <1>2, ContentKeeps, StructureKeeps, BeginKeeps, ErasureReadKeeps, DeleteKeeps,
       PurgeKeeps, EndKeeps
    DEF Erase!Next, Erase!Erase

\* However the writes of a candidate, the decisions on them and the indexing interleave
\* with the statements of the erasure: what it has not read is still there to be read, and
\* what it took note of covers what it deletes.
THEOREM ErasureInvariant == ASSUME Erase!ErasureConstants PROVE Erase!Spec => []ErasureInv
  <1>1. ErasureInv /\ [Erase!Next]_(Erase!eVars) => ErasureInv'
    BY ErasureStep
  <1> QED
    BY <1>1, ErasureInit, PTL DEF Erase!Spec

\* What the invariant is for: after an erasure no row is left, and a queue entry or a
\* public document only of a rating with a request or a lost call meanwhile, or one that
\* was edited after it was public.
THEOREM ErasuresAreComplete == ASSUME Erase!ErasureConstants
PROVE Erase!Spec => [](Erase!TypeOK /\ Erase!ErasureIsComplete)
  <1>1. ErasureInv => Erase!TypeOK /\ Erase!ErasureIsComplete
    BY DEF ErasureInv, ErasureSafe, RoundsAreIndexed, NothingLeft, RemainsAreKnown,
       Erase!ErasureIsComplete
  <1> QED
    BY <1>1, ErasureInvariant, PTL

-----------------------------------------------------------------------------
(* The parts together: a behaviour of MCSpec is one of each part, in which   *)
(* all but one rest.                                                         *)

LEMMA StaffPart == MCSpec => Staff!Spec
  <1>1. MCInit => Staff!Init
    BY DEF MCInit
  <1>2. [MCNext]_MCvars => [Staff!Next]_(Staff!vars)
    BY DEF MCNext, MCvars, staffs, Staff!vars, Staff!table
  <1> QED
    BY <1>1, <1>2, PTL DEF MCSpec, Staff!Spec

LEMMA CandidatePart == MCSpec => Candidate!Spec
  <1>1. MCInit => Candidate!Init
    BY DEF MCInit
  <1>2. [MCNext]_MCvars => [Candidate!Next]_(Candidate!vars)
    BY DEF MCNext, MCvars, candidates, Candidate!vars
  <1> QED
    BY <1>1, <1>2, PTL DEF MCSpec, Candidate!Spec

LEMMA ThrottlePart == MCSpec => Throttle!Spec
  <1>1. MCInit => Throttle!Init
    BY DEF MCInit
  <1>2. [MCNext]_MCvars => [Throttle!Next]_(Throttle!vars)
    BY DEF MCNext, MCvars, throttles, Throttle!vars, Throttle!table, Throttle!local
  <1> QED
    BY <1>1, <1>2, PTL DEF MCSpec, Throttle!Spec

LEMMA ErasurePart == MCSpec => Erase!Spec
  <1>1. MCInit => Erase!Init
    BY DEF MCInit
  <1>2. [MCNext]_MCvars => [Erase!Next]_(Erase!eVars)
    BY DEF MCNext, MCvars, erasures, Erase!eVars, Erase!rows, Erase!derived, Erase!ghosts
  <1> QED
    BY <1>1, <1>2, PTL DEF MCSpec, Erase!Spec

\* An admin other than the root one remains, unless two removals are past their counts at
\* the same time: for any number of accounts, requests and restarts.
THEOREM StaffKeepsAnAdmin == MCSpec => []AnAdminRemains
  BY StaffAssumption, StaffPart, AdminsRemain, PTL DEF AnAdminRemains

\* A password session that is accepted is of the password in force, for any number of
\* browsers, passwords, links and requests.
THEOREM ResetsEndSessions == MCSpec => []PasswordSessionsAreCurrent
  BY CandidateAssumption, CandidatePart, SessionsEndWithPasswords, PTL
  DEF PasswordSessionsAreCurrent

\* The throttles grant at most their limit for each window they start, for any limit,
\* window and number of concurrent requests.
THEOREM ThrottlesBoundGrants == MCSpec => []GrantsAreBounded
  BY ThrottleAssumption, ThrottlePart, GrantsBounded, PTL DEF GrantsAreBounded

\* An erasure leaves nothing but what raced with it, for any number of ratings, processes
\* and writes at the same time.
THEOREM ErasuresEndComplete == MCSpec => []ErasureIsComplete
  BY ErasureAssumption, ErasurePart, ErasuresAreComplete, PTL DEF ErasureIsComplete

===============================================================================
