--------------------------- MODULE ModerationQueue ---------------------------
(***************************************************************************)
(* The moderation gate of the api: every rating and every company request  *)
(* is a database row with a status, and every submission of it is a row of *)
(* moderation_queue.  Candidates create, edit and delete their rows, staff *)
(* and the system decide queue entries, and all of these requests run      *)
(* concurrently against one Postgres at READ COMMITTED.                    *)
(*                                                                         *)
(* A request is a process that takes one step per database statement that  *)
(* reads committed state or takes a row lock.  Writes of a transaction     *)
(* become visible at its last statement, together with its commit; until   *)
(* then the rows it wrote are locked.  What a handler does after the       *)
(* commit (search indexes, analytics view, events) is a list of effects it *)
(* performs in order, each of them best effort.                            *)
(*                                                                         *)
(* Queue entries are numbered in the order of their creation (createdAt).  *)
(* A definition named ..._Mutant is the one after it with a bug in it; no  *)
(* action uses it.  The check of the project puts it in the place of the   *)
(* right one and expects a property to fail.                               *)
(***************************************************************************)
EXTENDS Integers, Sequences, FiniteSets

CONSTANTS
  RoundRatings,   \* ids of round ratings: the only ratings with a search index
  OtherRatings,   \* ids of recruiter ratings and overall reviews
  Companies,      \* ids of company-creation requests
  Moderators,     \* staff with the moderator role
  Admins,         \* staff with the admin role
  System,         \* the actor of the verdict consumer
  Proc,           \* requests the api serves at the same time
  Ops,            \* the endpoints a run exercises
  Tracked,        \* the after-commit effects a run follows; the others are not performed
  MaxEntries,     \* bound on the queue entries ever created
  Cap,            \* LIFETIME_RESUBMISSION_CAP
  Unreliable,     \* may a best-effort effect fail?
  Crashes,        \* may a request die half way (pod restart, timeout)?
  None

Ratings  == RoundRatings \union OtherRatings
Entity   == Ratings \union Companies
Staff    == Moderators \union Admins
Actor    == Staff \union {System}
EntryId  == 1..MaxEntries
NoEntry  == 0
EntryRef == 0..MaxEntries

ASSUME ConstantsOK ==
  /\ MaxEntries \in Nat /\ Cap \in Nat \ {0}
  /\ Unreliable \in BOOLEAN /\ Crashes \in BOOLEAN
  /\ Ratings \intersect Companies = {} /\ RoundRatings \intersect OtherRatings = {}
  /\ Moderators \intersect Admins = {} /\ System \notin Staff
  /\ None \notin Proc /\ None \notin Staff /\ None # System

VARIABLES
  status,       \* status column of an entity, "absent" before and "deleted" after
  text,         \* the submission whose text an entity holds
  entry,        \* the rows of moderation_queue
  audits,       \* entries that ai_auto_approval_audit references
  entityLock,   \* the transaction that holds the lock of an entity's row
  entryLock,    \* the transaction that holds the lock of a queue row
  pc, arg,      \* a request's next statement and what it has read so far
  todo,         \* the effects a request still has to perform after its commit
  queueIndex,   \* entities with a document in the moderator search index
  publicIndex,  \* the text of an entity that public search returns
  view,         \* ratings counted in the analytics materialized views
  created,      \* submissions whose *.created event was published
  announced     \* status in the *.status_changed event of an entry

db      == <<status, text, entry, audits>>
locks   == <<entityLock, entryLock>>
derived == <<queueIndex, publicIndex, view, created, announced>>
vars    == <<db, locks, pc, arg, todo, derived>>

Decision == {"approved", "rejected", "flagged"}
Decided  == Decision \union {"permanently_rejected"}
Status   == Decided \union {"absent", "pending", "deleted"}

\* A row of moderation_queue.  reviewedAt is set exactly when decision is.
Row == [row : {"unused", "stored", "gone"}, entity : Entity \union {None},
        escalated : BOOLEAN, decision : Decision \union {"none"},
        by : Actor \union {None}, claimedBy : Staff \union {None}]

NoRow == [row |-> "unused", entity |-> None, escalated |-> FALSE,
          decision |-> "none", by |-> None, claimedBy |-> None]

NewRow(e, esc) == [NoRow EXCEPT !.row = "stored", !.entity = e, !.escalated = esc]

EffectName == {"indexQueue", "putQueue", "unindexQueue", "indexPublic", "putPublic",
               "unindexPublic", "refreshView", "publishCreated", "publishStatus"}
Effect == [do : EffectName, of : SUBSET Entity, text : EntryRef]
Do(name, S) == IF S = {} \/ name \notin Tracked THEN << >>
               ELSE <<[do |-> name, of |-> S, text |-> NoEntry]>>

NoArg == [entity |-> None, entry |-> NoEntry, by |-> None, decision |-> "none",
          saw |-> "absent", batch |-> {}]
Arg == [entity : Entity \union {None}, entry : EntryRef, by : Actor \union {None},
        decision : Decision \union {"none"}, saw : Status, batch : SUBSET EntryId]

InTransaction == {"dedupe", "enqueue", "remove_row", "review_apply"}
PC == InTransaction \union
      {"idle", "update_row", "remove_select", "remove_entries", "review_exists", "review_decide",
       "claim_write", "release_write", "heal_list", "heal_search", "after"}

Exists(e)     == status[e] \notin {"absent", "deleted"}
Stored(i)     == entry[i].row = "stored"
RowsOf(e)     == {i \in EntryId : Stored(i) /\ entry[i].entity = e}
Live(i)       == Stored(i) /\ entry[i].decision = "none"
LiveOf(e)     == {i \in RowsOf(e) : Live(i)}
Held(p)       == {i \in EntryId : entryLock[i] = p}
Fresh         == {i \in EntryId : entry[i].row = "unused" /\ \A j \in 1..(i-1) : entry[j].row # "unused"}

\* The bound MaxEntries leaves an id for every edit already under way.
Updating == {p \in Proc : pc[p] \in {"update_row", "dedupe", "enqueue"}}
HasRoom  == Cardinality({i \in EntryId : entry[i].row = "unused"}) > Cardinality(Updating)

-----------------------------------------------------------------------------
(* Requests: how a handler moves on.                                       *)

Goto(p, l)  == pc' = [pc EXCEPT ![p] = l]
Release(p)  == /\ entityLock' = [e \in Entity |-> IF entityLock[e] = p THEN None ELSE entityLock[e]]
               /\ entryLock'  = [i \in EntryId |-> IF entryLock[i] = p THEN None ELSE entryLock[i]]
Finish(p)   == /\ Goto(p, "idle")
               /\ arg' = [arg EXCEPT ![p] = NoArg]
               /\ todo' = [todo EXCEPT ![p] = << >>]
Fail_Mutant(p) == Finish(p) /\ UNCHANGED <<db, locks, derived>>
\* The request answers with an error: its transaction, if any, rolls back.
Fail(p)     == Finish(p) /\ Release(p) /\ UNCHANGED <<db, derived>>
\* The transaction is committed; the effects remain.
Committed(p, effects) == /\ Release(p) /\ Goto(p, "after") /\ UNCHANGED arg
                         /\ todo' = [todo EXCEPT ![p] = effects]
Begin(p, op, l, a) == /\ op \in Ops /\ pc[p] = "idle" /\ Goto(p, l)
                      /\ arg' = [arg EXCEPT ![p] = a] /\ UNCHANGED <<db, locks, todo, derived>>

Unlocked(S)      == \A i \in S : entryLock[i] = None
LockRows(p, S)   == entryLock' = [i \in EntryId |-> IF i \in S THEN p ELSE entryLock[i]]
LockEntity_Mutant(p, e) == entityLock[e] = None /\ UNCHANGED entityLock
LockEntity(p, e) == entityLock[e] = None /\ entityLock' = [entityLock EXCEPT ![e] = p]
Gone(rows)       == [i \in EntryId |-> IF i \in rows THEN [entry[i] EXCEPT !.row = "gone"] ELSE entry[i]]

-----------------------------------------------------------------------------
(* create(): the entity and its queue entry in one transaction that waits  *)
(* for nothing, since both rows are new.                                   *)
Create(p, e) ==
  /\ "create" \in Ops /\ pc[p] = "idle" /\ HasRoom
  /\ status[e] = "absent"
  /\ \E i \in Fresh :
       /\ entry' = [entry EXCEPT ![i] = NewRow(e, FALSE)]
       /\ status' = [status EXCEPT ![e] = "pending"]
       /\ text' = [text EXCEPT ![e] = i]
       /\ arg' = [arg EXCEPT ![p] = [NoArg EXCEPT !.entity = e, !.entry = i]]
  /\ Goto(p, "after")
  /\ todo' = [todo EXCEPT ![p] = Do("indexQueue", {e}) \o Do("publishCreated", {e})]
  /\ UNCHANGED <<audits, locks, derived>>

-----------------------------------------------------------------------------
(* update(): the status is checked before the transaction; the transaction *)
(* updates the entity's row, deletes the unreviewed entries (reenqueue),   *)
(* counts the rest and inserts the new one.                                *)
Editable(e) == IF e \in Companies THEN status[e] # "approved"
                                  ELSE status[e] # "permanently_rejected"

UpdateRead(p, e) ==
  /\ Exists(e) /\ Editable(e) /\ HasRoom
  /\ Begin(p, "update", "update_row", [NoArg EXCEPT !.entity = e])

UpdateRow(p) ==
  /\ pc[p] = "update_row"
  /\ \/ ~Exists(arg[p].entity) /\ Fail(p)
     \/ /\ Exists(arg[p].entity)
        /\ LockEntity(p, arg[p].entity)
        /\ Goto(p, "dedupe")
        /\ UNCHANGED <<db, entryLock, arg, todo, derived>>

Superseded_Mutant(e) == RowsOf(e)
Superseded(e) == LiveOf(e)

DeleteUnreviewed(p) ==
  /\ pc[p] = "dedupe"
  /\ Unlocked(Superseded(arg[p].entity))
  /\ LockRows(p, Superseded(arg[p].entity))
  /\ Goto(p, "enqueue")
  /\ UNCHANGED <<db, entityLock, arg, todo, derived>>

EditEffects(e) == Do("indexQueue", {e}) \o Do("publishCreated", {e} \intersect Ratings)

\* What the transaction counts: the rows it has not just deleted itself.
Escalates_Mutant(p, e) == Cardinality(RowsOf(e) \ Held(p)) > Cap
Escalates(p, e)        == Cardinality(RowsOf(e) \ Held(p)) >= Cap

Resubmitted_Mutant(e) == status
Resubmitted(e)        == [status EXCEPT ![e] = "pending"]

Enqueue(p) ==
  LET e == arg[p].entity
  IN /\ pc[p] = "enqueue"
     /\ \E i \in Fresh :
          /\ entry' = [Gone(Held(p)) EXCEPT ![i] = NewRow(e, Escalates(p, e))]
          /\ text' = [text EXCEPT ![e] = i]
          /\ arg' = [arg EXCEPT ![p].entry = i]
     /\ status' = Resubmitted(e)
     /\ Release(p) /\ Goto(p, "after")
     /\ todo' = [todo EXCEPT ![p] = EditEffects(e)]
     /\ UNCHANGED <<audits, derived>>

-----------------------------------------------------------------------------
(* remove(): all queue entries of the rating, then the rating.  DELETE     *)
(* takes the rows its snapshot shows: it waits for their locks, skips the  *)
(* ones that are gone by then and never sees one inserted since.           *)
RemoveRead(p, e) ==
  /\ e \in Ratings /\ Exists(e)
  /\ Begin(p, "remove", "remove_select", [NoArg EXCEPT !.entity = e, !.saw = status[e]])

SnapshotEntries(p) ==
  /\ pc[p] = "remove_select"
  /\ arg' = [arg EXCEPT ![p].batch = RowsOf(arg[p].entity)]
  /\ Goto(p, "remove_entries")
  /\ UNCHANGED <<db, locks, todo, derived>>

\* The row of an audited entry cannot be deleted (ON DELETE RESTRICT).
Restricted(rows) == rows \intersect audits # {}

RemoveEntries(p) ==
  LET rows == {i \in arg[p].batch : Stored(i)}
  IN /\ pc[p] = "remove_entries"
     /\ Unlocked(rows)
     /\ \/ Restricted(rows) /\ Fail(p)
        \/ /\ ~Restricted(rows)
           /\ LockRows(p, rows)
           /\ Goto(p, "remove_row")
           /\ UNCHANGED <<db, entityLock, arg, todo, derived>>

RemoveEffects(e, saw) ==
  Do("unindexQueue", {e}) \o
  Do("unindexPublic", IF saw = "approved" THEN {e} \intersect RoundRatings ELSE {})

RemoveRow(p) ==
  LET e == arg[p].entity
  IN /\ pc[p] = "remove_row"
     /\ entityLock[e] = None
     /\ \/ ~Exists(e) /\ Fail(p)
        \/ /\ Exists(e)
           /\ entry' = Gone(Held(p))
           /\ status' = [status EXCEPT ![e] = "deleted"]
           /\ text' = [text EXCEPT ![e] = NoEntry]
           /\ Committed(p, RemoveEffects(e, arg[p].saw))
           /\ UNCHANGED <<audits, derived>>

-----------------------------------------------------------------------------
(* review(): approve, reject and flag by staff, auto-approval and the flag *)
(* of a stalled triage by the verdict consumer.  Only the guard in front   *)
(* of approve and reject, and the consumer's own check, read escalated.    *)
MayDecide_Mutant(by, d, i) ==
  by \in Staff \/ (by = System /\ d # "rejected" /\ entry[i].entity \in Ratings)
MayDecide(by, d, i) ==
  \/ by \in Admins
  \/ by \in Moderators /\ (entry[i].escalated => d = "flagged")
  \/ /\ by = System /\ entry[i].entity \in Ratings
     /\ d = "flagged" \/ (d = "approved" /\ ~entry[i].escalated)

ReviewRead(p, i, by, d) ==
  /\ Live(i) /\ MayDecide(by, d, i)
  /\ Begin(p, "review", "review_exists",
           [NoArg EXCEPT !.entity = entry[i].entity, !.entry = i, !.by = by, !.decision = d])

ReviewExists(p) ==
  LET i == arg[p].entry
      e == arg[p].entity
  IN /\ pc[p] = "review_exists"
     /\ \/ /\ Exists(e) /\ Goto(p, "review_decide")
           /\ UNCHANGED <<db, locks, arg, todo, derived>>
        \/ /\ ~Exists(e) /\ Unlocked({i})
           /\ \/ (~Stored(i) \/ Restricted({i})) /\ Fail(p)
              \/ /\ Stored(i) /\ ~Restricted({i})
                 /\ entry' = Gone({i})
                 /\ Committed(p, Do("unindexQueue", {e}))
                 /\ UNCHANGED <<status, text, audits, derived>>

ReviewDecide_Mutant(p) ==
  /\ pc[p] = "review_decide" /\ Stored(arg[p].entry) /\ Unlocked({arg[p].entry})
  /\ LockRows(p, {arg[p].entry}) /\ Goto(p, "review_apply")
  /\ UNCHANGED <<db, entityLock, arg, todo, derived>>
ReviewDecide(p) ==
  LET i == arg[p].entry
  IN /\ pc[p] = "review_decide"
     /\ Unlocked({i})
     /\ \/ ~Live(i) /\ Fail(p)
        \/ /\ Live(i) /\ LockRows(p, {i}) /\ Goto(p, "review_apply")
           /\ UNCHANGED <<db, entityLock, arg, todo, derived>>

EntityStatus_Mutant(d, escalated) == d
EntityStatus(d, escalated) ==
  IF d = "rejected" /\ escalated THEN "permanently_rejected" ELSE d

ReviewEffects_Mutant(e, d) ==
  Do("indexPublic", IF d = "approved" THEN {e} \intersect RoundRatings ELSE {})
  \o Do("unindexQueue", {e}) \o Do("publishStatus", {e})
ReviewEffects(e, d) ==
  LET approved == IF d = "approved" THEN {e} ELSE {}
  IN Do("indexPublic", approved \ OtherRatings) \o Do("refreshView", approved \intersect Ratings)
     \o Do("unindexQueue", {e}) \o Do("publishStatus", {e})

\* approveWithAudit(): the system's approval, and only that, is audited.
IsAudited_Mutant(by, d) == by = System
IsAudited(by, d)        == by = System /\ d = "approved"

ReviewApply(p) ==
  LET i == arg[p].entry
      e == arg[p].entity
      d == arg[p].decision
  IN /\ pc[p] = "review_apply"
     /\ entityLock[e] = None
     /\ \/ ~Exists(e) /\ Fail(p)
        \/ /\ Exists(e)
           /\ entry' = [entry EXCEPT ![i] = [@ EXCEPT !.decision = d, !.by = arg[p].by]]
           /\ status' = [status EXCEPT ![e] = EntityStatus(d, entry[i].escalated)]
           /\ audits' = IF IsAudited(arg[p].by, d) THEN audits \union {i} ELSE audits
           /\ Committed(p, ReviewEffects(e, d))
           /\ UNCHANGED <<text, derived>>

-----------------------------------------------------------------------------
(* claim() and release(): a read, then a single guarded statement.         *)
ClaimRead(p, i, m) ==
  /\ Live(i) /\ entry[i].claimedBy = None
  /\ Begin(p, "claim", "claim_write", [NoArg EXCEPT !.entry = i, !.by = m])

ReleaseRead(p, i, m) ==
  /\ Stored(i) /\ entry[i].claimedBy = m
  /\ Begin(p, "release", "release_write", [NoArg EXCEPT !.entry = i, !.by = m])

WriteClaim(p, l, guard, m) ==
  LET i == arg[p].entry
  IN /\ pc[p] = l /\ Unlocked({i})
     /\ entry' = IF guard THEN [entry EXCEPT ![i] = [@ EXCEPT !.claimedBy = m]] ELSE entry
     /\ Finish(p)
     /\ UNCHANGED <<status, text, audits, locks, derived>>

ClaimWrite_Mutant(p) == WriteClaim(p, "claim_write", Live(arg[p].entry), arg[p].by)
ClaimWrite(p) ==
  WriteClaim(p, "claim_write", Live(arg[p].entry) /\ entry[arg[p].entry].claimedBy = None, arg[p].by)

ReleaseWrite(p) ==
  WriteClaim(p, "release_write",
             Stored(arg[p].entry) /\ entry[arg[p].entry].claimedBy = arg[p].by, None)

-----------------------------------------------------------------------------
(* listPending() and search(): unreviewed entries, all or some of them (a  *)
(* filter, the cap, the hits of a query).  Entries whose entity is gone    *)
(* are deleted; listPending() also indexes the others again.               *)
Unreviewed == {i \in EntryId : Live(i)}

ListRead(p, S)   == S # {} /\ Begin(p, "list", "heal_list", [NoArg EXCEPT !.batch = S])
SearchRead(p, S) == S # {} /\ Begin(p, "search", "heal_search", [NoArg EXCEPT !.batch = S])

Orphans_Mutant(batch) == {}
Orphans(batch) == {i \in batch : ~Exists(entry[i].entity)}

HealEffects_Mutant(gone, rest) == Do("unindexQueue", gone)
HealEffects(gone, rest) == Do("unindexQueue", gone) \o Do("indexQueue", rest)

HealOrphans(p) ==
  LET orphans == Orphans(arg[p].batch)
      stored  == {i \in orphans : Stored(i)}
      rest    == {entry[i].entity : i \in arg[p].batch \ orphans}
  IN /\ pc[p] \in {"heal_list", "heal_search"}
     /\ Unlocked(stored)
     /\ \/ Restricted(stored) /\ Fail(p)
        \/ /\ ~Restricted(stored)
           /\ entry' = Gone(stored)
           /\ Committed(p, HealEffects({entry[i].entity : i \in orphans},
                                       IF pc[p] = "heal_list" THEN rest ELSE {}))
           /\ UNCHANGED <<status, text, audits, derived>>

-----------------------------------------------------------------------------
(* Effects after the commit, in order, one call at a time; the calls on    *)
(* the entities of one effect run in any order.  Indexing fetches the row  *)
(* and then writes its document.  A publish fetches the row too, and drops *)
(* the event when it is gone.  A failed call is logged and skipped.        *)
Rest(p, e) == LET f == Head(todo[p])
              IN (IF f.of = {e} THEN << >> ELSE <<[f EXCEPT !.of = @ \ {e}]>>) \o Tail(todo[p])

\* Row fetches of indexForSearch, indexApprovedReview and indexApprovedCompany.
Fetch(p, e) ==
  LET put(name) == <<[do |-> name, of |-> {e}, text |-> text[e]]>>
  IN /\ Head(todo[p]).do \in {"indexQueue", "indexPublic"}
     /\ todo' = [todo EXCEPT ![p] =
          (IF ~Exists(e) THEN << >>
           ELSE put(IF Head(todo[p]).do = "indexQueue" THEN "putQueue" ELSE "putPublic")) \o Rest(p, e)]
     /\ UNCHANGED derived

\* Each materialized view covers one type of rating.
SameView_Mutant(e) == Entity
SameView(e) == IF e \in RoundRatings THEN RoundRatings ELSE OtherRatings
Refreshed(e) == (view \ SameView(e)) \union {x \in SameView(e) : status[x] = "approved"}

Perform(p, e) ==
  LET f == Head(todo[p])
      i == arg[p].entry
  IN /\ f.do \notin {"indexQueue", "indexPublic"}
     /\ todo' = [todo EXCEPT ![p] = Rest(p, e)]
     /\ queueIndex' = IF f.do = "putQueue" THEN queueIndex \union {e}
                      ELSE IF f.do = "unindexQueue" THEN queueIndex \ {e} ELSE queueIndex
     /\ publicIndex' = IF f.do \in {"putPublic", "unindexPublic"}
                         THEN [publicIndex EXCEPT ![e] = f.text] ELSE publicIndex
     /\ view' = IF f.do = "refreshView" THEN Refreshed(e) ELSE view
     /\ created' = IF f.do = "publishCreated" /\ Exists(e) THEN created \union {i} ELSE created
     /\ announced' = IF f.do = "publishStatus" /\ Exists(e)
                       THEN [announced EXCEPT ![i] = EntityStatus(arg[p].decision, entry[i].escalated)]
                       ELSE announced

CallFails(p, e) == /\ Unreliable
                   /\ todo' = [todo EXCEPT ![p] = Rest(p, e)] /\ UNCHANGED derived

Call(p) ==
  /\ pc[p] = "after" /\ todo[p] # << >>
  /\ \E e \in Head(todo[p]).of : Fetch(p, e) \/ Perform(p, e) \/ CallFails(p, e)
  /\ UNCHANGED <<db, locks, pc, arg>>

Respond(p) ==
  /\ pc[p] = "after" /\ todo[p] = << >>
  /\ Finish(p) /\ UNCHANGED <<db, locks, derived>>

-----------------------------------------------------------------------------
(* The database aborts one transaction of a lock cycle; the only cycle is  *)
(* an edit that holds the entity and waits for its queue row, against a    *)
(* review or a removal that holds the row and waits for the entity.        *)
WaitsFor(p, q) ==
  \/ pc[p] = "dedupe" /\ \E i \in Superseded(arg[p].entity) : entryLock[i] = q
  \/ pc[p] \in {"remove_row", "review_apply"} /\ entityLock[arg[p].entity] = q

DeadlockVictim(p) ==
  /\ \E q \in Proc : WaitsFor(p, q) /\ WaitsFor(q, p)
  /\ Fail(p)

\* The pod restarts, or a transaction runs into its timeout.
Crash(p) == Crashes /\ pc[p] # "idle" /\ Fail(p)

-----------------------------------------------------------------------------
Init ==
  /\ status = [e \in Entity |-> "absent"]
  /\ text = [e \in Entity |-> NoEntry]
  /\ entry = [i \in EntryId |-> NoRow]
  /\ audits = {}
  /\ entityLock = [e \in Entity |-> None]
  /\ entryLock = [i \in EntryId |-> None]
  /\ pc = [p \in Proc |-> "idle"]
  /\ arg = [p \in Proc |-> NoArg]
  /\ todo = [p \in Proc |-> << >>]
  /\ queueIndex = {}
  /\ publicIndex = [e \in Entity |-> NoEntry]
  /\ view = {}
  /\ created = {}
  /\ announced = [i \in EntryId |-> "absent"]

Start(p) ==
  \/ \E e \in Entity : Create(p, e) \/ UpdateRead(p, e) \/ RemoveRead(p, e)
  \/ \E i \in EntryId : \/ \E by \in Actor, d \in Decision : ReviewRead(p, i, by, d)
                        \/ \E m \in Staff : ClaimRead(p, i, m) \/ ReleaseRead(p, i, m)
  \/ \E S \in SUBSET Unreviewed : ListRead(p, S) \/ SearchRead(p, S)

Statement(p) ==
  \/ UpdateRow(p) \/ DeleteUnreviewed(p) \/ Enqueue(p)
  \/ SnapshotEntries(p) \/ RemoveEntries(p) \/ RemoveRow(p)
  \/ ReviewExists(p) \/ ReviewDecide(p) \/ ReviewApply(p)
  \/ ClaimWrite(p) \/ ReleaseWrite(p) \/ HealOrphans(p)
  \/ Call(p) \/ Respond(p) \/ DeadlockVictim(p)

Next == \E p \in Proc : Start(p) \/ Statement(p) \/ Crash(p)

Spec == Init /\ [][Next]_vars

\* A started request runs on; Postgres queues the transactions that wait for
\* a row lock, so a waiting one is not overtaken for ever (strong fairness).
RequestsRun == \A p \in Proc : SF_vars(Statement(p))

\* Moderators open the unfiltered queue page again and again.
QueueIsRead == SF_vars(\E p \in Proc : ListRead(p, Unreviewed))

FairSpec == Spec /\ RequestsRun
LiveSpec == FairSpec /\ QueueIsRead

-----------------------------------------------------------------------------
(* Properties.                                                             *)

TablesTyped  == /\ status \in [Entity -> Status] /\ text \in [Entity -> EntryRef]
                /\ entry \in [EntryId -> Row] /\ audits \subseteq EntryId
LocksTyped   == /\ entityLock \in [Entity -> Proc \union {None}]
                /\ entryLock \in [EntryId -> Proc \union {None}]
ControlTyped == pc \in [Proc -> PC] /\ arg \in [Proc -> Arg] /\ todo \in [Proc -> Seq(Effect)]
DerivedTyped == /\ queueIndex \subseteq Entity /\ publicIndex \in [Entity -> EntryRef]
                /\ view \subseteq Ratings /\ created \subseteq EntryRef
                /\ announced \in [EntryId -> Status \union {"none"}]

\* Every column, lock, request and index has a value of its kind; above all no
\* company is counted in a ratings view and no request has an unknown effect.
TypeOK == TablesTyped /\ LocksTyped /\ ControlTyped /\ DerivedTyped

\* reenqueue() "keeps exactly one live entry per entity": two concurrent edits,
\* or an edit and a decision, never leave two entries to review.
OneLiveEntry ==
  \A i, j \in Unreviewed : entry[i].entity = entry[j].entity => i = j

\* The status of a row is the verdict on the text the row holds: an entity is
\* pending exactly while the entry of its current text is undecided, and what
\* it was approved (or rejected, ...) for is the text it has now.
VerdictIsOnCurrentText ==
  \A e \in Entity : Exists(e) =>
    LET i == text[e]
    IN /\ i \in RowsOf(e)
       /\ status[e] = IF Live(i) THEN "pending" ELSE EntityStatus(entry[i].decision, entry[i].escalated)

\* An open entry is escalated exactly if its entity was decided Cap times.
DecidedOf(e) == {i \in RowsOf(e) : entry[i].decision # "none"}
EscalatedAtCap ==
  \A i \in Unreviewed : Exists(entry[i].entity) =>
    (entry[i].escalated <=> Cardinality(DecidedOf(entry[i].entity)) >= Cap)

\* Nobody but an admin approves or rejects an escalated entry, the verdict
\* consumer least of all.
EscalatedNeedsAdmin ==
  \A i \in EntryId : entry[i].escalated /\ entry[i].decision \in {"approved", "rejected"}
                       => entry[i].by \in Admins

\* approveWithAudit(): the decision and its audit row commit or fail together.
AuditedIffAutoApproved ==
  audits = {i \in EntryId : entry[i].decision = "approved" /\ entry[i].by = System}

\* A status_changed event tells the committed verdict on its entry.
AnnouncedWasDecided ==
  \A i \in EntryId : announced[i] # "absent" =>
    /\ entry[i].decision # "none"
    /\ announced[i] = EntityStatus(entry[i].decision, entry[i].escalated)

\* When no request is under way, public search knows every approved company and
\* round rating: no order of approvals, edits and deletions leaves one out.
Quiet == \A p \in Proc : pc[p] = "idle"
ApprovedIsSearchable ==
  Quiet /\ ~Unreliable /\ ~Crashes =>
    \A e \in RoundRatings \union Companies : status[e] = "approved" => publicIndex[e] # NoEntry

\* Two reviews of one entry, whoever they are by, never both take effect.
DecisionIsFinal ==
  [][\A i \in EntryId : entry[i].decision # "none" =>
       entry'[i].decision = entry[i].decision /\ entry'[i].by = entry[i].by]_vars

\* "every past reviewed decision on this entityId stays in the table as a
\* permanent trail": an entry that was decided leaves with its entity only.
TrailIsPermanent ==
  [][\A i \in EntryId : Stored(i) /\ ~Live(i) /\ entry'[i].row = "gone" =>
       status'[entry[i].entity] = "deleted"]_vars

\* A claim is taken on an unreviewed and unclaimed entry and given back by the
\* moderator who holds it; a concurrent claim never takes it over.
ClaimIsNotStolen ==
  [][\A i \in EntryId : entry'[i].claimedBy # entry[i].claimedBy =>
       \/ entry[i].claimedBy = None /\ Live(i)
       \/ entry'[i].claimedBy = None /\ \E p \in Proc :
            pc[p] = "release_write" /\ arg[p].entry = i /\ arg[p].by = entry[i].claimedBy]_vars

\* Every request is answered: no lock is kept, no lock cycle stays.
EveryRequestEnds == \A p \in Proc : pc[p] # "idle" ~> pc[p] = "idle"

\* A queue entry whose entity is gone is removed by the next read of the queue.
Orphan(i) == Live(i) /\ ~Exists(entry[i].entity)
OrphansAreHealed == \A i \in EntryId : Orphan(i) ~> ~Stored(i)

\* When submissions stop, every pending entity ends up in the moderators'
\* search, whatever order the indexing calls of earlier requests ran in.
PendingBecomesFindable ==
  <>[](\A e \in Entity : status[e] = "pending" => e \in queueIndex)

-----------------------------------------------------------------------------
(* The statement-level handlers implement the gate, step by step.          *)
Open(e)          == Exists(e) /\ LiveOf(e) # {}
OpenEscalated(e) == Open(e) /\ \E i \in LiveOf(e) : entry[i].escalated
DecidedCount(e)  == IF Exists(e) THEN Cardinality(DecidedOf(e)) ELSE 0

Gate == INSTANCE ModerationGate WITH
  open      <- {e \in Entity : Open(e)},
  escalated <- {e \in Entity : OpenEscalated(e)},
  decided   <- [e \in Entity |-> DecidedCount(e)]

\* Each step of the handlers is one operation of the gate, or none: edits, decisions
\* and deletions take effect at one statement, whatever runs between their others.
ImplementsGate == Gate!Spec
==============================================================================
