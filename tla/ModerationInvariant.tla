-------------------------- MODULE ModerationInvariant --------------------------
(***************************************************************************)
(* The inductive invariant behind the safety properties of the gate: what  *)
(* a request knows, and which rows it has locked, at each of its           *)
(* statements.                                                             *)
(***************************************************************************)
EXTENDS ModerationQueue

Reviewing == {"review_exists", "review_decide", "review_apply"}
Writing   == {"enqueue", "remove_row", "review_apply"}

\* An id is either unused or names a submission of an entity that was created.
RowsAreOfEntities ==
  \A i \in EntryId :
    \/ entry[i] = NoRow
    \/ entry[i].row # "unused" /\ entry[i].entity \in Entity /\ status[entry[i].entity] # "absent"

\* What a request read still names rows that were inserted, whatever happened
\* to them since; the reviewer's right to decide was checked on the entry itself.
ReadsOf(p) ==
  /\ pc[p] \in {"update_row", "dedupe", "enqueue"} => arg[p].entity \in Entity
  /\ pc[p] \in {"remove_select", "remove_entries", "remove_row"} => arg[p].entity \in Ratings
  /\ pc[p] \in {"update_row", "dedupe", "enqueue", "remove_select", "remove_entries", "remove_row"}
       => status[arg[p].entity] # "absent"
  /\ pc[p] = "remove_entries" =>
       \A i \in arg[p].batch : entry[i] # NoRow /\ entry[i].entity = arg[p].entity
  /\ pc[p] \in {"claim_write", "release_write"} => arg[p].entry \in EntryId /\ arg[p].by \in Staff
  /\ pc[p] \in {"heal_list", "heal_search"} => \A i \in arg[p].batch : entry[i] # NoRow
  /\ pc[p] \in Reviewing =>
       /\ arg[p].entry \in EntryId /\ entry[arg[p].entry] # NoRow
       /\ arg[p].entity = entry[arg[p].entry].entity
       /\ arg[p].decision \in Decision /\ arg[p].by \in Actor
       /\ MayDecide(arg[p].by, arg[p].decision, arg[p].entry)

ReadsAreOfRows == \A p \in Proc : ReadsOf(p)

\* Row locks are held at the statements that write the rows, and on those rows.
LocksOf(p) ==
  /\ pc[p] \notin Writing => Held(p) = {}
  /\ pc[p] \in {"dedupe", "enqueue"} =>
       entityLock[arg[p].entity] = p /\ Exists(arg[p].entity)
  /\ pc[p] = "enqueue" => Held(p) = LiveOf(arg[p].entity)
  /\ pc[p] = "remove_row" => Held(p) \subseteq RowsOf(arg[p].entity)
  /\ pc[p] = "review_apply" => Held(p) = {arg[p].entry} /\ Live(arg[p].entry)

LocksAreHeld == \A p \in Proc : LocksOf(p)

\* The undecided entry of an entity that exists is the one of its current text.
LiveIsCurrent ==
  \A i \in Unreviewed : Exists(entry[i].entity) => text[entry[i].entity] = i

TablesInv == /\ RowsAreOfEntities /\ OneLiveEntry /\ LiveIsCurrent /\ VerdictIsOnCurrentText
             /\ EscalatedNeedsAdmin /\ AuditedIffAutoApproved

\* The inductive invariant: no request, at any statement, holds less than it
\* needs or decides more than it may.
GateInv == TypeOK /\ ReadsAreOfRows /\ LocksAreHeld /\ TablesInv
===============================================================================
