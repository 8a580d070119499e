-------------------------- MODULE ModerationRefinement --------------------------
(***************************************************************************)
(* The statement-level handlers implement the abstract gate, for every     *)
(* number of entities, requests, entries and staff, and every cap.         *)
(***************************************************************************)
EXTENDS ModerationProofs, FiniteSetTheorems

LEMMA EntriesFinite ==
  ASSUME NEW S \in SUBSET EntryId
  PROVE  IsFiniteSet(S) /\ Cardinality(S) \in Nat
<1>1. IsFiniteSet(EntryId)
  BY ConstantsOK, FS_Interval DEF EntryId
<1>2. QED
  BY <1>1, FS_Subset, FS_CardinalityType

LEMMA CapIsPositive == Cap \in Nat /\ Cap > 0
BY ConstantsOK

\* The submissions of e that the gate sees are the same after the step.
SameRows(e) == \A i \in EntryId :
  /\ i \in RowsOf(e)' <=> i \in RowsOf(e)
  /\ i \in RowsOf(e) => /\ entry'[i].decision = entry[i].decision
                        /\ entry'[i].escalated = entry[i].escalated

SameAtGate(e) ==
  /\ Open(e)' <=> Open(e)
  /\ OpenEscalated(e)' <=> OpenEscalated(e)
  /\ DecidedCount(e)' = DecidedCount(e)

LEMMA RowsMakeSets ==
  ASSUME NEW e \in Entity, SameRows(e)
  PROVE  LiveOf(e)' = LiveOf(e) /\ DecidedOf(e)' = DecidedOf(e)
<1>1. \A i \in EntryId : /\ i \in LiveOf(e)' <=> i \in LiveOf(e)
                         /\ i \in DecidedOf(e)' <=> i \in DecidedOf(e)
  BY DEF SameRows, LiveOf, DecidedOf, Live, RowsOf, Stored
<1>2. QED
  BY <1>1 DEF LiveOf, DecidedOf, RowsOf

LEMMA ViewKept ==
  ASSUME NEW e \in Entity, Exists(e)' <=> Exists(e), Exists(e) => SameRows(e)
  PROVE  SameAtGate(e)
<1>1. CASE ~Exists(e)
  BY <1>1 DEF SameAtGate, Open, OpenEscalated, DecidedCount
<1>2. CASE Exists(e)
  <2>1. LiveOf(e)' = LiveOf(e) /\ DecidedOf(e)' = DecidedOf(e)
    BY <1>2, RowsMakeSets
  <2>2. \A i \in LiveOf(e) : entry'[i].escalated = entry[i].escalated
    BY <1>2 DEF SameRows, LiveOf, RowsOf
  <2>3. QED
    BY <1>2, <2>1, <2>2 DEF SameAtGate, Open, OpenEscalated, DecidedCount
<1>3. QED
  BY <1>1, <1>2

\* The variables of the gate, entity by entity.
LEMMA GateUnseen ==
  ASSUME UNCHANGED status,
         \A e \in Entity : Open(e)' <=> Open(e),
         \A e \in Entity : OpenEscalated(e)' <=> OpenEscalated(e),
         \A e \in Entity : DecidedCount(e)' = DecidedCount(e)
  PROVE  UNCHANGED Gate!gate
<1>1. {e \in Entity : Open(e)}' = {e \in Entity : Open(e)}
  OBVIOUS
<1>2. {e \in Entity : OpenEscalated(e)}' = {e \in Entity : OpenEscalated(e)}
  OBVIOUS
<1>3. [e \in Entity |-> DecidedCount(e)]' = [e \in Entity |-> DecidedCount(e)]
  OBVIOUS
<1>4. QED
  BY <1>1, <1>2, <1>3 DEF Gate!gate

\* A step that leaves every entity as the gate sees it is a step the gate does not see.
LEMMA GateStutters ==
  ASSUME UNCHANGED status, \A e \in Entity : Exists(e) => SameRows(e)
  PROVE  UNCHANGED Gate!gate
<1>1. \A e \in Entity : SameAtGate(e)
  BY ViewKept DEF Exists
<1>2. /\ \A e \in Entity : Open(e)' <=> Open(e)
      /\ \A e \in Entity : OpenEscalated(e)' <=> OpenEscalated(e)
      /\ \A e \in Entity : DecidedCount(e)' = DecidedCount(e)
  BY <1>1 DEF SameAtGate
<1>3. QED
  BY <1>2, GateUnseen

\* A step that changes one entity x is the operation of the gate that sets its
\* status, whether it is open, whether that is escalated, and its count.
LEMMA GateChanges ==
  ASSUME NEW x \in Entity, NEW s, NEW o \in BOOLEAN, NEW esc \in BOOLEAN, NEW n,
         \A e \in Entity \ {x} : SameAtGate(e),
         Open(x)' <=> o, OpenEscalated(x)' <=> esc, DecidedCount(x)' = n
  PROVE  /\ {e \in Entity : Open(e)}' =
              IF o THEN {e \in Entity : Open(e)} \union {x} ELSE {e \in Entity : Open(e)} \ {x}
         /\ {e \in Entity : OpenEscalated(e)}' =
              IF esc THEN {e \in Entity : OpenEscalated(e)} \union {x}
                     ELSE {e \in Entity : OpenEscalated(e)} \ {x}
         /\ [e \in Entity |-> DecidedCount(e)]' =
              [[e \in Entity |-> DecidedCount(e)] EXCEPT ![x] = n]
<1>1. /\ \A e \in Entity : Open(e)' <=> IF e = x THEN o ELSE Open(e)
      /\ \A e \in Entity : OpenEscalated(e)' <=> IF e = x THEN esc ELSE OpenEscalated(e)
      /\ \A e \in Entity : DecidedCount(e)' = IF e = x THEN n ELSE DecidedCount(e)
  BY DEF SameAtGate
<1>2. \A e \in Entity : Open(e)' <=> IF e = x THEN o ELSE Open(e)
  BY <1>1
<1>3. \A e \in Entity : OpenEscalated(e)' <=> IF e = x THEN esc ELSE OpenEscalated(e)
  BY <1>1
<1>4. \A e \in Entity : DecidedCount(e)' = IF e = x THEN n ELSE DecidedCount(e)
  BY <1>1
<1>5. {e \in Entity : Open(e)}' =
        IF o THEN {e \in Entity : Open(e)} \union {x} ELSE {e \in Entity : Open(e)} \ {x}
  BY <1>2
<1>6. {e \in Entity : OpenEscalated(e)}' =
        IF esc THEN {e \in Entity : OpenEscalated(e)} \union {x}
               ELSE {e \in Entity : OpenEscalated(e)} \ {x}
  BY <1>3
<1>7. [e \in Entity |-> DecidedCount(e)]' = [[e \in Entity |-> DecidedCount(e)] EXCEPT ![x] = n]
  BY <1>4
<1>8. QED
  BY <1>5, <1>6, <1>7

-----------------------------------------------------------------------------
(* A new submission.                                                       *)

\* The gate after a submission of x: open, escalated as its row says, and with the
\* same decided submissions as before.
LEMMA InsertedAtGate ==
  ASSUME GateInv, NEW x \in Entity, NEW i, NEW S, Inserts(x, i, S), NEW esc \in BOOLEAN,
         entry' = [Gone(S) EXCEPT ![i] = NewRow(x, esc)]
  PROVE  /\ \A e \in Entity \ {x} : SameAtGate(e)
         /\ Open(x)' /\ (OpenEscalated(x)' <=> esc) /\ DecidedOf(x)' = DecidedOf(x)
<1>1. status \in [Entity -> Status] /\ entry \in [EntryId -> Row]
  BY DEF GateInv, TypeOK, TablesTyped
<1>2. status' = [status EXCEPT ![x] = "pending"] /\ S = LiveOf(x)
  BY DEF Inserts
<1>3. i \in EntryId /\ ~Stored(i) /\ Stored(i)' /\ entry'[i].entity = x /\ entry'[i].decision = "none"
  BY InsertedRows DEF Stored, NoRow
<1>4. entry'[i].escalated = esc
  BY <1>3, NewRowTyped DEF Gone
<1>5. \A j \in EntryId \ {i} :
        /\ entry'[j].entity = entry[j].entity /\ entry'[j].escalated = entry[j].escalated
        /\ entry'[j].decision = entry[j].decision /\ (Stored(j)' <=> Stored(j) /\ j \notin S)
  BY InsertedRows
<1>6. ASSUME NEW e \in Entity \ {x}
      PROVE  SameAtGate(e)
  <2>1. Exists(e)' <=> Exists(e)
    BY <1>1, <1>2 DEF Exists
  <2>2. SameRows(e)
    BY <1>2, <1>3, <1>5 DEF SameRows, RowsOf, LiveOf
  <2>3. QED
    BY <2>1, <2>2, ViewKept
<1>7. LiveOf(x)' = {i}
  <2>1. \A j \in EntryId : j \in LiveOf(x)' <=> j = i
    BY <1>2, <1>3, <1>5 DEF LiveOf, RowsOf, Live
  <2>2. LiveOf(x)' \subseteq EntryId
    BY DEF LiveOf, RowsOf
  <2>3. QED
    BY <1>3, <2>1, <2>2
<1>8. DecidedOf(x)' = DecidedOf(x)
  <2>1. \A j \in EntryId : j \in DecidedOf(x)' <=> j \in DecidedOf(x)
    BY <1>2, <1>3, <1>5 DEF DecidedOf, LiveOf, RowsOf, Live
  <2>2. DecidedOf(x)' \subseteq EntryId /\ DecidedOf(x) \subseteq EntryId
    BY DEF DecidedOf, RowsOf
  <2>3. QED
    BY <2>1, <2>2
<1>9. Exists(x)'
  BY <1>1, <1>2 DEF Exists
<1>10. QED
  BY <1>4, <1>6, <1>7, <1>8, <1>9 DEF Open, OpenEscalated

LEMMA CreateSubmits ==
  ASSUME GateInv, NEW p \in Proc, NEW x \in Entity, Create(p, x)
  PROVE  Gate!Submit(x)
<1>1. status[x] = "absent" /\ status' = [status EXCEPT ![x] = "pending"]
  BY DEF Create
<1>2. RowsOf(x) = {}
  BY <1>1 DEF RowsOf, Stored, NoRow, GateInv, TablesInv, RowsAreOfEntities
<1>3. PICK i \in Fresh : Inserts(x, i, {}) /\ entry' = [Gone({}) EXCEPT ![i] = NewRow(x, FALSE)]
  <2>1. LiveOf(x) = {} /\ Gone({}) = entry
    BY <1>2 DEF LiveOf, Gone, GateInv, TypeOK, TablesTyped
  <2>2. QED
    BY <2>1 DEF Create, Inserts
<1>4. /\ \A e \in Entity \ {x} : SameAtGate(e)
      /\ Open(x)' <=> TRUE
      /\ OpenEscalated(x)' <=> FALSE
      /\ DecidedOf(x)' = DecidedOf(x)
  BY <1>3, InsertedAtGate
<1>5. DecidedCount(x)' = 0 /\ DecidedCount(x) = 0 /\ ~OpenEscalated(x)
  <2>1. DecidedOf(x)' = {}
    BY <1>2, <1>4 DEF DecidedOf
  <2>2. QED
    BY <1>1, <2>1, FS_EmptySet DEF DecidedCount, OpenEscalated, Open, Exists
<1>6. /\ {e \in Entity : Open(e)}' = {e \in Entity : Open(e)} \union {x}
      /\ {e \in Entity : OpenEscalated(e)}' = {e \in Entity : OpenEscalated(e)} \ {x}
      /\ [e \in Entity |-> DecidedCount(e)]' = [[e \in Entity |-> DecidedCount(e)] EXCEPT ![x] = 0]
  BY <1>4, <1>5, GateChanges
<1>7. /\ {e \in Entity : OpenEscalated(e)} \ {x} = {e \in Entity : OpenEscalated(e)}
      /\ [[e \in Entity |-> DecidedCount(e)] EXCEPT ![x] = 0] = [e \in Entity |-> DecidedCount(e)]
  BY <1>5
<1>8. QED
  BY <1>1, <1>6, <1>7 DEF Gate!Submit

LEMMA EnqueueResubmits ==
  ASSUME GateInv, NEW p \in Proc, Enqueue(p), NEW x, x = arg[p].entity
  PROVE  x \in Entity /\ Gate!Resubmit(x)
<1>1. x \in Entity /\ Exists(x) /\ Held(p) = LiveOf(x)
  BY DEF Enqueue, GateInv, ReadsAreOfRows, ReadsOf, LocksAreHeld, LocksOf
<1>2. status' = [status EXCEPT ![x] = "pending"] /\ Escalates(p, x) \in BOOLEAN
  BY DEF Enqueue, Resubmitted, Escalates
<1>3. PICK i \in Fresh : /\ Inserts(x, i, Held(p))
                         /\ entry' = [Gone(Held(p)) EXCEPT ![i] = NewRow(x, Escalates(p, x))]
  BY <1>1, <1>2 DEF Enqueue, Inserts
<1>4. /\ \A e \in Entity \ {x} : SameAtGate(e)
      /\ Open(x)' <=> TRUE
      /\ OpenEscalated(x)' <=> Escalates(p, x)
      /\ DecidedOf(x)' = DecidedOf(x)
  BY <1>1, <1>2, <1>3, InsertedAtGate
<1>5. DecidedCount(x)' = Cardinality(DecidedOf(x)) /\ DecidedCount(x) = Cardinality(DecidedOf(x))
  BY <1>1, <1>2, <1>4 DEF DecidedCount, Exists, GateInv, TypeOK, TablesTyped
<1>6. Escalates(p, x) <=> DecidedCount(x) >= Cap
  <2>1. RowsOf(x) \ Held(p) = DecidedOf(x)
    BY <1>1 DEF DecidedOf, LiveOf, RowsOf, Live
  <2>2. QED
    BY <1>5, <2>1 DEF Escalates
<1>7. /\ {e \in Entity : Open(e)}' = {e \in Entity : Open(e)} \union {x}
      /\ {e \in Entity : OpenEscalated(e)}' =
           (IF Escalates(p, x) THEN {e \in Entity : OpenEscalated(e)} \union {x}
                               ELSE {e \in Entity : OpenEscalated(e)} \ {x})
      /\ [e \in Entity |-> DecidedCount(e)]' =
           [[e \in Entity |-> DecidedCount(e)] EXCEPT ![x] = DecidedCount(x)]
  BY <1>1, <1>2, <1>4, <1>5, GateChanges
<1>8. [[e \in Entity |-> DecidedCount(e)] EXCEPT ![x] = DecidedCount(x)] = [e \in Entity |-> DecidedCount(e)]
  BY <1>1
<1>9. Gate!Resubmit(x)
  BY <1>1, <1>2, <1>6, <1>7, <1>8 DEF Gate!Resubmit, Exists
<1>10. QED
  BY <1>1, <1>9

-----------------------------------------------------------------------------
(* A decision and a deletion.                                              *)

LEMMA ReviewDecides ==
  ASSUME GateInv, NEW p \in Proc, NEW i \in EntryId, NEW x \in Entity, NEW d \in Decision,
         NEW by \in Actor, Decides(p, i, x, d, by)
  PROVE  Gate!Decide(x, EntityStatus(d, entry[i].escalated))
<1> DEFINE s == EntityStatus(d, entry[i].escalated)
<1>1. status \in [Entity -> Status] /\ entry \in [EntryId -> Row]
  BY DEF GateInv, TypeOK, TablesTyped
<1>2. /\ Exists(x) /\ Live(i) /\ entry[i].entity = x /\ status' = [status EXCEPT ![x] = s]
      /\ entry' = [entry EXCEPT ![i] = [entry[i] EXCEPT !.decision = d, !.by = by]]
  BY DEF Decides
<1>3. LiveOf(x) = {i}
  <2>1. \A j \in EntryId : j \in LiveOf(x) <=> j = i
    BY <1>2 DEF LiveOf, RowsOf, Live, Unreviewed, GateInv, TablesInv, OneLiveEntry
  <2>2. QED
    BY <2>1 DEF LiveOf, RowsOf
<1>4. d # "none" /\ s \in Decided /\ s \notin {"absent", "deleted"}
  BY DEF Decision, Decided, EntityStatus
<1>5. /\ \A j \in EntryId : /\ Stored(j)' <=> Stored(j)
                            /\ entry'[j].entity = entry[j].entity
                            /\ entry'[j].escalated = entry[j].escalated
      /\ \A j \in EntryId \ {i} : entry'[j].decision = entry[j].decision
      /\ entry'[i].decision = d
  BY <1>1, <1>2 DEF Row, Stored
<1>6. ASSUME NEW e \in Entity \ {x}
      PROVE  SameAtGate(e)
  <2>1. Exists(e)' <=> Exists(e)
    BY <1>1, <1>2 DEF Exists
  <2>2. SameRows(e)
    BY <1>2, <1>5 DEF SameRows, RowsOf
  <2>3. QED
    BY <2>1, <2>2, ViewKept
<1>7. LiveOf(x)' = {}
  BY <1>3, <1>4, <1>5 DEF LiveOf, RowsOf, Live
<1>8. DecidedOf(x)' = DecidedOf(x) \union {i} /\ i \notin DecidedOf(x)
  <2>1. i \in DecidedOf(x)' /\ i \notin DecidedOf(x)
    BY <1>2, <1>4, <1>5 DEF DecidedOf, RowsOf, Live
  <2>2. \A j \in EntryId \ {i} : j \in DecidedOf(x)' <=> j \in DecidedOf(x)
    BY <1>5 DEF DecidedOf, RowsOf
  <2>3. DecidedOf(x)' \subseteq EntryId /\ DecidedOf(x) \subseteq EntryId
    BY DEF DecidedOf, RowsOf
  <2>4. QED
    BY <2>1, <2>2, <2>3
<1>9. Exists(x)'
  BY <1>1, <1>2, <1>4 DEF Exists
<1>10. Cardinality(DecidedOf(x) \union {i}) = Cardinality(DecidedOf(x)) + 1
  <2>1. DecidedOf(x) \in SUBSET EntryId
    BY DEF DecidedOf, RowsOf
  <2>2. QED
    BY <1>8, <2>1, EntriesFinite, FS_AddElement
<1>11. DecidedCount(x)' = DecidedCount(x) + 1
  BY <1>2, <1>8, <1>9, <1>10 DEF DecidedCount
<1>12. Open(x) /\ (Open(x)' <=> FALSE) /\ (OpenEscalated(x)' <=> FALSE)
  BY <1>2, <1>3, <1>7 DEF Open, OpenEscalated
<1>13. /\ {e \in Entity : Open(e)}' = {e \in Entity : Open(e)} \ {x}
       /\ {e \in Entity : OpenEscalated(e)}' = {e \in Entity : OpenEscalated(e)} \ {x}
       /\ [e \in Entity |-> DecidedCount(e)]' =
            [[e \in Entity |-> DecidedCount(e)] EXCEPT ![x] = DecidedCount(x) + 1]
  BY <1>6, <1>11, <1>12, GateChanges
<1>14. OpenEscalated(x) <=> entry[i].escalated
  BY <1>3, <1>12 DEF OpenEscalated
<1>15. [[e \in Entity |-> DecidedCount(e)] EXCEPT ![x] = DecidedCount(x) + 1]
         = [[e \in Entity |-> DecidedCount(e)] EXCEPT ![x] = @ + 1]
  OBVIOUS
<1>16. /\ s = "permanently_rejected" => entry[i].escalated
       /\ s = "rejected" => ~entry[i].escalated
  BY DEF EntityStatus, Decision
<1>17. QED
  BY <1>2, <1>12, <1>13, <1>14, <1>15, <1>16 DEF Gate!Decide

LEMMA RemoveWithdraws ==
  ASSUME GateInv, NEW p \in Proc, RemoveRow(p), ~Fail(p), NEW x, x = arg[p].entity
  PROVE  x \in Entity /\ Gate!Withdraw(x)
<1>1. /\ x \in Ratings /\ Exists(x) /\ Held(p) \subseteq RowsOf(x)
      /\ entry' = Gone(Held(p)) /\ status' = [status EXCEPT ![x] = "deleted"]
  BY DEF RemoveRow, GateInv, ReadsAreOfRows, ReadsOf, LocksAreHeld, LocksOf
<1>2. x \in Entity /\ x \notin Companies
  BY <1>1, ConstantsOK DEF Entity
<1>3. status \in [Entity -> Status] /\ entry \in [EntryId -> Row]
  BY DEF GateInv, TypeOK, TablesTyped
<1>4. ASSUME NEW e \in Entity \ {x}
      PROVE  SameAtGate(e)
  <2>1. Exists(e)' <=> Exists(e)
    BY <1>1, <1>3 DEF Exists
  <2>2. \A j \in EntryId : j \notin Held(p) => entry'[j] = entry[j]
    BY <1>1, <1>3 DEF Gone
  <2>3. \A j \in Held(p) : entry'[j].entity = entry[j].entity /\ entry[j].entity = x
    BY <1>1, <1>3 DEF Gone, Row, RowsOf
  <2>4. SameRows(e)
    BY <2>2, <2>3 DEF SameRows, RowsOf, Stored
  <2>5. QED
    BY <2>1, <2>4, ViewKept
<1>5. ~Exists(x)'
  BY <1>1, <1>2, <1>3 DEF Exists
<1>6. (Open(x)' <=> FALSE) /\ (OpenEscalated(x)' <=> FALSE) /\ DecidedCount(x)' = 0
  BY <1>5 DEF Open, OpenEscalated, DecidedCount
<1>7. /\ {e \in Entity : Open(e)}' = {e \in Entity : Open(e)} \ {x}
      /\ {e \in Entity : OpenEscalated(e)}' = {e \in Entity : OpenEscalated(e)} \ {x}
      /\ [e \in Entity |-> DecidedCount(e)]' = [[e \in Entity |-> DecidedCount(e)] EXCEPT ![x] = 0]
  BY <1>2, <1>4, <1>6, GateChanges
<1>8. QED
  BY <1>1, <1>2, <1>7 DEF Gate!Withdraw, Exists

-----------------------------------------------------------------------------
(* The statements the gate does not see.                                   *)

LEMMA UnchangedRows ==
  ASSUME UNCHANGED <<status, entry>>
  PROVE  UNCHANGED Gate!gate
BY GateStutters DEF SameRows, RowsOf, Stored

LEMMA DeletedOrphans ==
  ASSUME GateInv, NEW S, Deletes(S), UNCHANGED status
  PROVE  UNCHANGED Gate!gate
<1>1. ASSUME NEW e \in Entity, Exists(e)
      PROVE  SameRows(e)
  <2>1. \A j \in EntryId : j \in S => entry[j].entity # e
    BY <1>1 DEF Deletes, Exists
  <2>2. QED
    BY <2>1, DeletedRows DEF GateInv, SameRows, RowsOf
<1>2. QED
  BY <1>1, GateStutters

LEMMA ClaimsUnseen ==
  ASSUME GateInv, NEW p \in Proc, NEW i \in EntryId, NEW m, Claims(p, i, m), UNCHANGED status
  PROVE  UNCHANGED Gate!gate
<1>1. entry \in [EntryId -> Row]
  BY DEF GateInv, TypeOK, TablesTyped
<1>2. \A j \in EntryId : /\ Stored(j)' <=> Stored(j)
                         /\ entry'[j].entity = entry[j].entity
                         /\ entry'[j].decision = entry[j].decision
                         /\ entry'[j].escalated = entry[j].escalated
  BY <1>1 DEF Claims, Row, Stored
<1>3. QED
  BY <1>2, GateStutters DEF SameRows, RowsOf

\* The statements after which a handler only moves on, and all failures.
Moving(p) ==
  \/ UpdateRow(p) \/ DeleteUnreviewed(p) \/ SnapshotEntries(p) \/ RemoveEntries(p)
  \/ ReviewDecide(p) \/ Call(p) \/ Respond(p) \/ DeadlockVictim(p) \/ Crash(p) \/ Fail(p)

LEMMA MovingUnseen ==
  ASSUME NEW p \in Proc, Moving(p)
  PROVE  UNCHANGED Gate!gate
<1>1. UNCHANGED <<status, entry>>
  BY DEF Moving, UpdateRow, DeleteUnreviewed, SnapshotEntries, RemoveEntries, ReviewDecide, Call,
         Respond, DeadlockVictim, Crash, Fail, db
<1>2. QED
  BY <1>1, UnchangedRows

LEMMA StartUnseen ==
  ASSUME NEW p \in Proc, Start(p), \A e \in Entity : ~Create(p, e)
  PROVE  UNCHANGED Gate!gate
<1>1. UNCHANGED <<status, entry>>
  BY DEF Start, UpdateRead, RemoveRead, ReviewRead, ClaimRead, ReleaseRead, ListRead,
         SearchRead, Begin, db
<1>2. QED
  BY <1>1, UnchangedRows

LEMMA HealingUnseen ==
  ASSUME GateInv, NEW p \in Proc, ReviewExists(p) \/ HealOrphans(p)
  PROVE  UNCHANGED Gate!gate
<1>1. CASE UNCHANGED <<status, entry>>
  BY <1>1, UnchangedRows
<1>2. CASE HealOrphans(p) /\ ~Fail(p)
  <2> DEFINE S == {i \in Orphans(arg[p].batch) : Stored(i)}
  <2>1. entry' = Gone(S) /\ UNCHANGED <<status, text, audits>>
    BY <1>2 DEF HealOrphans
  <2>2. arg[p].batch \subseteq EntryId
    BY DEF GateInv, TypeOK, ControlTyped, Arg
  <2>3. PICK T : Deletes(T)
    BY <2>1, <2>2 DEF Deletes, Exists, Orphans
  <2>4. QED
    BY <2>1, <2>3, DeletedOrphans
<1>3. CASE ReviewExists(p) /\ ~(UNCHANGED <<status, entry>>)
  <2>1. /\ arg[p].entry \in EntryId /\ entry[arg[p].entry].entity = arg[p].entity
        /\ ~Exists(arg[p].entity) /\ Stored(arg[p].entry) /\ entry' = Gone({arg[p].entry})
        /\ UNCHANGED <<status, text, audits>>
    BY <1>3 DEF ReviewExists, Fail, db, GateInv, ReadsAreOfRows, ReadsOf, Reviewing
  <2>2. PICK T : Deletes(T)
    BY <2>1 DEF Deletes, Exists
  <2>3. QED
    BY <2>1, <2>2, DeletedOrphans
<1>4. Fail(p) => UNCHANGED <<status, entry>>
  BY DEF Fail, db
<1>5. QED
  BY <1>1, <1>2, <1>3, <1>4

LEMMA ClaimingUnseen ==
  ASSUME GateInv, NEW p \in Proc, ClaimWrite(p) \/ ReleaseWrite(p)
  PROVE  UNCHANGED Gate!gate
BY ClaimWritten, ClaimsUnseen, UnchangedRows

-----------------------------------------------------------------------------
(* The refinement.                                                         *)

LEMMA InitRefines == Init => Gate!Init
<1> SUFFICES ASSUME Init PROVE Gate!Init
  OBVIOUS
<1>1. \A e \in Entity : ~Exists(e)
  BY DEF Init, Exists
<1>2. {e \in Entity : Open(e)} = {} /\ {e \in Entity : OpenEscalated(e)} = {}
  BY <1>1 DEF Open, OpenEscalated
<1>3. \A e \in Entity : DecidedCount(e) = 0
  BY <1>1 DEF DecidedCount
<1>4. [e \in Entity |-> DecidedCount(e)] = [e \in Entity |-> 0]
  BY <1>3
<1>5. QED
  BY <1>2, <1>4 DEF Init, Gate!Init

LEMMA StepRefines ==
  ASSUME GateInv, NEW p \in Proc, Start(p) \/ Statement(p) \/ Crash(p)
  PROVE  Gate!Next \/ UNCHANGED Gate!gate
<1>1. CASE \E e \in Entity : Create(p, e)
  BY <1>1, CreateSubmits DEF Gate!Next
<1>2. CASE Start(p) /\ \A e \in Entity : ~Create(p, e)
  BY <1>2, StartUnseen
<1>3. CASE Enqueue(p)
  BY <1>3, EnqueueResubmits DEF Gate!Next
<1>4. CASE RemoveRow(p) /\ ~Fail(p)
  BY <1>4, RemoveWithdraws DEF Gate!Next
<1>5. CASE ReviewApply(p) /\ ~Fail(p)
  <2>1. PICK i \in EntryId, e \in Entity, d \in Decision, by \in Actor : Decides(p, i, e, d, by)
    BY <1>5, DecidedRow
  <2>2. EntityStatus(d, entry[i].escalated)
          \in {"approved", "rejected", "flagged", "permanently_rejected"}
    BY DEF EntityStatus, Decision
  <2>3. QED
    BY <2>1, <2>2, ReviewDecides DEF Gate!Next
<1>6. CASE ReviewExists(p) \/ HealOrphans(p) \/ ClaimWrite(p) \/ ReleaseWrite(p)
  BY <1>6, HealingUnseen, ClaimingUnseen
<1>7. CASE Moving(p)
  BY <1>7, MovingUnseen
<1>8. QED
  BY <1>1, <1>2, <1>3, <1>4, <1>5, <1>6, <1>7 DEF Statement, Moving

\* Every behaviour of the handlers is a behaviour of the abstract gate: edits,
\* decisions and deletions are atomic, and decide the submission they are meant for.
THEOREM HandlersImplementGate == Spec => ImplementsGate
<1>1. Init => Gate!Init
  BY InitRefines
<1>2. GateInv /\ [Next]_vars => [Gate!Next]_Gate!gate
  <2>1. ASSUME GateInv, Next PROVE Gate!Next \/ UNCHANGED Gate!gate
    BY <2>1, StepRefines DEF Next
  <2>2. ASSUME UNCHANGED vars PROVE UNCHANGED Gate!gate
    BY <2>2, UnchangedRows DEF vars, db
  <2>3. QED
    BY <2>1, <2>2
<1>3. QED
  BY <1>1, <1>2, GateInvariant, PTL DEF Spec, Gate!Spec, ImplementsGate

\* An open entry is escalated exactly when its entity was decided Cap times: inherited
\* from the gate.
THEOREM EscalationIsAtCap == Spec => []EscalatedAtCap
<1>1. Spec => [](Gate!EscalationFollowsCap)
  <2>1. Cap \in Nat \ {0}
    BY CapIsPositive
  <2>2. Gate!Spec => [](Gate!Typed /\ Gate!EscalationFollowsCap)
    BY <2>1, Gate!CapEscalates
  <2>3. QED
    BY <2>2, HandlersImplementGate, PTL DEF ImplementsGate
<1>2. GateInv /\ Gate!EscalationFollowsCap => EscalatedAtCap
  <2> SUFFICES ASSUME GateInv, Gate!EscalationFollowsCap, NEW i \in Unreviewed, Exists(entry[i].entity)
               PROVE  entry[i].escalated <=> Cardinality(DecidedOf(entry[i].entity)) >= Cap
    BY DEF EscalatedAtCap
  <2> DEFINE e == entry[i].entity
  <2>1. i \in EntryId /\ Live(i) /\ e \in Entity
    BY DEF Unreviewed, Live, Stored, NoRow, GateInv, TablesInv, RowsAreOfEntities
  <2>2. LiveOf(e) = {i}
    <3>1. \A j \in EntryId : j \in LiveOf(e) <=> j = i
      BY <2>1 DEF LiveOf, RowsOf, Live, Unreviewed, GateInv, TablesInv, OneLiveEntry
    <3>2. QED
      BY <2>1, <3>1 DEF LiveOf, RowsOf
  <2>3. Open(e) /\ (OpenEscalated(e) <=> entry[i].escalated)
    BY <2>2 DEF Open, OpenEscalated
  <2>4. DecidedCount(e) = Cardinality(DecidedOf(e))
    BY DEF DecidedCount
  <2>5. OpenEscalated(e) <=> DecidedCount(e) >= Cap
    BY <2>1, <2>3 DEF Gate!EscalationFollowsCap
  <2>6. QED
    BY <2>3, <2>4, <2>5
<1>3. QED
  BY <1>1, <1>2, GateInvariant, PTL
===============================================================================
