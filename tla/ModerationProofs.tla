---------------------------- MODULE ModerationProofs ----------------------------
(***************************************************************************)
(* Theorems about the moderation gate, for every number of entities,       *)
(* requests, entries and staff, and every value of the cap.                *)
(***************************************************************************)
EXTENDS ModerationInvariant, SequenceTheorems, TLAPS

-----------------------------------------------------------------------------
(* Type correctness.                                                       *)

LEMMA ArgTyped == NoArg \in Arg
BY ConstantsOK DEF NoArg, Arg, Status, Decided, Decision, EntryRef, NoEntry

LEMMA NoRowTyped == NoRow \in Row
BY DEF NoRow, Row

LEMMA EntryRefs == EntryId \subseteq EntryRef /\ NoEntry \in EntryRef /\ NoEntry \notin EntryId
BY ConstantsOK DEF EntryId, EntryRef, NoEntry

\* A row that is inserted is a row, and lives.
LEMMA NewRowTyped ==
  ASSUME NEW e \in Entity, NEW b \in BOOLEAN
  PROVE  /\ NewRow(e, b) \in Row /\ NewRow(e, b) # NoRow
         /\ NewRow(e, b).row = "stored" /\ NewRow(e, b).entity = e
         /\ NewRow(e, b).decision = "none" /\ NewRow(e, b).escalated = b
         /\ NewRow(e, b).claimedBy = None
BY DEF NewRow, NoRow, Row

LEMMA DecidedRowTyped ==
  ASSUME NEW r \in Row, NEW d \in Decision, NEW a \in Actor
  PROVE  [r EXCEPT !.decision = d, !.by = a] \in Row
BY DEF Row

LEMMA GoneRowTyped ==
  ASSUME NEW r \in Row
  PROVE  [r EXCEPT !.row = "gone"] \in Row
BY DEF Row

LEMMA GoneTyped ==
  ASSUME TypeOK, NEW S
  PROVE  Gone(S) \in [EntryId -> Row]
<1>1. entry \in [EntryId -> Row]
  BY DEF TypeOK, TablesTyped
<1>2. QED
  BY <1>1, GoneRowTyped DEF Gone

\* The effects of a request are a sequence of effects.
LEMMA DoTyped ==
  ASSUME NEW name \in EffectName, NEW S \in SUBSET Entity
  PROVE  Do(name, S) \in Seq(Effect)
<1>1. [do |-> name, of |-> S, text |-> NoEntry] \in Effect
  BY EntryRefs DEF Effect
<1>2. QED
  BY <1>1 DEF Do

\* A fetched document is written by the effect that follows.
LEMMA RestTyped ==
  ASSUME TypeOK, NEW p \in Proc, todo[p] # << >>, NEW e
  PROVE  Rest(p, e) \in Seq(Effect)
<1>1. todo[p] \in Seq(Effect)
  BY DEF TypeOK, ControlTyped
<1>2. Head(todo[p]) \in Effect /\ Tail(todo[p]) \in Seq(Effect)
  BY <1>1, HeadTailProperties
<1>3. [Head(todo[p]) EXCEPT !.of = @ \ {e}] \in Effect
  BY <1>2 DEF Effect
<1>4. QED
  BY <1>2, <1>3 DEF Rest

LEMMA EffectsTyped ==
  ASSUME NEW e \in Entity, NEW d, NEW saw
  PROVE  /\ EditEffects(e) \in Seq(Effect) /\ RemoveEffects(e, saw) \in Seq(Effect)
         /\ ReviewEffects(e, d) \in Seq(Effect)
<1>1. \A name \in EffectName, X \in SUBSET Entity : Do(name, X) \in Seq(Effect)
  BY DoTyped
<1>2. \A s, t \in Seq(Effect) : s \o t \in Seq(Effect)
  BY ConcatProperties
<1>3. EditEffects(e) \in Seq(Effect)
  BY <1>1, <1>2 DEF EditEffects, EffectName
<1>4. RemoveEffects(e, saw) \in Seq(Effect)
  BY <1>1, <1>2 DEF RemoveEffects, EffectName
<1>5. ReviewEffects(e, d) \in Seq(Effect)
  <2> DEFINE approved == IF d = "approved" THEN {e} ELSE {}
  <2>1. /\ Do("indexPublic", approved \ OtherRatings) \in Seq(Effect)
        /\ Do("refreshView", approved \intersect Ratings) \in Seq(Effect)
        /\ Do("unindexQueue", {e}) \in Seq(Effect) /\ Do("publishStatus", {e}) \in Seq(Effect)
    BY <1>1 DEF EffectName
  <2>2. QED
    BY <1>2, <2>1 DEF ReviewEffects
<1>6. QED
  BY <1>3, <1>4, <1>5

LEMMA FrameTyped ==
  ASSUME TypeOK
  PROVE  /\ (UNCHANGED db => TablesTyped')
         /\ (UNCHANGED locks => LocksTyped')
         /\ (UNCHANGED <<pc, arg, todo>> => ControlTyped')
         /\ (UNCHANGED derived => DerivedTyped')
BY DEF TypeOK, TablesTyped, LocksTyped, ControlTyped, DerivedTyped, db, locks, derived

LEMMA ReleaseTyped ==
  ASSUME TypeOK, NEW p \in Proc, Release(p)
  PROVE  LocksTyped'
BY DEF TypeOK, Release, LocksTyped, ControlTyped

LEMMA FinishTyped ==
  ASSUME TypeOK, NEW p \in Proc, Finish(p)
  PROVE  ControlTyped'
BY ArgTyped, EmptySeq DEF TypeOK, Finish, Goto, ControlTyped, PC, LocksTyped

LEMMA FailTyped ==
  ASSUME TypeOK, NEW p \in Proc, Fail(p)
  PROVE  TypeOK'
BY FrameTyped, ReleaseTyped, FinishTyped DEF Fail, TypeOK

LEMMA CommittedTyped ==
  ASSUME TypeOK, NEW p \in Proc, NEW effects \in Seq(Effect), Committed(p, effects)
  PROVE  LocksTyped' /\ ControlTyped'
BY ReleaseTyped DEF TypeOK, Committed, Goto, ControlTyped, PC, LocksTyped

LEMMA BeginTyped ==
  ASSUME TypeOK, NEW p \in Proc, NEW op, NEW l \in PC, NEW a \in Arg, Begin(p, op, l, a)
  PROVE  TypeOK'
<1>1. ControlTyped'
  BY DEF TypeOK, Begin, Goto, ControlTyped, LocksTyped
<1>2. QED
  BY <1>1, FrameTyped DEF Begin, TypeOK

\* A request goes on inside its transaction: it moves and may take locks.
LEMMA GotoTyped ==
  ASSUME TypeOK, NEW p \in Proc, NEW l \in PC, Goto(p, l), UNCHANGED <<db, arg, todo, derived>>
  PROVE  LocksTyped' => TypeOK'
<1>1. ControlTyped'
  BY DEF TypeOK, Goto, ControlTyped, LocksTyped
<1>2. QED
  BY <1>1, FrameTyped DEF TypeOK

LEMMA LockTyped ==
  ASSUME TypeOK, NEW p \in Proc, NEW S, NEW e
  PROVE  /\ (LockRows(p, S) /\ UNCHANGED entityLock => LocksTyped')
         /\ (LockEntity(p, e) /\ UNCHANGED entryLock => LocksTyped')
BY DEF TypeOK, LockRows, LockEntity, LocksTyped, ControlTyped

LEMMA CreateTyped ==
  ASSUME TypeOK, NEW p \in Proc, NEW e \in Entity, Create(p, e)
  PROVE  TypeOK'
<1>1. PICK i \in Fresh :
        /\ entry' = [entry EXCEPT ![i] = NewRow(e, FALSE)]
        /\ status' = [status EXCEPT ![e] = "pending"]
        /\ text' = [text EXCEPT ![e] = i]
        /\ arg' = [arg EXCEPT ![p] = [NoArg EXCEPT !.entity = e, !.entry = i]]
  BY DEF Create
<1>2. i \in EntryId /\ NewRow(e, FALSE) \in Row
  BY NewRowTyped DEF Fresh
<1>3. TablesTyped'
  BY <1>1, <1>2, EntryRefs DEF Create, TypeOK, TablesTyped, Status
<1>4. [NoArg EXCEPT !.entity = e, !.entry = i] \in Arg
  BY <1>2, ArgTyped, EntryRefs DEF Arg
<1>5. Do("indexQueue", {e}) \o Do("publishCreated", {e}) \in Seq(Effect)
  BY DoTyped, ConcatProperties DEF EffectName
<1>6. ControlTyped'
  BY <1>1, <1>4, <1>5 DEF Create, Goto, TypeOK, ControlTyped, PC
<1>7. QED
  BY <1>3, <1>6, FrameTyped DEF Create, TypeOK

LEMMA UpdateTyped ==
  ASSUME TypeOK, ReadsAreOfRows, NEW p \in Proc
  PROVE  /\ (\A e \in Entity : UpdateRead(p, e) => TypeOK')
         /\ (UpdateRow(p) => TypeOK') /\ (DeleteUnreviewed(p) => TypeOK')
         /\ (Enqueue(p) => TypeOK')
<1>1. ASSUME NEW e \in Entity, UpdateRead(p, e) PROVE TypeOK'
  <2>1. [NoArg EXCEPT !.entity = e] \in Arg /\ "update_row" \in PC
    BY ArgTyped DEF Arg, PC
  <2>2. QED
    BY <1>1, <2>1, BeginTyped DEF UpdateRead
<1>2. ASSUME UpdateRow(p) PROVE TypeOK'
  <2>1. CASE Fail(p)
    BY <2>1, FailTyped
  <2>2. CASE Goto(p, "dedupe") /\ LockEntity(p, arg[p].entity)
             /\ UNCHANGED <<db, entryLock, arg, todo, derived>>
    BY <2>2, GotoTyped, LockTyped DEF PC, InTransaction
  <2>3. QED
    BY <1>2, <2>1, <2>2 DEF UpdateRow
<1>3. ASSUME DeleteUnreviewed(p) PROVE TypeOK'
  BY <1>3, GotoTyped, LockTyped DEF DeleteUnreviewed, PC, InTransaction
<1>4. ASSUME Enqueue(p) PROVE TypeOK'
  <2> DEFINE e == arg[p].entity
  <2>1. e \in Entity /\ Escalates(p, e) \in BOOLEAN
    BY <1>4 DEF Enqueue, ReadsAreOfRows, ReadsOf, Escalates
  <2>2. PICK i \in Fresh :
          /\ entry' = [Gone(Held(p)) EXCEPT ![i] = NewRow(e, Escalates(p, e))]
          /\ text' = [text EXCEPT ![e] = i]
          /\ arg' = [arg EXCEPT ![p].entry = i]
    BY <1>4 DEF Enqueue
  <2>3. i \in EntryId /\ NewRow(e, Escalates(p, e)) \in Row
    BY <2>1, NewRowTyped DEF Fresh
  <2>4. Gone(Held(p)) \in [EntryId -> Row]
    BY GoneTyped
  <2>5. TablesTyped'
    BY <1>4, <2>1, <2>2, <2>3, <2>4, EntryRefs DEF Enqueue, Resubmitted, TypeOK, TablesTyped, Status
  <2>6. LocksTyped'
    BY <1>4, ReleaseTyped DEF Enqueue
  <2>7. [arg[p] EXCEPT !.entry = i] \in Arg
    BY <2>3, EntryRefs DEF TypeOK, ControlTyped, Arg
  <2>8. EditEffects(e) \in Seq(Effect)
    BY <2>1, EffectsTyped
  <2>9. ControlTyped'
    BY <1>4, <2>2, <2>7, <2>8 DEF Enqueue, Goto, TypeOK, ControlTyped, PC
  <2>10. QED
    BY <1>4, <2>5, <2>6, <2>9, FrameTyped DEF Enqueue, TypeOK
<1>5. QED
  BY <1>1, <1>2, <1>3, <1>4

LEMMA RemoveTyped ==
  ASSUME TypeOK, ReadsAreOfRows, NEW p \in Proc
  PROVE  /\ (\A e \in Entity : RemoveRead(p, e) => TypeOK')
         /\ (SnapshotEntries(p) => TypeOK') /\ (RemoveEntries(p) => TypeOK')
         /\ (RemoveRow(p) => TypeOK')
<1>1. ASSUME NEW e \in Entity, RemoveRead(p, e) PROVE TypeOK'
  <2>1. [NoArg EXCEPT !.entity = e, !.saw = status[e]] \in Arg /\ "remove_select" \in PC
    BY ArgTyped DEF Arg, PC, TypeOK, TablesTyped
  <2>2. QED
    BY <1>1, <2>1, BeginTyped DEF RemoveRead
<1>2. ASSUME RemoveEntries(p) PROVE TypeOK'
  <2> DEFINE rows == {i \in arg[p].batch : Stored(i)}
  <2>1. CASE Fail(p)
    BY <2>1, FailTyped
  <2>2. CASE LockRows(p, rows) /\ Goto(p, "remove_row")
             /\ UNCHANGED <<db, entityLock, arg, todo, derived>>
    BY <2>2, GotoTyped, LockTyped DEF PC, InTransaction
  <2>3. QED
    BY <1>2, <2>1, <2>2 DEF RemoveEntries
<1>3. ASSUME RemoveRow(p) PROVE TypeOK'
  <2> DEFINE e == arg[p].entity
  <2>1. CASE Fail(p)
    BY <2>1, FailTyped
  <2>2. CASE ~Fail(p)
    <3>1. e \in Entity
      BY <1>3 DEF RemoveRow, ReadsAreOfRows, ReadsOf, Entity
    <3>2. TablesTyped'
      BY <1>3, <2>2, <3>1, GoneTyped, EntryRefs DEF RemoveRow, TypeOK, TablesTyped, Status
    <3>3. LocksTyped' /\ ControlTyped'
      BY <1>3, <2>2, <3>1, EffectsTyped, CommittedTyped DEF RemoveRow
    <3>4. QED
      BY <1>3, <2>2, <3>2, <3>3, FrameTyped DEF RemoveRow, TypeOK
  <2>3. QED
    BY <2>1, <2>2
<1>4. ASSUME SnapshotEntries(p) PROVE TypeOK'
  <2>1. [arg[p] EXCEPT !.batch = RowsOf(arg[p].entity)] \in Arg
    BY DEF TypeOK, ControlTyped, Arg, RowsOf
  <2>2. ControlTyped'
    BY <1>4, <2>1 DEF SnapshotEntries, Goto, TypeOK, ControlTyped, PC
  <2>3. QED
    BY <1>4, <2>2, FrameTyped DEF SnapshotEntries, TypeOK
<1>5. QED
  BY <1>1, <1>2, <1>3, <1>4

LEMMA ReviewTyped ==
  ASSUME TypeOK, RowsAreOfEntities, ReadsAreOfRows, NEW p \in Proc
  PROVE  /\ (\A i \in EntryId, by \in Actor, d \in Decision : ReviewRead(p, i, by, d) => TypeOK')
         /\ (ReviewExists(p) => TypeOK') /\ (ReviewDecide(p) => TypeOK')
         /\ (ReviewApply(p) => TypeOK')
<1> DEFINE i == arg[p].entry
           e == arg[p].entity
           d == arg[p].decision
<1>0. pc[p] \in Reviewing => /\ i \in EntryId /\ e \in Entity /\ d \in Decision
                              /\ arg[p].by \in Actor
  BY DEF ReadsAreOfRows, ReadsOf, RowsAreOfEntities
<1>1. ASSUME NEW j \in EntryId, NEW by \in Actor, NEW v \in Decision, ReviewRead(p, j, by, v)
      PROVE  TypeOK'
  <2>1. [NoArg EXCEPT !.entity = entry[j].entity, !.entry = j, !.by = by, !.decision = v] \in Arg
    BY ArgTyped, EntryRefs DEF Arg, TypeOK, TablesTyped, Row
  <2>2. QED
    BY <1>1, <2>1, BeginTyped DEF ReviewRead, PC
<1>2. ASSUME ReviewExists(p) PROVE TypeOK'
  <2>1. CASE Fail(p)
    BY <2>1, FailTyped
  <2>2. CASE Exists(e) /\ Goto(p, "review_decide") /\ UNCHANGED <<db, locks, arg, todo, derived>>
    BY <2>2, GotoTyped, FrameTyped DEF PC
  <2>3. CASE /\ entry' = Gone({i}) /\ Committed(p, Do("unindexQueue", {e}))
             /\ UNCHANGED <<status, text, audits, derived>>
    <3>1. e \in Entity
      BY <1>0, <1>2 DEF ReviewExists, Reviewing
    <3>2. Do("unindexQueue", {e}) \in Seq(Effect)
      BY <3>1, DoTyped DEF EffectName
    <3>3. TablesTyped'
      BY <2>3, GoneTyped DEF TypeOK, TablesTyped
    <3>4. QED
      BY <2>3, <3>2, <3>3, CommittedTyped, FrameTyped DEF TypeOK
  <2>4. QED
    BY <1>2, <2>1, <2>2, <2>3 DEF ReviewExists
<1>3. ASSUME ReviewDecide(p) PROVE TypeOK'
  BY <1>3, FailTyped, GotoTyped, LockTyped DEF ReviewDecide, PC, InTransaction
<1>4. ASSUME ReviewApply(p) PROVE TypeOK'
  <2>1. CASE Fail(p)
    BY <2>1, FailTyped
  <2>2. CASE ~Fail(p)
    <3>1. i \in EntryId /\ e \in Entity /\ d \in Decision /\ arg[p].by \in Actor
      BY <1>0, <1>4 DEF ReviewApply, Reviewing
    <3>2. EntityStatus(d, entry[i].escalated) \in Status
      BY <3>1 DEF EntityStatus, Status, Decided
    <3>3. [entry[i] EXCEPT !.decision = d, !.by = arg[p].by] \in Row
      <4>1. entry[i] \in Row
        BY <3>1 DEF TypeOK, TablesTyped
      <4>2. QED
        BY <3>1, <4>1, DecidedRowTyped
    <3>4. TablesTyped'
      BY <1>4, <2>2, <3>1, <3>2, <3>3 DEF ReviewApply, TypeOK, TablesTyped
    <3>5. LocksTyped' /\ ControlTyped'
      BY <1>4, <2>2, <3>1, EffectsTyped, CommittedTyped DEF ReviewApply
    <3>6. QED
      BY <1>4, <2>2, <3>4, <3>5, FrameTyped DEF ReviewApply, TypeOK
  <2>3. QED
    BY <2>1, <2>2
<1>5. QED
  BY <1>1, <1>2, <1>3, <1>4

LEMMA ClaimTyped ==
  ASSUME TypeOK, ReadsAreOfRows, NEW p \in Proc
  PROVE  /\ (\A i \in EntryId, m \in Staff : ClaimRead(p, i, m) \/ ReleaseRead(p, i, m) => TypeOK')
         /\ (ClaimWrite(p) \/ ReleaseWrite(p) => TypeOK')
<1>1. ASSUME NEW i \in EntryId, NEW m \in Staff, ClaimRead(p, i, m) \/ ReleaseRead(p, i, m)
      PROVE  TypeOK'
  <2>1. [NoArg EXCEPT !.entry = i, !.by = m] \in Arg
    BY ArgTyped, EntryRefs DEF Arg, Actor
  <2>2. QED
    BY <1>1, <2>1, BeginTyped DEF ClaimRead, ReleaseRead, PC
<1>2. ASSUME NEW l, NEW guard, NEW m \in Staff \union {None}, WriteClaim(p, l, guard, m)
      PROVE  TypeOK'
  <2>1. \A i \in EntryId : [entry[i] EXCEPT !.claimedBy = m] \in Row
    BY DEF TypeOK, TablesTyped, Row
  <2>2. entry' \in [EntryId -> Row]
    BY <1>2, <2>1 DEF WriteClaim, TypeOK, TablesTyped
  <2>3. TablesTyped'
    BY <1>2, <2>2 DEF WriteClaim, TypeOK, TablesTyped
  <2>4. QED
    BY <1>2, <2>3, FinishTyped, FrameTyped DEF WriteClaim, TypeOK
<1>3. ClaimWrite(p) => arg[p].by \in Staff
  BY DEF ClaimWrite, WriteClaim, ReadsAreOfRows, ReadsOf
<1>4. QED
  BY <1>1, <1>2, <1>3 DEF ClaimWrite, ReleaseWrite

LEMMA ListTyped ==
  ASSUME TypeOK, RowsAreOfEntities, ReadsAreOfRows, NEW p \in Proc
  PROVE  /\ (\A S \in SUBSET Unreviewed : ListRead(p, S) \/ SearchRead(p, S) => TypeOK')
         /\ (HealOrphans(p) => TypeOK')
<1>1. ASSUME NEW S \in SUBSET Unreviewed, ListRead(p, S) \/ SearchRead(p, S) PROVE TypeOK'
  <2>1. [NoArg EXCEPT !.batch = S] \in Arg
    BY ArgTyped DEF Arg, Unreviewed
  <2>2. QED
    BY <1>1, <2>1, BeginTyped DEF ListRead, SearchRead, PC
<1>2. ASSUME HealOrphans(p), ~Fail(p) PROVE TypeOK'
  <2> DEFINE orphans == Orphans(arg[p].batch)
             gone    == {entry[i].entity : i \in orphans}
             rest    == {entry[i].entity : i \in arg[p].batch \ orphans}
             found   == IF pc[p] = "heal_list" THEN rest ELSE {}
  <2>1. \A i \in arg[p].batch : i \in EntryId /\ entry[i].entity \in Entity
    BY <1>2 DEF HealOrphans, ReadsAreOfRows, ReadsOf, RowsAreOfEntities, TypeOK, ControlTyped, Arg
  <2>2. gone \in SUBSET Entity /\ found \in SUBSET Entity
    BY <2>1 DEF Orphans
  <2>3. HealEffects(gone, found) \in Seq(Effect)
    BY <2>2, DoTyped, ConcatProperties DEF HealEffects, EffectName
  <2>4. TablesTyped'
    BY <1>2, GoneTyped DEF HealOrphans, TypeOK, TablesTyped
  <2>5. Committed(p, HealEffects(gone, found))
    BY <1>2 DEF HealOrphans
  <2>6. QED
    BY <1>2, <2>3, <2>4, <2>5, CommittedTyped, FrameTyped DEF HealOrphans, TypeOK
<1>3. QED
  BY <1>1, <1>2, FailTyped

LEMMA CallTyped ==
  ASSUME TypeOK, NEW p \in Proc, Call(p)
  PROVE  TypeOK'
<1> DEFINE f == Head(todo[p])
<1>1. f \in Effect /\ todo[p] # << >>
  BY HeadTailProperties DEF Call, TypeOK, ControlTyped
<1>2. PICK e \in f.of : Fetch(p, e) \/ Perform(p, e) \/ CallFails(p, e)
  BY DEF Call
<1>3. e \in Entity /\ f.text \in EntryRef /\ Rest(p, e) \in Seq(Effect)
  BY <1>1, <1>2, RestTyped DEF Effect
<1>4. UNCHANGED <<db, locks, pc, arg>>
  BY DEF Call
<1>5. ASSUME NEW s \in Seq(Effect), todo' = [todo EXCEPT ![p] = s] PROVE ControlTyped'
  BY <1>4, <1>5 DEF TypeOK, ControlTyped
<1>6. CASE Fetch(p, e)
  <2> DEFINE put(name) == <<[do |-> name, of |-> {e}, text |-> text[e]]>>
             first == IF ~Exists(e) THEN << >>
                      ELSE put(IF f.do = "indexQueue" THEN "putQueue" ELSE "putPublic")
  <2>1. text[e] \in EntryRef
    BY <1>3 DEF TypeOK, TablesTyped
  <2>2. [do |-> "putQueue", of |-> {e}, text |-> text[e]] \in Effect
    BY <1>3, <2>1 DEF Effect, EffectName
  <2>3. [do |-> "putPublic", of |-> {e}, text |-> text[e]] \in Effect
    BY <1>3, <2>1 DEF Effect, EffectName
  <2>4. first \in Seq(Effect)
    BY <2>2, <2>3
  <2>5. first \o Rest(p, e) \in Seq(Effect)
    BY <1>3, <2>4, ConcatProperties
  <2>6. todo' = [todo EXCEPT ![p] = first \o Rest(p, e)] /\ UNCHANGED derived
    BY <1>6 DEF Fetch
  <2>7. QED
    BY <1>4, <1>5, <2>5, <2>6, FrameTyped DEF TypeOK
<1>7. CASE Perform(p, e)
  <2>1. todo' = [todo EXCEPT ![p] = Rest(p, e)]
    BY <1>7 DEF Perform
  <2>2. arg[p].entry \in EntryRef /\ arg[p].decision \in Decision \union {"none"}
    BY DEF TypeOK, ControlTyped, Arg
  <2>3. EntityStatus(arg[p].decision, entry[arg[p].entry].escalated) \in Status \union {"none"}
    BY <2>2 DEF EntityStatus, Status, Decided
  <2>4. view' \subseteq Ratings
    BY <1>7 DEF Perform, Refreshed, SameView, Ratings, TypeOK, DerivedTyped
  <2>5. queueIndex' \subseteq Entity /\ publicIndex' \in [Entity -> EntryRef]
    BY <1>3, <1>7 DEF Perform, TypeOK, DerivedTyped
  <2>6. created' \subseteq EntryRef /\ announced' \in [EntryId -> Status \union {"none"}]
    BY <1>7, <2>2, <2>3 DEF Perform, TypeOK, DerivedTyped
  <2>7. QED
    BY <1>3, <1>4, <1>5, <2>1, <2>4, <2>5, <2>6, FrameTyped DEF TypeOK, DerivedTyped
<1>8. CASE CallFails(p, e)
  BY <1>3, <1>4, <1>5, <1>8, FrameTyped DEF CallFails, TypeOK
<1>9. QED
  BY <1>2, <1>6, <1>7, <1>8

LEMMA EndTyped ==
  ASSUME TypeOK, NEW p \in Proc, Respond(p) \/ DeadlockVictim(p) \/ Crash(p)
  PROVE  TypeOK'
BY FailTyped, FinishTyped, FrameTyped DEF Respond, DeadlockVictim, Crash, TypeOK

LEMMA StepTyped ==
  ASSUME TypeOK, RowsAreOfEntities, ReadsAreOfRows, [Next]_vars
  PROVE  TypeOK'
<1>1. CASE UNCHANGED vars
  BY <1>1, FrameTyped DEF vars, TypeOK
<1>2. ASSUME NEW p \in Proc, Start(p) PROVE TypeOK'
  BY <1>2, CreateTyped, UpdateTyped, RemoveTyped, ReviewTyped, ClaimTyped, ListTyped DEF Start
<1>3. ASSUME NEW p \in Proc, Statement(p) PROVE TypeOK'
  BY <1>3, UpdateTyped, RemoveTyped, ReviewTyped, ClaimTyped, ListTyped, CallTyped, EndTyped
  DEF Statement
<1>4. ASSUME NEW p \in Proc, Crash(p) PROVE TypeOK'
  BY <1>4, EndTyped
<1>5. QED
  BY <1>1, <1>2, <1>3, <1>4 DEF Next

-----------------------------------------------------------------------------
(* What a step of one request leaves to the others.                        *)

RowsPersist ==
  \A i \in EntryId : entry[i] # NoRow =>
    /\ entry'[i] # NoRow /\ entry'[i].entity = entry[i].entity
    /\ entry'[i].escalated = entry[i].escalated

EntitiesPersist == \A e \in Entity : status[e] # "absent" => status'[e] # "absent"

OthersWait(p) == \A q \in Proc \ {p} : pc'[q] = pc[q] /\ arg'[q] = arg[q]

KeepsLocks(p) == \A q \in Proc \ {p} :
  /\ \A i \in EntryId : entryLock'[i] = q <=> entryLock[i] = q
  /\ \A e \in Entity : entityLock'[e] = q <=> entityLock[e] = q

KeepsRows(p) == \A q \in Proc \ {p} :
  /\ \A i \in Held(q) : entry'[i] = entry[i]
  /\ pc[q] \in {"dedupe", "enqueue"} => Exists(arg[q].entity)'
  /\ pc[q] = "enqueue" => \A i \in EntryId : i \in LiveOf(arg[q].entity)' => i \in LiveOf(arg[q].entity)

LEMMA OthersRead ==
  ASSUME GateInv, NEW p \in Proc, RowsPersist, EntitiesPersist, OthersWait(p), ReadsOf(p)'
  PROVE  ReadsAreOfRows'
<1> SUFFICES ASSUME NEW q \in Proc \ {p} PROVE ReadsOf(q)'
  BY DEF ReadsAreOfRows
<1>1. ReadsOf(q) /\ pc'[q] = pc[q] /\ arg'[q] = arg[q]
  BY DEF GateInv, ReadsAreOfRows, OthersWait
<1>2. arg[q].batch \subseteq EntryId
  BY DEF GateInv, TypeOK, ControlTyped, Arg
<1>3. Ratings \subseteq Entity
  BY DEF Entity
<1>4. pc[q] \in Reviewing => MayDecide(arg[q].by, arg[q].decision, arg[q].entry)'
  BY <1>1 DEF ReadsOf, RowsPersist, MayDecide
<1>5. QED
  BY <1>1, <1>2, <1>3, <1>4 DEF ReadsOf, RowsPersist, EntitiesPersist

LEMMA OthersHold ==
  ASSUME GateInv, NEW p \in Proc, OthersWait(p), KeepsLocks(p), KeepsRows(p), LocksOf(p)'
  PROVE  LocksAreHeld'
<1> SUFFICES ASSUME NEW q \in Proc \ {p} PROVE LocksOf(q)'
  BY DEF LocksAreHeld
<1>1. LocksOf(q) /\ ReadsOf(q) /\ pc'[q] = pc[q] /\ arg'[q] = arg[q]
  BY DEF GateInv, LocksAreHeld, ReadsAreOfRows, OthersWait
<1>2. Held(q)' = Held(q) /\ \A i \in Held(q) : entry'[i] = entry[i]
  BY DEF Held, KeepsLocks, KeepsRows
<1>3. pc[q] \in {"dedupe", "enqueue"} => (entityLock[arg[q].entity] = q /\ Exists(arg[q].entity))'
  BY <1>1 DEF LocksOf, ReadsOf, KeepsLocks, KeepsRows
<1>4. pc[q] = "enqueue" => Held(q)' = LiveOf(arg[q].entity)'
  <2>1. pc[q] = "enqueue" => Held(q) = LiveOf(arg[q].entity)
    BY <1>1 DEF LocksOf
  <2>2. \A i \in EntryId, e \in Entity :
          entry'[i] = entry[i] => (i \in LiveOf(e)' <=> i \in LiveOf(e))
    BY DEF LiveOf, RowsOf, Stored, Live
  <2>3. pc[q] = "enqueue" => arg[q].entity \in Entity
    BY <1>1 DEF ReadsOf
  <2>4. pc[q] = "enqueue" => \A i \in EntryId : i \in Held(q) <=> i \in LiveOf(arg[q].entity)'
    BY <1>1, <1>2, <2>1, <2>2, <2>3 DEF KeepsRows
  <2>5. QED
    BY <1>2, <2>4 DEF Held, LiveOf, RowsOf
<1>5. pc[q] = "remove_row" => Held(q)' \subseteq RowsOf(arg[q].entity)'
  BY <1>1, <1>2 DEF LocksOf, RowsOf, Stored
<1>6. pc[q] = "review_apply" => (Held(q) = {arg[q].entry} /\ Live(arg[q].entry))'
  BY <1>1, <1>2 DEF LocksOf, Live, Stored
<1>7. QED
  BY <1>1, <1>2, <1>3, <1>4, <1>5, <1>6 DEF LocksOf

LEMMA TablesKept ==
  ASSUME TablesInv, UNCHANGED db
  PROVE  TablesInv'
<1> USE DEF db
<1>1. RowsAreOfEntities' /\ OneLiveEntry' /\ LiveIsCurrent'
  BY DEF TablesInv, RowsAreOfEntities, OneLiveEntry, LiveIsCurrent, Unreviewed, Live, Stored, Exists
<1>2. VerdictIsOnCurrentText'
  BY DEF TablesInv, VerdictIsOnCurrentText, Live, Stored, Exists, RowsOf
<1>3. EscalatedNeedsAdmin' /\ AuditedIffAutoApproved'
  BY DEF TablesInv, EscalatedNeedsAdmin, AuditedIffAutoApproved
<1>4. QED
  BY <1>1, <1>2, <1>3 DEF TablesInv

\* Statements that write no table: it remains to show what the request itself
\* has read and locked.
LEMMA QuietStep ==
  ASSUME GateInv, NEW p \in Proc, UNCHANGED db, OthersWait(p), KeepsLocks(p),
         ReadsOf(p)', LocksOf(p)'
  PROVE  ReadsAreOfRows' /\ LocksAreHeld' /\ TablesInv'
<1>1. RowsPersist /\ EntitiesPersist
  BY DEF RowsPersist, EntitiesPersist, db
<1>2. KeepsRows(p)
  BY DEF KeepsRows, OthersWait, db, GateInv, LocksAreHeld, LocksOf, Exists, LiveOf, RowsOf, Live,
         Stored
<1>3. QED
  BY <1>1, <1>2, OthersRead, OthersHold, TablesKept DEF GateInv

Others == ReadsAreOfRows /\ LocksAreHeld /\ TablesInv

LEMMA ReleaseFacts ==
  ASSUME TypeOK, NEW p \in Proc, Release(p)
  PROVE  KeepsLocks(p) /\ Held(p)' = {}
BY ConstantsOK DEF TypeOK, LocksTyped, Release, KeepsLocks, Held

LEMMA FinishFacts ==
  ASSUME TypeOK, NEW p \in Proc, Finish(p)
  PROVE  pc'[p] = "idle" /\ OthersWait(p) /\ ReadsOf(p)' /\ (Held(p)' = {} => LocksOf(p)')
<1>1. pc'[p] = "idle" /\ OthersWait(p)
  BY DEF TypeOK, ControlTyped, Finish, Goto, OthersWait
<1>2. QED
  BY <1>1 DEF ReadsOf, LocksOf, Reviewing, Writing

LEMMA FailKeeps ==
  ASSUME GateInv, NEW p \in Proc, Fail(p)
  PROVE  Others'
BY ReleaseFacts, FinishFacts, QuietStep DEF Fail, GateInv, Others

LEMMA BeginKeeps ==
  ASSUME GateInv, NEW p \in Proc, NEW op, NEW a \in Arg,
         NEW l \in PC \ (Writing \union {"dedupe"}), Begin(p, op, l, a), ReadsOf(p)'
  PROVE  Others'
<1>1. pc[p] = "idle" /\ pc'[p] = l /\ OthersWait(p) /\ UNCHANGED <<db, locks>>
  BY DEF Begin, Goto, GateInv, TypeOK, ControlTyped, OthersWait
<1>2. Held(p) = {}
  BY <1>1 DEF GateInv, LocksAreHeld, LocksOf, Writing
<1>3. Held(p)' = {} /\ KeepsLocks(p)
  BY <1>1, <1>2 DEF locks, KeepsLocks, Held
<1>4. LocksOf(p)'
  BY <1>1, <1>3 DEF LocksOf, Writing
<1>5. QED
  BY <1>1, <1>3, <1>4, QuietStep DEF Others

\* A request that starts has just read the rows it names.
LEMMA StartKeeps ==
  ASSUME GateInv, NEW p \in Proc, Start(p), \A e \in Entity : ~Create(p, e)
  PROVE  Others'
<1>1. ASSUME NEW a \in Arg, NEW l \in PC, NEW op, Begin(p, op, l, a)
      PROVE  pc'[p] = l /\ arg'[p] = a /\ UNCHANGED db
  BY <1>1 DEF Begin, Goto, GateInv, TypeOK, ControlTyped
<1>2. ASSUME NEW e \in Entity, UpdateRead(p, e) PROVE Others'
  <2> DEFINE a == [NoArg EXCEPT !.entity = e]
  <2>1. a \in Arg /\ a.entity = e
    BY ArgTyped DEF Arg
  <2>2. Begin(p, "update", "update_row", a) /\ status[e] # "absent"
    BY <1>2 DEF UpdateRead, Exists
  <2>3. pc'[p] = "update_row" /\ arg'[p] = a /\ UNCHANGED db
    BY <1>1, <2>1, <2>2 DEF PC
  <2>4. ReadsOf(p)'
    BY <2>1, <2>2, <2>3 DEF ReadsOf, Reviewing, db
  <2>5. QED
    BY <2>1, <2>2, <2>4, BeginKeeps DEF PC, Writing
<1>3. ASSUME NEW e \in Entity, RemoveRead(p, e) PROVE Others'
  <2> DEFINE a == [NoArg EXCEPT !.entity = e, !.saw = status[e]]
  <2>1. a \in Arg /\ a.entity = e
    BY ArgTyped DEF Arg, GateInv, TypeOK, TablesTyped
  <2>2. Begin(p, "remove", "remove_select", a) /\ status[e] # "absent" /\ e \in Ratings
    BY <1>3 DEF RemoveRead, Exists
  <2>3. pc'[p] = "remove_select" /\ arg'[p] = a /\ UNCHANGED db
    BY <1>1, <2>1, <2>2 DEF PC
  <2>4. ReadsOf(p)'
    BY <2>1, <2>2, <2>3 DEF ReadsOf, Reviewing, db
  <2>5. QED
    BY <2>1, <2>2, <2>4, BeginKeeps DEF PC, Writing
<1>4. ASSUME NEW i \in EntryId, NEW by \in Actor, NEW d \in Decision, ReviewRead(p, i, by, d)
      PROVE  Others'
  <2> DEFINE a == [NoArg EXCEPT !.entity = entry[i].entity, !.entry = i, !.by = by, !.decision = d]
  <2>1. a \in Arg /\ a.entity = entry[i].entity /\ a.entry = i /\ a.by = by /\ a.decision = d
    BY ArgTyped, EntryRefs DEF Arg, GateInv, TypeOK, TablesTyped, Row
  <2>2. Begin(p, "review", "review_exists", a) /\ MayDecide(by, d, i) /\ entry[i] # NoRow
    BY <1>4 DEF ReviewRead, Live, Stored, NoRow
  <2>3. pc'[p] = "review_exists" /\ arg'[p] = a /\ UNCHANGED db
    BY <1>1, <2>1, <2>2 DEF PC
  <2>4. MayDecide(by, d, i)'
    BY <2>2, <2>3 DEF MayDecide, db
  <2>5. ReadsOf(p)'
    BY <2>1, <2>2, <2>3, <2>4 DEF ReadsOf, db
  <2>6. QED
    BY <2>1, <2>2, <2>5, BeginKeeps DEF PC, Writing
<1>5. ASSUME NEW i \in EntryId, NEW m \in Staff, ClaimRead(p, i, m) \/ ReleaseRead(p, i, m)
      PROVE  Others'
  <2> DEFINE a == [NoArg EXCEPT !.entry = i, !.by = m]
  <2>1. a \in Arg /\ a.entry = i /\ a.by = m
    BY ArgTyped, EntryRefs DEF Arg, Actor
  <2>2. PICK l \in {"claim_write", "release_write"} : \E op : Begin(p, op, l, a)
    BY <1>5 DEF ClaimRead, ReleaseRead
  <2>3. pc'[p] = l /\ arg'[p] = a
    BY <1>1, <2>1, <2>2 DEF PC
  <2>4. ReadsOf(p)'
    BY <2>1, <2>2, <2>3 DEF ReadsOf, Reviewing
  <2>5. QED
    BY <2>1, <2>2, <2>4, BeginKeeps DEF PC, Writing
<1>6. ASSUME NEW S \in SUBSET Unreviewed, ListRead(p, S) \/ SearchRead(p, S)
      PROVE  Others'
  <2> DEFINE a == [NoArg EXCEPT !.batch = S]
  <2>1. a \in Arg /\ a.batch = S
    BY ArgTyped DEF Arg, Unreviewed, NoArg
  <2>2. PICK l \in {"heal_list", "heal_search"} : \E op : Begin(p, op, l, a)
    BY <1>6 DEF ListRead, SearchRead
  <2>3. pc'[p] = l /\ arg'[p] = a /\ UNCHANGED db
    BY <1>1, <2>1, <2>2 DEF PC
  <2>4. \A i \in S : entry[i] # NoRow
    BY DEF Unreviewed, Live, Stored, NoRow
  <2>5. ReadsOf(p)'
    BY <2>1, <2>2, <2>3, <2>4 DEF ReadsOf, Reviewing, db
  <2>6. QED
    BY <2>1, <2>2, <2>5, BeginKeeps DEF PC, Writing
<1>7. QED
  BY <1>2, <1>3, <1>4, <1>5, <1>6 DEF Start

LEMMA LockFacts ==
  ASSUME TypeOK, NEW p \in Proc, NEW S \in SUBSET EntryId, Unlocked(S), LockRows(p, S),
         UNCHANGED entityLock
  PROVE  KeepsLocks(p) /\ Held(p)' = Held(p) \union S
BY ConstantsOK DEF TypeOK, LocksTyped, Unlocked, LockRows, KeepsLocks, Held

LEMMA UpdateRowKeeps ==
  ASSUME GateInv, NEW p \in Proc, UpdateRow(p)
  PROVE  Others'
<1> DEFINE e == arg[p].entity
<1>1. CASE Fail(p)
  BY <1>1, FailKeeps
<1>2. CASE Exists(e) /\ LockEntity(p, e) /\ Goto(p, "dedupe") /\ UNCHANGED <<db, entryLock, arg>>
  <2>1. pc[p] = "update_row" /\ e \in Entity /\ status[e] # "absent"
    BY DEF UpdateRow, GateInv, ReadsAreOfRows, ReadsOf
  <2>2. pc'[p] = "dedupe" /\ arg'[p] = arg[p] /\ OthersWait(p)
    BY <1>2 DEF Goto, GateInv, TypeOK, ControlTyped, OthersWait
  <2>3. Held(p)' = {}
    BY <1>2, <2>1 DEF GateInv, LocksAreHeld, LocksOf, Writing, Held
  <2>4. entityLock'[e] = p /\ KeepsLocks(p)
    BY <1>2, <2>1, ConstantsOK DEF LockEntity, KeepsLocks, GateInv, TypeOK, LocksTyped
  <2>5. ReadsOf(p)'
    BY <1>2, <2>1, <2>2 DEF ReadsOf, Reviewing, db
  <2>6. LocksOf(p)'
    BY <1>2, <2>2, <2>3, <2>4 DEF LocksOf, Writing, Exists, db
  <2>7. QED
    BY <1>2, <2>2, <2>4, <2>5, <2>6, QuietStep DEF Others
<1>3. QED
  BY <1>1, <1>2 DEF UpdateRow

LEMMA DeleteUnreviewedKeeps ==
  ASSUME GateInv, NEW p \in Proc, DeleteUnreviewed(p)
  PROVE  Others'
<1> DEFINE e == arg[p].entity
<1>1. /\ pc[p] = "dedupe" /\ e \in Entity /\ status[e] # "absent"
      /\ entityLock[e] = p /\ Exists(e) /\ Held(p) = {}
  BY DEF DeleteUnreviewed, GateInv, ReadsAreOfRows, ReadsOf, LocksAreHeld, LocksOf, Writing
<1>2. pc'[p] = "enqueue" /\ arg'[p] = arg[p] /\ OthersWait(p) /\ UNCHANGED <<db, entityLock>>
  BY DEF DeleteUnreviewed, Goto, GateInv, TypeOK, ControlTyped, OthersWait
<1>3. LiveOf(e) \in SUBSET EntryId
  BY DEF LiveOf, RowsOf
<1>4. KeepsLocks(p) /\ Held(p)' = LiveOf(e)
  BY <1>1, <1>3, LockFacts DEF DeleteUnreviewed, Superseded, GateInv
<1>5. LiveOf(arg[p].entity)' = LiveOf(e)
  BY <1>2 DEF LiveOf, RowsOf, Live, Stored, db
<1>6. ReadsOf(p)'
  BY <1>1, <1>2 DEF ReadsOf, Reviewing, db
<1>7. LocksOf(p)'
  BY <1>1, <1>2, <1>4, <1>5 DEF LocksOf, Writing, Exists, db
<1>8. QED
  BY <1>2, <1>4, <1>6, <1>7, QuietStep DEF Others

LEMMA SnapshotEntriesKeeps ==
  ASSUME GateInv, NEW p \in Proc, SnapshotEntries(p)
  PROVE  Others'
<1> DEFINE e == arg[p].entity
<1>1. pc[p] = "remove_select" /\ e \in Ratings /\ status[e] # "absent" /\ Held(p) = {}
  BY DEF SnapshotEntries, GateInv, ReadsAreOfRows, ReadsOf, LocksAreHeld, LocksOf, Writing
<1>2. /\ pc'[p] = "remove_entries" /\ arg'[p] = [arg[p] EXCEPT !.batch = RowsOf(e)]
      /\ OthersWait(p) /\ UNCHANGED <<db, locks>>
  BY DEF SnapshotEntries, Goto, GateInv, TypeOK, ControlTyped, OthersWait
<1>3. arg'[p].entity = e /\ arg'[p].batch = RowsOf(e)
  BY <1>2 DEF GateInv, TypeOK, ControlTyped, Arg
<1>4. \A i \in RowsOf(e) : entry[i] # NoRow /\ entry[i].entity = e
  BY DEF RowsOf, Stored, NoRow
<1>5. KeepsLocks(p) /\ Held(p)' = {}
  BY <1>1, <1>2 DEF KeepsLocks, Held, locks
<1>6. ReadsOf(p)'
  BY <1>1, <1>2, <1>3, <1>4 DEF ReadsOf, Reviewing, db
<1>7. LocksOf(p)'
  BY <1>2, <1>5 DEF LocksOf, Writing
<1>8. QED
  BY <1>2, <1>5, <1>6, <1>7, QuietStep DEF Others

LEMMA RemoveEntriesKeeps ==
  ASSUME GateInv, NEW p \in Proc, RemoveEntries(p)
  PROVE  Others'
<1> DEFINE e    == arg[p].entity
           rows == {i \in arg[p].batch : Stored(i)}
<1>1. CASE Fail(p)
  BY <1>1, FailKeeps
<1>2. CASE ~Fail(p)
  <2>1. pc[p] = "remove_entries" /\ e \in Ratings /\ status[e] # "absent" /\ Held(p) = {}
    BY DEF RemoveEntries, GateInv, ReadsAreOfRows, ReadsOf, LocksAreHeld, LocksOf, Writing
  <2>2. /\ pc'[p] = "remove_row" /\ arg'[p] = arg[p] /\ OthersWait(p) /\ UNCHANGED db
        /\ Unlocked(rows) /\ LockRows(p, rows) /\ UNCHANGED entityLock
    BY <1>2 DEF RemoveEntries, Goto, GateInv, TypeOK, ControlTyped, OthersWait
  <2>3. rows \subseteq RowsOf(e)
    BY <2>1 DEF GateInv, TypeOK, ControlTyped, Arg, ReadsAreOfRows, ReadsOf, RowsOf
  <2>4. KeepsLocks(p) /\ Held(p)' = rows
    BY <2>1, <2>2, <2>3, LockFacts DEF RowsOf, GateInv
  <2>5. ReadsOf(p)'
    BY <2>1, <2>2 DEF ReadsOf, Reviewing, db
  <2>6. LocksOf(p)'
    BY <2>1, <2>2, <2>3, <2>4 DEF LocksOf, Writing, RowsOf, Stored, db
  <2>7. QED
    BY <2>2, <2>4, <2>5, <2>6, QuietStep DEF Others
<1>3. QED
  BY <1>1, <1>2

LEMMA ReviewDecideKeeps ==
  ASSUME GateInv, NEW p \in Proc, ReviewDecide(p)
  PROVE  Others'
<1> DEFINE i == arg[p].entry
<1>1. CASE Fail(p)
  BY <1>1, FailKeeps
<1>2. CASE ~Fail(p)
  <2>1. pc[p] = "review_decide" /\ i \in EntryId /\ Held(p) = {} /\ ReadsOf(p)
    BY DEF ReviewDecide, GateInv, ReadsAreOfRows, ReadsOf, LocksAreHeld, LocksOf, Writing, Reviewing
  <2>2. /\ pc'[p] = "review_apply" /\ arg'[p] = arg[p] /\ OthersWait(p) /\ UNCHANGED db
        /\ Unlocked({i}) /\ LockRows(p, {i}) /\ UNCHANGED entityLock /\ Live(i)
    BY <1>2 DEF ReviewDecide, Goto, GateInv, TypeOK, ControlTyped, OthersWait
  <2>3. KeepsLocks(p) /\ Held(p)' = {i}
    BY <2>1, <2>2, LockFacts DEF GateInv
  <2>4. ReadsOf(p)'
    BY <2>1, <2>2 DEF ReadsOf, Reviewing, MayDecide, db
  <2>5. LocksOf(p)'
    BY <2>1, <2>2, <2>3 DEF LocksOf, Writing, Live, Stored, db
  <2>6. QED
    BY <2>2, <2>3, <2>4, <2>5, QuietStep DEF Others
<1>3. QED
  BY <1>1, <1>2

\* After the commit a request holds nothing and needs nothing.
LEMMA AfterKeeps ==
  ASSUME GateInv, NEW p \in Proc, pc[p] = "after", pc'[p] \in {"after", "idle"},
         OthersWait(p), UNCHANGED <<db, locks>>
  PROVE  Others'
<1>1. Held(p)' = {} /\ KeepsLocks(p)
  BY DEF GateInv, LocksAreHeld, LocksOf, Writing, Held, KeepsLocks, locks
<1>2. ReadsOf(p)' /\ LocksOf(p)'
  BY <1>1 DEF ReadsOf, LocksOf, Reviewing, Writing
<1>3. QED
  BY <1>1, <1>2, QuietStep DEF Others

LEMMA EndKeeps ==
  ASSUME GateInv, NEW p \in Proc, Call(p) \/ Respond(p) \/ DeadlockVictim(p) \/ Crash(p)
  PROVE  Others'
<1>1. CASE Call(p)
  BY <1>1, AfterKeeps DEF Call, OthersWait
<1>2. CASE Respond(p)
  BY <1>2, AfterKeeps, FinishFacts DEF Respond, GateInv
<1>3. CASE DeadlockVictim(p) \/ Crash(p)
  BY <1>3, FailKeeps DEF DeadlockVictim, Crash
<1>4. QED
  BY <1>1, <1>2, <1>3

-----------------------------------------------------------------------------
(* The statements that write the tables.                                   *)

\* Deleting rows of entities that do not exist (any more).
Deletes(S) == /\ entry' = Gone(S) /\ UNCHANGED audits
              /\ \A i \in S : /\ i \in EntryId /\ Stored(i)
                             /\ status'[entry[i].entity] \in {"absent", "deleted"}
              /\ \A e \in Entity : Exists(e)' =>
                   Exists(e) /\ status'[e] = status[e] /\ text'[e] = text[e]

\* A new submission of e in row i, in the place of the undecided ones S.
Inserts(e, i, S) ==
  /\ i \in Fresh /\ S = LiveOf(e) /\ UNCHANGED audits
  /\ \E esc \in BOOLEAN : entry' = [Gone(S) EXCEPT ![i] = NewRow(e, esc)]
  /\ status' = [status EXCEPT ![e] = "pending"] /\ text' = [text EXCEPT ![e] = i]

\* The decision d is written on the undecided entry i of the current text of e, by
\* somebody who may decide it.
Decides(p, i, e, d, by) ==
  /\ entry[i].entity = e /\ Exists(e) /\ Live(i) /\ text[e] = i /\ Held(p) = {i}
  /\ entityLock[e] = None /\ MayDecide(by, d, i)
  /\ entry' = [entry EXCEPT ![i] = [entry[i] EXCEPT !.decision = d, !.by = by]]
  /\ status' = [status EXCEPT ![e] = EntityStatus(d, entry[i].escalated)]
  /\ audits' = (IF IsAudited(by, d) THEN audits \union {i} ELSE audits)
  /\ UNCHANGED text /\ \E f : Committed(p, f)

\* A claim is taken on an undecided and unclaimed entry, or given back by its holder.
Claims(p, i, m) ==
  /\ entryLock[i] = None /\ Stored(i)
  /\ entry' = [entry EXCEPT ![i] = [entry[i] EXCEPT !.claimedBy = m]]
  /\ \/ entry[i].claimedBy = None /\ Live(i)
     \/ /\ m = None /\ pc[p] = "release_write" /\ arg[p].entry = i
        /\ arg[p].by = entry[i].claimedBy

Writes(p) ==
  \/ UNCHANGED entry
  \/ \E S : Deletes(S) /\ EntitiesPersist
  \/ \E e \in Entity, i \in EntryId, S \in SUBSET EntryId : Inserts(e, i, S)
  \/ \E i \in EntryId, e \in Entity, d \in Decision, by \in Actor : Decides(p, i, e, d, by)
  \/ \E i \in EntryId, m \in Staff \union {None} : Claims(p, i, m)

LEMMA FailWrites ==
  ASSUME NEW p \in Proc, Fail(p)
  PROVE  Writes(p)
BY DEF Fail, db, Writes

LEMMA DeletedRows ==
  ASSUME TypeOK, NEW S, Deletes(S), NEW i \in EntryId
  PROVE  /\ entry'[i] = NoRow <=> entry[i] = NoRow
         /\ entry'[i].row = "unused" <=> entry[i].row = "unused"
         /\ entry'[i].entity = entry[i].entity /\ entry'[i].escalated = entry[i].escalated
         /\ entry'[i].decision = entry[i].decision /\ entry'[i].by = entry[i].by
         /\ entry'[i].claimedBy = entry[i].claimedBy
         /\ Stored(i)' <=> Stored(i) /\ i \notin S
         /\ i \notin S => entry'[i] = entry[i]
<1>1. entry[i] \in Row
  BY DEF TypeOK, TablesTyped
<1>2. entry'[i] = IF i \in S THEN [entry[i] EXCEPT !.row = "gone"] ELSE entry[i]
  BY DEF Deletes, Gone
<1>3. i \in S => entry[i].row = "stored"
  BY DEF Deletes, Stored
<1>4. NoRow.row = "unused"
  BY DEF NoRow
<1>5. CASE i \in S
  <2>1. entry'[i].row = "gone" /\ entry'[i] # NoRow /\ entry[i] # NoRow
    BY <1>1, <1>2, <1>3, <1>4, <1>5 DEF Row
  <2>2. QED
    BY <1>1, <1>2, <1>3, <1>5, <2>1 DEF Row, Stored
<1>6. CASE i \notin S
  BY <1>2, <1>6 DEF Stored
<1>7. QED
  BY <1>5, <1>6

LEMMA DeletedTables ==
  ASSUME GateInv, NEW S, Deletes(S), EntitiesPersist
  PROVE  RowsPersist /\ TablesInv'
<1> USE DeletedRows DEF GateInv, TablesInv
<1>1. RowsPersist
  BY DEF RowsPersist
<1>2. RowsAreOfEntities'
  BY DEF RowsAreOfEntities, EntitiesPersist
<1>3. \A i \in EntryId : Live(i)' <=> Live(i) /\ i \notin S
  BY DEF Live
<1>4. OneLiveEntry'
  BY <1>3 DEF OneLiveEntry, Unreviewed
<1>5. LiveIsCurrent'
  <2> SUFFICES ASSUME NEW i \in EntryId, Live(i)', Exists(entry[i].entity)'
               PROVE  text'[entry[i].entity] = i
    BY DEF LiveIsCurrent, Unreviewed
  <2>1. Live(i) /\ entry[i].entity \in Entity
    BY <1>3 DEF RowsAreOfEntities, Live, Stored, NoRow
  <2>2. Exists(entry[i].entity)
    BY <2>1 DEF Deletes
  <2>3. QED
    BY <2>1, <2>2 DEF LiveIsCurrent, Unreviewed, Deletes
<1>6. VerdictIsOnCurrentText'
  <2> SUFFICES ASSUME NEW e \in Entity, Exists(e)'
               PROVE  /\ text'[e] \in RowsOf(e)'
                      /\ status'[e] = IF Live(text[e])' THEN "pending"
                           ELSE EntityStatus(entry'[text'[e]].decision, entry'[text'[e]].escalated)
    BY DEF VerdictIsOnCurrentText
  <2>1. Exists(e) /\ status'[e] = status[e] /\ text'[e] = text[e]
    BY DEF Deletes
  <2>2. /\ text[e] \in RowsOf(e)
        /\ status[e] = IF Live(text[e]) THEN "pending"
             ELSE EntityStatus(entry[text[e]].decision, entry[text[e]].escalated)
    BY <2>1 DEF VerdictIsOnCurrentText
  <2>3. text[e] \in EntryId /\ text[e] \notin S
    BY <2>2 DEF RowsOf, Deletes, Exists
  <2>4. QED
    BY <1>3, <2>1, <2>2, <2>3 DEF RowsOf
<1>7. EscalatedNeedsAdmin'
  BY DEF EscalatedNeedsAdmin
<1>8. AuditedIffAutoApproved'
  BY DEF AuditedIffAutoApproved, Deletes
<1>9. QED
  BY <1>1, <1>2, <1>4, <1>5, <1>6, <1>7, <1>8

LEMMA DeletedOthers ==
  ASSUME GateInv, NEW p \in Proc, NEW S, Deletes(S), OthersWait(p),
         \A i \in S : entryLock[i] \in {p, None},
         \A e \in Entity : entityLock[e] \notin {p, None} => status'[e] = status[e]
  PROVE  KeepsRows(p)
<1> SUFFICES ASSUME NEW q \in Proc \ {p}
             PROVE  /\ \A i \in Held(q) : entry'[i] = entry[i]
                    /\ pc[q] \in {"dedupe", "enqueue"} => Exists(arg[q].entity)'
                    /\ pc[q] = "enqueue" => \A i \in EntryId : i \in LiveOf(arg[q].entity)'
                                                       => i \in LiveOf(arg[q].entity)
  BY DEF KeepsRows
<1> USE DEF GateInv
<1>1. \A i \in Held(q) : entry'[i] = entry[i]
  BY DeletedRows, ConstantsOK DEF Held
<1>2. pc[q] \in {"dedupe", "enqueue"} => Exists(arg[q].entity)'
  BY ConstantsOK DEF LocksAreHeld, LocksOf, ReadsAreOfRows, ReadsOf, Exists, OthersWait
<1>3. \A i \in EntryId, e \in Entity : i \in LiveOf(e)' => i \in LiveOf(e)
  BY DeletedRows DEF LiveOf, RowsOf, Live
<1>4. pc[q] = "enqueue" => arg[q].entity \in Entity /\ arg'[q] = arg[q]
  BY DEF ReadsAreOfRows, ReadsOf, OthersWait
<1>5. QED
  BY <1>1, <1>2, <1>3, <1>4

LEMMA RemoveRowKeeps ==
  ASSUME GateInv, NEW p \in Proc, RemoveRow(p)
  PROVE  Others' /\ Writes(p)
<1> DEFINE e == arg[p].entity
           S == Held(p)
<1>1. CASE Fail(p)
  BY <1>1, FailKeeps, FailWrites
<1>2. CASE ~Fail(p)
  <2>1. /\ pc[p] = "remove_row" /\ e \in Ratings /\ e \in Entity /\ entityLock[e] = None
        /\ entry' = Gone(S) /\ status' = [status EXCEPT ![e] = "deleted"]
        /\ text' = [text EXCEPT ![e] = NoEntry] /\ UNCHANGED audits
        /\ \E f : Committed(p, f)
    BY <1>2 DEF RemoveRow, GateInv, ReadsAreOfRows, ReadsOf, Entity
  <2>2. S \subseteq RowsOf(e)
    BY <2>1 DEF GateInv, LocksAreHeld, LocksOf
  <2>3. status'[e] = "deleted" /\ \A x \in Entity : x # e => status'[x] = status[x] /\ text'[x] = text[x]
    BY <2>1 DEF GateInv, TypeOK, TablesTyped
  <2>4. Deletes(S) /\ EntitiesPersist
    BY <2>1, <2>2, <2>3 DEF Deletes, EntitiesPersist, RowsOf, Exists
  <2>5. RowsPersist /\ TablesInv'
    BY <2>4, DeletedTables
  <2>6. Release(p) /\ pc'[p] = "after" /\ OthersWait(p)
    BY <2>1 DEF Committed, Goto, GateInv, TypeOK, ControlTyped, OthersWait
  <2>7. KeepsLocks(p) /\ Held(p)' = {}
    BY <2>6, ReleaseFacts DEF GateInv
  <2>8. KeepsRows(p)
    BY <2>1, <2>3, <2>4, <2>6, DeletedOthers DEF Held
  <2>9. ReadsOf(p)' /\ LocksOf(p)'
    BY <2>6, <2>7 DEF ReadsOf, LocksOf, Reviewing, Writing
  <2>10. QED
    BY <2>4, <2>5, <2>6, <2>7, <2>8, <2>9, OthersRead, OthersHold DEF Others, Writes
<1>3. QED
  BY <1>1, <1>2

LEMMA ReviewExistsKeeps ==
  ASSUME GateInv, NEW p \in Proc, ReviewExists(p)
  PROVE  Others' /\ Writes(p)
<1> DEFINE i == arg[p].entry
           e == arg[p].entity
<1>0. /\ pc[p] = "review_exists" /\ Held(p) = {} /\ ReadsOf(p) /\ LocksOf(p)
      /\ i \in EntryId /\ entry[i].entity = e
  BY DEF ReviewExists, GateInv, LocksAreHeld, LocksOf, ReadsAreOfRows, ReadsOf, Writing, Reviewing
<1>1. CASE Fail(p)
  BY <1>1, FailKeeps, FailWrites
<1>2. CASE Exists(e) /\ Goto(p, "review_decide") /\ UNCHANGED <<db, locks, arg>>
  <2>1. pc'[p] = "review_decide" /\ arg'[p] = arg[p] /\ OthersWait(p) /\ KeepsLocks(p)
    BY <1>2 DEF Goto, GateInv, TypeOK, ControlTyped, OthersWait, KeepsLocks, locks
  <2>2. ReadsOf(p)'
    BY <1>0, <1>2, <2>1 DEF ReadsOf, Reviewing, MayDecide, db
  <2>3. LocksOf(p)'
    BY <1>0, <1>2, <2>1 DEF LocksOf, Writing, Held, locks
  <2>4. QED
    BY <1>2, <2>1, <2>2, <2>3, QuietStep DEF Others, Writes, db
<1>3. CASE /\ ~Exists(e) /\ Unlocked({i}) /\ Stored(i) /\ entry' = Gone({i})
           /\ Committed(p, Do("unindexQueue", {e})) /\ UNCHANGED <<status, text, audits>>
  <2>1. Deletes({i}) /\ EntitiesPersist
    BY <1>0, <1>3 DEF Deletes, EntitiesPersist, Exists
  <2>2. RowsPersist /\ TablesInv'
    BY <2>1, DeletedTables
  <2>3. Release(p) /\ pc'[p] = "after" /\ OthersWait(p)
    BY <1>3 DEF Committed, Goto, GateInv, TypeOK, ControlTyped, OthersWait
  <2>4. KeepsLocks(p) /\ Held(p)' = {}
    BY <2>3, ReleaseFacts DEF GateInv
  <2>5. KeepsRows(p)
    BY <1>3, <2>1, <2>3, DeletedOthers DEF Unlocked
  <2>6. ReadsOf(p)' /\ LocksOf(p)'
    BY <2>3, <2>4 DEF ReadsOf, LocksOf, Reviewing, Writing
  <2>7. QED
    BY <2>1, <2>2, <2>3, <2>4, <2>5, <2>6, OthersRead, OthersHold DEF Others, Writes
<1>4. QED
  BY <1>1, <1>2, <1>3 DEF ReviewExists

LEMMA HealOrphansKeeps ==
  ASSUME GateInv, NEW p \in Proc, HealOrphans(p)
  PROVE  Others' /\ Writes(p)
<1> DEFINE S == {i \in Orphans(arg[p].batch) : Stored(i)}
<1>0. SUFFICES ASSUME ~Fail(p) PROVE Others' /\ Writes(p)
  BY FailKeeps, FailWrites
<1>1. /\ Unlocked(S) /\ entry' = Gone(S) /\ UNCHANGED <<status, text, audits>>
      /\ \E f : Committed(p, f)
  BY <1>0 DEF HealOrphans
<1>2. arg[p].batch \subseteq EntryId
  BY DEF GateInv, TypeOK, ControlTyped, Arg
<1>3. Deletes(S) /\ EntitiesPersist
  BY <1>1, <1>2 DEF Deletes, EntitiesPersist, Exists, Orphans
<1>4. RowsPersist /\ TablesInv'
  BY <1>3, DeletedTables
<1>5. Release(p) /\ pc'[p] = "after" /\ OthersWait(p)
  BY <1>1 DEF Committed, Goto, GateInv, TypeOK, ControlTyped, OthersWait
<1>6. KeepsLocks(p) /\ Held(p)' = {}
  BY <1>5, ReleaseFacts DEF GateInv
<1>7. KeepsRows(p)
  BY <1>1, <1>3, <1>5, DeletedOthers DEF Unlocked
<1>8. ReadsOf(p)' /\ LocksOf(p)'
  BY <1>5, <1>6 DEF ReadsOf, LocksOf, Reviewing, Writing
<1>9. QED
  BY <1>3, <1>4, <1>5, <1>6, <1>7, <1>8, OthersRead, OthersHold DEF Others, Writes

LEMMA InsertedRows ==
  ASSUME GateInv, NEW e \in Entity, NEW i, NEW S, Inserts(e, i, S)
  PROVE  /\ i \in EntryId /\ entry[i] = NoRow /\ i \notin S
         /\ entry'[i] # NoRow /\ entry'[i].row = "stored" /\ entry'[i].entity = e
         /\ entry'[i].decision = "none" /\ entry'[i].claimedBy = None
         /\ \A j \in EntryId \ {i} :
              /\ entry'[j] = NoRow <=> entry[j] = NoRow
              /\ entry'[j].row = "unused" <=> entry[j].row = "unused"
              /\ entry'[j].entity = entry[j].entity /\ entry'[j].escalated = entry[j].escalated
              /\ entry'[j].decision = entry[j].decision /\ entry'[j].by = entry[j].by
              /\ entry'[j].claimedBy = entry[j].claimedBy
              /\ Stored(j)' <=> Stored(j) /\ j \notin S
              /\ j \notin S => entry'[j] = entry[j]
<1>1. i \in EntryId /\ entry[i] = NoRow
  BY DEF Inserts, Fresh, GateInv, TablesInv, RowsAreOfEntities
<1>2. NoRow.row = "unused"
  BY DEF NoRow
<1>3. PICK esc \in BOOLEAN : entry' = [Gone(S) EXCEPT ![i] = NewRow(e, esc)]
  BY DEF Inserts
<1>4. entry'[i] = NewRow(e, esc)
  BY <1>1, <1>3 DEF Gone
<1>5. ASSUME NEW j \in EntryId \ {i}
      PROVE  /\ entry'[j] = NoRow <=> entry[j] = NoRow
             /\ entry'[j].row = "unused" <=> entry[j].row = "unused"
             /\ entry'[j].entity = entry[j].entity /\ entry'[j].escalated = entry[j].escalated
             /\ entry'[j].decision = entry[j].decision /\ entry'[j].by = entry[j].by
             /\ entry'[j].claimedBy = entry[j].claimedBy
             /\ Stored(j)' <=> Stored(j) /\ j \notin S
             /\ j \notin S => entry'[j] = entry[j]
  <2>1. entry[j] \in Row
    BY DEF GateInv, TypeOK, TablesTyped
  <2>2. entry'[j] = IF j \in S THEN [entry[j] EXCEPT !.row = "gone"] ELSE entry[j]
    BY <1>3 DEF Gone
  <2>3. j \in S => entry[j].row = "stored"
    BY DEF Inserts, LiveOf, RowsOf, Stored
  <2>4. CASE j \in S
    <3>1. entry'[j].row = "gone" /\ entry'[j] # NoRow /\ entry[j] # NoRow
      BY <1>2, <2>1, <2>2, <2>3, <2>4 DEF Row
    <3>2. QED
      BY <2>1, <2>2, <2>3, <2>4, <3>1 DEF Row, Stored
  <2>5. CASE j \notin S
    BY <2>2, <2>5 DEF Stored
  <2>6. QED
    BY <2>4, <2>5
<1>6. i \notin S
  BY <1>1, <1>2 DEF Inserts, LiveOf, RowsOf, Stored
<1>7. QED
  BY <1>1, <1>4, <1>5, <1>6, NewRowTyped

LEMMA InsertedTables ==
  ASSUME GateInv, NEW e \in Entity, NEW i, NEW S, Inserts(e, i, S)
  PROVE  RowsPersist /\ EntitiesPersist /\ TablesInv'
<1> USE InsertedRows DEF GateInv, TablesInv
<1>1. RowsPersist
  BY DEF RowsPersist
<1>2. /\ status'[e] = "pending" /\ text'[e] = i /\ EntitiesPersist
      /\ \A x \in Entity \ {e} : status'[x] = status[x] /\ text'[x] = text[x]
  BY DEF Inserts, TypeOK, TablesTyped, EntitiesPersist
<1>3. RowsAreOfEntities'
  BY <1>2 DEF RowsAreOfEntities, EntitiesPersist
<1>4. Live(i)' /\ \A j \in EntryId \ {i} : Live(j)' <=> Live(j) /\ j \notin S
  BY DEF Live, Stored
<1>5. \A j \in EntryId \ {i} : Live(j)' => entry[j].entity # e
  BY <1>4 DEF Inserts, LiveOf, RowsOf, Live
<1>6. OneLiveEntry'
  BY <1>4, <1>5 DEF OneLiveEntry, Unreviewed
<1>7. LiveIsCurrent'
  <2> SUFFICES ASSUME NEW j \in EntryId, Live(j)', Exists(entry[j].entity)'
               PROVE  text'[entry'[j].entity] = j
    BY DEF LiveIsCurrent, Unreviewed
  <2>1. CASE j = i
    BY <1>2, <2>1
  <2>2. CASE j # i
    <3>0. Live(j) /\ entry[j].entity # e /\ entry[j] # NoRow
      BY <1>4, <1>5, <2>2 DEF Live, Stored, NoRow
    <3>1. entry[j].entity \in Entity \ {e} /\ entry'[j].entity = entry[j].entity
      BY <2>2, <3>0 DEF RowsAreOfEntities
    <3>2. Exists(entry[j].entity)
      BY <1>2, <3>1 DEF Exists
    <3>3. QED
      BY <1>2, <3>0, <3>1, <3>2 DEF LiveIsCurrent, Unreviewed
  <2>3. QED
    BY <2>1, <2>2
<1>8. VerdictIsOnCurrentText'
  <2> SUFFICES ASSUME NEW x \in Entity, Exists(x)'
               PROVE  /\ text'[x] \in RowsOf(x)'
                      /\ status'[x] = IF Live(text[x])' THEN "pending"
                           ELSE EntityStatus(entry'[text'[x]].decision, entry'[text'[x]].escalated)
    BY DEF VerdictIsOnCurrentText
  <2>1. CASE x = e
    BY <1>2, <1>4, <2>1 DEF RowsOf, Stored
  <2>2. CASE x # e
    <3>1. Exists(x) /\ status'[x] = status[x] /\ text'[x] = text[x]
      BY <1>2, <2>2 DEF Exists
    <3>2. /\ text[x] \in RowsOf(x)
          /\ status[x] = IF Live(text[x]) THEN "pending"
               ELSE EntityStatus(entry[text[x]].decision, entry[text[x]].escalated)
      BY <3>1 DEF VerdictIsOnCurrentText
    <3>3. text[x] \in EntryId \ {i} /\ text[x] \notin S
      <4>1. text[x] \in EntryId /\ Stored(text[x]) /\ entry[text[x]].entity = x
        BY <3>2 DEF RowsOf
      <4>2. ~Stored(i)
        BY DEF Stored, NoRow
      <4>3. \A j \in S : entry[j].entity = e
        BY DEF Inserts, LiveOf, RowsOf
      <4>4. QED
        BY <2>2, <4>1, <4>2, <4>3
    <3>4. QED
      BY <1>4, <3>1, <3>2, <3>3 DEF RowsOf
  <2>3. QED
    BY <2>1, <2>2
<1>9. EscalatedNeedsAdmin'
  BY DEF EscalatedNeedsAdmin
<1>10. AuditedIffAutoApproved'
  <2>1. audits' = audits /\ audits = {j \in EntryId : entry[j].decision = "approved" /\ entry[j].by = System}
    BY DEF AuditedIffAutoApproved, Inserts
  <2>2. entry[i].decision = "none" /\ entry'[i].decision = "none"
    BY DEF NoRow
  <2>3. \A j \in EntryId : (entry'[j].decision = "approved" /\ entry'[j].by = System)
                               <=> (entry[j].decision = "approved" /\ entry[j].by = System)
    BY <2>2
  <2>4. QED
    BY <2>1, <2>3 DEF AuditedIffAutoApproved
<1>11. QED
  BY <1>1, <1>2, <1>3, <1>6, <1>7, <1>8, <1>9, <1>10

LEMMA InsertedOthers ==
  ASSUME GateInv, NEW p \in Proc, NEW e \in Entity, NEW i, NEW S, Inserts(e, i, S), OthersWait(p),
         S \subseteq Held(p),
         \A q \in Proc \ {p} : pc[q] \in {"dedupe", "enqueue"} => arg[q].entity # e
  PROVE  KeepsRows(p)
<1> SUFFICES ASSUME NEW q \in Proc \ {p}
             PROVE  /\ \A j \in Held(q) : entry'[j] = entry[j]
                    /\ pc[q] \in {"dedupe", "enqueue"} => Exists(arg[q].entity)'
                    /\ pc[q] = "enqueue" => \A j \in EntryId : j \in LiveOf(arg[q].entity)'
                                                       => j \in LiveOf(arg[q].entity)
  BY DEF KeepsRows
<1> USE InsertedRows DEF GateInv
<1>1. \A j \in Held(q) : j # i /\ j \notin S
  <2>1. \A j \in Held(q) : Stored(j)
    BY DEF LocksAreHeld, LocksOf, Writing, LiveOf, RowsOf, Live
  <2>2. QED
    BY <2>1 DEF Stored, NoRow, Held
<1>2. \A j \in Held(q) : entry'[j] = entry[j]
  BY <1>1 DEF Held
<1>3. pc[q] \in {"dedupe", "enqueue"} => /\ arg[q].entity \in Entity \ {e} /\ arg'[q] = arg[q]
                                         /\ Exists(arg[q].entity)
  BY DEF LocksAreHeld, LocksOf, ReadsAreOfRows, ReadsOf, OthersWait
<1>4. \A x \in Entity \ {e} : status'[x] = status[x]
  BY DEF Inserts, TypeOK, TablesTyped
<1>5. \A j \in EntryId, x \in Entity \ {e} : j \in LiveOf(x)' => j \in LiveOf(x)
  BY DEF LiveOf, RowsOf, Live
<1>6. QED
  BY <1>2, <1>3, <1>4, <1>5 DEF Exists

LEMMA CreateKeeps ==
  ASSUME GateInv, NEW p \in Proc, NEW e \in Entity, Create(p, e)
  PROVE  Others' /\ Writes(p)
<1>1. pc[p] = "idle" /\ pc'[p] = "after" /\ OthersWait(p) /\ UNCHANGED <<audits, locks>>
  BY DEF Create, Goto, GateInv, TypeOK, ControlTyped, OthersWait
<1>2. status[e] = "absent"
  BY DEF Create
<1>3. LiveOf(e) = {}
  BY <1>2 DEF LiveOf, RowsOf, Stored, NoRow, GateInv, TablesInv, RowsAreOfEntities
<1>4. Gone({}) = entry
  BY DEF Gone, GateInv, TypeOK, TablesTyped
<1>5. PICK i \in Fresh : Inserts(e, i, {})
  BY <1>3, <1>4 DEF Create, Inserts
<1>6. RowsPersist /\ EntitiesPersist /\ TablesInv'
  BY <1>5, InsertedTables
<1>7. Held(p)' = {} /\ KeepsLocks(p)
  BY <1>1 DEF GateInv, LocksAreHeld, LocksOf, Writing, Held, KeepsLocks, locks
<1>8. \A q \in Proc \ {p} : pc[q] \in {"dedupe", "enqueue"} => arg[q].entity # e
  BY <1>2 DEF GateInv, ReadsAreOfRows, ReadsOf
<1>9. KeepsRows(p)
  BY <1>1, <1>5, <1>8, InsertedOthers
<1>10. ReadsOf(p)' /\ LocksOf(p)'
  BY <1>1, <1>7 DEF ReadsOf, LocksOf, Reviewing, Writing
<1>11. Writes(p)
  <2>1. i \in EntryId /\ {} \in SUBSET EntryId
    BY DEF Fresh
  <2>2. QED
    BY <1>5, <2>1 DEF Writes
<1>12. QED
  BY <1>1, <1>6, <1>7, <1>9, <1>10, <1>11, OthersRead, OthersHold DEF Others

LEMMA EnqueueKeeps ==
  ASSUME GateInv, NEW p \in Proc, Enqueue(p)
  PROVE  Others' /\ Writes(p)
<1> DEFINE e == arg[p].entity
<1>1. /\ pc[p] = "enqueue" /\ e \in Entity /\ entityLock[e] = p
      /\ Held(p) = LiveOf(e)
  BY DEF Enqueue, GateInv, ReadsAreOfRows, ReadsOf, LocksAreHeld, LocksOf
<1>2. PICK i \in Fresh : Inserts(e, i, Held(p))
  <2>1. Escalates(p, e) \in BOOLEAN /\ UNCHANGED audits
    BY DEF Escalates, Enqueue
  <2>2. PICK i \in Fresh : /\ entry' = [Gone(Held(p)) EXCEPT ![i] = NewRow(e, Escalates(p, e))]
                           /\ text' = [text EXCEPT ![e] = i]
    BY DEF Enqueue
  <2>3. status' = [status EXCEPT ![e] = "pending"]
    BY DEF Enqueue, Resubmitted
  <2>4. QED
    BY <1>1, <2>1, <2>2, <2>3 DEF Inserts
<1>3. pc'[p] = "after" /\ OthersWait(p) /\ Release(p)
  BY DEF Enqueue, Goto, GateInv, TypeOK, ControlTyped, OthersWait
<1>4. RowsPersist /\ EntitiesPersist /\ TablesInv'
  BY <1>1, <1>2, InsertedTables
<1>5. KeepsLocks(p) /\ Held(p)' = {}
  BY <1>3, ReleaseFacts DEF GateInv
<1>6. \A q \in Proc \ {p} : pc[q] \in {"dedupe", "enqueue"} => arg[q].entity # e
  BY <1>1 DEF GateInv, LocksAreHeld, LocksOf
<1>7. KeepsRows(p)
  BY <1>1, <1>2, <1>3, <1>6, InsertedOthers
<1>8. ReadsOf(p)' /\ LocksOf(p)'
  BY <1>3, <1>5 DEF ReadsOf, LocksOf, Reviewing, Writing
<1>9. Writes(p)
  <2>1. i \in EntryId /\ Held(p) \in SUBSET EntryId
    BY DEF Fresh, Held
  <2>2. QED
    BY <1>1, <1>2, <2>1 DEF Writes
<1>10. QED
  BY <1>3, <1>4, <1>5, <1>7, <1>8, <1>9, OthersRead, OthersHold DEF Others

LEMMA DecidedRow ==
  ASSUME GateInv, NEW p \in Proc, ReviewApply(p), ~Fail(p)
  PROVE  \E i \in EntryId, e \in Entity, d \in Decision, by \in Actor : Decides(p, i, e, d, by)
<1> DEFINE i == arg[p].entry
           e == arg[p].entity
           d == arg[p].decision
           by == arg[p].by
<1>1. /\ entityLock[e] = None /\ Exists(e) /\ pc[p] = "review_apply"
      /\ entry' = [entry EXCEPT ![i] = [entry[i] EXCEPT !.decision = d, !.by = by]]
      /\ status' = [status EXCEPT ![e] = EntityStatus(d, entry[i].escalated)]
      /\ audits' = (IF IsAudited(by, d) THEN audits \union {i} ELSE audits)
      /\ UNCHANGED text /\ Committed(p, ReviewEffects(e, d))
  BY DEF ReviewApply
<1>2. /\ i \in EntryId /\ entry[i] # NoRow /\ e = entry[i].entity /\ d \in Decision
      /\ by \in Actor /\ MayDecide(by, d, i)
  BY <1>1 DEF GateInv, ReadsAreOfRows, ReadsOf, Reviewing
<1>3. Held(p) = {i} /\ Live(i)
  BY <1>1 DEF GateInv, LocksAreHeld, LocksOf
<1>4. e \in Entity
  BY <1>2 DEF GateInv, TablesInv, RowsAreOfEntities
<1>5. text[e] = i
  BY <1>1, <1>2, <1>3 DEF GateInv, TablesInv, LiveIsCurrent, Unreviewed
<1>6. Decides(p, i, e, d, by)
  BY <1>1, <1>2, <1>3, <1>4, <1>5 DEF Decides
<1>7. QED
  BY <1>2, <1>4, <1>6

LEMMA DecidedTables ==
  ASSUME GateInv, NEW p \in Proc, ReviewApply(p), ~Fail(p)
  PROVE  RowsPersist /\ EntitiesPersist /\ KeepsRows(p) /\ TablesInv'
<1>0. PICK i \in EntryId, e \in Entity, d \in Decision, by \in Actor : Decides(p, i, e, d, by)
  BY DecidedRow
<1>1. /\ entry[i].entity = e /\ Exists(e) /\ Live(i) /\ text[e] = i /\ Held(p) = {i}
      /\ entityLock[e] = None /\ MayDecide(by, d, i)
      /\ entry' = [entry EXCEPT ![i] = [entry[i] EXCEPT !.decision = d, !.by = by]]
      /\ status' = [status EXCEPT ![e] = EntityStatus(d, entry[i].escalated)]
      /\ audits' = (IF IsAudited(by, d) THEN audits \union {i} ELSE audits)
      /\ UNCHANGED text /\ \E f : Committed(p, f)
  BY <1>0 DEF Decides
<1>2. /\ entry'[i].row = "stored" /\ entry'[i].decision = d /\ entry'[i].by = by
      /\ entry[i].entity = e /\ entry'[i].entity = e
      /\ entry'[i].escalated = entry[i].escalated
      /\ entry'[i] # NoRow /\ entry[i] # NoRow /\ entry[i].decision = "none"
      /\ \A j \in EntryId \ {i} : entry'[j] = entry[j]
  <2>1. entry[i] \in Row /\ entry \in [EntryId -> Row]
    BY <1>1 DEF GateInv, TypeOK, TablesTyped
  <2>2. entry'[i] = [entry[i] EXCEPT !.decision = d, !.by = by]
    BY <1>1, <2>1
  <2>3. entry[i].row = "stored" /\ entry[i].decision = "none" /\ NoRow.row = "unused"
    BY <1>1 DEF Live, Stored, NoRow
  <2>4. /\ entry'[i].row = entry[i].row /\ entry'[i].decision = d /\ entry'[i].by = by
        /\ entry'[i].entity = entry[i].entity /\ entry'[i].escalated = entry[i].escalated
    BY <2>1, <2>2 DEF Row
  <2>5. \A j \in EntryId \ {i} : entry'[j] = entry[j]
    BY <1>1, <2>1
  <2>6. QED
    BY <1>1, <2>3, <2>4, <2>5
<1>3. /\ status'[e] = EntityStatus(d, entry[i].escalated)
      /\ status'[e] \in Decided
      /\ \A x \in Entity \ {e} : status'[x] = status[x]
  BY <1>1 DEF GateInv, TypeOK, TablesTyped, EntityStatus, Decided
<1>4. RowsPersist
  BY <1>2 DEF RowsPersist
<1>5. EntitiesPersist /\ \A x \in Entity : Exists(x)' <=> Exists(x)
  BY <1>1, <1>3 DEF EntitiesPersist, Exists, Decided, Decision
<1>6. ~Live(i)' /\ \A j \in EntryId \ {i} : (Live(j)' <=> Live(j)) /\ (Stored(j)' <=> Stored(j))
  BY <1>1, <1>2 DEF Live, Stored, Decision
<1>7. KeepsRows(p)
  <2> SUFFICES ASSUME NEW q \in Proc \ {p}
               PROVE  /\ \A j \in Held(q) : entry'[j] = entry[j]
                      /\ pc[q] \in {"dedupe", "enqueue"} => Exists(arg[q].entity)'
                      /\ pc[q] = "enqueue" => \A j \in EntryId : j \in LiveOf(arg[q].entity)'
                                                         => j \in LiveOf(arg[q].entity)
    BY DEF KeepsRows
  <2>1. \A j \in Held(q) : j # i
    BY <1>1 DEF Held
  <2>2. arg'[q] = arg[q]
    BY <1>1 DEF Committed
  <2>3. pc[q] \in {"dedupe", "enqueue"} => arg[q].entity \in Entity /\ Exists(arg[q].entity)
    BY DEF GateInv, LocksAreHeld, LocksOf, ReadsAreOfRows, ReadsOf
  <2>4. \A j \in EntryId, x \in Entity : j \in LiveOf(x)' => j \in LiveOf(x)
    BY <1>2, <1>6 DEF LiveOf, RowsOf
  <2>5. QED
    BY <1>2, <1>5, <2>1, <2>2, <2>3, <2>4 DEF Held
<1> USE DEF GateInv, TablesInv
<1>8. RowsAreOfEntities'
  BY <1>1, <1>2, <1>5 DEF RowsAreOfEntities, EntitiesPersist, Exists
<1>9. OneLiveEntry'
  BY <1>2, <1>6 DEF OneLiveEntry, Unreviewed
<1>10. LiveIsCurrent'
  <2> SUFFICES ASSUME NEW j \in EntryId, Live(j)', Exists(entry[j].entity)'
               PROVE  text'[entry'[j].entity] = j
    BY DEF LiveIsCurrent, Unreviewed
  <2>1. j # i /\ Live(j) /\ entry'[j] = entry[j] /\ entry[j] # NoRow
    BY <1>2, <1>6 DEF Live, Stored, NoRow
  <2>2. entry[j].entity \in Entity
    BY <2>1 DEF RowsAreOfEntities
  <2>3. QED
    BY <1>1, <1>5, <2>1, <2>2 DEF LiveIsCurrent, Unreviewed
<1>11. VerdictIsOnCurrentText'
  <2> SUFFICES ASSUME NEW x \in Entity, Exists(x)'
               PROVE  /\ text'[x] \in RowsOf(x)'
                      /\ status'[x] = IF Live(text[x])' THEN "pending"
                           ELSE EntityStatus(entry'[text'[x]].decision, entry'[text'[x]].escalated)
    BY DEF VerdictIsOnCurrentText
  <2>1. CASE x = e
    BY <1>1, <1>2, <1>3, <1>6, <2>1 DEF RowsOf, Stored
  <2>2. CASE x # e
    <3>1. Exists(x) /\ status'[x] = status[x] /\ text'[x] = text[x]
      BY <1>1, <1>3, <1>5, <2>2
    <3>2. /\ text[x] \in RowsOf(x)
          /\ status[x] = IF Live(text[x]) THEN "pending"
               ELSE EntityStatus(entry[text[x]].decision, entry[text[x]].escalated)
      BY <3>1 DEF VerdictIsOnCurrentText
    <3>3. text[x] \in EntryId \ {i}
      BY <1>1, <2>2, <3>2 DEF RowsOf
    <3>4. QED
      BY <1>2, <1>6, <3>1, <3>2, <3>3 DEF RowsOf
  <2>3. QED
    BY <2>1, <2>2
<1>12. EscalatedNeedsAdmin'
  <2>1. entry[i].escalated /\ d \in {"approved", "rejected"} => by \in Admins
    BY <1>1 DEF MayDecide
  <2>2. QED
    BY <1>2, <2>1 DEF EscalatedNeedsAdmin
<1>13. AuditedIffAutoApproved'
  BY <1>1, <1>2 DEF AuditedIffAutoApproved, IsAudited
<1>14. QED
  BY <1>4, <1>5, <1>7, <1>8, <1>9, <1>10, <1>11, <1>12, <1>13

LEMMA ReviewApplyKeeps ==
  ASSUME GateInv, NEW p \in Proc, ReviewApply(p)
  PROVE  Others' /\ Writes(p)
<1>1. CASE Fail(p)
  BY <1>1, FailKeeps, FailWrites
<1>2. CASE ~Fail(p)
  <2>1. \E f : Committed(p, f)
    BY <1>2 DEF ReviewApply
  <2>2. pc'[p] = "after" /\ OthersWait(p) /\ Release(p)
    BY <2>1 DEF Committed, Goto, GateInv, TypeOK, ControlTyped, OthersWait
  <2>3. KeepsLocks(p) /\ Held(p)' = {}
    BY <2>2, ReleaseFacts DEF GateInv
  <2>4. ReadsOf(p)' /\ LocksOf(p)'
    BY <2>2, <2>3 DEF ReadsOf, LocksOf, Reviewing, Writing
  <2>5. QED
    BY <1>2, <2>2, <2>3, <2>4, DecidedTables, OthersRead, DecidedRow, OthersHold DEF Others, Writes
<1>3. QED
  BY <1>1, <1>2

LEMMA ClaimWritten ==
  ASSUME GateInv, NEW p \in Proc, ClaimWrite(p) \/ ReleaseWrite(p)
  PROVE  /\ Finish(p) /\ UNCHANGED <<status, text, audits, locks>>
         /\ pc[p] \in {"claim_write", "release_write"}
         /\ \/ UNCHANGED entry
            \/ \E i \in EntryId, m \in Staff \union {None} : Claims(p, i, m)
<1>1. pc[p] \in {"claim_write", "release_write"} => arg[p].entry \in EntryId /\ arg[p].by \in Staff
  BY DEF GateInv, ReadsAreOfRows, ReadsOf
<1>2. CASE ClaimWrite(p)
  BY <1>1, <1>2 DEF ClaimWrite, WriteClaim, Unlocked, Claims, Live
<1>3. CASE ReleaseWrite(p)
  BY <1>1, <1>3 DEF ReleaseWrite, WriteClaim, Unlocked, Claims
<1>4. QED
  BY <1>2, <1>3

LEMMA ClaimedRow ==
  ASSUME TypeOK, NEW p, NEW i \in EntryId, NEW m, Claims(p, i, m), NEW j \in EntryId
  PROVE  /\ entry'[j].entity = entry[j].entity /\ entry'[j].escalated = entry[j].escalated
         /\ entry'[j].decision = entry[j].decision /\ entry'[j].by = entry[j].by
         /\ entry'[j].row = entry[j].row
         /\ j # i => entry'[j] = entry[j]
<1>1. entry[j] \in Row /\ entry \in [EntryId -> Row]
  BY DEF TypeOK, TablesTyped
<1>2. entry'[j] = IF j = i THEN [entry[j] EXCEPT !.claimedBy = m] ELSE entry[j]
  BY <1>1 DEF Claims
<1>3. QED
  BY <1>1, <1>2 DEF Row

LEMMA ClaimKeeps ==
  ASSUME GateInv, NEW p \in Proc, ClaimWrite(p) \/ ReleaseWrite(p)
  PROVE  Others' /\ Writes(p)
<1>1. /\ Finish(p) /\ UNCHANGED <<status, text, audits, locks>>
      /\ pc[p] \in {"claim_write", "release_write"}
  BY ClaimWritten
<1>2. Held(p)' = {} /\ KeepsLocks(p) /\ OthersWait(p) /\ ReadsOf(p)' /\ LocksOf(p)'
  <2>1. Held(p)' = {} /\ KeepsLocks(p)
    BY <1>1 DEF GateInv, LocksAreHeld, LocksOf, Writing, Held, KeepsLocks, locks
  <2>2. QED
    BY <1>1, <2>1, FinishFacts DEF GateInv
<1>3. CASE UNCHANGED entry
  BY <1>1, <1>2, <1>3, QuietStep DEF Others, Writes, db
<1>4. ASSUME NEW i \in EntryId, NEW m \in Staff \union {None}, Claims(p, i, m) PROVE Others' /\ Writes(p)
  <2> USE DEF GateInv, TablesInv
  <2>1. \A j \in EntryId :
          /\ entry'[j].entity = entry[j].entity /\ entry'[j].escalated = entry[j].escalated
          /\ entry'[j].decision = entry[j].decision /\ entry'[j].by = entry[j].by
          /\ entry'[j].row = entry[j].row
          /\ j # i => entry'[j] = entry[j]
    BY <1>4, ClaimedRow
  <2>2. entry'[i] # NoRow /\ entry[i] # NoRow
    BY <1>4, <2>1 DEF Claims, Stored, NoRow
  <2>3. RowsPersist /\ EntitiesPersist
    BY <1>1, <2>1, <2>2 DEF RowsPersist, EntitiesPersist
  <2>4. /\ \A j \in EntryId : (Live(j)' <=> Live(j)) /\ (Stored(j)' <=> Stored(j))
        /\ \A j \in EntryId, x \in Entity : j \in LiveOf(x)' <=> j \in LiveOf(x)
        /\ \A j \in EntryId, x \in Entity : j \in RowsOf(x)' <=> j \in RowsOf(x)
    BY <2>1 DEF Live, Stored, LiveOf, RowsOf
  <2>5. KeepsRows(p)
    <3>1. \A q \in Proc \ {p} : i \notin Held(q)
      BY <1>4, ConstantsOK DEF Claims, Held
    <3>2. \A q \in Proc \ {p} : /\ pc[q] \in {"dedupe", "enqueue"} => arg[q].entity \in Entity
                                /\ pc[q] \in {"dedupe", "enqueue"} => Exists(arg[q].entity)
                                /\ arg'[q] = arg[q]
      BY <1>2 DEF ReadsAreOfRows, ReadsOf, LocksAreHeld, LocksOf, OthersWait
    <3>3. QED
      BY <1>1, <2>1, <2>4, <3>1, <3>2 DEF KeepsRows, Held, Exists
  <2>6. RowsAreOfEntities'
    <3> SUFFICES ASSUME NEW j \in EntryId, entry'[j] # NoRow
                 PROVE  /\ entry'[j].row # "unused" /\ entry'[j].entity \in Entity
                        /\ status'[entry'[j].entity] # "absent"
      BY DEF RowsAreOfEntities
    <3>1. entry[j] # NoRow
      BY <2>1, <2>2
    <3>2. QED
      BY <1>1, <2>1, <3>1 DEF RowsAreOfEntities
  <2>7. OneLiveEntry' /\ LiveIsCurrent'
    BY <1>1, <2>1, <2>4 DEF OneLiveEntry, LiveIsCurrent, Unreviewed, Exists
  <2>8. VerdictIsOnCurrentText'
    <3> SUFFICES ASSUME NEW x \in Entity, Exists(x)'
                 PROVE  /\ text'[x] \in RowsOf(x)'
                        /\ status'[x] = IF Live(text[x])' THEN "pending"
                             ELSE EntityStatus(entry'[text'[x]].decision, entry'[text'[x]].escalated)
      BY DEF VerdictIsOnCurrentText
    <3>1. /\ text[x] \in RowsOf(x) /\ text'[x] = text[x] /\ status'[x] = status[x]
          /\ status[x] = IF Live(text[x]) THEN "pending"
               ELSE EntityStatus(entry[text[x]].decision, entry[text[x]].escalated)
      BY <1>1 DEF VerdictIsOnCurrentText, Exists
    <3>2. text[x] \in EntryId
      BY <3>1 DEF RowsOf
    <3>3. QED
      BY <2>1, <2>4, <3>1, <3>2
  <2>9. EscalatedNeedsAdmin' /\ AuditedIffAutoApproved'
    BY <1>1, <2>1 DEF EscalatedNeedsAdmin, AuditedIffAutoApproved
  <2>10. QED
    BY <1>2, <2>3, <2>5, <2>6, <2>7, <2>8, <2>9, <1>4, OthersRead, OthersHold DEF Others, Writes
<1>5. QED
  BY <1>3, <1>4, ClaimWritten

-----------------------------------------------------------------------------
(* The invariant.                                                          *)

LEMMA InitInv == Init => GateInv
<1> SUFFICES ASSUME Init PROVE GateInv
  OBVIOUS
<1>1. TypeOK
  <2>1. << >> \in Seq(Effect)
    BY EmptySeq
  <2>2. QED
    BY <2>1, ArgTyped, NoRowTyped, EntryRefs
    DEF Init, TypeOK, TablesTyped, LocksTyped, ControlTyped, DerivedTyped, Status, PC
<1>2. ReadsAreOfRows /\ LocksAreHeld
  BY ConstantsOK DEF Init, ReadsAreOfRows, ReadsOf, LocksAreHeld, LocksOf, Reviewing, Writing, Held
<1>3. RowsAreOfEntities /\ OneLiveEntry /\ LiveIsCurrent
  BY DEF Init, RowsAreOfEntities, OneLiveEntry, LiveIsCurrent, Unreviewed, Live, Stored, NoRow
<1>4. VerdictIsOnCurrentText /\ EscalatedNeedsAdmin /\ AuditedIffAutoApproved
  BY DEF Init, VerdictIsOnCurrentText, EscalatedNeedsAdmin, AuditedIffAutoApproved, Exists, NoRow
<1>5. QED
  BY <1>1, <1>2, <1>3, <1>4 DEF GateInv, TablesInv

\* One step of one request, and what it writes to the queue.
LEMMA RequestStep ==
  ASSUME GateInv, NEW p \in Proc, Start(p) \/ Statement(p) \/ Crash(p)
  PROVE  Others' /\ Writes(p)
<1>1. CASE \E e \in Entity : Create(p, e)
  BY <1>1, CreateKeeps
<1>2. CASE Start(p) /\ \A e \in Entity : ~Create(p, e)
  <2>1. Others'
    BY <1>2, StartKeeps
  <2>2. UNCHANGED entry
    BY <1>2 DEF Start, UpdateRead, RemoveRead, ReviewRead, ClaimRead, ReleaseRead, ListRead,
                SearchRead, Begin, db
  <2>3. QED
    BY <2>1, <2>2 DEF Writes
<1>3. CASE \/ UpdateRow(p) \/ DeleteUnreviewed(p) \/ SnapshotEntries(p) \/ RemoveEntries(p)
           \/ ReviewDecide(p)
  <2>1. Others'
    BY <1>3, UpdateRowKeeps, DeleteUnreviewedKeeps, SnapshotEntriesKeeps, RemoveEntriesKeeps,
       ReviewDecideKeeps
  <2>2. UNCHANGED entry
    BY <1>3 DEF UpdateRow, DeleteUnreviewed, SnapshotEntries, RemoveEntries, ReviewDecide, Fail, db
  <2>3. QED
    BY <2>1, <2>2 DEF Writes
<1>4. CASE Enqueue(p) \/ RemoveRow(p) \/ ReviewExists(p) \/ ReviewApply(p)
  BY <1>4, EnqueueKeeps, RemoveRowKeeps, ReviewExistsKeeps, ReviewApplyKeeps
<1>5. CASE ClaimWrite(p) \/ ReleaseWrite(p) \/ HealOrphans(p)
  BY <1>5, ClaimKeeps, HealOrphansKeeps
<1>6. CASE Call(p) \/ Respond(p) \/ DeadlockVictim(p) \/ Crash(p)
  <2>1. Others'
    BY <1>6, EndKeeps
  <2>2. UNCHANGED entry
    BY <1>6 DEF Call, Respond, DeadlockVictim, Crash, Fail, db
  <2>3. QED
    BY <2>1, <2>2 DEF Writes
<1>7. QED
  BY <1>1, <1>2, <1>3, <1>4, <1>5, <1>6 DEF Statement

LEMMA InvStep == GateInv /\ [Next]_vars => GateInv'
<1> SUFFICES ASSUME GateInv, [Next]_vars PROVE GateInv'
  OBVIOUS
<1>1. TypeOK'
  BY StepTyped DEF GateInv, TablesInv
<1>2. CASE Next
  BY <1>1, <1>2, RequestStep DEF Next, Others, GateInv
<1>3. CASE UNCHANGED vars
  <2>1. ReadsAreOfRows' /\ LocksAreHeld'
    BY <1>3 DEF GateInv, ReadsAreOfRows, ReadsOf, LocksAreHeld, LocksOf, vars, db, locks, MayDecide,
                Held, LiveOf, RowsOf, Live, Stored, Exists
  <2>2. TablesInv'
    BY <1>3, TablesKept DEF GateInv, vars
  <2>3. QED
    BY <1>1, <2>1, <2>2 DEF GateInv
<1>4. QED
  BY <1>2, <1>3

\* The inductive invariant of the gate.
THEOREM GateInvariant == Spec => []GateInv
BY InitInv, InvStep, PTL DEF Spec

-----------------------------------------------------------------------------
(* What the gate guarantees.                                               *)

\* Every column, lock, request and index keeps a value of its kind.
THEOREM TypeCorrect == Spec => []TypeOK
<1>1. GateInv => TypeOK
  BY DEF GateInv
<1>2. QED
  BY <1>1, GateInvariant, PTL

\* Concurrent edits and decisions never leave two undecided entries of one entity.
THEOREM AtMostOneLiveEntry == Spec => []OneLiveEntry
<1>1. GateInv => OneLiveEntry
  BY DEF GateInv, TablesInv
<1>2. QED
  BY <1>1, GateInvariant, PTL

\* The status of a row is always the verdict on the text it has now.
THEOREM StatusIsVerdictOnText == Spec => []VerdictIsOnCurrentText
<1>1. GateInv => VerdictIsOnCurrentText
  BY DEF GateInv, TablesInv
<1>2. QED
  BY <1>1, GateInvariant, PTL

\* Only an admin ever approved or rejected an escalated entry.
THEOREM EscalatedDecidedByAdmin == Spec => []EscalatedNeedsAdmin
<1>1. GateInv => EscalatedNeedsAdmin
  BY DEF GateInv, TablesInv
<1>2. QED
  BY <1>1, GateInvariant, PTL

\* Exactly the auto-approved entries have an audit row.
THEOREM AuditIsExact == Spec => []AuditedIffAutoApproved
<1>1. GateInv => AuditedIffAutoApproved
  BY DEF GateInv, TablesInv
<1>2. QED
  BY <1>1, GateInvariant, PTL

LEMMA StepWrites ==
  ASSUME GateInv, [Next]_vars
  PROVE  \/ UNCHANGED entry
         \/ \E p \in Proc : Writes(p)
<1>1. CASE Next
  BY <1>1, RequestStep DEF Next
<1>2. CASE UNCHANGED vars
  BY <1>2 DEF vars, db
<1>3. QED
  BY <1>1, <1>2

\* A decision, once taken, is never taken again or undone.
LEMMA DecisionStays ==
  ASSUME GateInv, [Next]_vars, NEW i \in EntryId, entry[i].decision # "none"
  PROVE  entry'[i].decision = entry[i].decision /\ entry'[i].by = entry[i].by
<1>1. CASE UNCHANGED entry
  BY <1>1
<1>2. ASSUME NEW S, Deletes(S)
      PROVE  entry'[i].decision = entry[i].decision /\ entry'[i].by = entry[i].by
  BY <1>2, DeletedRows DEF GateInv
<1>3. ASSUME NEW e \in Entity, NEW j \in EntryId, NEW S, Inserts(e, j, S)
      PROVE  entry'[i].decision = entry[i].decision /\ entry'[i].by = entry[i].by
  <2>1. entry[j] = NoRow /\ NoRow.decision = "none"
    BY <1>3, InsertedRows DEF NoRow
  <2>2. i # j
    BY <2>1
  <2>3. QED
    BY <1>3, <2>2, InsertedRows
<1>4. ASSUME NEW p \in Proc, NEW j \in EntryId, NEW e \in Entity, NEW d \in Decision, NEW by \in Actor,
             Decides(p, j, e, d, by)
      PROVE  entry'[i].decision = entry[i].decision /\ entry'[i].by = entry[i].by
  BY <1>4 DEF Decides, Live, GateInv, TypeOK, TablesTyped
<1>5. ASSUME NEW p \in Proc, NEW j \in EntryId, NEW m, Claims(p, j, m)
      PROVE  entry'[i].decision = entry[i].decision /\ entry'[i].by = entry[i].by
  BY <1>5, ClaimedRow DEF GateInv
<1>6. QED
  BY <1>1, <1>2, <1>3, <1>4, <1>5, StepWrites DEF Writes

\* Two reviews of one entry never both take effect.
THEOREM DecisionsAreFinal == Spec => DecisionIsFinal
<1>1. GateInv /\ [Next]_vars =>
        [\A i \in EntryId : entry[i].decision # "none" =>
           entry'[i].decision = entry[i].decision /\ entry'[i].by = entry[i].by]_vars
  BY DecisionStays
<1>2. QED
  BY <1>1, GateInvariant, PTL DEF Spec, DecisionIsFinal

\* A decided entry that is deleted was deleted with its entity.
LEMMA TrailStays ==
  ASSUME GateInv, [Next]_vars, NEW i \in EntryId, Stored(i), ~Live(i), entry'[i].row = "gone"
  PROVE  status'[entry[i].entity] = "deleted"
<1>1. entry[i].row = "stored" /\ entry[i].entity \in Entity /\ status[entry[i].entity] # "absent"
  BY DEF Stored, NoRow, GateInv, TablesInv, RowsAreOfEntities
<1>2. CASE UNCHANGED entry
  BY <1>1, <1>2
<1>3. ASSUME NEW S, Deletes(S), EntitiesPersist PROVE status'[entry[i].entity] = "deleted"
  <2>1. i \in S
    BY <1>1, <1>3, DeletedRows DEF GateInv
  <2>2. QED
    BY <1>1, <1>3, <2>1 DEF Deletes, EntitiesPersist
<1>4. ASSUME NEW e \in Entity, NEW j \in EntryId, NEW S, Inserts(e, j, S) PROVE FALSE
  <2>1. i # j /\ i \notin S
    <3>1. entry[j] = NoRow /\ NoRow.row = "unused"
      BY <1>4, InsertedRows DEF NoRow
    <3>2. QED
      BY <1>1, <1>4, <3>1 DEF Inserts, LiveOf
  <2>2. QED
    BY <1>1, <1>4, <2>1, InsertedRows
<1>5. ASSUME NEW p \in Proc, NEW j \in EntryId, NEW e \in Entity, NEW d \in Decision, NEW by \in Actor,
             Decides(p, j, e, d, by)
      PROVE  FALSE
  BY <1>1, <1>5 DEF Decides, Live, GateInv, TypeOK, TablesTyped
<1>6. ASSUME NEW p \in Proc, NEW j \in EntryId, NEW m, Claims(p, j, m) PROVE FALSE
  BY <1>1, <1>6, ClaimedRow DEF GateInv
<1>7. QED
  BY <1>2, <1>3, <1>4, <1>5, <1>6, StepWrites DEF Writes

\* The trail of past decisions that the resubmission cap counts is never cut while
\* the entity exists.
THEOREM TrailIsKept == Spec => TrailIsPermanent
<1>1. GateInv /\ [Next]_vars =>
        [\A i \in EntryId : Stored(i) /\ ~Live(i) /\ entry'[i].row = "gone" =>
           status'[entry[i].entity] = "deleted"]_vars
  BY TrailStays
<1>2. QED
  BY <1>1, GateInvariant, PTL DEF Spec, TrailIsPermanent

LEMMA ClaimStays ==
  ASSUME GateInv, [Next]_vars, NEW i \in EntryId, entry'[i].claimedBy # entry[i].claimedBy
  PROVE  \/ entry[i].claimedBy = None /\ Live(i)
         \/ entry'[i].claimedBy = None /\ \E p \in Proc :
              pc[p] = "release_write" /\ arg[p].entry = i /\ arg[p].by = entry[i].claimedBy
<1>0. entry[i] \in Row /\ entry \in [EntryId -> Row]
  BY DEF GateInv, TypeOK, TablesTyped
<1>1. ASSUME NEW S, Deletes(S) PROVE FALSE
  BY <1>1, DeletedRows DEF GateInv
<1>2. ASSUME NEW e \in Entity, NEW j \in EntryId, NEW S, Inserts(e, j, S) PROVE FALSE
  BY <1>2, InsertedRows DEF NoRow
<1>3. ASSUME NEW p \in Proc, NEW j \in EntryId, NEW e \in Entity, NEW d \in Decision, NEW by \in Actor,
             Decides(p, j, e, d, by)
      PROVE  FALSE
  <2>1. entry'[i] = IF i = j THEN [entry[i] EXCEPT !.decision = d, !.by = by] ELSE entry[i]
    BY <1>0, <1>3 DEF Decides
  <2>2. QED
    BY <1>0, <2>1 DEF Row
<1>4. ASSUME NEW p \in Proc, NEW j \in EntryId, NEW m, Claims(p, j, m)
      PROVE  \/ entry[i].claimedBy = None /\ Live(i)
             \/ entry'[i].claimedBy = None /\ pc[p] = "release_write" /\ arg[p].entry = i
                /\ arg[p].by = entry[i].claimedBy
  <2>1. i = j
    BY <1>4, ClaimedRow DEF GateInv
  <2>2. entry'[i].claimedBy = m
    BY <1>0, <1>4, <2>1 DEF Claims, Row
  <2>3. QED
    BY <1>4, <2>1, <2>2 DEF Claims
<1>5. QED
  BY <1>1, <1>2, <1>3, <1>4, StepWrites DEF Writes

\* Nobody takes over a claim: it is set on an unclaimed undecided entry and cleared
\* by its holder.
THEOREM ClaimsAreNotStolen == Spec => ClaimIsNotStolen
<1>1. GateInv /\ [Next]_vars =>
        [\A i \in EntryId : entry'[i].claimedBy # entry[i].claimedBy =>
           \/ entry[i].claimedBy = None /\ Live(i)
           \/ entry'[i].claimedBy = None /\ \E p \in Proc :
                pc[p] = "release_write" /\ arg[p].entry = i /\ arg[p].by = entry[i].claimedBy]_vars
  BY ClaimStays
<1>2. QED
  BY <1>1, GateInvariant, PTL DEF Spec, ClaimIsNotStolen
===============================================================================
