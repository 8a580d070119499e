------------------------------ MODULE EffectProofs ------------------------------
(***************************************************************************)
(* What a request does after its commit, for every number of entities,     *)
(* requests, entries and staff: the events it publishes and the documents  *)
(* it puts into public search.                                             *)
(***************************************************************************)
EXTENDS ModerationProofs

\* The effects a request has left.
Left(p) == Range(todo[p])

\* An event of a decision waits on a request that wrote that decision; a document is
\* fetched from a row that has a text; what is taken out of public search is deleted.
Sound(p, f) ==
  /\ f.do = "publishStatus" => /\ arg[p].entry \in EntryId /\ arg[p].decision # "none"
                               /\ entry[arg[p].entry].decision = arg[p].decision
  /\ f.do = "putPublic" => f.text # NoEntry
  /\ f.do = "unindexPublic" => \A e \in f.of : status[e] = "deleted"

EffectsAreSound ==
  \A p \in Proc : /\ pc[p] # "after" => todo[p] = << >>
                  /\ \A f \in Left(p) : Sound(p, f)

\* Public search has a document of e, or a request is about to put one there.
Brings(f, e) == f.do \in {"indexPublic", "putPublic"} /\ e \in f.of
Findable(e) == publicIndex[e] # NoEntry \/ \E p \in Proc : \E f \in Left(p) : Brings(f, e)

Searchable == RoundRatings \union Companies

ApprovedAreFindable ==
  ~Unreliable /\ ~Crashes /\ "indexPublic" \in Tracked =>
    \A e \in Searchable : status[e] = "approved" => Findable(e)

EffectInv == EffectsAreSound /\ AnnouncedWasDecided /\ ApprovedAreFindable

-----------------------------------------------------------------------------
(* Sequences of effects.                                                   *)

LEMMA EffectsOfOne == ASSUME NEW f PROVE Range(<<f>>) = {f}
BY DEF Range

LEMMA EffectsOfNone == Range(<< >>) = {}
BY DEF Range

LEMMA HeadAndTail ==
  ASSUME NEW S, NEW s \in Seq(S), s # << >>
  PROVE  /\ Range(s) = {Head(s)} \union Range(Tail(s))
         /\ Tail(s) \in Seq(S) /\ Head(s) \in S
<1>1. Tail(s) \in Seq(S) /\ Head(s) \in S /\ <<Head(s)>> \in Seq(S)
  BY HeadTailProperties
<1>2. s = <<Head(s)>> \o Tail(s)
  OBVIOUS
<1>3. Range(<<Head(s)>> \o Tail(s)) = Range(<<Head(s)>>) \union Range(Tail(s))
  BY <1>1, RangeConcatenation
<1>4. QED
  BY <1>1, <1>2, <1>3, EffectsOfOne

LEMMA EffectsOfDo ==
  ASSUME NEW name, NEW S
  PROVE  Range(Do(name, S)) = IF S = {} \/ name \notin Tracked THEN {}
                              ELSE {[do |-> name, of |-> S, text |-> NoEntry]}
BY EffectsOfOne, EffectsOfNone DEF Do

\* What is left of the effects of p after a call for e in the first one.
LEMMA EffectsOfRest ==
  ASSUME TypeOK, NEW p \in Proc, todo[p] # << >>, NEW e \in Head(todo[p]).of
  PROVE  /\ Head(todo[p]) \in Left(p) /\ Head(todo[p]) \in Effect
         /\ Rest(p, e) \in Seq(Effect)
         /\ \A g \in Range(Rest(p, e)) : \E f \in Left(p) :
              g.do = f.do /\ g.text = f.text /\ g.of \subseteq f.of
         /\ \A f \in Left(p) : \A x : Brings(f, x) =>
              \/ f = Head(todo[p]) /\ x = e
              \/ \E g \in Range(Rest(p, e)) : Brings(g, x)
<1> DEFINE f0 == Head(todo[p])
           f1 == [f0 EXCEPT !.of = @ \ {e}]
           h == IF f0.of = {e} THEN << >> ELSE <<f1>>
<1>1. todo[p] \in Seq(Effect)
  BY DEF TypeOK, ControlTyped
<1>2. Left(p) = {f0} \union Range(Tail(todo[p])) /\ Tail(todo[p]) \in Seq(Effect) /\ f0 \in Effect
  BY <1>1, HeadAndTail DEF Left
<1>3. /\ f1 \in Effect /\ f1.do = f0.do /\ f1.text = f0.text /\ f1.of = f0.of \ {e}
  BY <1>2 DEF Effect
<1>4. h \in Seq(Effect) /\ Range(h) = IF f0.of = {e} THEN {} ELSE {f1}
  <2>1. << >> \in Seq(Effect) /\ <<f1>> \in Seq(Effect)
    <3> HIDE DEF f1
    <3>1. QED
      BY <1>3, EmptySeq
  <2>2. Range(<<f1>>) = {f1} /\ Range(<< >>) = {}
    BY EffectsOfOne, EffectsOfNone
  <2> HIDE DEF f1
  <2>3. QED
    BY <2>1, <2>2
<1>5. Range(Rest(p, e)) = Range(h) \union Range(Tail(todo[p])) /\ Rest(p, e) \in Seq(Effect)
  <2>1. Rest(p, e) = h \o Tail(todo[p])
    BY DEF Rest
  <2> HIDE DEF h
  <2>2. Range(h \o Tail(todo[p])) = Range(h) \union Range(Tail(todo[p]))
    BY <1>2, <1>4, RangeConcatenation
  <2>3. h \o Tail(todo[p]) \in Seq(Effect)
    BY <1>2, <1>4, ConcatProperties
  <2>4. QED
    BY <2>1, <2>2, <2>3
<1> HIDE DEF f1, h
<1>6. ASSUME NEW g \in Range(Rest(p, e))
      PROVE  \E f \in Left(p) : g.do = f.do /\ g.text = f.text /\ g.of \subseteq f.of
  BY <1>2, <1>3, <1>4, <1>5, <1>6
<1>7. ASSUME NEW f \in Left(p), NEW x, Brings(f, x), ~(f = f0 /\ x = e)
      PROVE  \E g \in Range(Rest(p, e)) : Brings(g, x)
  <2>1. CASE f \in Range(Tail(todo[p]))
    BY <1>5, <1>7, <2>1
  <2>2. CASE f = f0
    <3>1. f1 \in Range(Rest(p, e)) /\ x \in f1.of
      BY <1>3, <1>4, <1>5, <1>7, <2>2 DEF Brings
    <3>2. QED
      BY <1>3, <1>7, <2>2, <3>1 DEF Brings
  <2>3. QED
    BY <1>2, <2>1, <2>2
<1>8. QED
  BY <1>2, <1>5, <1>6, <1>7

-----------------------------------------------------------------------------
(* Decisions and deletions stay.                                           *)

LEMMA DecidedStays ==
  ASSUME GateInv, [Next]_vars, NEW i \in EntryId, entry[i].decision # "none"
  PROVE  entry'[i].decision = entry[i].decision /\ entry'[i].escalated = entry[i].escalated
<1>1. entry'[i].decision = entry[i].decision
  BY DecisionStays
<1>2. entry'[i].escalated = entry[i].escalated
  <2>1. ASSUME NEW S, Deletes(S) PROVE entry'[i].escalated = entry[i].escalated
    BY <2>1, DeletedRows DEF GateInv
  <2>2. ASSUME NEW e \in Entity, NEW j \in EntryId, NEW S, Inserts(e, j, S)
        PROVE  entry'[i].escalated = entry[i].escalated
    <3>1. entry[j] = NoRow /\ NoRow.decision = "none"
      BY <2>2, InsertedRows DEF NoRow
    <3>2. QED
      BY <2>2, <3>1, InsertedRows
  <2>3. ASSUME NEW p \in Proc, NEW j \in EntryId, NEW e \in Entity, NEW d \in Decision,
               NEW by \in Actor, Decides(p, j, e, d, by)
        PROVE  entry'[i].escalated = entry[i].escalated
    BY <2>3 DEF Decides, Live, GateInv, TypeOK, TablesTyped
  <2>4. ASSUME NEW p \in Proc, NEW j \in EntryId, NEW m, Claims(p, j, m)
        PROVE  entry'[i].escalated = entry[i].escalated
    BY <2>4, ClaimedRow DEF GateInv
  <2>5. QED
    BY <2>1, <2>2, <2>3, <2>4, StepWrites DEF Writes
<1>3. QED
  BY <1>1, <1>2

\* The status of an entity changes by its creation, an edit, a decision or a deletion.
LEMMA StatusWrites ==
  ASSUME GateInv, NEW p \in Proc, Start(p) \/ Statement(p) \/ Crash(p)
  PROVE  \/ UNCHANGED status
         \/ \E e \in Entity :
              \/ status[e] = "absent" /\ status' = [status EXCEPT ![e] = "pending"]
              \/ Exists(e) /\ Enqueue(p) /\ status' = [status EXCEPT ![e] = "pending"]
              \/ Exists(e) /\ RemoveRow(p) /\ status' = [status EXCEPT ![e] = "deleted"]
              \/ /\ Exists(e) /\ ReviewApply(p) /\ e = arg[p].entity
                 /\ \E x : status' = [status EXCEPT ![e] = EntityStatus(arg[p].decision, x)]
<1>1. CASE \E e \in Entity : Create(p, e)
  BY <1>1 DEF Create
<1>2. CASE Start(p) /\ \A e \in Entity : ~Create(p, e)
  BY <1>2 DEF Start, UpdateRead, RemoveRead, ReviewRead, ClaimRead, ReleaseRead, ListRead,
              SearchRead, Begin, db
<1>3. CASE \/ UpdateRow(p) \/ DeleteUnreviewed(p) \/ SnapshotEntries(p) \/ RemoveEntries(p)
           \/ ReviewDecide(p) \/ ReviewExists(p) \/ HealOrphans(p) \/ Call(p) \/ Respond(p) \/ DeadlockVictim(p) \/ Crash(p)
  BY <1>3 DEF UpdateRow, DeleteUnreviewed, SnapshotEntries, RemoveEntries, ReviewDecide,
              ReviewExists, HealOrphans, Call, Respond, DeadlockVictim, Crash, Fail, db
<1>4. CASE ClaimWrite(p) \/ ReleaseWrite(p)
  BY <1>4 DEF ClaimWrite, ReleaseWrite, WriteClaim
<1>5. CASE Enqueue(p)
  <2>1. pc[p] = "enqueue" /\ status' = [status EXCEPT ![arg[p].entity] = "pending"]
    BY <1>5 DEF Enqueue, Resubmitted
  <2>2. arg[p].entity \in Entity /\ Exists(arg[p].entity)
    BY <2>1 DEF GateInv, ReadsAreOfRows, ReadsOf, LocksAreHeld, LocksOf
  <2>3. QED
    BY <1>5, <2>1, <2>2
<1>6. CASE RemoveRow(p)
  <2>1. pc[p] = "remove_row"
    BY <1>6 DEF RemoveRow
  <2>2. arg[p].entity \in Entity
    BY <2>1 DEF GateInv, ReadsAreOfRows, ReadsOf, Entity
  <2>3. QED
    BY <1>6, <2>2 DEF RemoveRow, Fail, db
<1>7. CASE ReviewApply(p)
  <2>1. CASE Fail(p)
    BY <2>1 DEF Fail, db
  <2>2. CASE ~Fail(p)
    <3>1. Exists(arg[p].entity) /\ arg[p].entity \in Entity
      <4>1. PICK i \in EntryId, e \in Entity, d \in Decision, by \in Actor : Decides(p, i, e, d, by)
        BY <1>7, <2>2, DecidedRow
      <4>2. pc[p] = "review_apply" /\ Exists(arg[p].entity)
        BY <1>7, <2>2 DEF ReviewApply
      <4>3. arg[p].entry \in EntryId /\ entry[arg[p].entry] # NoRow
            /\ arg[p].entity = entry[arg[p].entry].entity
        BY <4>2 DEF GateInv, ReadsAreOfRows, ReadsOf, Reviewing
      <4>4. QED
        BY <4>2, <4>3 DEF GateInv, TablesInv, RowsAreOfEntities
    <3>2. status' = [status EXCEPT ![arg[p].entity] =
                       EntityStatus(arg[p].decision, entry[arg[p].entry].escalated)]
      BY <1>7, <2>2 DEF ReviewApply
    <3>3. QED
      BY <1>7, <3>1, <3>2
  <2>3. QED
    BY <2>1, <2>2
<1>8. QED
  BY <1>1, <1>2, <1>3, <1>4, <1>5, <1>6, <1>7 DEF Statement

LEMMA DeletedStays ==
  ASSUME GateInv, NEW p \in Proc, Start(p) \/ Statement(p) \/ Crash(p),
         NEW e \in Entity, status[e] = "deleted"
  PROVE  status'[e] = "deleted"
BY StatusWrites DEF Exists, GateInv, TypeOK, TablesTyped

-----------------------------------------------------------------------------
(* Steps up to the commit.                                                 *)

OthersRest(p) == OthersWait(p) /\ \A q \in Proc \ {p} : todo'[q] = todo[q]

Step(p) == Start(p) \/ Statement(p) \/ Crash(p)

LEMMA FailRests ==
  ASSUME TypeOK, NEW p \in Proc, Fail(p)
  PROVE  OthersRest(p) /\ pc'[p] = "idle" /\ todo'[p] = << >> /\ UNCHANGED derived
BY DEF Fail, Finish, Goto, OthersRest, OthersWait, TypeOK, ControlTyped

\* What other requests have left is as sound as it was.
LEMMA EffectsStaySound ==
  ASSUME GateInv, EffectsAreSound, NEW p \in Proc, Step(p), OthersRest(p),
         pc'[p] # "after" => todo'[p] = << >>, \A f \in Left(p)' : Sound(p, f)'
  PROVE  EffectsAreSound'
<1> SUFFICES ASSUME NEW q \in Proc \ {p}
             PROVE  /\ pc'[q] # "after" => todo'[q] = << >>
                    /\ \A f \in Left(q)' : Sound(q, f)'
  BY DEF EffectsAreSound
<1>1. Left(q)' = Left(q) /\ arg'[q] = arg[q] /\ todo'[q] = todo[q] /\ pc'[q] = pc[q]
  BY DEF OthersRest, OthersWait, Left
<1>2. ASSUME NEW f \in Left(q) PROVE Sound(q, f)'
  <2>1. Sound(q, f)
    BY DEF EffectsAreSound
  <2>2. f.of \subseteq Entity
    <3>1. todo[q] \in Seq(Effect)
      BY DEF GateInv, TypeOK, ControlTyped
    <3>2. f \in Effect
      BY <3>1, RangeOfSeq DEF Left
    <3>3. QED
      BY <3>2 DEF Effect
  <2>3. [Next]_vars
    BY DEF Step, Next
  <2>4. \A e \in f.of : status[e] = "deleted" => status'[e] = "deleted"
    BY <2>2, DeletedStays DEF Step
  <2>5. arg[q].entry \in EntryId /\ entry[arg[q].entry].decision # "none"
          => entry'[arg[q].entry].decision = entry[arg[q].entry].decision
    BY <2>3, DecidedStays
  <2>6. QED
    BY <1>1, <2>1, <2>4, <2>5 DEF Sound
<1>3. QED
  BY <1>1, <1>2 DEF EffectsAreSound

LEMMA AnnouncedStays ==
  ASSUME GateInv, AnnouncedWasDecided, [Next]_vars, UNCHANGED announced
  PROVE  AnnouncedWasDecided'
BY DecidedStays DEF AnnouncedWasDecided, EntityStatus

\* A step that performs no effect, of a request that has none left unless it dies.
LEMMA CommitKeeps ==
  ASSUME GateInv, EffectInv, NEW p \in Proc, Step(p), OthersRest(p), UNCHANGED derived,
         todo[p] = << >> \/ Crashes,
         pc'[p] # "after" => todo'[p] = << >>, \A f \in Left(p)' : Sound(p, f)',
         "indexPublic" \in Tracked =>
           \A e \in Searchable : status'[e] = "approved" =>
             status[e] = "approved" \/ \E f \in Left(p)' : Brings(f, e)
  PROVE  EffectInv'
<1>1. EffectsAreSound'
  BY EffectsStaySound DEF EffectInv
<1>2. AnnouncedWasDecided'
  <2>1. [Next]_vars
    BY DEF Step, Next
  <2>2. QED
    BY <2>1, AnnouncedStays DEF EffectInv, derived
<1>3. ApprovedAreFindable'
  <2> SUFFICES ASSUME ~Unreliable, ~Crashes, "indexPublic" \in Tracked, NEW e \in Searchable,
                      status'[e] = "approved"
               PROVE  Findable(e)'
    BY DEF ApprovedAreFindable
  <2>1. CASE status[e] = "approved"
    <3>1. CASE publicIndex[e] # NoEntry
      BY <3>1 DEF Findable, derived
    <3>2. ASSUME NEW q \in Proc, NEW f \in Left(q), Brings(f, e)
          PROVE  Findable(e)'
      <4>1. q # p
        BY <3>2, EffectsOfNone DEF Left
      <4>2. f \in Left(q)'
        BY <4>1 DEF Left, OthersRest
      <4>3. QED
        BY <3>2, <4>2 DEF Findable
    <3>3. QED
      BY <2>1, <3>1, <3>2 DEF EffectInv, ApprovedAreFindable, Findable
  <2>2. CASE status[e] # "approved"
    BY <2>2 DEF Findable
  <2>3. QED
    BY <2>1, <2>2
<1>4. QED
  BY <1>1, <1>2, <1>3 DEF EffectInv

Harmless(f) == f.do \in {"indexQueue", "unindexQueue", "publishCreated"}

\* A request that fails or goes on to its next statement.
LEMMA MoveKeeps ==
  ASSUME GateInv, EffectInv, NEW p \in Proc, Step(p), OthersRest(p), UNCHANGED derived,
         UNCHANGED status, todo[p] = << >> \/ Crashes, \A f \in Left(p)' : Harmless(f),
         pc'[p] # "after" => todo'[p] = << >>
  PROVE  EffectInv'
<1>1. \A f \in Left(p)' : Sound(p, f)'
  BY DEF Harmless, Sound
<1>2. QED
  BY <1>1, CommitKeeps

-----------------------------------------------------------------------------
(* The effects of each commit.                                             *)

LEMMA HarmlessEffects ==
  ASSUME NEW e \in Entity
  PROVE  /\ \A f \in Range(EditEffects(e)) : Harmless(f)
         /\ \A f \in Range(Do("indexQueue", {e}) \o Do("publishCreated", {e})) : Harmless(f)
         /\ \A f \in Range(Do("unindexQueue", {e})) : Harmless(f)
<1>1. \A name \in EffectName, X \in SUBSET Entity : Do(name, X) \in Seq(Effect)
  BY DoTyped
<1>2. \A name \in EffectName, X \in SUBSET Entity :
        name \in {"indexQueue", "unindexQueue", "publishCreated"} =>
          \A f \in Range(Do(name, X)) : Harmless(f)
  BY EffectsOfDo DEF Harmless
<1>3. \A s, t \in Seq(Effect) : Range(s \o t) = Range(s) \union Range(t)
  BY RangeConcatenation
<1>4. {e} \in SUBSET Entity /\ {e} \intersect Ratings \in SUBSET Entity
      /\ {"indexQueue", "publishCreated", "unindexQueue"} \subseteq EffectName
  BY DEF EffectName
<1>5. QED
  BY <1>1, <1>2, <1>3, <1>4 DEF EditEffects

LEMMA HealIsHarmless ==
  ASSUME NEW S \in SUBSET Entity, NEW T \in SUBSET Entity
  PROVE  \A f \in Range(HealEffects(S, T)) : Harmless(f)
<1>1. Do("unindexQueue", S) \in Seq(Effect) /\ Do("indexQueue", T) \in Seq(Effect)
  BY DoTyped DEF EffectName
<1>2. Range(HealEffects(S, T)) = Range(Do("unindexQueue", S)) \union Range(Do("indexQueue", T))
  BY <1>1, RangeConcatenation DEF HealEffects
<1>3. QED
  BY <1>2, EffectsOfDo DEF Harmless

LEMMA RemoveEffectsAre ==
  ASSUME NEW e \in Entity, NEW saw
  PROVE  \A f \in Range(RemoveEffects(e, saw)) :
           Harmless(f) \/ (f.do = "unindexPublic" /\ f.of \subseteq {e})
<1> DEFINE X == IF saw = "approved" THEN {e} \intersect RoundRatings ELSE {}
<1>1. Do("unindexQueue", {e}) \in Seq(Effect) /\ Do("unindexPublic", X) \in Seq(Effect)
  BY DoTyped DEF EffectName
<1>2. Range(RemoveEffects(e, saw)) = Range(Do("unindexQueue", {e})) \union Range(Do("unindexPublic", X))
  BY <1>1, RangeConcatenation DEF RemoveEffects
<1>3. QED
  BY <1>2, EffectsOfDo DEF Harmless

LEMMA ReviewEffectsAre ==
  ASSUME NEW e \in Entity, NEW d
  PROVE  /\ \A f \in Range(ReviewEffects(e, d)) : f.do \notin {"putPublic", "unindexPublic"}
         /\ d = "approved" /\ e \in Searchable /\ "indexPublic" \in Tracked =>
              \E f \in Range(ReviewEffects(e, d)) : Brings(f, e)
<1> DEFINE A == IF d = "approved" THEN {e} ELSE {}
           s1 == Do("indexPublic", A \ OtherRatings)
           s2 == Do("refreshView", A \intersect Ratings)
           s3 == Do("unindexQueue", {e})
           s4 == Do("publishStatus", {e})
<1>1. s1 \in Seq(Effect) /\ s2 \in Seq(Effect) /\ s3 \in Seq(Effect) /\ s4 \in Seq(Effect)
  BY DoTyped DEF EffectName
<1>2. \A f \in Range(s1) \union Range(s2) \union Range(s3) \union Range(s4) :
        f.do \notin {"putPublic", "unindexPublic"}
  BY EffectsOfDo
<1>3. ASSUME d = "approved", e \in Searchable, "indexPublic" \in Tracked
      PROVE  \E f \in Range(s1) : Brings(f, e)
  <2>1. A \ OtherRatings = {e}
    BY <1>3, ConstantsOK DEF Searchable, Ratings
  <2>2. Range(s1) = {[do |-> "indexPublic", of |-> {e}, text |-> NoEntry]}
    <3>1. s1 = Do("indexPublic", {e}) /\ {e} # {}
      BY <2>1
    <3>2. Range(Do("indexPublic", {e})) = {[do |-> "indexPublic", of |-> {e}, text |-> NoEntry]}
      BY <1>3, <3>1, EffectsOfDo
    <3>3. QED
      BY <3>1, <3>2
  <2> HIDE DEF s1
  <2>3. Brings([do |-> "indexPublic", of |-> {e}, text |-> NoEntry], e)
    BY DEF Brings
  <2>4. QED
    BY <2>2, <2>3
<1>4. ReviewEffects(e, d) = ((s1 \o s2) \o s3) \o s4
  BY DEF ReviewEffects
<1> HIDE DEF s1, s2, s3, s4
<1>5. \A s, t \in Seq(Effect) : s \o t \in Seq(Effect) /\ Range(s \o t) = Range(s) \union Range(t)
  BY ConcatProperties, RangeConcatenation
<1>6. Range(ReviewEffects(e, d)) = Range(s1) \union Range(s2) \union Range(s3) \union Range(s4)
  <2>1. s1 \o s2 \in Seq(Effect) /\ Range(s1 \o s2) = Range(s1) \union Range(s2)
    BY <1>1, <1>5
  <2>2. /\ (s1 \o s2) \o s3 \in Seq(Effect)
        /\ Range((s1 \o s2) \o s3) = Range(s1 \o s2) \union Range(s3)
    BY <1>1, <1>5, <2>1
  <2>3. Range(((s1 \o s2) \o s3) \o s4) = Range((s1 \o s2) \o s3) \union Range(s4)
    BY <1>1, <1>5, <2>2
  <2>4. QED
    BY <1>4, <2>1, <2>2, <2>3
<1>7. QED
  BY <1>2, <1>3, <1>6

\* The transaction of p is committed, with these effects.
LEMMA CommittedRests ==
  ASSUME TypeOK, NEW p \in Proc, NEW effects, Committed(p, effects)
  PROVE  OthersRest(p) /\ pc'[p] = "after" /\ todo'[p] = effects /\ UNCHANGED arg
BY DEF Committed, Goto, OthersRest, OthersWait, TypeOK, ControlTyped

LEMMA NothingBefore ==
  ASSUME EffectInv, NEW p \in Proc, pc[p] # "after"
  PROVE  todo[p] = << >> /\ Left(p) = {}
BY EffectsOfNone DEF EffectInv, EffectsAreSound, Left

LEMMA FailStepKeeps ==
  ASSUME GateInv, EffectInv, NEW p \in Proc, Step(p), Fail(p), pc[p] # "after" \/ Crashes
  PROVE  EffectInv'
<1>1. OthersRest(p) /\ pc'[p] = "idle" /\ todo'[p] = << >> /\ UNCHANGED derived
  BY FailRests DEF GateInv
<1>2. UNCHANGED status /\ Left(p)' = {}
  BY <1>1, EffectsOfNone DEF Fail, db, Left
<1>3. todo[p] = << >> \/ Crashes
  BY NothingBefore
<1>4. QED
  BY <1>1, <1>2, <1>3, MoveKeeps

LEMMA StartStepKeeps ==
  ASSUME GateInv, EffectInv, NEW p \in Proc, Start(p)
  PROVE  EffectInv'
<1>1. CASE \E e \in Entity : Create(p, e)
  <2>1. PICK e \in Entity : Create(p, e)
    BY <1>1
  <2>2. /\ pc[p] = "idle" /\ pc'[p] = "after" /\ OthersRest(p) /\ UNCHANGED derived
        /\ todo'[p] = Do("indexQueue", {e}) \o Do("publishCreated", {e})
    BY <2>1 DEF Create, Goto, OthersRest, OthersWait, GateInv, TypeOK, ControlTyped
  <2>3. \A f \in Left(p)' : Sound(p, f)'
    BY <2>2, HarmlessEffects DEF Left, Harmless, Sound
  <2>4. status' = [status EXCEPT ![e] = "pending"]
    BY <2>1 DEF Create
  <2>5. \A x \in Entity : status'[x] = "approved" => status[x] = "approved"
    BY <2>4 DEF GateInv, TypeOK, TablesTyped
  <2>6. Searchable \subseteq Entity
    BY DEF Searchable, Entity, Ratings
  <2>7. QED
    BY <2>2, <2>3, <2>5, <2>6, NothingBefore, CommitKeeps DEF Step
<1>2. CASE \A e \in Entity : ~Create(p, e)
  <2>1. \E op, l, a : Begin(p, op, l, a) /\ l # "after"
    <3>1. CASE \E e \in Entity : UpdateRead(p, e)
      BY <3>1 DEF UpdateRead
    <3>2. CASE \E e \in Entity : RemoveRead(p, e)
      BY <3>2 DEF RemoveRead
    <3>3. CASE \E i \in EntryId, by \in Actor, d \in Decision : ReviewRead(p, i, by, d)
      BY <3>3 DEF ReviewRead
    <3>4. CASE \E i \in EntryId, m \in Staff : ClaimRead(p, i, m)
      BY <3>4 DEF ClaimRead
    <3>5. CASE \E i \in EntryId, m \in Staff : ReleaseRead(p, i, m)
      BY <3>5 DEF ReleaseRead
    <3>6. CASE \E S \in SUBSET Unreviewed : ListRead(p, S) \/ SearchRead(p, S)
      BY <3>6 DEF ListRead, SearchRead
    <3>7. QED
      BY <1>2, <3>1, <3>2, <3>3, <3>4, <3>5, <3>6 DEF Start
  <2>2. /\ pc[p] = "idle" /\ pc'[p] # "after" /\ OthersRest(p) /\ UNCHANGED <<status, todo, derived>>
    BY <2>1 DEF Begin, Goto, OthersRest, OthersWait, GateInv, TypeOK, ControlTyped, db
  <2>3. todo[p] = << >> /\ Left(p)' = {}
    BY <2>2, NothingBefore DEF Left
  <2>4. QED
    BY <2>2, <2>3, MoveKeeps DEF Step
<1>3. QED
  BY <1>1, <1>2

LEMMA StatementKeeps ==
  ASSUME GateInv, EffectInv, NEW p \in Proc,
         \/ UpdateRow(p) \/ DeleteUnreviewed(p) \/ SnapshotEntries(p) \/ RemoveEntries(p)
         \/ ReviewDecide(p) \/ ClaimWrite(p) \/ ReleaseWrite(p) \/ Respond(p)
  PROVE  EffectInv'
<1>0. Step(p)
  BY DEF Step, Statement
<1>1. CASE Fail(p)
  <2>1. pc[p] # "after" \/ todo[p] = << >>
    BY DEF UpdateRow, DeleteUnreviewed, SnapshotEntries, RemoveEntries, ReviewDecide, ClaimWrite,
           ReleaseWrite, WriteClaim, Respond
  <2>2. OthersRest(p) /\ pc'[p] = "idle" /\ todo'[p] = << >> /\ UNCHANGED derived
    BY <1>1, FailRests DEF GateInv
  <2>3. UNCHANGED status /\ Left(p)' = {}
    BY <1>1, <2>2, EffectsOfNone DEF Fail, db, Left
  <2>4. QED
    BY <1>0, <2>1, <2>2, <2>3, NothingBefore, MoveKeeps
<1>2. CASE ~Fail(p)
  <2>1. /\ todo[p] = << >> /\ UNCHANGED <<status, derived>>
        /\ OthersRest(p) /\ todo'[p] = << >>
    <3>1. CASE \/ UpdateRow(p) \/ DeleteUnreviewed(p) \/ SnapshotEntries(p) \/ RemoveEntries(p)
               \/ ReviewDecide(p)
      BY <1>2, <3>1, NothingBefore
      DEF UpdateRow, DeleteUnreviewed, SnapshotEntries, RemoveEntries, ReviewDecide, Goto, OthersRest, OthersWait,
          db, GateInv, TypeOK, ControlTyped
    <3>2. CASE ClaimWrite(p) \/ ReleaseWrite(p) \/ Respond(p)
      BY <3>2, NothingBefore
      DEF ClaimWrite, ReleaseWrite, WriteClaim, Respond, Finish, Goto, OthersRest, OthersWait,
          db, GateInv, TypeOK, ControlTyped
    <3>3. QED
      BY <3>1, <3>2
  <2>2. Left(p)' = {}
    BY <2>1, EffectsOfNone DEF Left
  <2>3. QED
    BY <1>0, <2>1, <2>2, MoveKeeps
<1>3. QED
  BY <1>1, <1>2

LEMMA EnqueueStepKeeps ==
  ASSUME GateInv, EffectInv, NEW p \in Proc, Enqueue(p)
  PROVE  EffectInv'
<1> DEFINE e == arg[p].entity
<1>1. /\ pc[p] = "enqueue" /\ e \in Entity /\ status' = [status EXCEPT ![e] = "pending"]
  BY DEF Enqueue, Resubmitted, GateInv, ReadsAreOfRows, ReadsOf
<1>2. /\ pc'[p] = "after" /\ OthersRest(p) /\ UNCHANGED derived /\ todo'[p] = EditEffects(e)
  BY DEF Enqueue, Goto, OthersRest, OthersWait, GateInv, TypeOK, ControlTyped
<1>3. \A f \in Left(p)' : Sound(p, f)'
  BY <1>1, <1>2, HarmlessEffects DEF Left, Harmless, Sound
<1>4. \A x \in Entity : status'[x] = "approved" => status[x] = "approved"
  BY <1>1 DEF GateInv, TypeOK, TablesTyped
<1>5. Searchable \subseteq Entity
  BY DEF Searchable, Entity, Ratings
<1>6. Step(p)
  BY DEF Step, Statement
<1>7. QED
  BY <1>1, <1>2, <1>3, <1>4, <1>5, <1>6, NothingBefore, CommitKeeps

LEMMA RemoveRowStepKeeps ==
  ASSUME GateInv, EffectInv, NEW p \in Proc, RemoveRow(p)
  PROVE  EffectInv'
<1> DEFINE e == arg[p].entity
<1>0. Step(p) /\ pc[p] = "remove_row"
  BY DEF Step, Statement, RemoveRow
<1>1. CASE Fail(p)
  BY <1>0, <1>1, FailStepKeeps
<1>2. CASE ~Fail(p)
  <2>1. /\ e \in Entity /\ status' = [status EXCEPT ![e] = "deleted"]
        /\ Committed(p, RemoveEffects(e, arg[p].saw)) /\ UNCHANGED derived
    BY <1>0, <1>2 DEF RemoveRow, GateInv, ReadsAreOfRows, ReadsOf, Entity
  <2>2. /\ pc'[p] = "after" /\ OthersRest(p) /\ todo'[p] = RemoveEffects(e, arg[p].saw)
    BY <2>1, CommittedRests DEF GateInv
  <2>3. status'[e] = "deleted" /\ \A x \in Entity : status'[x] = "approved" => status[x] = "approved"
    BY <2>1 DEF GateInv, TypeOK, TablesTyped
  <2>4. \A f \in Left(p)' : Sound(p, f)'
    <3> SUFFICES ASSUME NEW f \in Range(RemoveEffects(e, arg[p].saw)) PROVE Sound(p, f)'
      BY <2>2 DEF Left
    <3>1. Harmless(f) \/ (f.do = "unindexPublic" /\ f.of \subseteq {e})
      BY <2>1, RemoveEffectsAre
    <3>2. QED
      BY <2>3, <3>1 DEF Harmless, Sound
  <2>5. Searchable \subseteq Entity
    BY DEF Searchable, Entity, Ratings
  <2>6. QED
    BY <1>0, <2>1, <2>2, <2>3, <2>4, <2>5, NothingBefore, CommitKeeps
<1>3. QED
  BY <1>1, <1>2

LEMMA HealStepKeeps ==
  ASSUME GateInv, EffectInv, NEW p \in Proc, ReviewExists(p) \/ HealOrphans(p)
  PROVE  EffectInv'
<1>0. Step(p) /\ pc[p] # "after" /\ UNCHANGED status
  BY DEF Step, Statement, ReviewExists, HealOrphans, Fail, db
<1>1. CASE Fail(p)
  BY <1>0, <1>1, FailStepKeeps
<1>2. CASE ~Fail(p) /\ ReviewExists(p)
  <2>1. \/ Goto(p, "review_decide") /\ UNCHANGED <<arg, todo, derived>>
        \/ Committed(p, Do("unindexQueue", {arg[p].entity})) /\ UNCHANGED derived
    BY <1>2 DEF ReviewExists
  <2>2. CASE Goto(p, "review_decide") /\ UNCHANGED <<arg, todo, derived>>
    <3>1. pc'[p] # "after" /\ OthersRest(p) /\ todo'[p] = << >> /\ Left(p)' = {}
      BY <1>0, <2>2, NothingBefore DEF Goto, OthersRest, OthersWait, GateInv, TypeOK, ControlTyped, Left
    <3>2. QED
      BY <1>0, <2>2, <3>1, MoveKeeps, NothingBefore
  <2>3. CASE Committed(p, Do("unindexQueue", {arg[p].entity})) /\ UNCHANGED derived
    <3>1. arg[p].entity \in Entity
      <4>1. arg[p].entry \in EntryId /\ entry[arg[p].entry] # NoRow
            /\ arg[p].entity = entry[arg[p].entry].entity
        BY <1>2 DEF ReviewExists, GateInv, ReadsAreOfRows, ReadsOf, Reviewing
      <4>2. QED
        BY <4>1 DEF GateInv, TablesInv, RowsAreOfEntities
    <3>2. pc'[p] = "after" /\ OthersRest(p) /\ todo'[p] = Do("unindexQueue", {arg[p].entity})
      BY <2>3, CommittedRests DEF GateInv
    <3>3. \A f \in Left(p)' : Harmless(f)
      BY <3>1, <3>2, HarmlessEffects DEF Left
    <3>4. QED
      BY <1>0, <2>3, <3>2, <3>3, MoveKeeps, NothingBefore
  <2>4. QED
    BY <2>1, <2>2, <2>3
<1>3. CASE ~Fail(p) /\ HealOrphans(p)
  <2>1. PICK S \in SUBSET Entity, T \in SUBSET Entity : Committed(p, HealEffects(S, T)) /\ UNCHANGED derived
    <3> DEFINE orphans == Orphans(arg[p].batch)
               S == {entry[i].entity : i \in orphans}
               rest == {entry[i].entity : i \in arg[p].batch \ orphans}
               T == IF pc[p] = "heal_list" THEN rest ELSE {}
    <3>1. arg[p].batch \subseteq EntryId /\ \A i \in arg[p].batch : entry[i] # NoRow
      BY <1>3 DEF HealOrphans, GateInv, ReadsAreOfRows, ReadsOf, TypeOK, ControlTyped, Arg
    <3>2. S \in SUBSET Entity /\ T \in SUBSET Entity
      BY <3>1 DEF Orphans, GateInv, TablesInv, RowsAreOfEntities
    <3>3. Committed(p, HealEffects(S, T)) /\ UNCHANGED derived
      BY <1>3 DEF HealOrphans
    <3>4. QED
      BY <3>2, <3>3
  <2>2. pc'[p] = "after" /\ OthersRest(p) /\ todo'[p] = HealEffects(S, T)
    BY <2>1, CommittedRests DEF GateInv
  <2>3. \A f \in Left(p)' : Harmless(f)
    BY <2>2, HealIsHarmless DEF Left
  <2>4. QED
    BY <1>0, <2>1, <2>2, <2>3, MoveKeeps, NothingBefore
<1>4. QED
  BY <1>1, <1>2, <1>3

\* The decision is written with the commit that its event waits on.
LEMMA ReviewApplyStepKeeps ==
  ASSUME GateInv, EffectInv, NEW p \in Proc, ReviewApply(p)
  PROVE  EffectInv'
<1> DEFINE i == arg[p].entry
           e == arg[p].entity
           d == arg[p].decision
<1>0. Step(p) /\ pc[p] = "review_apply"
  BY DEF Step, Statement, ReviewApply
<1>1. CASE Fail(p)
  BY <1>0, <1>1, FailStepKeeps
<1>2. CASE ~Fail(p)
  <2>1. /\ entry' = [entry EXCEPT ![i] = [@ EXCEPT !.decision = d, !.by = arg[p].by]]
        /\ status' = [status EXCEPT ![e] = EntityStatus(d, entry[i].escalated)]
        /\ Committed(p, ReviewEffects(e, d)) /\ UNCHANGED derived
    BY <1>2 DEF ReviewApply
  <2>2. i \in EntryId /\ entry[i] # NoRow /\ e = entry[i].entity /\ d \in Decision
    BY <1>0 DEF GateInv, ReadsAreOfRows, ReadsOf, Reviewing
  <2>3. e \in Entity /\ entry[i] \in Row /\ entry \in [EntryId -> Row]
    BY <2>2 DEF GateInv, TypeOK, TablesTyped, TablesInv, RowsAreOfEntities
  <2>4. /\ pc'[p] = "after" /\ OthersRest(p) /\ todo'[p] = ReviewEffects(e, d) /\ UNCHANGED arg
    BY <2>1, CommittedRests DEF GateInv
  <2>5. entry'[i].decision = d /\ d # "none"
    BY <2>1, <2>2, <2>3 DEF Row, Decision
  <2>6. \A f \in Left(p)' : Sound(p, f)'
    <3> SUFFICES ASSUME NEW f \in Range(ReviewEffects(e, d)) PROVE Sound(p, f)'
      BY <2>4 DEF Left
    <3>1. f.do \notin {"putPublic", "unindexPublic"}
      BY <2>3, ReviewEffectsAre
    <3>2. QED
      BY <2>2, <2>4, <2>5, <3>1 DEF Sound
  <2>7. ASSUME "indexPublic" \in Tracked, NEW x \in Searchable, status'[x] = "approved",
               status[x] # "approved"
        PROVE  \E f \in Left(p)' : Brings(f, x)
    <3>1. x \in Entity
      BY DEF Searchable, Entity, Ratings
    <3>2. x = e /\ d = "approved"
      BY <2>1, <2>7, <3>1 DEF GateInv, TypeOK, TablesTyped, EntityStatus
    <3>3. QED
      BY <2>4, <2>7, <3>1, <3>2, ReviewEffectsAre DEF Left
  <2>8. QED
    BY <1>0, <2>1, <2>4, <2>6, <2>7, NothingBefore, CommitKeeps
<1>3. QED
  BY <1>1, <1>2

-----------------------------------------------------------------------------
(* The calls after the commit.                                             *)

\* The effects that p has left after a call are those it had, less the one performed;
\* a document that was fetched is put with a text.
LEMMA FetchedEffects ==
  ASSUME GateInv, EffectInv, NEW p \in Proc, todo[p] # << >>, NEW e \in Head(todo[p]).of, Fetch(p, e)
  PROVE  /\ \A f \in Left(p)' : Sound(p, f)
         /\ \A f \in Left(p) : \A x : Brings(f, x) /\ (x = e => Exists(e)) =>
              \E g \in Left(p)' : Brings(g, x)
<1> DEFINE put == [do |-> IF Head(todo[p]).do = "indexQueue" THEN "putQueue" ELSE "putPublic",
                   of |-> {e}, text |-> text[e]]
           h == IF ~Exists(e) THEN << >> ELSE <<put>>
<1>1. /\ Head(todo[p]) \in Left(p) /\ Head(todo[p]) \in Effect /\ Rest(p, e) \in Seq(Effect)
      /\ \A g \in Range(Rest(p, e)) : \E f \in Left(p) :
           g.do = f.do /\ g.text = f.text /\ g.of \subseteq f.of
      /\ \A f \in Left(p) : \A x : Brings(f, x) =>
           \/ f = Head(todo[p]) /\ x = e
           \/ \E g \in Range(Rest(p, e)) : Brings(g, x)
  BY EffectsOfRest DEF GateInv
<1>2. e \in Entity /\ text[e] \in EntryRef
  BY <1>1 DEF Effect, GateInv, TypeOK, TablesTyped
<1>3. Exists(e) => text[e] # NoEntry
  <2>1. Exists(e) => text[e] \in EntryId
    BY <1>2 DEF GateInv, TablesInv, VerdictIsOnCurrentText, RowsOf
  <2>2. QED
    BY <2>1, EntryRefs
<1>4. todo'[p] = h \o Rest(p, e)
  <2>1. todo \in [Proc -> Seq(Effect)]
    BY DEF GateInv, TypeOK, ControlTyped
  <2>2. QED
    BY <2>1 DEF Fetch
<1>5. /\ put \in Effect /\ put.do = IF Head(todo[p]).do = "indexQueue" THEN "putQueue" ELSE "putPublic"
      /\ put.of = {e} /\ put.text = text[e]
  BY <1>2 DEF Effect, EffectName
<1> HIDE DEF put
<1>6. h \in Seq(Effect) /\ Range(h) = IF ~Exists(e) THEN {} ELSE {put}
  <2>1. << >> \in Seq(Effect) /\ <<put>> \in Seq(Effect)
    BY <1>5, EmptySeq
  <2>2. QED
    BY <2>1, EffectsOfOne, EffectsOfNone
<1> HIDE DEF h
<1>7. Range(h \o Rest(p, e)) = Range(h) \union Range(Rest(p, e))
  BY <1>1, <1>6, RangeConcatenation
<1>8. Left(p)' = Range(h) \union Range(Rest(p, e))
  BY <1>4, <1>7 DEF Left
<1>9. ASSUME NEW g \in Range(Rest(p, e)) PROVE Sound(p, g)
  <2>1. PICK f \in Left(p) : g.do = f.do /\ g.text = f.text /\ g.of \subseteq f.of
    BY <1>1
  <2>2. Sound(p, f)
    BY DEF EffectInv, EffectsAreSound
  <2>3. QED
    BY <2>1, <2>2 DEF Sound
<1>10. Exists(e) => Sound(p, put)
  BY <1>3, <1>5 DEF Sound
<1>11. ASSUME NEW f \in Left(p), NEW x, Brings(f, x), x = e => Exists(e)
       PROVE  \E g \in Left(p)' : Brings(g, x)
  <2>1. CASE f = Head(todo[p]) /\ x = e
    <3>1. Head(todo[p]).do \in {"indexQueue", "indexPublic"}
      BY DEF Fetch
    <3>2. Brings(put, x)
      BY <1>5, <1>11, <2>1, <3>1 DEF Brings
    <3>3. QED
      BY <1>6, <1>8, <1>11, <2>1, <3>2
  <2>2. QED
    BY <1>1, <1>8, <1>11, <2>1
<1>12. QED
  BY <1>6, <1>8, <1>9, <1>10, <1>11

LEMMA PerformedEffects ==
  ASSUME GateInv, EffectInv, NEW p \in Proc, todo[p] # << >>, NEW e \in Head(todo[p]).of,
         todo' = [todo EXCEPT ![p] = Rest(p, e)]
  PROVE  /\ \A f \in Left(p)' : Sound(p, f)
         /\ \A f \in Left(p) : \A x : Brings(f, x) =>
              (f = Head(todo[p]) /\ x = e) \/ \E g \in Left(p)' : Brings(g, x)
<1>1. /\ \A g \in Range(Rest(p, e)) : \E f \in Left(p) :
           g.do = f.do /\ g.text = f.text /\ g.of \subseteq f.of
      /\ \A f \in Left(p) : \A x : Brings(f, x) =>
           (f = Head(todo[p]) /\ x = e) \/ \E g \in Range(Rest(p, e)) : Brings(g, x)
  BY EffectsOfRest DEF GateInv
<1>2. Left(p)' = Range(Rest(p, e))
  BY DEF Left, GateInv, TypeOK, ControlTyped
<1>3. ASSUME NEW g \in Range(Rest(p, e)) PROVE Sound(p, g)
  <2>1. PICK f \in Left(p) : g.do = f.do /\ g.text = f.text /\ g.of \subseteq f.of
    BY <1>1
  <2>2. Sound(p, f)
    BY DEF EffectInv, EffectsAreSound
  <2>3. QED
    BY <2>1, <2>2 DEF Sound
<1>4. QED
  BY <1>1, <1>2, <1>3

LEMMA CallFacts ==
  ASSUME GateInv, EffectInv, NEW p \in Proc, Call(p)
  PROVE  /\ pc[p] = "after" /\ todo[p] # << >> /\ OthersRest(p) /\ UNCHANGED <<db, locks, pc, arg>>
         /\ \A f \in Left(p) : Sound(p, f)
BY DEF Call, Fetch, Perform, CallFails, OthersRest, OthersWait, GateInv, TypeOK, ControlTyped,
       EffectInv, EffectsAreSound

\* What a request does not bring any more it has brought.
LEMMA CallKeepsFindable ==
  ASSUME GateInv, EffectInv, NEW p \in Proc, Call(p), ~Unreliable, NEW x \in Entity,
         status[x] = "approved", Findable(x)
  PROVE  Findable(x)'
<1>1. PICK e \in Head(todo[p]).of : Fetch(p, e) \/ Perform(p, e)
  BY DEF Call, CallFails
<1>2. todo[p] # << >> /\ OthersRest(p) /\ \A f \in Left(p) : Sound(p, f)
  BY CallFacts
<1>3. Head(todo[p]) \in Left(p) /\ Head(todo[p]) \in Effect
  BY <1>2, EffectsOfRest DEF GateInv
<1>4. ASSUME NEW q \in Proc, q # p, NEW f \in Left(q), Brings(f, x) PROVE Findable(x)'
  <2>1. Left(q)' = Left(q)
    BY <1>2, <1>4 DEF OthersRest, Left
  <2>2. QED
    BY <1>4, <2>1 DEF Findable
<1>5. CASE Fetch(p, e)
  <2>1. UNCHANGED publicIndex
    BY <1>5 DEF Fetch, derived
  <2>2. ASSUME NEW f \in Left(p), Brings(f, x) PROVE \E g \in Left(p)' : Brings(g, x)
    BY <1>2, <1>5, <2>2, FetchedEffects DEF Exists
  <2>3. QED
    BY <1>4, <2>1, <2>2 DEF Findable
<1>6. CASE Perform(p, e)
  <2> DEFINE f == Head(todo[p])
  <2>1. /\ f.do # "indexPublic" /\ todo' = [todo EXCEPT ![p] = Rest(p, e)]
        /\ publicIndex' = IF f.do \in {"putPublic", "unindexPublic"}
                            THEN [publicIndex EXCEPT ![e] = f.text] ELSE publicIndex
    BY <1>6 DEF Perform
  <2>2. /\ f.do = "putPublic" => f.text # NoEntry
        /\ f.do = "unindexPublic" => status[e] = "deleted"
    BY <1>2, <1>3 DEF Sound
  <2>3. publicIndex \in [Entity -> EntryRef] /\ e \in Entity
    BY <1>3 DEF GateInv, TypeOK, DerivedTyped, Effect
  <2>4. publicIndex[x] # NoEntry => publicIndex'[x] # NoEntry
    BY <2>1, <2>2, <2>3
  <2>5. ASSUME NEW g \in Left(p), Brings(g, x) PROVE Findable(x)'
    <3>1. CASE g = f /\ x = e
      BY <2>1, <2>2, <2>3, <2>5, <3>1 DEF Brings, Findable
    <3>2. CASE \E h \in Left(p)' : Brings(h, x)
      BY <3>2 DEF Findable
    <3>3. QED
      BY <1>2, <2>1, <2>5, <3>1, <3>2, PerformedEffects
  <2>6. QED
    BY <1>4, <2>4, <2>5 DEF Findable
<1>7. QED
  BY <1>1, <1>5, <1>6

\* The event tells what the request has decided.
LEMMA CallAnnounces ==
  ASSUME GateInv, EffectInv, NEW p \in Proc, Call(p)
  PROVE  AnnouncedWasDecided'
<1>1. PICK e \in Head(todo[p]).of : Fetch(p, e) \/ Perform(p, e) \/ CallFails(p, e)
  BY DEF Call
<1>2. todo[p] # << >> /\ UNCHANGED <<db, arg>> /\ \A f \in Left(p) : Sound(p, f)
  BY CallFacts
<1>3. CASE UNCHANGED announced
  BY <1>2, <1>3 DEF AnnouncedWasDecided, EffectInv, db
<1>4. CASE Perform(p, e) /\ Head(todo[p]).do = "publishStatus" /\ ~UNCHANGED announced
  <2> DEFINE i == arg[p].entry
  <2>1. announced' = [announced EXCEPT ![i] = EntityStatus(arg[p].decision, entry[i].escalated)]
    BY <1>4 DEF Perform
  <2>2. Head(todo[p]) \in Left(p)
    BY <1>2, EffectsOfRest DEF GateInv
  <2>3. i \in EntryId /\ arg[p].decision # "none" /\ entry[i].decision = arg[p].decision
    BY <1>2, <1>4, <2>2 DEF Sound
  <2>4. announced \in [EntryId -> Status \union {"none"}]
    BY DEF GateInv, TypeOK, DerivedTyped
  <2>5. QED
    BY <1>2, <2>1, <2>3, <2>4 DEF AnnouncedWasDecided, EffectInv, db
<1>5. QED
  BY <1>1, <1>3, <1>4 DEF Fetch, Perform, CallFails, derived

LEMMA CallStepKeeps ==
  ASSUME GateInv, EffectInv, NEW p \in Proc, Call(p)
  PROVE  EffectInv'
<1>1. /\ pc[p] = "after" /\ todo[p] # << >> /\ OthersRest(p) /\ UNCHANGED <<db, locks, pc, arg>>
      /\ \A f \in Left(p) : Sound(p, f)
  BY CallFacts
<1>2. Step(p)
  BY DEF Step, Statement
<1>3. PICK e \in Head(todo[p]).of : Fetch(p, e) \/ Perform(p, e) \/ CallFails(p, e)
  BY DEF Call
<1>4. \A f \in Left(p)' : Sound(p, f)
  BY <1>1, <1>3, FetchedEffects, PerformedEffects DEF Perform, CallFails
<1>5. \A f \in Left(p)' : Sound(p, f)'
  BY <1>1, <1>4 DEF Sound, db
<1>6. EffectsAreSound'
  BY <1>1, <1>2, <1>5, EffectsStaySound DEF EffectInv
<1>7. ApprovedAreFindable'
  <2>1. Searchable \subseteq Entity
    BY DEF Searchable, Entity, Ratings
  <2>2. QED
    BY <1>1, <2>1, CallKeepsFindable DEF EffectInv, ApprovedAreFindable, db
<1>8. QED
  BY <1>6, <1>7, CallAnnounces DEF EffectInv

-----------------------------------------------------------------------------
LEMMA InitEffects == Init => EffectInv
<1> SUFFICES ASSUME Init PROVE EffectInv
  OBVIOUS
<1>1. EffectsAreSound
  BY EffectsOfNone DEF Init, EffectsAreSound, Left
<1>2. AnnouncedWasDecided
  BY DEF Init, AnnouncedWasDecided
<1>3. ApprovedAreFindable
  BY DEF Init, ApprovedAreFindable, Searchable, Entity, Ratings
<1>4. QED
  BY <1>1, <1>2, <1>3 DEF EffectInv

LEMMA EffectStep == GateInv /\ EffectInv /\ [Next]_vars => EffectInv'
<1> SUFFICES ASSUME GateInv, EffectInv, [Next]_vars PROVE EffectInv'
  OBVIOUS
<1>1. ASSUME NEW p \in Proc, DeadlockVictim(p) \/ Crash(p) PROVE EffectInv'
  BY <1>1, FailStepKeeps DEF DeadlockVictim, WaitsFor, Crash, Step, Statement
<1>2. ASSUME NEW p \in Proc, Statement(p) PROVE EffectInv'
  BY <1>1, <1>2, StatementKeeps, EnqueueStepKeeps, RemoveRowStepKeeps, HealStepKeeps,
     ReviewApplyStepKeeps, CallStepKeeps
  DEF Statement
<1>3. CASE UNCHANGED vars
  <2>1. \A p \in Proc : \A f : Left(p)' = Left(p) /\ (Sound(p, f) => Sound(p, f)')
    BY <1>3 DEF vars, db, Left, Sound
  <2>2. EffectsAreSound'
    BY <1>3, <2>1 DEF vars, EffectInv, EffectsAreSound
  <2>3. AnnouncedWasDecided'
    BY <1>3 DEF vars, db, derived, EffectInv, AnnouncedWasDecided
  <2>4. ApprovedAreFindable'
    BY <1>3, <2>1 DEF vars, db, derived, EffectInv, ApprovedAreFindable, Findable
  <2>5. QED
    BY <2>2, <2>3, <2>4 DEF EffectInv
<1>4. QED
  BY <1>1, <1>2, <1>3, StartStepKeeps DEF Next

\* After every commit the effects that are left fit what was committed.
THEOREM EffectInvariant == Spec => []EffectInv
BY GateInvariant, InitEffects, EffectStep, PTL DEF Spec

\* No status_changed event tells anything but the verdict stored with its entry.
THEOREM EventsTellVerdicts == Spec => []AnnouncedWasDecided
<1>1. EffectInv => AnnouncedWasDecided
  BY DEF EffectInv
<1>2. QED
  BY <1>1, EffectInvariant, PTL

\* Where the calls of the public index are followed and no call or request is lost, an
\* approved rating of a round and an approved company are found once nothing runs.
THEOREM ApprovedIsFound ==
  ASSUME "indexPublic" \in Tracked
  PROVE  Spec => []ApprovedIsSearchable
<1>1. EffectInv => ApprovedIsSearchable
  <2> SUFFICES ASSUME EffectInv, Quiet, ~Unreliable, ~Crashes, NEW e \in Searchable,
                      status[e] = "approved"
               PROVE  publicIndex[e] # NoEntry
    BY DEF ApprovedIsSearchable, Searchable
  <2>1. \A p \in Proc : Left(p) = {}
    BY NothingBefore DEF Quiet
  <2>2. QED
    BY <2>1 DEF EffectInv, ApprovedAreFindable, Findable
<1>2. QED
  BY <1>1, EffectInvariant, PTL
===============================================================================
