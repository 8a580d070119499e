----------------------------- MODULE VerdictProofs -----------------------------
(***************************************************************************)
(* Theorems about the verdict pipeline, for any number of ratings, edits,  *)
(* events in flight, lost messages and restarts.                           *)
(***************************************************************************)
EXTENDS VerdictPipeline, SequenceTheorems, TLAPS

Operation(e) ==
  \/ Gate!Submit(e) \/ Gate!Resubmit(e) \/ Gate!Withdraw(e)
  \/ \E v \in {"approved", "rejected", "flagged", "permanently_rejected"} : Gate!Decide(e, v)

\* Every operation of the gate keeps open submissions pending.
LEMMA OperationsKeepPending ==
  ASSUME GateTyped, OpenIsPending, NEW e \in Ratings, Operation(e)
  PROVE  GateTyped' /\ OpenIsPending'
<1> USE DEF GateTyped, OpenIsPending
<1>1. CASE Gate!Submit(e)
  BY <1>1 DEF Gate!Submit
<1>2. CASE Gate!Resubmit(e)
  BY <1>2 DEF Gate!Resubmit
<1>3. CASE Gate!Withdraw(e)
  BY <1>3 DEF Gate!Withdraw
<1>4. ASSUME NEW v, Gate!Decide(e, v)
      PROVE  GateTyped' /\ OpenIsPending'
  BY <1>4 DEF Gate!Decide
<1>5. QED
  BY <1>1, <1>2, <1>3, <1>4 DEF Operation

LEMMA InitInv == Init => PipelineInv
<1> SUFFICES ASSUME Init PROVE PipelineInv
  OBVIOUS
<1> USE PipelineConstants DEF Init, Gate!Init
<1>1. TypeOK
  BY DEF TypeOK, GateTyped, RatingTyped, AnalyzerTyped, ConsumerTyped, FaultsTyped, Text, NoJob, Idle, Worker
<1>2. OpenIsPending /\ AbsentHasNoText /\ ConsumesARequest /\ LooksUpEntries
  BY DEF OpenIsPending, AbsentHasNoText, ConsumesARequest, LooksUpEntries, NoJob, Idle, Worker
<1>3. SweepIsLate /\ VerdictsInOrder
  BY DEF SweepIsLate, Unflagged, VerdictsInOrder, InOrder, NoJob, Worker
<1>4. QED
  BY <1>1, <1>2, <1>3 DEF PipelineInv

\* The gate alone: nothing of the pipeline depends on a rating's status but the
\* reviewed entry.
LEMMA OperationsTouchOne ==
  ASSUME GateTyped, NEW e \in Ratings, Operation(e)
  PROVE  /\ escalated' \ {e} = escalated \ {e}
         /\ \A x \in Ratings \ {e} : status'[x] = status[x]
         /\ status'[e] # "absent"
<1> USE DEF GateTyped
<1>1. CASE Gate!Submit(e)
  BY <1>1 DEF Gate!Submit
<1>2. CASE Gate!Resubmit(e)
  BY <1>2 DEF Gate!Resubmit
<1>3. CASE Gate!Withdraw(e)
  BY <1>3 DEF Gate!Withdraw
<1>4. ASSUME NEW v \in {"approved", "rejected", "flagged", "permanently_rejected"}, Gate!Decide(e, v)
      PROVE  /\ escalated' \ {e} = escalated \ {e}
             /\ \A x \in Ratings \ {e} : status'[x] = status[x]
             /\ status'[e] # "absent"
  BY <1>4 DEF Gate!Decide
<1>5. QED
  BY <1>1, <1>2, <1>3, <1>4 DEF Operation

\* What is on the bus are messages.
LEMMA MessagesTyped ==
  ASSUME ConsumerTyped, NEW x \in Ratings
  PROVE  /\ bus[x] \in Seq(Message) /\ replay[x] \in Seq(Message)
         /\ \A k \in 1..Len(bus[x]) : bus[x][k] \in Message /\ bus[x][k].text \in Nat
<1>1. bus[x] \in Seq(Message) /\ replay[x] \in Seq(Message)
  BY DEF ConsumerTyped
<1>2. \A k \in 1..Len(bus[x]) : bus[x][k] \in Message
  BY <1>1
<1>3. \A m \in Message : m.text \in Nat
  BY PipelineConstants DEF Message, Text
<1>4. QED
  BY <1>1, <1>2, <1>3

\* A submission, the first one or an edit, raises the number of the text.
LEMMA SubmissionInv ==
  ASSUME PipelineInv, NEW e \in Ratings, Operation(e),
         text[e] < MaxTexts, text' = [text EXCEPT ![e] = @ + 1],
         verdict' = verdict \/ verdict' = [verdict EXCEPT ![e] = 0],
         PublishCreated(e),
         UNCHANGED <<aged, audited, redo, stale, job, bus, replay, applying>>
  PROVE  PipelineInv'
<1> USE PipelineConstants
<1>1. TypeOK /\ GateTyped /\ RatingTyped /\ AnalyzerTyped /\ ConsumerTyped /\ FaultsTyped
  BY DEF PipelineInv, TypeOK
<1>2. GateTyped' /\ OpenIsPending'
  BY <1>1, OperationsKeepPending DEF PipelineInv
<1>3. RatingTyped'
  BY <1>1 DEF RatingTyped, Text
<1>4. /\ requests' \in [Ratings -> Nat] /\ \A x \in Ratings : requests'[x] >= requests[x]
      /\ FaultsTyped' /\ restarts' = restarts
  BY <1>1 DEF PublishCreated, Lose, AnalyzerTyped, FaultsTyped, faults
<1>5. AnalyzerTyped' /\ ConsumerTyped'
  BY <1>1, <1>4 DEF AnalyzerTyped, ConsumerTyped
<1>6. AbsentHasNoText'
  BY <1>1, OperationsTouchOne DEF PipelineInv, AbsentHasNoText, RatingTyped
<1>7. ConsumesARequest'
  BY <1>1, <1>4 DEF PipelineInv, ConsumesARequest, AnalyzerTyped, Worker
<1>8. LooksUpEntries'
  BY <1>1, OperationsTouchOne DEF PipelineInv, LooksUpEntries, RatingTyped, ConsumerTyped, InHand, Text
<1>9. SweepIsLate'
  BY DEF PipelineInv, SweepIsLate
<1>10. ASSUME NEW x \in Ratings, InOrder(x)
       PROVE  InOrder(x)'
  <2>1. /\ text[x] \in Nat /\ text'[x] \in Nat /\ text'[x] >= text[x] /\ verdict[x] \in Nat
        /\ verdict'[x] = verdict[x] \/ verdict'[x] = 0
    BY <1>1 DEF RatingTyped, Text
  <2>2. \A k \in 1..Len(bus[x]) : bus[x][k].text \in Nat
    BY <1>1, MessagesTyped
  <2>3. job["consumer"].text \in Nat
    BY <1>1 DEF AnalyzerTyped, Worker, Text
  <2>4. bus' = bus /\ job' = job /\ verdict'[x] <= verdict[x]
    BY <2>1
  <2>5. verdict'[x] <= text'[x]
    BY <1>10, <2>1, <2>4 DEF InOrder
  <2>6. \A k \in 1..Len(bus[x]) : verdict'[x] <= bus[x][k].text /\ bus[x][k].text <= text'[x]
    BY <1>10, <2>1, <2>2, <2>4 DEF InOrder
  <2>7. job["consumer"].entity = x =>
          verdict'[x] <= job["consumer"].text /\ job["consumer"].text <= text'[x]
    BY <1>10, <2>1, <2>3, <2>4 DEF InOrder
  <2>8. QED
    BY <1>10, <2>4, <2>5, <2>6, <2>7 DEF InOrder
<1>11. VerdictsInOrder'
  BY <1>4, <1>10 DEF PipelineInv, VerdictsInOrder
<1>12. QED
  BY <1>2, <1>3, <1>4, <1>5, <1>6, <1>7, <1>8, <1>9, <1>11 DEF PipelineInv, TypeOK

LEMMA CreateInv ==
  ASSUME PipelineInv, NEW e \in Ratings, Create(e)
  PROVE  PipelineInv'
<1>1. text[e] = 0
  BY DEF Create, PipelineInv, AbsentHasNoText, Gate!Submit
<1>2. text' = [text EXCEPT ![e] = @ + 1] /\ text[e] < MaxTexts
  BY <1>1, PipelineConstants DEF Create
<1>3. QED
  BY <1>2, SubmissionInv DEF Create, Operation, consumer

LEMMA UpdateInv ==
  ASSUME PipelineInv, NEW e \in Ratings, Update(e)
  PROVE  PipelineInv'
BY SubmissionInv DEF Update, Reset, Operation, consumer

\* A review by staff and a deletion close the open submission.
LEMMA ClosingInv ==
  ASSUME PipelineInv, NEW e \in Ratings,
         Gate!Withdraw(e) \/ \E v \in {"approved", "rejected", "flagged", "permanently_rejected"} :
                               Gate!Decide(e, v),
         UNCHANGED <<rating, analyzer, consumer, faults>>
  PROVE  PipelineInv'
<1> USE DEF rating, analyzer, consumer, faults
<1>1. TypeOK /\ GateTyped /\ Operation(e)
  BY DEF PipelineInv, TypeOK, Operation
<1>2. GateTyped' /\ OpenIsPending'
  BY <1>1, OperationsKeepPending DEF PipelineInv
<1>3. TypeOK'
  BY <1>1, <1>2 DEF TypeOK, RatingTyped, AnalyzerTyped, ConsumerTyped, FaultsTyped
<1>4. AbsentHasNoText'
  BY <1>1, OperationsTouchOne DEF PipelineInv, AbsentHasNoText
<1>5. escalated' \subseteq escalated
  BY DEF Gate!Withdraw, Gate!Decide
<1>6. LooksUpEntries'
  BY <1>5 DEF PipelineInv, LooksUpEntries, InHand
<1>7. ConsumesARequest' /\ SweepIsLate' /\ VerdictsInOrder'
  BY DEF PipelineInv, ConsumesARequest, SweepIsLate, VerdictsInOrder, InOrder
<1>8. QED
  BY <1>2, <1>3, <1>4, <1>6, <1>7 DEF PipelineInv

LEMMA DayPassesInv ==
  ASSUME PipelineInv, NEW e \in Ratings, DayPasses(e)
  PROVE  PipelineInv'
<1> USE DEF DayPasses, gate, analyzer, consumer, faults
<1>1. TypeOK'
  BY DEF PipelineInv, TypeOK, GateTyped, RatingTyped, AnalyzerTyped, ConsumerTyped, FaultsTyped
<1>2. OpenIsPending' /\ AbsentHasNoText' /\ ConsumesARequest'
  BY DEF PipelineInv, OpenIsPending, AbsentHasNoText, ConsumesARequest
<1>3. LooksUpEntries'
  BY DEF PipelineInv, LooksUpEntries, InHand
<1>4. SweepIsLate' /\ VerdictsInOrder'
  BY DEF PipelineInv, SweepIsLate, VerdictsInOrder, InOrder
<1>5. QED
  BY <1>1, <1>2, <1>3, <1>4 DEF PipelineInv

\* What the analyzer and the consumer do without touching a rating's gate or text.
LEMMA GateFrame ==
  ASSUME PipelineInv, UNCHANGED <<gate, text>>
  PROVE  GateTyped' /\ OpenIsPending' /\ AbsentHasNoText'
BY DEF PipelineInv, TypeOK, GateTyped, OpenIsPending, AbsentHasNoText, gate

\* The message in hand, and what was looked up for it, stay as they are.
LEMMA LookupFrame ==
  ASSUME TypeOK, LooksUpEntries, text' = text, escalated' = escalated, applying' = applying,
         \A x \in Ratings : bus[x] # << >> => bus'[x] # << >> /\ Head(bus'[x]) = Head(bus[x])
  PROVE  LooksUpEntries'
<1>1. applying # Idle => applying.entity \in Ratings
  BY DEF LooksUpEntries, TypeOK, ConsumerTyped
<1>2. QED
  BY <1>1 DEF LooksUpEntries, InHand

LEMMA ConsumeCreatedInv ==
  ASSUME PipelineInv, NEW e \in Ratings, ConsumeCreated(e)
  PROVE  PipelineInv'
<1>1. TypeOK /\ RatingTyped /\ AnalyzerTyped /\ ConsumerTyped /\ FaultsTyped
  BY DEF PipelineInv, TypeOK
<1>2. /\ bus' = bus /\ replay' = replay /\ applying' = applying /\ text' = text /\ verdict' = verdict
      /\ aged' = aged /\ audited' = audited /\ stale' = stale /\ lost' = lost /\ restarts' = restarts
      /\ status' = status /\ open' = open /\ escalated' = escalated
      /\ UNCHANGED <<gate, text>> /\ job["consumer"] = NoJob /\ requests[e] > 0
  BY DEF ConsumeCreated, gate, rating, consumer, faults
<1>3. GateTyped' /\ OpenIsPending' /\ AbsentHasNoText'
  BY <1>2, GateFrame
<1>4. LooksUpEntries' /\ RatingTyped' /\ ConsumerTyped' /\ FaultsTyped'
  BY <1>1, <1>2, LookupFrame DEF PipelineInv, RatingTyped, ConsumerTyped, FaultsTyped
<1>5. CASE Fetch("consumer", e) /\ UNCHANGED <<requests, redo>>
  <2>1. /\ AnalyzerTyped' /\ job'["sweep"] = job["sweep"]
        /\ job'["consumer"].entity = e /\ job'["consumer"].text = text[e]
    BY <1>1, <1>2, <1>5 DEF AnalyzerTyped, Fetch, Worker, RatingTyped
  <2>2. requests' = requests
    BY <1>5
  <2>3. ConsumesARequest'
    BY <2>1, <1>2, <2>2 DEF ConsumesARequest
  <2>4. ASSUME NEW x \in Ratings, InOrder(x)
        PROVE  InOrder(x)'
    <3>1. verdict' = verdict /\ text' = text /\ bus' = bus
      BY <1>2
    <3>2. job'["consumer"].entity = x => job'["consumer"].text = text[x]
      BY <2>1
    <3>3. /\ verdict[x] <= text[x] /\ \A k \in 1..Len(bus[x]) : bus[x][k].text <= text[x]
          /\ text[x] \in Nat
      BY <1>1, <2>4, PipelineConstants DEF InOrder, RatingTyped, Text
    <3>4. QED
      BY <2>4, <3>1, <3>2, <3>3 DEF InOrder
  <2>5. VerdictsInOrder'
    BY <1>2, <2>4 DEF PipelineInv, VerdictsInOrder
  <2>6. SweepIsLate'
    BY <1>2, <2>1 DEF PipelineInv, SweepIsLate
  <2>7. QED
    BY <1>3, <1>4, <2>1, <2>3, <2>5, <2>6 DEF PipelineInv, TypeOK
<1>6. CASE Handled(e) /\ UNCHANGED job
  <2>1. AnalyzerTyped'
    BY <1>1, <1>2, <1>6 DEF AnalyzerTyped, Handled
  <2>2. ConsumesARequest'
    BY <1>2, <1>6, PipelineConstants DEF ConsumesARequest, NoJob
  <2>3. SweepIsLate' /\ VerdictsInOrder'
    BY <1>2, <1>6 DEF PipelineInv, SweepIsLate, VerdictsInOrder, InOrder
  <2>4. QED
    BY <1>3, <1>4, <2>1, <2>2, <2>3 DEF PipelineInv, TypeOK
<1>7. QED
  BY <1>5, <1>6 DEF ConsumeCreated

LEMMA EventsTyped ==
  ASSUME NEW t \in Text
  PROVE  /\ \A m \in Answers(t) : m \in Message /\ m.text = t /\ ~m.stalled
         /\ Verdict(t, TRUE) \in Answers(t) /\ Stalled \in Message
BY PipelineConstants DEF Answers, Verdict, NoConfidence, Stalled, Message, Text

\* A published event is the last one of its rating, if it is not lost.
Publishes(e, m) ==
  /\ bus' \in [Ratings -> Seq(Message)]
  /\ \A x \in Ratings : bus[x] # << >> => bus'[x] # << >> /\ Head(bus'[x]) = Head(bus[x])
  /\ \A x \in Ratings : \/ bus'[x] = bus[x]
                        \/ /\ x = e /\ Len(bus'[x]) = Len(bus[x]) + 1
                           /\ bus'[x][Len(bus[x]) + 1] = m
                           /\ \A k \in 1..Len(bus[x]) : bus'[x][k] = bus[x][k]

LEMMA NothingPublished ==
  ASSUME TypeOK, NEW e, NEW m, UNCHANGED <<bus, faults>>
  PROVE  Publishes(e, m) /\ FaultsTyped' /\ restarts' = restarts
BY DEF TypeOK, ConsumerTyped, FaultsTyped, Publishes, faults

LEMMA PublishAppends ==
  ASSUME TypeOK, NEW e \in Ratings, NEW m \in Message, Publish(e, m)
  PROVE  Publishes(e, m) /\ FaultsTyped' /\ restarts' = restarts
<1>1. ConsumerTyped /\ FaultsTyped /\ bus \in [Ratings -> Seq(Message)]
  BY DEF TypeOK, ConsumerTyped
<1>2. FaultsTyped' /\ restarts' = restarts
  BY <1>1 DEF Publish, Lose, FaultsTyped, faults
<1>3. CASE bus' = bus
  BY <1>1, <1>2, <1>3 DEF Publishes
<1>4. CASE bus' = [bus EXCEPT ![e] = Append(@, m)]
  <2>1. bus[e] \in Seq(Message)
    BY <1>1
  <2>2. /\ Append(bus[e], m) \in Seq(Message) /\ Append(bus[e], m) # << >>
        /\ Len(Append(bus[e], m)) = Len(bus[e]) + 1
        /\ Append(bus[e], m)[Len(bus[e]) + 1] = m
        /\ \A k \in 1..Len(bus[e]) : Append(bus[e], m)[k] = bus[e][k]
        /\ bus[e] # << >> => Head(Append(bus[e], m)) = Head(bus[e])
    BY <2>1
  <2>3. bus' \in [Ratings -> Seq(Message)] /\ bus'[e] = Append(bus[e], m)
        /\ \A x \in Ratings \ {e} : bus'[x] = bus[x]
    BY <1>1, <1>4, <2>2
  <2>4. QED
    BY <1>2, <2>2, <2>3 DEF Publishes
<1>5. QED
  BY <1>3, <1>4 DEF Publish

\* Publishing keeps the events of a young rating free of requests for a flag.
LEMMA PublishKeepsUnflagged ==
  ASSUME TypeOK, NEW e \in Ratings, NEW m, Publishes(e, m),
         NEW x \in Ratings, Unflagged(bus[x]), x = e => ~m.stalled
  PROVE  Unflagged(bus'[x])
<1>1. Len(bus[x]) \in Nat
  BY DEF TypeOK, ConsumerTyped
<1>2. CASE bus'[x] = bus[x]
  BY <1>2
<1>3. CASE bus'[x] # bus[x]
  <2>1. /\ x = e /\ Len(bus'[x]) = Len(bus[x]) + 1 /\ bus'[x][Len(bus[x]) + 1] = m
        /\ \A k \in 1..Len(bus[x]) : bus'[x][k] = bus[x][k]
    BY <1>3 DEF Publishes
  <2>2. ASSUME NEW k \in 1..Len(bus'[x])
        PROVE  ~bus'[x][k].stalled
    <3>1. CASE k \in 1..Len(bus[x])
      BY <2>1, <3>1 DEF Unflagged
    <3>2. CASE k = Len(bus[x]) + 1
      BY <2>1, <3>2
    <3>3. QED
      BY <1>1, <2>1, <3>1, <3>2
  <2>3. QED
    BY <2>2 DEF Unflagged
<1>4. QED
  BY <1>2, <1>3

LEMMA PublishVerdictInv ==
  ASSUME PipelineInv, PublishVerdict
  PROVE  PipelineInv'
<1> DEFINE e == job["consumer"].entity
           t == job["consumer"].text
<1>1. TypeOK /\ RatingTyped /\ AnalyzerTyped /\ ConsumerTyped /\ FaultsTyped
  BY DEF PipelineInv, TypeOK
<1>2. e \in Ratings /\ t \in Text /\ t \in Nat
  BY <1>1, PipelineConstants DEF PublishVerdict, AnalyzerTyped, Worker, Text
<1>3. /\ UNCHANGED <<gate, text>> /\ text' = text /\ verdict' = verdict /\ aged' = aged
      /\ audited' = audited /\ escalated' = escalated /\ stale' = stale /\ replay' = replay
      /\ applying' = applying /\ Handled(e) /\ PutDown("consumer")
  BY DEF PublishVerdict, gate, rating
<1>4. \E m \in Message : m.text = t /\ ~m.stalled /\ Publishes(e, m) /\ FaultsTyped' /\ restarts' = restarts
  <2>1. /\ \A m \in Answers(t) : m \in Message /\ m.text = t /\ ~m.stalled
        /\ Verdict(t, TRUE) \in Answers(t)
    BY <1>2, EventsTyped
  <2>2. CASE UNCHANGED <<bus, faults>>
    <3>1. Publishes(e, Verdict(t, TRUE)) /\ FaultsTyped' /\ restarts' = restarts
      BY <1>1, <2>2, NothingPublished
    <3>2. QED
      BY <2>1, <3>1
  <2>3. ASSUME NEW m \in Answers(t), Publish(e, m)
        PROVE  Publishes(e, m) /\ FaultsTyped' /\ restarts' = restarts
    BY <1>1, <1>2, <2>1, <2>3, PublishAppends
  <2>4. QED
    BY <2>1, <2>2, <2>3 DEF PublishVerdict
<1>5. PICK m \in Message : m.text = t /\ ~m.stalled /\ Publishes(e, m) /\ FaultsTyped' /\ restarts' = restarts
  BY <1>4
<1>6. GateTyped' /\ OpenIsPending' /\ AbsentHasNoText' /\ LooksUpEntries'
  BY <1>1, <1>3, <1>5, GateFrame, LookupFrame DEF PipelineInv, Publishes
<1>7. requests[e] > 0 /\ AnalyzerTyped' /\ job'["consumer"] = NoJob /\ job'["sweep"] = job["sweep"]
  BY <1>1, <1>2, <1>3, PipelineConstants
  DEF PipelineInv, ConsumesARequest, AnalyzerTyped, Handled, PutDown, NoJob, Worker, Text
<1>8. TypeOK'
  BY <1>1, <1>3, <1>5, <1>6, <1>7 DEF TypeOK, RatingTyped, ConsumerTyped, Publishes
<1>9. ConsumesARequest'
  BY <1>7, PipelineConstants DEF ConsumesARequest, NoJob
<1>10. SweepIsLate'
  <2>1. ASSUME NEW x \in Ratings \ aged
        PROVE  Unflagged(bus'[x]) /\ Unflagged(replay'[x])
    BY <1>1, <1>2, <1>3, <1>5, PublishKeepsUnflagged DEF PipelineInv, SweepIsLate
  <2>2. QED
    BY <1>3, <1>7, <2>1 DEF PipelineInv, SweepIsLate
<1>11. ASSUME NEW x \in Ratings, InOrder(x)
       PROVE  InOrder(x)'
  <2>1. job'["consumer"].entity # x
    BY <1>7, PipelineConstants DEF NoJob
  <2>2. CASE bus'[x] = bus[x]
    BY <1>3, <1>11, <2>1, <2>2 DEF InOrder
  <2>3. CASE bus'[x] # bus[x]
    <3>1. /\ x = e /\ Len(bus'[x]) = Len(bus[x]) + 1 /\ bus'[x][Len(bus[x]) + 1].text = t
          /\ \A k \in 1..Len(bus[x]) : bus'[x][k] = bus[x][k]
      BY <1>5, <2>3 DEF Publishes
    <3>2. /\ Len(bus[x]) \in Nat /\ \A k \in 1..Len(bus[x]) : bus[x][k].text \in Nat
      BY <1>1, MessagesTyped
    <3>3. /\ verdict[x] <= t /\ t <= text[x] /\ \A k \in 1..Len(bus[x]) : bus[x][k].text <= t
      BY <1>11, <3>1 DEF InOrder
    <3>4. ASSUME NEW k \in 1..Len(bus'[x])
          PROVE  verdict[x] <= bus'[x][k].text /\ bus'[x][k].text <= text[x]
      <4>1. CASE k \in 1..Len(bus[x])
        BY <1>11, <3>1, <4>1 DEF InOrder
      <4>2. CASE k = Len(bus[x]) + 1
        BY <3>1, <3>3, <4>2
      <4>3. QED
        BY <3>1, <3>2, <4>1, <4>2
    <3>5. ASSUME NEW k \in 1..Len(bus'[x]), NEW l \in 1..Len(bus'[x]), k <= l
          PROVE  bus'[x][k].text <= bus'[x][l].text
      <4>1. CASE l \in 1..Len(bus[x])
        <5>1. k \in 1..Len(bus[x])
          BY <3>2, <3>5, <4>1
        <5>2. QED
          BY <1>11, <3>1, <3>5, <4>1, <5>1 DEF InOrder
      <4>2. CASE l = Len(bus[x]) + 1 /\ k \in 1..Len(bus[x])
        BY <3>1, <3>3, <4>2
      <4>3. CASE l = Len(bus[x]) + 1 /\ k = l
        BY <1>2, <3>1, <4>3
      <4>4. QED
        BY <3>1, <3>2, <3>5, <4>1, <4>2, <4>3
    <3>6. QED
      BY <1>3, <1>11, <2>1, <3>4, <3>5 DEF InOrder
  <2>4. QED
    BY <2>2, <2>3
<1>12. VerdictsInOrder'
  BY <1>3, <1>5, <1>11 DEF PipelineInv, VerdictsInOrder
<1>13. QED
  BY <1>6, <1>8, <1>9, <1>10, <1>12 DEF PipelineInv

\* The sweep speaks of old ratings only.
LEMMA PublishSweptInv ==
  ASSUME PipelineInv, PublishSwept
  PROVE  PipelineInv'
<1> DEFINE e == job["sweep"].entity
           t == job["sweep"].text
<1>1. TypeOK /\ RatingTyped /\ AnalyzerTyped /\ ConsumerTyped /\ FaultsTyped
  BY DEF PipelineInv, TypeOK
<1>2. e \in Ratings /\ e \in aged /\ t \in Text
  BY <1>1, PipelineConstants DEF PublishSwept, AnalyzerTyped, Worker, PipelineInv, SweepIsLate
<1>3. /\ UNCHANGED <<gate, text>> /\ text' = text /\ verdict' = verdict /\ aged' = aged
      /\ audited' = audited /\ escalated' = escalated /\ stale' = stale /\ replay' = replay
      /\ applying' = applying /\ requests' = requests /\ redo' = redo /\ PutDown("sweep")
  BY DEF PublishSwept, gate, rating
<1>4. \E m \in Message : Publishes(e, m) /\ FaultsTyped' /\ restarts' = restarts
  <2>1. (\A m \in Answers(t) : m \in Message) /\ Stalled \in Message
    BY <1>2, EventsTyped
  <2>2. CASE UNCHANGED <<bus, faults>>
    <3>1. Publishes(e, Stalled) /\ FaultsTyped' /\ restarts' = restarts
      BY <1>1, <2>2, NothingPublished
    <3>2. QED
      BY <2>1, <3>1
  <2>3. ASSUME NEW m \in Message, Publish(e, m)
        PROVE  Publishes(e, m) /\ FaultsTyped' /\ restarts' = restarts
    BY <1>1, <1>2, <2>3, PublishAppends
  <2>4. QED
    BY <2>1, <2>2, <2>3 DEF PublishSwept, Escalate
<1>5. PICK m \in Message : Publishes(e, m) /\ FaultsTyped' /\ restarts' = restarts
  BY <1>4
<1>6. GateTyped' /\ OpenIsPending' /\ AbsentHasNoText' /\ LooksUpEntries'
  BY <1>1, <1>3, <1>5, GateFrame, LookupFrame DEF PipelineInv, Publishes
<1>7. AnalyzerTyped' /\ job'["sweep"] = NoJob /\ job'["consumer"] = job["consumer"]
  BY <1>1, <1>3, PipelineConstants DEF AnalyzerTyped, PutDown, NoJob, Worker, Text
<1>8. TypeOK'
  BY <1>1, <1>3, <1>5, <1>6, <1>7 DEF TypeOK, RatingTyped, ConsumerTyped, Publishes
<1>9. ConsumesARequest'
  BY <1>3, <1>7 DEF PipelineInv, ConsumesARequest
<1>10. \A x \in Ratings \ aged : bus'[x] = bus[x] /\ replay'[x] = replay[x]
  BY <1>2, <1>3, <1>5 DEF Publishes
<1>11. SweepIsLate'
  BY <1>3, <1>7, <1>10 DEF PipelineInv, SweepIsLate, NoJob
<1>12. VerdictsInOrder'
  BY <1>3, <1>5, <1>7, <1>10 DEF PipelineInv, VerdictsInOrder, InOrder
<1>13. QED
  BY <1>6, <1>8, <1>9, <1>11, <1>12 DEF PipelineInv

LEMMA SweepInv ==
  ASSUME PipelineInv, Sweep
  PROVE  PipelineInv'
<1>1. /\ stale' \subseteq aged /\ stale' \subseteq Ratings
      /\ UNCHANGED <<gate, text>> /\ text' = text /\ verdict' = verdict /\ aged' = aged
      /\ audited' = audited /\ escalated' = escalated /\ job' = job /\ requests' = requests
      /\ redo' = redo /\ bus' = bus /\ replay' = replay /\ applying' = applying
      /\ lost' = lost /\ restarts' = restarts
  BY DEF Sweep, StaleIds, PipelineInv, TypeOK, RatingTyped, gate, rating, consumer, faults
<1>2. GateTyped' /\ OpenIsPending' /\ AbsentHasNoText'
  BY <1>1, GateFrame
<1>3. LooksUpEntries'
  BY <1>1, LookupFrame DEF PipelineInv
<1>4. TypeOK'
  BY <1>1, <1>2 DEF PipelineInv, TypeOK, RatingTyped, AnalyzerTyped, ConsumerTyped, FaultsTyped
<1>5. ConsumesARequest' /\ SweepIsLate' /\ VerdictsInOrder'
  BY <1>1 DEF PipelineInv, ConsumesARequest, SweepIsLate, VerdictsInOrder, InOrder
<1>6. QED
  BY <1>2, <1>3, <1>4, <1>5 DEF PipelineInv

LEMMA ReconcileOneInv ==
  ASSUME PipelineInv, NEW e \in Ratings, ReconcileOne(e)
  PROVE  PipelineInv'
<1>1. /\ stale' = stale \ {e} /\ e \in aged
      /\ UNCHANGED <<gate, text>> /\ text' = text /\ verdict' = verdict /\ aged' = aged
      /\ audited' = audited /\ escalated' = escalated /\ requests' = requests
      /\ redo' = redo /\ bus' = bus /\ replay' = replay /\ applying' = applying
      /\ lost' = lost /\ restarts' = restarts
  BY DEF ReconcileOne, PipelineInv, SweepIsLate, gate, rating, consumer, faults
<1>2. GateTyped' /\ OpenIsPending' /\ AbsentHasNoText'
  BY <1>1, GateFrame
<1>3. LooksUpEntries'
  BY <1>1, LookupFrame DEF PipelineInv
<1>4. /\ job' \in [Worker -> [entity : Ratings \union {None}, text : Text]]
      /\ job'["consumer"] = job["consumer"]
      /\ job'["sweep"].entity \in {e, job["sweep"].entity}
  BY DEF ReconcileOne, Fetch, PipelineInv, TypeOK, AnalyzerTyped, RatingTyped, Worker
<1>5. TypeOK'
  BY <1>1, <1>2, <1>4 DEF PipelineInv, TypeOK, RatingTyped, AnalyzerTyped, ConsumerTyped, FaultsTyped
<1>6. ConsumesARequest' /\ SweepIsLate' /\ VerdictsInOrder'
  BY <1>1, <1>4 DEF PipelineInv, ConsumesARequest, SweepIsLate, VerdictsInOrder, InOrder
<1>7. QED
  BY <1>2, <1>3, <1>5, <1>6 DEF PipelineInv

\* A restart drops what the analyzer has in hand and brings its events back.
LEMMA AnalyzerRestartsInv ==
  ASSUME PipelineInv, AnalyzerRestarts
  PROVE  PipelineInv'
<1>1. /\ stale' = {} /\ restarts' = restarts + 1 /\ lost' = lost
      /\ UNCHANGED <<gate, text>> /\ text' = text /\ verdict' = verdict /\ aged' = aged
      /\ audited' = audited /\ escalated' = escalated
      /\ bus' = bus /\ replay' = replay /\ applying' = applying
  BY DEF AnalyzerRestarts, Restart, gate, rating, consumer
<1>2. GateTyped' /\ OpenIsPending' /\ AbsentHasNoText'
  BY <1>1, GateFrame
<1>3. LooksUpEntries'
  BY <1>1, LookupFrame DEF PipelineInv
<1>4. AnalyzerTyped' /\ job' = [w \in Worker |-> NoJob]
  BY PipelineConstants DEF AnalyzerRestarts, PipelineInv, TypeOK, AnalyzerTyped, NoJob, Text
<1>5. restarts \in Nat
  BY DEF PipelineInv, TypeOK, FaultsTyped
<1>6. TypeOK'
  BY <1>1, <1>2, <1>4 DEF PipelineInv, TypeOK, RatingTyped, ConsumerTyped, FaultsTyped
<1>7. ConsumesARequest' /\ SweepIsLate' /\ VerdictsInOrder'
  BY <1>1, <1>4, <1>5, PipelineConstants
  DEF PipelineInv, ConsumesARequest, SweepIsLate, VerdictsInOrder, NoJob, Worker
<1>8. QED
  BY <1>2, <1>3, <1>6, <1>7 DEF PipelineInv

\* The consumer moves the first event of a rating to the replayable ones.
LEMMA DoneMoves ==
  ASSUME TypeOK, NEW e \in Ratings, bus[e] # << >>, Done(e)
  PROVE  /\ ConsumerTyped' /\ applying' = Idle
         /\ \A x \in Ratings \ {e} : bus'[x] = bus[x] /\ replay'[x] = replay[x]
         /\ Len(bus[e]) \in Nat \ {0} /\ Len(bus'[e]) = Len(bus[e]) - 1
         /\ \A k \in 1..Len(bus'[e]) : bus'[e][k] = bus[e][k + 1]
         /\ Unflagged(bus[e]) /\ Unflagged(replay[e]) => Unflagged(replay'[e])
<1>1. bus[e] \in Seq(Message) /\ replay[e] \in Seq(Message) /\ ConsumerTyped
  BY DEF TypeOK, ConsumerTyped
<1>2. /\ Len(bus[e]) \in Nat \ {0} /\ Tail(bus[e]) \in Seq(Message)
      /\ Len(Tail(bus[e])) = Len(bus[e]) - 1
      /\ \A k \in 1..Len(Tail(bus[e])) : Tail(bus[e])[k] = bus[e][k + 1]
      /\ Head(bus[e]) \in Message /\ Head(bus[e]) = bus[e][1]
  BY <1>1
<1>3. Idle \in [entity : Ratings \union {None}, step : {"idle", "find", "decide"}, entry : Text]
  BY PipelineConstants DEF Idle, Text
<1>4. /\ bus'[e] = Tail(bus[e]) /\ bus' \in [Ratings -> Seq(Message)] /\ applying' = Idle
      /\ \A x \in Ratings \ {e} : bus'[x] = bus[x]
  BY <1>1, <1>2 DEF Done, ConsumerTyped
<1>5. /\ replay' \in [Ratings -> Seq(Message)]
      /\ \A x \in Ratings \ {e} : replay'[x] = replay[x]
      /\ Unflagged(bus[e]) /\ Unflagged(replay[e]) => Unflagged(replay'[e])
  <2>1. CASE replay' = [replay EXCEPT ![e] = << >>]
    BY <1>1, <2>1 DEF ConsumerTyped, Unflagged
  <2>2. CASE replay' = [replay EXCEPT ![e] = Append(@, InHand(e))]
    <3>1. Append(replay[e], Head(bus[e])) \in Seq(Message)
      BY <1>1, <1>2
    <3>2. /\ replay' \in [Ratings -> Seq(Message)] /\ replay'[e] = Append(replay[e], Head(bus[e]))
          /\ \A x \in Ratings \ {e} : replay'[x] = replay[x]
      BY <1>1, <2>2, <3>1 DEF ConsumerTyped, InHand
    <3>3. ASSUME Unflagged(bus[e]), Unflagged(replay[e])
          PROVE  Unflagged(replay'[e])
      <4>1. ~Head(bus[e]).stalled
        BY <1>2, <3>3 DEF Unflagged
      <4>2. ASSUME NEW k \in 1..(Len(replay[e]) + 1)
            PROVE  ~Append(replay[e], Head(bus[e]))[k].stalled
        <5>1. CASE k \in 1..Len(replay[e])
          BY <1>1, <1>2, <3>3, <5>1 DEF Unflagged
        <5>2. CASE k = Len(replay[e]) + 1
          BY <1>1, <1>2, <4>1, <5>2
        <5>3. QED
          BY <1>1, <5>1, <5>2
      <4>3. Len(replay'[e]) = Len(replay[e]) + 1
        BY <1>1, <1>2, <3>2
      <4>4. QED
        BY <3>2, <4>2, <4>3 DEF Unflagged
    <3>4. QED
      BY <3>2, <3>3
  <2>3. QED
    BY <2>1, <2>2 DEF Done
<1>6. QED
  BY <1>2, <1>3, <1>4, <1>5 DEF ConsumerTyped

\* Storing the first verdict, or none, and dropping it keeps the rest in order.
LEMMA DoneInv ==
  ASSUME PipelineInv, NEW e \in Ratings, bus[e] # << >>, Done(e),
         verdict' = verdict \/ verdict' = [verdict EXCEPT ![e] = bus[e][1].text],
         text' = text, aged' = aged, requests' = requests, stale' = stale, job' = job,
         restarts' \in Nat, restarts' = restarts
  PROVE  /\ ConsumerTyped' /\ ConsumesARequest' /\ LooksUpEntries'
         /\ SweepIsLate' /\ VerdictsInOrder'
<1>1. TypeOK /\ RatingTyped
  BY DEF PipelineInv, TypeOK
<1>2. /\ ConsumerTyped' /\ applying' = Idle
      /\ \A x \in Ratings \ {e} : bus'[x] = bus[x] /\ replay'[x] = replay[x]
      /\ Len(bus[e]) \in Nat \ {0} /\ Len(bus'[e]) = Len(bus[e]) - 1
      /\ \A k \in 1..Len(bus'[e]) : bus'[e][k] = bus[e][k + 1]
      /\ Unflagged(bus[e]) /\ Unflagged(replay[e]) => Unflagged(replay'[e])
  BY <1>1, DoneMoves
<1>3. ConsumesARequest' /\ LooksUpEntries'
  BY <1>2 DEF PipelineInv, ConsumesARequest, LooksUpEntries
<1>4. SweepIsLate'
  <2>1. Unflagged(bus[e]) => Unflagged(bus'[e])
    BY <1>2 DEF Unflagged
  <2>2. stale' \subseteq aged' /\ job'["sweep"].entity \in aged' \union {None}
    BY DEF PipelineInv, SweepIsLate
  <2>3. ASSUME NEW x \in Ratings \ aged
        PROVE  Unflagged(bus'[x]) /\ Unflagged(replay'[x])
    <3>1. Unflagged(bus[x]) /\ Unflagged(replay[x])
      BY DEF PipelineInv, SweepIsLate
    <3>2. QED
      BY <1>2, <2>1, <3>1
  <2>4. QED
    BY <2>2, <2>3 DEF SweepIsLate
<1>5. ASSUME NEW x \in Ratings, InOrder(x)
      PROVE  InOrder(x)'
  <2>1. CASE x # e
    <3>1. bus'[x] = bus[x] /\ verdict'[x] = verdict[x]
      BY <1>1, <1>2, <2>1 DEF RatingTyped
    <3>2. QED
      BY <1>5, <3>1 DEF InOrder
  <2>2. CASE x = e
    <3>1. /\ verdict'[e] = verdict[e] \/ verdict'[e] = bus[e][1].text
          /\ verdict[e] \in Nat /\ 1 \in 1..Len(bus[e])
      BY <1>1, <1>2, PipelineConstants DEF RatingTyped, Text
    <3>2. verdict[e] <= bus[e][1].text /\ bus[e][1].text <= text[e]
      BY <1>5, <2>2, <3>1 DEF InOrder
    <3>3. \A k \in 1..Len(bus[e]) : bus[e][1].text <= bus[e][k].text
      BY <1>5, <2>2, <3>1 DEF InOrder
    <3>4. \A k \in 1..Len(bus[e]) : bus[e][k].text \in Nat
      BY <1>1, MessagesTyped DEF TypeOK
    <3>5. \A k \in 1..Len(bus'[e]) : k + 1 \in 1..Len(bus[e])
      BY <1>2
    <3>6. /\ verdict'[e] <= text[e]
          /\ \A k \in 1..Len(bus[e]) : verdict'[e] <= bus[e][k].text
      BY <1>5, <2>2, <3>1, <3>2, <3>3 DEF InOrder
    <3>7. \A k \in 1..Len(bus'[e]) : verdict'[e] <= bus'[e][k].text /\ bus'[e][k].text <= text[e]
      BY <1>2, <1>5, <2>2, <3>5, <3>6 DEF InOrder
    <3>8. ASSUME NEW k \in 1..Len(bus'[e]), NEW l \in 1..Len(bus'[e]), k <= l
          PROVE  bus'[e][k].text <= bus'[e][l].text
      <4>1. k + 1 \in 1..Len(bus[e]) /\ l + 1 \in 1..Len(bus[e]) /\ k + 1 <= l + 1
        BY <1>2, <3>5, <3>8
      <4>2. bus[e][k + 1].text <= bus[e][l + 1].text
        BY <1>5, <2>2, <4>1 DEF InOrder
      <4>3. QED
        BY <1>2, <4>2
    <3>9. job["consumer"].entity = e =>
            /\ verdict'[e] <= job["consumer"].text /\ job["consumer"].text <= text[e]
            /\ \A k \in 1..Len(bus'[e]) : bus'[e][k].text <= job["consumer"].text
      BY <1>2, <1>5, <2>2, <3>1, <3>5 DEF InOrder
    <3>10. QED
      BY <2>2, <3>6, <3>7, <3>8, <3>9 DEF InOrder
  <2>3. QED
    BY <2>1, <2>2
<1>6. VerdictsInOrder'
  BY <1>5 DEF PipelineInv, VerdictsInOrder
<1>7. QED
  BY <1>2, <1>3, <1>4, <1>6

LEMMA StoreVerdictInv ==
  ASSUME PipelineInv, NEW e \in Ratings, StoreVerdict(e)
  PROVE  PipelineInv'
<1>1. TypeOK /\ RatingTyped /\ AnalyzerTyped /\ ConsumerTyped /\ FaultsTyped
  BY DEF PipelineInv, TypeOK
<1>2. /\ UNCHANGED <<gate, text>> /\ text' = text /\ aged' = aged /\ audited' = audited
      /\ escalated' = escalated /\ lost' = lost /\ restarts' = restarts
      /\ requests' = requests /\ redo' = redo /\ stale' = stale /\ job' = job
      /\ bus[e] # << >> /\ ~bus[e][1].stalled
  BY DEF StoreVerdict, gate, rating, analyzer, faults, InHand
<1>3. bus[e][1] \in Message /\ Len(bus[e]) \in Nat /\ 1 \in 1..Len(bus[e]) /\ bus[e][1].text \in Text
  <2>1. bus[e] \in Seq(Message)
    BY <1>1 DEF ConsumerTyped
  <2>2. Len(bus[e]) \in Nat /\ 1 \in 1..Len(bus[e]) /\ bus[e][1] \in Message
    BY <1>2, <2>1
  <2>3. QED
    BY <2>2 DEF Message
<1>4. verdict' = verdict \/ verdict' = [verdict EXCEPT ![e] = bus[e][1].text]
  BY DEF StoreVerdict, InHand
<1>5. RatingTyped' /\ AnalyzerTyped' /\ FaultsTyped'
  BY <1>1, <1>2, <1>3, <1>4 DEF RatingTyped, AnalyzerTyped, FaultsTyped
<1>6. GateTyped' /\ OpenIsPending' /\ AbsentHasNoText'
  BY <1>2, GateFrame
<1>7. CASE Done(e)
  <2>1. ConsumerTyped' /\ ConsumesARequest' /\ LooksUpEntries' /\ SweepIsLate' /\ VerdictsInOrder'
    BY <1>1, <1>2, <1>4, <1>7, DoneInv DEF FaultsTyped
  <2>2. QED
    BY <1>5, <1>6, <2>1 DEF PipelineInv, TypeOK
<1>8. CASE GoOn(e, "find", 0)
  <2>1. /\ bus' = bus /\ replay' = replay
        /\ applying' = [entity |-> e, step |-> "find", entry |-> 0]
    BY <1>8 DEF GoOn
  <2>2. ConsumerTyped' /\ LooksUpEntries'
    BY <1>1, <1>2, <2>1, PipelineConstants DEF ConsumerTyped, LooksUpEntries, InHand, Text
  <2>3. ConsumesARequest' /\ SweepIsLate'
    BY <1>2, <2>1 DEF PipelineInv, ConsumesARequest, SweepIsLate
  <2>4. ASSUME NEW x \in Ratings, InOrder(x)
        PROVE  InOrder(x)'
    <3>1. CASE verdict'[x] = verdict[x]
      BY <1>2, <2>1, <2>4, <3>1 DEF InOrder
    <3>2. CASE x = e /\ verdict'[e] = bus[e][1].text
      <4>1. /\ bus[e][1].text <= text[e]
            /\ \A k \in 1..Len(bus[e]) : bus[e][1].text <= bus[e][k].text
            /\ job["consumer"].entity = e => bus[e][1].text <= job["consumer"].text
        BY <1>3, <2>4, <3>2 DEF InOrder
      <4>2. QED
        BY <1>2, <2>1, <2>4, <3>2, <4>1 DEF InOrder
    <3>3. QED
      BY <1>1, <1>4, <3>1, <3>2 DEF RatingTyped
  <2>5. VerdictsInOrder'
    BY <1>2, <2>4 DEF PipelineInv, VerdictsInOrder
  <2>6. QED
    BY <1>5, <1>6, <2>2, <2>3, <2>5 DEF PipelineInv, TypeOK
<1>9. QED
  BY <1>7, <1>8 DEF StoreVerdict

LEMMA FindEntryInv ==
  ASSUME PipelineInv, NEW e \in Ratings, FindEntry(e)
  PROVE  PipelineInv'
<1>1. TypeOK /\ RatingTyped /\ AnalyzerTyped /\ ConsumerTyped /\ FaultsTyped
  BY DEF PipelineInv, TypeOK
<1>2. /\ UNCHANGED <<gate, text>> /\ text' = text /\ verdict' = verdict /\ aged' = aged
      /\ audited' = audited /\ escalated' = escalated /\ lost' = lost /\ restarts' = restarts
      /\ requests' = requests /\ redo' = redo /\ stale' = stale /\ job' = job
  BY DEF FindEntry, gate, rating, analyzer, faults
<1>3. bus[e] # << >>
  BY PipelineConstants DEF FindEntry, PipelineInv, LooksUpEntries, Idle
<1>4. RatingTyped' /\ AnalyzerTyped' /\ FaultsTyped'
  BY <1>1, <1>2 DEF RatingTyped, AnalyzerTyped, FaultsTyped
<1>5. GateTyped' /\ OpenIsPending' /\ AbsentHasNoText'
  BY <1>2, GateFrame
<1>6. CASE Done(e)
  <2>1. ConsumerTyped' /\ ConsumesARequest' /\ LooksUpEntries' /\ SweepIsLate' /\ VerdictsInOrder'
    BY <1>1, <1>2, <1>3, <1>6, DoneInv DEF FaultsTyped
  <2>2. QED
    BY <1>4, <1>5, <2>1 DEF PipelineInv, TypeOK
<1>7. CASE Suitable(e) /\ GoOn(e, "decide", text[e])
  <2>1. /\ bus' = bus /\ replay' = replay
        /\ applying' = [entity |-> e, step |-> "decide", entry |-> text[e]]
    BY <1>7 DEF GoOn
  <2>2. ConsumerTyped'
    BY <1>1, <2>1 DEF ConsumerTyped, RatingTyped
  <2>3. LooksUpEntries'
    BY <1>1, <1>2, <1>3, <1>7, <2>1, PipelineConstants
    DEF LooksUpEntries, InHand, Suitable, RatingTyped, Text
  <2>4. ConsumesARequest' /\ SweepIsLate' /\ VerdictsInOrder'
    BY <1>2, <2>1 DEF PipelineInv, ConsumesARequest, SweepIsLate, VerdictsInOrder, InOrder
  <2>5. QED
    BY <1>4, <1>5, <2>2, <2>3, <2>4 DEF PipelineInv, TypeOK
<1>8. QED
  BY <1>6, <1>7 DEF FindEntry

\* The consumer decides the entry of the rating it has in hand, or leaves it.
LEMMA DecideEntryInv ==
  ASSUME PipelineInv, DecideEntry
  PROVE  PipelineInv'
<1> DEFINE e == applying.entity
<1>1. TypeOK /\ GateTyped /\ RatingTyped /\ AnalyzerTyped /\ ConsumerTyped /\ FaultsTyped
  BY DEF PipelineInv, TypeOK
<1>2. /\ text' = text /\ verdict' = verdict /\ aged' = aged
      /\ lost' = lost /\ restarts' = restarts
      /\ requests' = requests /\ redo' = redo /\ stale' = stale /\ job' = job /\ Done(e)
  BY DEF DecideEntry, analyzer, faults
<1>3. e \in Ratings /\ bus[e] # << >>
  BY <1>1 DEF DecideEntry, PipelineInv, LooksUpEntries, ConsumerTyped, Idle
<1>4. RatingTyped' /\ AnalyzerTyped' /\ FaultsTyped'
  BY <1>1, <1>2, <1>3 DEF RatingTyped, AnalyzerTyped, FaultsTyped, DecideEntry
<1>5. GateTyped' /\ OpenIsPending' /\ AbsentHasNoText'
  <2>1. CASE UNCHANGED gate
    BY <1>2, <2>1, GateFrame
  <2>2. CASE Gate!Decide(e, Decision(e))
    <3>1. Operation(e)
      BY <2>2 DEF Operation, Decision
    <3>2. QED
      BY <1>1, <1>2, <1>3, <3>1, OperationsKeepPending, OperationsTouchOne
      DEF PipelineInv, AbsentHasNoText
  <2>3. QED
    BY <2>1, <2>2 DEF DecideEntry
<1>6. ConsumerTyped' /\ ConsumesARequest' /\ LooksUpEntries' /\ SweepIsLate' /\ VerdictsInOrder'
  BY <1>1, <1>2, <1>3, DoneInv DEF FaultsTyped
<1>7. QED
  BY <1>4, <1>5, <1>6 DEF PipelineInv, TypeOK

LEMMA HandlerFailsInv ==
  ASSUME PipelineInv, NEW e \in Ratings, HandlerFails(e)
  PROVE  PipelineInv'
<1>1. TypeOK /\ RatingTyped /\ AnalyzerTyped /\ ConsumerTyped /\ FaultsTyped
  BY DEF PipelineInv, TypeOK
<1>2. /\ UNCHANGED <<gate, text>> /\ text' = text /\ verdict' = verdict /\ aged' = aged
      /\ audited' = audited /\ lost' = lost + 1 /\ restarts' = restarts
      /\ requests' = requests /\ redo' = redo /\ stale' = stale /\ job' = job
      /\ Done(e) /\ bus[e] # << >>
  BY DEF HandlerFails, Lose, gate, rating, analyzer
<1>3. RatingTyped' /\ AnalyzerTyped' /\ FaultsTyped'
  BY <1>1, <1>2 DEF RatingTyped, AnalyzerTyped, FaultsTyped
<1>4. GateTyped' /\ OpenIsPending' /\ AbsentHasNoText'
  BY <1>2, GateFrame
<1>5. ConsumerTyped' /\ ConsumesARequest' /\ LooksUpEntries' /\ SweepIsLate' /\ VerdictsInOrder'
  BY <1>1, <1>2, DoneInv DEF FaultsTyped
<1>6. QED
  BY <1>3, <1>4, <1>5 DEF PipelineInv, TypeOK

LEMMA UnflaggedConcat ==
  ASSUME NEW r \in Seq(Message), NEW s \in Seq(Message), Unflagged(r), Unflagged(s)
  PROVE  Unflagged(r \o s)
<1>1. /\ Len(r) \in Nat /\ Len(s) \in Nat /\ Len(r \o s) = Len(r) + Len(s)
      /\ \A k \in 1..(Len(r) + Len(s)) : (r \o s)[k] = IF k <= Len(r) THEN r[k] ELSE s[k - Len(r)]
  BY ConcatProperties
<1>2. ASSUME NEW k \in 1..(Len(r) + Len(s))
      PROVE  ~(r \o s)[k].stalled
  <2>1. CASE k <= Len(r)
    BY <1>1, <2>1 DEF Unflagged
  <2>2. CASE ~(k <= Len(r))
    <3>1. k - Len(r) \in 1..Len(s)
      BY <1>1, <2>2
    <3>2. QED
      BY <1>1, <2>2, <3>1 DEF Unflagged
  <2>3. QED
    BY <2>1, <2>2
<1>3. QED
  BY <1>1, <1>2 DEF Unflagged

\* A restart of the api brings handled events back, in front of the others.
LEMMA ApiRestartsInv ==
  ASSUME PipelineInv, ApiRestarts
  PROVE  PipelineInv'
<1>1. TypeOK /\ RatingTyped /\ AnalyzerTyped /\ ConsumerTyped /\ FaultsTyped
  BY DEF PipelineInv, TypeOK
<1>2. /\ UNCHANGED <<gate, text>> /\ text' = text /\ verdict' = verdict /\ aged' = aged
      /\ audited' = audited /\ lost' = lost /\ restarts' = restarts + 1
      /\ requests' = requests /\ redo' = redo /\ stale' = stale /\ job' = job
      /\ applying' = Idle /\ replay' = [x \in Ratings |-> << >>]
      /\ bus' = [x \in Ratings |-> replay[x] \o bus[x]]
  BY DEF ApiRestarts, Restart, gate, rating, analyzer
<1>3. RatingTyped' /\ AnalyzerTyped' /\ FaultsTyped'
  BY <1>1, <1>2 DEF RatingTyped, AnalyzerTyped, FaultsTyped
<1>4. GateTyped' /\ OpenIsPending' /\ AbsentHasNoText'
  BY <1>2, GateFrame
<1>5. \A x \in Ratings : bus[x] \in Seq(Message) /\ replay[x] \in Seq(Message)
  BY <1>1 DEF ConsumerTyped
<1>6. ConsumerTyped'
  <2>1. Idle \in [entity : Ratings \union {None}, step : {"idle", "find", "decide"}, entry : Text]
    BY PipelineConstants DEF Idle, Text
  <2>2. \A x \in Ratings : replay[x] \o bus[x] \in Seq(Message) /\ << >> \in Seq(Message)
    BY <1>5, ConcatProperties, EmptySeq
  <2>3. QED
    BY <1>2, <2>1, <2>2 DEF ConsumerTyped
<1>7. ConsumesARequest' /\ LooksUpEntries' /\ VerdictsInOrder'
  BY <1>1, <1>2 DEF PipelineInv, ConsumesARequest, LooksUpEntries, VerdictsInOrder, FaultsTyped
<1>8. SweepIsLate'
  <2>1. ASSUME NEW x \in Ratings, Unflagged(bus[x]), Unflagged(replay[x])
        PROVE  Unflagged(replay[x] \o bus[x])
    BY <1>5, <2>1, UnflaggedConcat
  <2>2. ASSUME NEW x \in Ratings \ aged
        PROVE  Unflagged(bus'[x]) /\ Unflagged(replay'[x])
    <3>1. Unflagged(bus[x]) /\ Unflagged(replay[x])
      BY DEF PipelineInv, SweepIsLate
    <3>2. bus'[x] = replay[x] \o bus[x] /\ replay'[x] = << >>
      BY <1>2
    <3>3. Unflagged(<< >>)
      BY DEF Unflagged
    <3>4. QED
      BY <2>1, <3>1, <3>2, <3>3
  <2>3. QED
    BY <1>2, <2>2 DEF PipelineInv, SweepIsLate
<1>9. QED
  BY <1>3, <1>4, <1>6, <1>7, <1>8 DEF PipelineInv, TypeOK

LEMMA NextInv ==
  ASSUME PipelineInv, [Next]_vars
  PROVE  PipelineInv'
<1>1. ASSUME NEW e \in Ratings, People(e)
      PROVE  PipelineInv'
  BY <1>1, CreateInv, UpdateInv, ClosingInv DEF People, Remove, Review
<1>2. ASSUME NEW e \in Ratings,
             DayPasses(e) \/ ConsumeCreated(e) \/ ReconcileOne(e)
               \/ StoreVerdict(e) \/ FindEntry(e) \/ HandlerFails(e)
      PROVE  PipelineInv'
  BY <1>2, DayPassesInv, ConsumeCreatedInv, ReconcileOneInv, StoreVerdictInv, FindEntryInv, HandlerFailsInv
<1>3. CASE UNCHANGED vars
  <2>1. UNCHANGED <<gate, text>> /\ UNCHANGED <<rating, analyzer, consumer, faults>>
    BY <1>3 DEF vars, rating
  <2>2. GateTyped' /\ OpenIsPending' /\ AbsentHasNoText'
    BY <2>1, GateFrame
  <2>3. TypeOK' /\ LooksUpEntries'
    BY <1>3, <2>2
    DEF PipelineInv, TypeOK, RatingTyped, AnalyzerTyped, ConsumerTyped, FaultsTyped, LooksUpEntries, InHand,
        vars, gate, rating, analyzer, consumer, faults
  <2>4. ConsumesARequest' /\ SweepIsLate' /\ VerdictsInOrder'
    BY <1>3 DEF PipelineInv, ConsumesARequest, SweepIsLate, VerdictsInOrder, InOrder,
                vars, rating, analyzer, consumer, faults
  <2>5. QED
    BY <2>2, <2>3, <2>4 DEF PipelineInv
<1>4. QED
  BY <1>1, <1>2, <1>3, PublishVerdictInv, SweepInv, PublishSweptInv, AnalyzerRestartsInv,
     DecideEntryInv, ApiRestartsInv DEF Next

\* In every reachable state, the events and what the two services have in hand fit
\* the ratings they are about.
THEOREM PipelineInvariant == Spec => []PipelineInv
BY InitInv, NextInv, PTL DEF Spec

\* The columns, events and workers keep their types: no event is handled that was not
\* published.
THEOREM PipelineTyped == Spec => []TypeOK
<1>1. PipelineInv => TypeOK
  BY DEF PipelineInv
<1>2. QED
  BY <1>1, PipelineInvariant, PTL

\* Automation changes the status of the rating in hand only, by a decision of its
\* open submission.
LEMMA AutomationDecides ==
  ASSUME PipelineInv, [Next]_vars, Automation
  PROVE  LET e == applying.entity
         IN \/ UNCHANGED status
            \/ /\ e \in Ratings /\ e \in open /\ text[e] = applying.entry
               /\ status' = [status EXCEPT ![e] = Decision(e)]
<1>1. applying.step = "decide" /\ applying' # applying /\ lost' = lost /\ restarts' = restarts
  BY DEF Automation, Idle, faults
<1>2. lost \in Nat /\ restarts \in Nat /\ applying.entity \in Ratings
  BY <1>1 DEF PipelineInv, TypeOK, FaultsTyped, LooksUpEntries, ConsumerTyped, Idle
<1>3. ~Restart /\ ~Lose
  BY <1>1, <1>2 DEF Restart, Lose
<1>4. ~UNCHANGED consumer /\ ~UNCHANGED applying
  BY <1>1 DEF consumer
<1>5. DecideEntry \/ UNCHANGED status
  BY <1>1, <1>3, <1>4
  DEF Next, vars, gate, People, Create, Update, Remove, Review, DayPasses, ConsumeCreated, ReconcileOne,
      StoreVerdict, FindEntry, HandlerFails, PublishVerdict, Sweep, PublishSwept, AnalyzerRestarts, ApiRestarts
<1>6. CASE DecideEntry
  BY <1>2, <1>6 DEF DecideEntry, Gate!Decide, gate
<1>7. QED
  BY <1>5, <1>6

\* The consumer never approves an escalated entry, not even one that took the place
\* of the entry it looked up: the conditional decision is tied to that entry.
THEOREM EscalatedIsSpared == Spec => AutomationSparesEscalated
<1>1. ASSUME PipelineInv, [Next]_vars, NEW e \in Ratings, Automation, e \in escalated
      PROVE  status'[e] # "approved"
  <2>1. status[e] = "pending" /\ DOMAIN status = Ratings
    BY <1>1 DEF PipelineInv, OpenIsPending, TypeOK, GateTyped
  <2>2. CASE UNCHANGED status
    BY <2>1, <2>2
  <2>3. CASE /\ applying.entity \in Ratings /\ text[applying.entity] = applying.entry
             /\ status' = [status EXCEPT ![applying.entity] = Decision(applying.entity)]
    <3>1. applying.step = "decide" /\ applying # Idle
      BY <1>1 DEF Automation, Idle
    <3>2. applying.entity = e => InHand(e).stalled
      BY <1>1, <2>3, <3>1 DEF PipelineInv, LooksUpEntries
    <3>3. QED
      BY <2>1, <2>3, <3>2 DEF Decision
  <2>4. QED
    BY <1>1, <2>2, <2>3, AutomationDecides
<1>2. PipelineInv /\ [Next]_vars
        => [\A e \in Ratings : Automation /\ e \in escalated => status'[e] # "approved"]_vars
  BY <1>1
<1>3. QED
  BY <1>2, PipelineInvariant, PTL DEF Spec, AutomationSparesEscalated

\* Whatever the two services do, to the gate they are one more client: each of their
\* steps is an operation of it, or none of its business.
THEOREM PipelineUsesGate == Spec => Gate!Spec
<1>1. Init => Gate!Init
  BY DEF Init
<1>2. ASSUME TypeOK, [Next]_vars
      PROVE  [Gate!Next]_(Gate!gate)
  <2>1. ASSUME NEW e \in Ratings, People(e)
        PROVE  Gate!Next
    BY <2>1 DEF People, Create, Update, Remove, Review, Gate!Next
  <2>2. CASE DecideEntry
    <3>1. CASE applying.entity \in open
      <4>1. applying.entity \in Ratings
        BY <1>2, <3>1 DEF TypeOK, GateTyped
      <4>2. Gate!Decide(applying.entity, Decision(applying.entity)) \/ UNCHANGED gate
        BY <2>2 DEF DecideEntry, gate
      <4>3. Decision(applying.entity) \in {"approved", "rejected", "flagged", "permanently_rejected"}
        BY DEF Decision
      <4>4. CASE Gate!Decide(applying.entity, Decision(applying.entity))
        BY <4>1, <4>3, <4>4 DEF Gate!Next
      <4>5. QED
        BY <4>2, <4>4 DEF gate, Gate!gate
    <3>2. CASE applying.entity \notin open
      BY <2>2, <3>2 DEF DecideEntry, gate, Gate!gate
    <3>3. QED
      BY <3>1, <3>2
  <2>3. (\E e \in Ratings : People(e)) \/ DecideEntry \/ UNCHANGED gate
    BY <1>2
    DEF Next, vars, DayPasses, ConsumeCreated, ReconcileOne, StoreVerdict, FindEntry, HandlerFails,
        PublishVerdict, Sweep, PublishSwept, AnalyzerRestarts, ApiRestarts
  <2>4. QED
    BY <2>1, <2>2, <2>3 DEF gate, Gate!gate
<1>3. QED
  BY <1>1, <1>2, PipelineTyped, PTL DEF Spec, Gate!Spec

\* The lifetime cap is a cap on automation too: the verdict consumer does not approve a
\* submission of a rating that was decided Cap times, though it never counts decisions
\* and reads the escalation of the entry long before it decides it.
THEOREM CappedIsSpared ==
  Spec => [][\A e \in open : Automation /\ decided[e] >= Cap => status'[e] # "approved"]_vars
<1>1. Spec => []Gate!EscalationFollowsCap
  <2>1. Gate!Spec => [](Gate!Typed /\ Gate!EscalationFollowsCap)
    BY PipelineConstants, Gate!CapEscalates
  <2>2. QED
    BY <2>1, PipelineUsesGate, PTL
<1>2. /\ TypeOK /\ Gate!EscalationFollowsCap
      /\ [\A e \in Ratings : Automation /\ e \in escalated => status'[e] # "approved"]_vars
      => [\A e \in open : Automation /\ decided[e] >= Cap => status'[e] # "approved"]_vars
  BY DEF TypeOK, GateTyped, Gate!EscalationFollowsCap
<1>3. QED
  BY <1>1, <1>2, PipelineTyped, EscalatedIsSpared, PTL DEF AutomationSparesEscalated

\* Automation flags no rating before its day has passed: only the sweep asks for
\* flags, and it selects old ratings.
THEOREM FlagsAreLate == Spec => StalledFlagIsLate
<1>1. ASSUME PipelineInv, [Next]_vars, NEW e \in Ratings,
             Automation, status[e] = "pending", status'[e] = "flagged"
      PROVE  e \in aged
  <2>1. DOMAIN status = Ratings /\ applying.step = "decide" /\ applying # Idle
    BY <1>1 DEF PipelineInv, TypeOK, GateTyped, Automation, Idle
  <2>2. /\ applying.entity = e
        /\ status' = [status EXCEPT ![e] = Decision(e)]
    BY <1>1, <2>1, AutomationDecides
  <2>3. bus[e] # << >> /\ bus[e][1].stalled
    BY <1>1, <2>1, <2>2 DEF PipelineInv, LooksUpEntries, Decision, InHand
  <2>4. bus[e] \in Seq(Message)
    BY <1>1 DEF PipelineInv, TypeOK, ConsumerTyped
  <2>5. 1 \in 1..Len(bus[e])
    BY <2>3, <2>4
  <2>6. QED
    BY <1>1, <2>3, <2>5 DEF PipelineInv, SweepIsLate, Unflagged
<1>2. PipelineInv /\ [Next]_vars
        => [\A e \in Ratings : Automation /\ status[e] = "pending" /\ status'[e] = "flagged" => e \in aged]_vars
  BY <1>1
<1>3. QED
  BY <1>2, PipelineInvariant, PTL DEF Spec, StalledFlagIsLate

\* Until the sweep or a replay takes part, the verdict of a rating is only replaced
\* by one on the same or a later text, or by none.
THEOREM YoungVerdictsInOrder == Spec => YoungVerdictsAdvance
<1>1. ASSUME PipelineInv, [Next]_vars, NEW e \in Ratings, e \notin aged, restarts = 0
      PROVE  verdict'[e] = 0 \/ verdict'[e] >= verdict[e]
  <2>1. /\ verdict \in [Ratings -> Text] /\ verdict[e] \in Nat
    BY <1>1, PipelineConstants DEF PipelineInv, TypeOK, RatingTyped, Text
  <2>2. ASSUME NEW x \in Ratings, StoreVerdict(x)
        PROVE  verdict'[e] >= verdict[e]
    <3>1. \/ verdict'[e] = verdict[e]
          \/ x = e /\ verdict'[e] = bus[e][1].text
      BY <2>1, <2>2 DEF StoreVerdict, InHand
    <3>2. bus[x] # << >> /\ bus[x] \in Seq(Message)
      BY <1>1, <2>2 DEF StoreVerdict, PipelineInv, TypeOK, ConsumerTyped
    <3>3. 1 \in 1..Len(bus[x]) /\ bus[x][1] \in Message
      BY <3>2
    <3>4. verdict[e] <= bus[e][1].text \/ x # e
      BY <1>1, <3>3 DEF PipelineInv, VerdictsInOrder, InOrder
    <3>5. x = e => bus[e][1].text \in Nat
      BY <3>3, PipelineConstants DEF Message, Text
    <3>6. QED
      BY <2>1, <3>1, <3>4, <3>5
  <2>3. ASSUME NEW x \in Ratings, Update(x)
        PROVE  verdict'[e] = 0 \/ verdict'[e] = verdict[e]
    BY <2>1, <2>3 DEF Update, Reset
  <2>4. (\E x \in Ratings : StoreVerdict(x) \/ Update(x)) \/ verdict' = verdict
    BY <1>1
    DEF Next, vars, rating, People, Create, Remove, Review, DayPasses, ConsumeCreated, ReconcileOne,
        FindEntry, HandlerFails, PublishVerdict, Sweep, PublishSwept, AnalyzerRestarts, DecideEntry, ApiRestarts
  <2>5. QED
    BY <2>1, <2>2, <2>3, <2>4
<1>2. PipelineInv /\ [Next]_vars
        => [\A e \in Ratings : e \notin aged /\ restarts = 0
              => verdict'[e] = 0 \/ verdict'[e] >= verdict[e]]_vars
  BY <1>1
<1>3. QED
  BY <1>2, PipelineInvariant, PTL DEF Spec, YoungVerdictsAdvance
===============================================================================
