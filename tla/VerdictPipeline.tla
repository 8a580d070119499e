---------------------------- MODULE VerdictPipeline ----------------------------
(***************************************************************************)
(* AI triage of ratings.  The api publishes an event for every submission; *)
(* the review analyzer fetches the rating, asks the LLM, and publishes a   *)
(* verdict; the api's verdict consumer stores it and may approve the       *)
(* rating.  An hourly sweep of the analyzer triages ratings again that     *)
(* have waited for a day without a verdict, and has them flagged if the    *)
(* LLM fails once more.                                                    *)
(*                                                                         *)
(* Requests to the moderation gate are the atomic operations of            *)
(* ModerationGate, which the statements of the handlers implement          *)
(* (module ModerationQueue).  Triage runs concurrently with them: the      *)
(* consumer and the sweep of the analyzer each have one rating in hand,    *)
(* the consumer of the api has one message.                                *)
(*                                                                         *)
(* Messages are keyed by the rating: those of one rating stay in order.    *)
(* Consumers commit their offsets now and then, so that a restart delivers *)
(* the message in hand and some handled ones again.  A ..._Mutant is the   *)
(* definition after it with a bug in it; no action uses it.                *)
(***************************************************************************)
EXTENDS Integers, Sequences

CONSTANTS
  Ratings,     \* round ratings, recruiter ratings and overall reviews
  Cap,         \* LIFETIME_RESUBMISSION_CAP
  MaxTexts,    \* bound on the submissions of a rating
  MaxBus,      \* bound on the verdicts of a rating that wait on the bus
  MaxReplay,   \* bound on the handled messages of a rating that a restart replays
  MaxLost,     \* bound on lost messages and failed handlers
  MaxRestarts, \* bound on restarts of the two services
  None

ASSUME PipelineConstants ==
  /\ Cap \in Nat \ {0} /\ MaxTexts \in Nat \ {0} /\ MaxBus \in Nat \ {0}
  /\ MaxReplay \in Nat /\ MaxLost \in Nat /\ MaxRestarts \in Nat
  /\ None \notin Ratings

VARIABLES
  status, open, escalated, decided,   \* the moderation gate
  text,        \* number of the submission a rating holds
  verdict,     \* the text that moderationVerdict is about, 0 for null
  aged,        \* ratings whose createdAt is more than a day ago
  audited,     \* ratings with an ai_auto_approval_audit row
  requests,    \* *.created events of a rating that are not handled yet
  redo,        \* how many handled ones have their offset not committed yet
  stale,       \* ratings the sweep has selected and not triaged yet
  job,         \* the rating, and its text, that the analyzer has in hand
  bus,         \* verdict_computed events of a rating that are not handled yet
  replay,      \* the handled ones whose offset is not committed yet
  applying,    \* what the verdict consumer has done of the message in hand
  lost, restarts

gate     == <<status, open, escalated, decided>>
rating   == <<text, verdict, aged, audited>>
analyzer == <<requests, redo, stale, job>>
consumer == <<bus, replay, applying>>
faults   == <<lost, restarts>>
vars     == <<gate, rating, analyzer, consumer, faults>>

Gate == INSTANCE ModerationGate WITH Entity <- Ratings, Companies <- {}

Text    == 0..MaxTexts
NoJob   == [entity |-> None, text |-> 0]
Worker  == {"consumer", "sweep"}
Message == [text : Text, eligible : BOOLEAN, stalled : BOOLEAN, valid : BOOLEAN]
Idle    == [entity |-> None, step |-> "idle", entry |-> 0]

Exists(e) == status[e] \notin {"absent", "deleted"}
Lose      == lost < MaxLost /\ lost' = lost + 1 /\ UNCHANGED restarts
Restart   == restarts < MaxRestarts /\ restarts' = restarts + 1 /\ UNCHANGED lost

-----------------------------------------------------------------------------
(* Candidates and moderators.                                              *)

\* publishCreatedEvent(): best effort, after the commit.
PublishCreated(e) ==
  \/ requests' = [requests EXCEPT ![e] = @ + 1] /\ UNCHANGED faults
  \/ Lose /\ UNCHANGED requests

Create(e) ==
  /\ Gate!Submit(e)
  /\ text' = [text EXCEPT ![e] = 1]
  /\ PublishCreated(e)
  /\ UNCHANGED <<verdict, aged, audited, redo, stale, job, consumer>>

\* The new text has no verdict.
Reset(e) == verdict' = [verdict EXCEPT ![e] = 0]

Update(e) ==
  /\ status[e] # "permanently_rejected" /\ text[e] < MaxTexts
  /\ Gate!Resubmit(e)
  /\ text' = [text EXCEPT ![e] = @ + 1]
  /\ Reset(e)
  /\ PublishCreated(e)
  /\ UNCHANGED <<aged, audited, redo, stale, job, consumer>>

\* The audit row of an automatic approval restricts the deletion.
Remove(e) ==
  /\ e \notin audited
  /\ Gate!Withdraw(e)
  /\ UNCHANGED <<rating, analyzer, consumer, faults>>

Review(e, v) ==
  /\ Gate!Decide(e, v)
  /\ UNCHANGED <<rating, analyzer, consumer, faults>>

DayPasses(e) ==
  /\ Exists(e) /\ e \notin aged
  /\ aged' = aged \union {e}
  /\ UNCHANGED <<gate, text, verdict, audited, analyzer, consumer, faults>>

-----------------------------------------------------------------------------
(* The review analyzer.                                                    *)

Verdict(t, eligible) == [text |-> t, eligible |-> eligible, stalled |-> FALSE, valid |-> TRUE]
Stalled == [text |-> 0, eligible |-> FALSE, stalled |-> TRUE, valid |-> TRUE]

\* requestVerdict() passes on an answer of the LLM that has no numeric confidence; the
\* event built of it does not fit the schema of the api.
NoConfidence(t) == [text |-> t, eligible |-> FALSE, stalled |-> FALSE, valid |-> FALSE]

\* What becomes of the LLM's answers about a text, each of them a verdict to publish.
Answers(t) == {Verdict(t, TRUE), Verdict(t, FALSE), NoConfidence(t)}

\* VerdictPublisher.publish(): an event is dropped while the broker is away.
Publish_Mutant(e, m) ==
  /\ Len(bus[e]) < MaxBus
  /\ bus' = [bus EXCEPT ![e] = <<m>> \o @] /\ UNCHANGED faults
Publish(e, m) ==
  /\ Len(bus[e]) < MaxBus
  /\ \/ bus' = [bus EXCEPT ![e] = Append(@, m)] /\ UNCHANGED faults
     \/ Lose /\ UNCHANGED bus

\* computeVerdict(): the content is fetched now, the LLM answers later.
Fetch(w, e)  == job' = [job EXCEPT ![w] = [entity |-> e, text |-> text[e]]]
PutDown(w)   == job' = [job EXCEPT ![w] = NoJob]
Handled(e)   == /\ requests' = [requests EXCEPT ![e] = @ - 1]
                /\ \/ redo' = [redo EXCEPT ![e] = 0]
                   \/ redo[e] < MaxReplay /\ redo' = [redo EXCEPT ![e] = @ + 1]

ConsumeCreated(e) ==
  /\ job["consumer"] = NoJob /\ requests[e] > 0
  /\ IF Exists(e) THEN Fetch("consumer", e) /\ UNCHANGED <<requests, redo>>
                  ELSE Handled(e) /\ UNCHANGED job
  /\ UNCHANGED <<gate, rating, stale, consumer, faults>>

\* No answer of the LLM (an error, a refusal): the consumer publishes nothing.
PublishVerdict ==
  LET j == job["consumer"]
  IN /\ j.entity # None
     /\ \/ \E m \in Answers(j.text) : Publish(j.entity, m)
        \/ UNCHANGED <<bus, faults>>
     /\ Handled(j.entity) /\ PutDown("consumer")
     /\ UNCHANGED <<gate, rating, stale, replay, applying>>

StaleIds_Mutant == {e \in Ratings : status[e] = "pending" /\ verdict[e] = 0}
StaleIds == {e \in aged : status[e] = "pending" /\ verdict[e] = 0}

Sweep ==
  /\ stale = {} /\ job["sweep"] = NoJob
  /\ StaleIds # {} /\ stale' = StaleIds
  /\ UNCHANGED <<gate, rating, requests, redo, job, consumer, faults>>

ReconcileOne(e) ==
  /\ job["sweep"] = NoJob /\ e \in stale
  /\ stale' = stale \ {e}
  /\ IF Exists(e) THEN Fetch("sweep", e) ELSE UNCHANGED job
  /\ UNCHANGED <<gate, rating, requests, redo, consumer, faults>>

\* Without an answer the sweep asks for a flag, unless the rating is gone.
Escalate_Mutant(e) == UNCHANGED <<bus, faults>>
Escalate(e) == IF Exists(e) THEN Publish(e, Stalled) ELSE UNCHANGED <<bus, faults>>

PublishSwept ==
  LET j == job["sweep"]
  IN /\ j.entity # None
     /\ \/ \E m \in Answers(j.text) : Publish(j.entity, m)
        \/ Escalate(j.entity)
     /\ PutDown("sweep")
     /\ UNCHANGED <<gate, rating, requests, redo, stale, replay, applying>>

AnalyzerRestarts ==
  /\ Restart
  /\ job' = [w \in Worker |-> NoJob] /\ stale' = {}
  /\ requests' = [e \in Ratings |-> requests[e] + redo[e]]
  /\ redo' = [e \in Ratings |-> 0]
  /\ UNCHANGED <<gate, rating, consumer>>

-----------------------------------------------------------------------------
(* The verdict consumer of the api.                                        *)

\* The message in hand: the first one, which stays on the bus until it is done.
InHand(e) == Head(bus[e])

Done(e) == /\ applying' = Idle
           /\ bus' = [bus EXCEPT ![e] = Tail(@)]
           /\ \/ replay' = [replay EXCEPT ![e] = << >>]
              \/ Len(replay[e]) < MaxReplay /\ replay' = [replay EXCEPT ![e] = Append(@, InHand(e))]

GoOn(e, s, i) == applying' = [entity |-> e, step |-> s, entry |-> i] /\ UNCHANGED <<bus, replay>>

\* storeVerdict(): whatever the rating's text is by now; it fails if it is gone.  An
\* event that does not fit the schema is logged and skipped before that.
StoreVerdict(e) ==
  /\ applying = Idle /\ bus[e] # << >> /\ ~InHand(e).stalled
  /\ IF InHand(e).valid /\ Exists(e)
       THEN /\ verdict' = [verdict EXCEPT ![e] = InHand(e).text]
            /\ IF InHand(e).eligible THEN GoOn(e, "find", 0) ELSE Done(e)
       ELSE Done(e) /\ UNCHANGED verdict
  /\ UNCHANGED <<gate, text, aged, audited, analyzer, faults>>

\* autoApprove() and escalateStalled() look up the entry to review; only the
\* first one leaves an escalated entry alone.
Suitable_Mutant(e) == e \in open
Suitable(e) == e \in open /\ (e \in escalated => InHand(e).stalled)

FindEntry(e) ==
  /\ \/ applying.entity = e /\ applying.step = "find"
     \/ applying = Idle /\ bus[e] # << >> /\ InHand(e).stalled
  /\ IF Suitable(e) THEN GoOn(e, "decide", text[e]) ELSE Done(e)
  /\ UNCHANGED <<gate, rating, analyzer, faults>>

\* approveWithAudit() and flag() decide that very entry, or fail if it is decided
\* or gone.
Decision(e) == IF InHand(e).stalled THEN "flagged" ELSE "approved"

DecideEntry ==
  LET e == applying.entity
  IN /\ applying.step = "decide"
     /\ IF e \in open /\ text[e] = applying.entry
          THEN /\ Gate!Decide(e, Decision(e))
               /\ audited' = IF InHand(e).stalled THEN audited ELSE audited \union {e}
          ELSE UNCHANGED <<gate, audited>>
     /\ Done(e)
     /\ UNCHANGED <<text, verdict, aged, analyzer, faults>>

\* handleMessage() catches every error and does not retry.
HandlerFails(e) ==
  /\ Lose /\ bus[e] # << >> /\ (applying = Idle \/ applying.entity = e)
  /\ Done(e)
  /\ UNCHANGED <<gate, rating, analyzer>>

ApiRestarts ==
  /\ Restart
  /\ applying' = Idle
  /\ bus' = [e \in Ratings |-> replay[e] \o bus[e]]
  /\ replay' = [e \in Ratings |-> << >>]
  /\ UNCHANGED <<gate, rating, analyzer>>

-----------------------------------------------------------------------------
Init ==
  /\ Gate!Init
  /\ text = [e \in Ratings |-> 0] /\ verdict = [e \in Ratings |-> 0]
  /\ aged = {} /\ audited = {} /\ stale = {}
  /\ requests = [e \in Ratings |-> 0] /\ redo = [e \in Ratings |-> 0]
  /\ job = [w \in Worker |-> NoJob]
  /\ bus = [e \in Ratings |-> << >>] /\ replay = [e \in Ratings |-> << >>]
  /\ applying = Idle
  /\ lost = 0 /\ restarts = 0

People(e) ==
  \/ Create(e) \/ Update(e) \/ Remove(e)
  \/ \E v \in {"approved", "rejected", "flagged", "permanently_rejected"} : Review(e, v)

Next ==
  \/ \E e \in Ratings :
       \/ People(e) \/ DayPasses(e)
       \/ ConsumeCreated(e) \/ ReconcileOne(e)
       \/ StoreVerdict(e) \/ FindEntry(e) \/ HandlerFails(e)
  \/ PublishVerdict \/ Sweep \/ PublishSwept \/ AnalyzerRestarts
  \/ DecideEntry \/ ApiRestarts

Spec == Init /\ [][Next]_vars

\* Time passes, the services run, and the sweep comes back every hour.  Nothing
\* is assumed of candidates, moderators or the answers of the LLM.
ServicesRun ==
  /\ \A e \in Ratings :
       /\ WF_vars(DayPasses(e)) /\ WF_vars(ReconcileOne(e))
       /\ WF_vars(StoreVerdict(e)) /\ WF_vars(FindEntry(e))
  /\ WF_vars(Sweep) /\ WF_vars(PublishSwept) /\ WF_vars(DecideEntry)

FairSpec == Spec /\ ServicesRun

-----------------------------------------------------------------------------
(* Properties.                                                             *)

GateTyped     == DOMAIN status = Ratings /\ open \subseteq Ratings /\ escalated \subseteq Ratings
RatingTyped   == /\ text \in [Ratings -> Text] /\ verdict \in [Ratings -> Text]
                 /\ aged \subseteq Ratings /\ audited \subseteq Ratings
AnalyzerTyped == /\ requests \in [Ratings -> Nat] /\ redo \in [Ratings -> Nat] /\ stale \subseteq Ratings
                 /\ job \in [Worker -> [entity : Ratings \union {None}, text : Text]]
ConsumerTyped == /\ bus \in [Ratings -> Seq(Message)] /\ replay \in [Ratings -> Seq(Message)]
                 /\ applying \in [entity : Ratings \union {None}, step : {"idle", "find", "decide"},
                                  entry : Text]
FaultsTyped   == lost \in Nat /\ restarts \in Nat

\* Every column, event and worker has a value of its kind: no event is handled that
\* was not published.
TypeOK == GateTyped /\ RatingTyped /\ AnalyzerTyped /\ ConsumerTyped /\ FaultsTyped

Automation == applying.step = "decide" /\ applying' = Idle /\ UNCHANGED faults

\* The lifetime cap takes a rating out of the reach of automation: an escalated
\* entry is never approved by the consumer, not even if it took the place of the
\* entry that the consumer looked up.
AutomationSparesEscalated ==
  [][\A e \in Ratings : Automation /\ e \in escalated => status'[e] # "approved"]_vars

\* The verdict a moderator sees is never replaced by one on an earlier text, as
\* long as the sweep does not take part (the first day of a rating) and no restart
\* replays events: the order of a rating's events is kept through both services,
\* whatever is edited, lost or left unanswered.
YoungVerdictsAdvance ==
  [][\A e \in Ratings : e \notin aged /\ restarts = 0
       => verdict'[e] = 0 \/ verdict'[e] >= verdict[e]]_vars

\* The sweep waits a day for the normal path: automation flags nothing younger.
StalledFlagIsLate ==
  [][\A e \in Ratings : Automation /\ status[e] = "pending" /\ status'[e] = "flagged" => e \in aged]_vars

Untriaged(e) == status[e] = "pending" /\ verdict[e] = 0
Unfit(e)     == \E k \in 1..Len(bus[e]) : ~bus[e][k].valid

\* The sweep closes the gap of lost events and failed triage: a rating stays pending
\* without a verdict, whichever events are lost, only if the losses never end or the
\* LLM never stops to answer without a confidence.
OnlyUnfitAnswersLeaveUntriaged == \A e \in Ratings : <>[]Untriaged(e) => []<>Unfit(e)

\* Not a promise of the code (see the README): that the sweep re-triages or flags every
\* rating.  DECISIONS.md D71: "Reconciliation sweep re-triages/escalates any pending row
\* older than 24h with no verdict"; an answer without a confidence is neither.
NoRatingIsLeftUntriaged == \A e \in Ratings : Untriaged(e) ~> ~Untriaged(e)

\* Not a promise of the code (see the README): that an automatic approval rests on
\* a verdict on the very text it approves.  DECISIONS.md D81: since an edit resets
\* the verdict, "an edited row can no longer keep showing a stale pre-edit verdict
\* (or be auto-approved against one)".
AutoApprovedTextWasTriaged ==
  [][\A e \in Ratings : Automation /\ applying.entity = e /\ status'[e] = "approved"
       => status[e] = "approved" \/ InHand(e).text = text[e]]_vars

-----------------------------------------------------------------------------
(* The inductive invariant behind the safety properties.                   *)

\* A rating with an open submission is pending; only open submissions are escalated.
OpenIsPending == escalated \subseteq open /\ \A e \in open : status[e] = "pending"

AbsentHasNoText == \A e \in Ratings : status[e] = "absent" => text[e] = 0

\* The analyzer's consumer has a rating in hand only while its event is not handled.
ConsumesARequest == \A e \in Ratings : job["consumer"].entity = e => requests[e] > 0

\* The message the api has in hand is the first one of its rating.  The entry looked
\* up for an approval is of some earlier or the current text, and as long as it is
\* the one to review it is not escalated.
LooksUpEntries ==
  LET e == applying.entity
  IN applying # Idle =>
       /\ e # None /\ applying.step # "idle" /\ bus[e] # << >>
       /\ applying.step = "find" => ~InHand(e).stalled
       /\ applying.step = "decide" =>
            /\ applying.entry <= text[e]
            /\ InHand(e).stalled \/ e \notin escalated \/ text[e] # applying.entry

\* The sweep has not touched a young rating.
Unflagged(s) == \A k \in 1..Len(s) : ~s[k].stalled
SweepIsLate ==
  /\ stale \subseteq aged /\ job["sweep"].entity \in aged \union {None}
  /\ \A e \in Ratings \ aged : Unflagged(bus[e]) /\ Unflagged(replay[e])

\* The verdicts on a young rating advance from the row over the bus to the analyzer.
InOrder(e) ==
  /\ verdict[e] <= text[e]
  /\ \A k \in 1..Len(bus[e]) : verdict[e] <= bus[e][k].text /\ bus[e][k].text <= text[e]
  /\ \A k, l \in 1..Len(bus[e]) : k <= l => bus[e][k].text <= bus[e][l].text
  /\ job["consumer"].entity = e =>
       /\ verdict[e] <= job["consumer"].text /\ job["consumer"].text <= text[e]
       /\ \A k \in 1..Len(bus[e]) : bus[e][k].text <= job["consumer"].text

VerdictsInOrder == restarts = 0 => \A e \in Ratings \ aged : InOrder(e)

PipelineInv == /\ TypeOK /\ OpenIsPending /\ AbsentHasNoText /\ ConsumesARequest
               /\ LooksUpEntries /\ SweepIsLate /\ VerdictsInOrder
===============================================================================
