-------------------------------- MODULE Notices --------------------------------
(***************************************************************************)
(* E-mails of the notification service.  The api announces submissions,    *)
(* decisions, deadlines (module Deadlines) and staff actions on an event   *)
(* bus; the service mails each announcement and logs the mail.  An hourly  *)
(* sweep of its own mails what the events have missed.                     *)
(*                                                                         *)
(* Requests to the moderation gate are the atomic operations of            *)
(* ModerationGate; what they announce after their commit waits on the bus  *)
(* for as long as it may.  Each query of the consumer and of the sweep is  *)
(* a step of its own.                                                      *)
(*                                                                         *)
(* An announcement is identified by the key of its row in the log.  Those  *)
(* of different keys do not affect each other, so the bus is a bag: they   *)
(* may be consumed in any order, not just in that of their topics.  The    *)
(* consumer commits its offsets now and then, so that a restart delivers   *)
(* the message in hand and some handled ones again.  A ..._Mutant is the   *)
(* definition after it with a bug in it; no action uses it.                *)
(***************************************************************************)
EXTENDS Integers

CONSTANTS
  Ratings,      \* rated entities: the ones the sweep looks at
  Companies,    \* requests for a company: announced, but not swept
  Cap,          \* LIFETIME_RESUBMISSION_CAP
  MaxEntries,   \* bound on the submissions of an entity
  Broadcasts,   \* alarms about queue entries and actions on staff accounts
  Topics,       \* sets of kinds of announcements: a behaviour follows one of them
  MaxRepeats,   \* bound on the announcements of an alarm
  MaxReplay,    \* bound on the handled messages of a key that a restart replays
  MaxFaults,    \* bound on lost events, failed mails and writes, and restarts
  None

Entity == Ratings \union Companies

ASSUME NoticeConstants ==
  /\ Cap \in Nat \ {0} /\ MaxEntries \in Nat \ {0}
  /\ MaxRepeats \in Nat /\ MaxReplay \in Nat /\ MaxFaults \in Nat

VARIABLES
  followed,    \* the kinds of announcements this behaviour is about, fixed from the start
  status, open, escalated, decided,   \* the moderation gate
  last,        \* number of the latest queue entry of an entity
  outcome,     \* the decisions on the entries of moderation_queue
  stale,       \* decided entries whose reviewedAt is more than an hour ago
  erased,      \* entities whose candidate is gone
  bus,         \* published messages that are not handled yet, by key
  redo,        \* the handled ones whose offset is not committed yet
  job,         \* the mail that the consumer and the sweep have in hand
  missed,      \* keys that the sweep has selected and not dealt with yet
  sent, told,  \* mails sent about a key, and the decisions they told
  log,         \* notification_log
  faults

gate   == <<status, open, escalated, decided>>
queue  == <<last, outcome, stale, erased>>
broker == <<bus, redo>>
mails  == <<sent, told>>
vars   == <<followed, gate, queue, broker, job, missed, mails, log, faults>>

Gate == INSTANCE ModerationGate

Number   == 1..MaxEntries
EntryId  == Entity \X Number
Outcome  == {"approved", "rejected", "flagged", "permanently_rejected"}
Decision == Outcome \union {"none"}
Worker   == {"consumer", "sweep"}

\* The key of notification_log: entityTypeFor(), entityIdFor(), the event's type and
\* moderationQueueEntryIdFor().  The first submission of an entity has number 1.
Key == [kind : {"created", "decided"}, of : Entity, nr : Number]
         \union [kind : {"broadcast"}, of : Broadcasts, nr : {0}]
K(kind, i)   == [kind |-> kind, of |-> i[1], nr |-> i[2]]
Broadcast(b) == [kind |-> "broadcast", of |-> b, nr |-> 0]

Exists(e) == status[e] \notin {"absent", "deleted"}
Fault     == faults < MaxFaults /\ faults' = faults + 1

\* DomainEventPublisher.publish(): an event is dropped while the broker is away, and
\* the caller does not learn of it.
Silent     == UNCHANGED <<broker, faults>>
Publish(k) == IF k.kind \notin followed THEN Silent ELSE
              \/ bus' = [bus EXCEPT ![k] = @ + 1] /\ UNCHANGED <<redo, faults>>
              \/ Fault /\ UNCHANGED broker

-----------------------------------------------------------------------------
(* Candidates, moderators, administrators and the sweep of the deadlines.  *)

NextEntry(e) == <<e, last[e] + 1>>
Enqueue(e) ==
  /\ last[e] < MaxEntries /\ last' = [last EXCEPT ![e] = @ + 1]
  /\ UNCHANGED <<outcome, stale, erased, job, missed, mails, log>>

Create(e) == Gate!Submit(e) /\ Enqueue(e) /\ Publish(K("created", NextEntry(e)))

\* The update of a company is not announced.
Update(e) ==
  /\ IF e \in Companies THEN status[e] # "approved" ELSE status[e] # "permanently_rejected"
  /\ Gate!Resubmit(e) /\ Enqueue(e)
  /\ IF e \in Ratings THEN Publish(K("created", NextEntry(e))) ELSE Silent

\* remove(), or eraseMe() of the candidate: the queue entries go too.
Remove(e) ==
  /\ Gate!Withdraw(e)
  /\ erased' \in {erased, erased \union {e}}
  /\ UNCHANGED <<last, outcome, stale, broker, job, missed, mails, log, faults>>

Decide(e, v) ==
  /\ Gate!Decide(e, v)
  /\ outcome' = [outcome EXCEPT ![<<e, last[e]>>] = v]
  /\ Publish(K("decided", <<e, last[e]>>))
  /\ UNCHANGED <<last, stale, erased, job, missed, mails, log>>

\* SlaBreachDetectionService and StaffAccountsService.
Alarm(b) ==
  /\ "broadcast" \in followed /\ bus[Broadcast(b)] < MaxRepeats /\ Publish(Broadcast(b))
  /\ UNCHANGED <<gate, queue, job, missed, mails, log>>

HourPasses(i) ==
  /\ outcome[i] # "none" /\ i \notin stale
  /\ stale' = stale \union {i}
  /\ UNCHANGED <<gate, last, outcome, erased, broker, job, missed, mails, log, faults>>

-----------------------------------------------------------------------------
(* The notification service.                                               *)

Idle == [key |-> None, tells |-> "none", step |-> "idle"]

\* notificationFor(): a decision other than approved or rejected is not mailed.
Mailable_Mutant(decision) == decision # "flagged"
Mailable(decision) == decision \in {"approved", "rejected"}

\* A moderator's row stays, and there is always an active admin; a candidate may go.
HasRecipient(k) == k.of \notin erased

\* What is logged, is not to be mailed, or has no recipient is left, without a log row.
Due_Mutant(k, d) == (k.kind = "decided" => Mailable(d)) /\ HasRecipient(k)
Due(k, d) == k \notin log /\ (k.kind = "decided" => Mailable(d)) /\ HasRecipient(k)

Begin(w, k, d) == job' = [job EXCEPT ![w] = [key |-> k, tells |-> d, step |-> "send"]]

\* The message is handled, whatever came of it.
Handled(k) ==
  /\ bus' = [bus EXCEPT ![k] = @ - 1]
  /\ \/ redo' = [redo EXCEPT ![k] = 0]
     \/ redo[k] < MaxReplay /\ redo' = [redo EXCEPT ![k] = @ + 1]

\* processEvent() and its counterparts up to the mail.
EventTells(k) == IF k.kind = "decided" THEN outcome[<<k.of, k.nr>>] ELSE "none"

Consume(k) ==
  /\ job["consumer"] = Idle /\ bus[k] > 0
  /\ IF Due(k, EventTells(k))
       THEN Begin("consumer", k, EventTells(k)) /\ UNCHANGED broker
       ELSE Handled(k) /\ UNCHANGED job
  /\ UNCHANGED <<gate, queue, missed, mails, log, faults>>

\* ReconciliationSweepService: decisions of more than an hour ago, then submissions;
\* which of these were created in the past day but not in the past hour is left open.
DecidedKeys_Mutant == {K("decided", i) : i \in {i \in EntryId \ stale : outcome[i] # "none"}}
DecidedKeys == {K("decided", i) : i \in {i \in stale : i[1] \in Ratings /\ Exists(i[1])}}
CreatedKeys == {K("created", <<e, 1>>) : e \in {e \in Ratings : Exists(e)}}

Followed(keys) == {k \in keys : k.kind \in followed}
NoneMissed == [half |-> "created", todo |-> {}]
SelectMissed ==
  /\ missed.todo = {} /\ job["sweep"] = Idle
  /\ IF missed.half = "created"
       THEN missed' = [half |-> "decided", todo |-> Followed(DecidedKeys)]
       ELSE \E keys \in SUBSET Followed(CreatedKeys) : missed' = [half |-> "created", todo |-> keys]
  /\ UNCHANGED <<gate, queue, broker, job, mails, log, faults>>

\* The sweep has no event: it tells the status of the entity as it is now.
SweepTells_Mutant(k) == IF k.kind = "decided" THEN "rejected" ELSE "none"
SweepTells(k) == IF k.kind = "decided" THEN status[k.of] ELSE "none"

Reconcile(k) ==
  /\ k \in missed.todo /\ job["sweep"] = Idle
  /\ missed' = [missed EXCEPT !.todo = @ \ {k}]
  /\ IF Due(k, status[k.of])
       THEN Begin("sweep", k, SweepTells(k))
       ELSE UNCHANGED job
  /\ UNCHANGED <<gate, queue, broker, mails, log, faults>>

\* After the mail, or a failure.  The consumer goes on to the next message; an error
\* ends the sweep until the next hour.
Finish(w) ==
  /\ job' = [job EXCEPT ![w] = Idle]
  /\ IF w = "consumer" THEN Handled(job[w].key) ELSE UNCHANGED broker

Mail(w) ==
  LET k == job[w].key
  IN /\ sent' = [sent EXCEPT ![k] = @ + 1]
     /\ told' = IF job[w].tells = "none" THEN told ELSE told \union {<<k, job[w].tells>>}

SendMail(w) ==
  /\ job[w].step = "send" /\ Mail(w)
  /\ job' = [job EXCEPT ![w].step = "log"]
  /\ UNCHANGED <<gate, queue, broker, missed, log, faults>>

\* A row that is there already is fine.
RecordSent(w) ==
  /\ job[w].step = "log"
  /\ log' = log \union {job[w].key}
  /\ Finish(w)
  /\ UNCHANGED <<gate, queue, missed, mails, faults>>

\* The mail fails, or has reached only some of its recipients, or it is sent and the
\* row cannot be written.
HandlerFails_Mutant(w) ==
  /\ Fault /\ job[w] # Idle
  /\ log' = log \union {job[w].key}
  /\ Finish(w)
  /\ UNCHANGED <<gate, queue, missed, mails>>
HandlerFails(w) ==
  /\ Fault /\ job[w] # Idle
  /\ \/ job[w].step = "send" /\ Mail(w)
     \/ UNCHANGED mails
  /\ Finish(w)
  /\ missed' = IF w = "sweep" THEN NoneMissed ELSE missed
  /\ UNCHANGED <<gate, queue, log>>

Restart ==
  /\ Fault
  /\ job' = [w \in Worker |-> Idle]
  /\ missed' = NoneMissed
  /\ bus' = [k \in Key |-> bus[k] + redo[k]]
  /\ redo' = [k \in Key |-> 0]
  /\ UNCHANGED <<gate, queue, mails, log>>

-----------------------------------------------------------------------------
Init ==
  /\ followed \in Topics
  /\ Gate!Init
  /\ last = [e \in Entity |-> 0] /\ outcome = [i \in EntryId |-> "none"]
  /\ stale = {} /\ erased = {}
  /\ bus = [k \in Key |-> 0] /\ redo = [k \in Key |-> 0]
  /\ job = [w \in Worker |-> Idle] /\ missed = NoneMissed
  /\ sent = [k \in Key |-> 0] /\ told = {} /\ log = {}
  /\ faults = 0

Mails(w)  == SendMail(w) \/ RecordSent(w)
HoursPass == \E i \in EntryId : HourPasses(i)
Sweep     == SelectMissed \/ Mails("sweep") \/ \E k \in Key : Reconcile(k)

Step ==
  \/ \E e \in Entity :
       \/ Create(e) \/ Update(e) \/ Remove(e)
       \/ \E v \in Outcome : Decide(e, v)
  \/ \E b \in Broadcasts : Alarm(b)
  \/ \E k \in Key : Consume(k)
  \/ Mails("consumer") \/ Sweep \/ HoursPass
  \/ \E w \in Worker : HandlerFails(w)
  \/ Restart

Next == Step /\ UNCHANGED followed
Spec == Init /\ [][Next]_vars

\* Time passes and the cron job runs on.  Nothing is assumed of the event bus, its
\* consumer, candidates or moderators.
FairSpec == Spec /\ WF_vars(HoursPass /\ UNCHANGED followed) /\ WF_vars(Sweep /\ UNCHANGED followed)

-----------------------------------------------------------------------------
(* Properties.                                                             *)

\* Every row, message, mail and counter has a value of its kind; above all no worker
\* handles a message that is not there, and no mail tells a status that is no decision.
TypeOK ==
  /\ DOMAIN status = Entity /\ open \subseteq Entity
  /\ last \in [Entity -> 0..MaxEntries] /\ outcome \in [EntryId -> Decision]
  /\ stale \subseteq EntryId /\ erased \subseteq Entity
  /\ bus \in [Key -> Nat] /\ redo \in [Key -> Nat]
  /\ job \in [Worker -> [key : Key \union {None}, tells : Decision, step : {"idle", "send", "log"}]]
  /\ missed \in [half : {"created", "decided"}, todo : SUBSET Key]
  /\ sent \in [Key -> Nat] /\ told \subseteq Key \X Outcome /\ log \subseteq Key
  /\ faults \in Nat

\* The log suppresses a mail only if it was sent: neither a failure, a restart between
\* the mail and its row, nor the other worker makes a row without a mail.
LoggedWasMailed == \A k \in log : sent[k] > 0

\* Mails are repeated by faults only: each worker mails a key once, and once more for a
\* restart or a failure in the gap between a mail and its row.  Only what the sweep
\* looks at can be mailed by both.
Mailers(k) == IF k.kind = "decided" \/ k.nr = 1 THEN 2 ELSE 1
MailsAreBounded == \A k \in Key : sent[k] <= Mailers(k) * (faults + 1)

\* A mail about an entry tells the decision on it or on a later submission of the same
\* entity, though the sweep does not look at the entry's own.
MailTellsADecision ==
  \A t \in told : \E m \in Number : m >= t[1].nr /\ outcome[<<t[1].of, m>>] = t[2]

\* Nothing but the candidate's own steps keeps a decision on a rating from its mail,
\* whichever events are lost and however often the service fails, as long as that ends.
Standing(i) == "decided" \in followed /\ Mailable(outcome[i]) /\ Mailable(status[i[1]])
DecisionIsMailed == \A i \in Ratings \X Number :
  Standing(i) ~> K("decided", i) \in log \/ ~Standing(i)
===============================================================================
