----------------------------- MODULE NoticeProofs -----------------------------
(***************************************************************************)
(* What is mailed and logged, for any number of entities, submissions,     *)
(* alarms, replays and faults, whatever the announcements of interest; and *)
(* the alarms about deadlines, for any number of replicas, entries and     *)
(* faults.                                                                 *)
(***************************************************************************)
EXTENDS MCNotices, FiniteSetTheorems, TLAPS

-----------------------------------------------------------------------------
(* Notices.                                                                *)

(* The inductive invariant.                                                *)

\* The decisions in moderation_queue are those of past submissions, and the status of a
\* decided entity is the decision on its latest one.
QueueInv ==
  /\ \A e \in Entity, n \in Number : outcome[<<e, n>>] # "none" => n <= last[e]
  /\ \A e \in open : last[e] \in Number /\ outcome[<<e, last[e]>>] = "none"
  /\ \A e \in Entity : status[e] \in Outcome => last[e] \in Number /\ outcome[<<e, last[e]>>] = status[e]
  /\ \A i \in stale : outcome[i] # "none"

\* A decision that is told was made (in o) on the entry, or on a later one.
Tells(o, k, d) ==
  d # "none" => k.kind = "decided" /\ \E m \in Number : m >= k.nr /\ o[<<k.of, m>>] = d

\* The sweep looks at first submissions and at decisions.
Swept(o, k) == Mailers(k) = 2 /\ (k.kind = "decided" => o[<<k.of, k.nr>>] # "none")

JobInv ==
  /\ \A w \in Worker : job[w] = Idle \/ (job[w].key \in Key /\ job[w].step \in {"send", "log"})
  /\ \A w \in Worker : job[w] # Idle => Tells(outcome, job[w].key, job[w].tells)
  /\ \A w \in Worker : job[w].step = "log" => sent[job[w].key] > 0
  /\ job["consumer"] # Idle => bus[job["consumer"].key] > 0
  /\ job["sweep"] # Idle => Mailers(job["sweep"].key) = 2
  /\ \A k \in missed.todo : Swept(outcome, k)

\* A mail that no row follows costs a fault; those after the row had begun before it.
At(w, k, s) == IF job[w].key = k /\ job[w].step = s THEN 1 ELSE 0
Bound(k) ==
  /\ k \notin log => sent[k] <= Mailers(k) * faults + At("consumer", k, "log") + At("sweep", k, "log")
  /\ k \in log =>
       sent[k] + At("consumer", k, "send") + At("sweep", k, "send") <= Mailers(k) * faults + Mailers(k)
MailInv == LoggedWasMailed /\ (\A t \in told : Tells(outcome, t[1], t[2])) /\ \A k \in Key : Bound(k)

NoticeInv == TypeOK /\ QueueInv /\ JobInv /\ MailInv

(* Keys and messages.                                                      *)

LEMMA Keys ==
  /\ \A i \in EntryId : K("created", i) \in Key /\ K("decided", i) \in Key
  /\ \A b \in Broadcasts : Broadcast(b) \in Key
  /\ \A k \in Key : Mailers(k) \in {1, 2} /\ (k.kind = "decided" => k.of \in Entity /\ k.nr \in Number)
  BY DEF EntryId, K, Broadcast, Key, Mailers

LEMMA PublishKeeps ==
  ASSUME TypeOK, NEW k \in Key, Publish(k) \/ Silent
  PROVE  /\ bus' \in [Key -> Nat] /\ redo' \in [Key -> Nat] /\ faults' \in Nat /\ faults' >= faults
         /\ \A x \in Key : bus'[x] >= bus[x]
  BY DEF TypeOK, Publish, Silent, Fault, broker

\* A message that is handled was on the bus.
LEMMA HandledKeeps ==
  ASSUME TypeOK, NEW k \in Key, bus[k] > 0, Handled(k)
  PROVE  bus' \in [Key -> Nat] /\ redo' \in [Key -> Nat]
  BY DEF TypeOK, Handled

(* Requests and time.                                                      *)

\* What happens to the queue leaves the mails alone.
LEMMA QueueStep ==
  ASSUME NoticeInv, TypeOK', QueueInv', UNCHANGED <<job, missed, mails, log>>, faults' >= faults,
         \A k \in Key : bus'[k] >= bus[k],
         \A i \in EntryId : outcome[i] # "none" => outcome'[i] = outcome[i]
  PROVE  NoticeInv'
  <1> USE DEF mails
  <1>1. /\ bus \in [Key -> Nat] /\ bus' \in [Key -> Nat] /\ faults \in Nat /\ faults' \in Nat
        /\ sent \in [Key -> Nat] /\ missed.todo \subseteq Key /\ told \subseteq Key \X Outcome
        /\ log \subseteq Key
    BY DEF NoticeInv, TypeOK
  <1>2. \A k \in Key, d \in Decision : Tells(outcome, k, d) => Tells(outcome', k, d)
    BY Keys DEF Tells, EntryId, Decision, NoticeInv, TypeOK
  <1>3. \A k \in Key : Swept(outcome, k) => Swept(outcome', k)
    BY Keys DEF Swept, EntryId, Mailers
  <1>4. JobInv'
    <2>1. \A w \in Worker : job[w].tells \in Decision
      BY DEF NoticeInv, TypeOK
    <2>2. \A w \in Worker : job[w] # Idle => Tells(outcome', job[w].key, job[w].tells)
      <3>1. \A w \in Worker : job[w] # Idle => job[w].key \in Key /\ Tells(outcome, job[w].key, job[w].tells)
        BY DEF NoticeInv, JobInv
      <3> QED
        BY <1>2, <2>1, <3>1
    <2>3. \A k \in missed.todo : Swept(outcome', k)
      BY <1>1, <1>3 DEF NoticeInv, JobInv
    <2>4. job["consumer"] # Idle => bus'[job["consumer"].key] > 0
      BY <1>1 DEF NoticeInv, JobInv, Worker
    <2>5. job' = job /\ missed' = missed /\ sent' = sent
      OBVIOUS
    <2>6. \A w \in Worker : job'[w] # Idle => Tells(outcome', job'[w].key, job'[w].tells)
      BY <2>2, <2>5
    <2>7. /\ \A w \in Worker : job'[w] = Idle \/ (job'[w].key \in Key /\ job'[w].step \in {"send", "log"})
          /\ \A w \in Worker : job'[w].step = "log" => sent'[job'[w].key] > 0
          /\ job'["sweep"] # Idle => Mailers(job'["sweep"].key) = 2
      BY <2>5 DEF NoticeInv, JobInv
    <2> QED
      BY <2>3, <2>4, <2>5, <2>6, <2>7 DEF JobInv
  <1>5. \A t \in told' : Tells(outcome', t[1], t[2])
    <2>1. \A t \in told : t[1] \in Key /\ t[2] \in Decision /\ Tells(outcome, t[1], t[2])
      BY <1>1 DEF Decision, NoticeInv, MailInv
    <2> QED
      BY <1>2, <2>1
  <1>6. \A k \in Key : Bound(k)'
    <2> SUFFICES ASSUME NEW k \in Key PROVE Bound(k)'
      OBVIOUS
    <2>1. Bound(k) /\ Mailers(k) \in {1, 2}
      BY Keys DEF NoticeInv, MailInv
    <2>2. Mailers(k) * faults <= Mailers(k) * faults' /\ Mailers(k) * faults \in Nat
          /\ Mailers(k) * faults' \in Nat
      BY <1>1, <2>1
    <2> QED
      BY <1>1, <2>1, <2>2 DEF Bound, At, Mailers
  <1> QED
    BY <1>4, <1>5, <1>6 DEF NoticeInv, MailInv, LoggedWasMailed

\* An entry is decided once, when it is the latest one of its entity.
LEMMA QueueSteps ==
  ASSUME NoticeInv, NEW e \in Entity,
         Create(e) \/ Update(e) \/ Remove(e) \/ \E v \in Outcome : Decide(e, v)
  PROVE  NoticeInv'
  <1> USE DEF mails, queue, broker
  <1>1. /\ DOMAIN status = Entity /\ open \subseteq Entity /\ last \in [Entity -> 0..MaxEntries]
        /\ outcome \in [EntryId -> Decision] /\ stale \subseteq EntryId /\ erased \subseteq Entity
        /\ MaxEntries \in Nat \ {0} /\ faults \in Nat /\ bus \in [Key -> Nat] /\ redo \in [Key -> Nat]
    BY NoticeConstants DEF NoticeInv, TypeOK
  <1>2. QueueInv
    BY DEF NoticeInv
  <1> DEFINE Sent == /\ bus' \in [Key -> Nat] /\ redo' \in [Key -> Nat] /\ faults' \in Nat
                     /\ faults' >= faults /\ \A k \in Key : bus'[k] >= bus[k]
             Kept == \A i \in EntryId : outcome[i] # "none" => outcome'[i] = outcome[i]
             QueueTyped == /\ DOMAIN status' = Entity /\ open' \subseteq Entity
                           /\ last' \in [Entity -> 0..MaxEntries] /\ outcome' \in [EntryId -> Decision]
                           /\ stale' \subseteq EntryId /\ erased' \subseteq Entity
  <1>3. ASSUME UNCHANGED <<job, missed, mails, log>>, Sent, Kept, QueueTyped, QueueInv'
        PROVE  NoticeInv'
    <2>1. TypeOK'
      BY <1>3 DEF NoticeInv, TypeOK
    <2> QED
      BY <1>3, <2>1, QueueStep
  <1>4. \A k \in Key : Publish(k) \/ Silent => Sent
    BY PublishKeeps DEF NoticeInv
  <1>5. ASSUME Enqueue(e), status' = [status EXCEPT ![e] = "pending"], open' = open \union {e},
               Publish(K("created", NextEntry(e))) \/ Silent
        PROVE  NoticeInv'
    <2>1. /\ last[e] + 1 \in Number /\ last' = [last EXCEPT ![e] = @ + 1]
          /\ UNCHANGED <<outcome, stale, erased, job, missed, mails, log>>
      BY <1>1, <1>5 DEF Enqueue, Number
    <2>2. K("created", NextEntry(e)) \in Key
      BY <2>1, Keys DEF NextEntry, EntryId
    <2>3. last' \in [Entity -> 0..MaxEntries] /\ \A f \in Entity : last'[f] >= last[f]
      BY <1>1, <2>1 DEF Number
    <2>4. QueueInv'
      <3>1. outcome[<<e, last[e] + 1>>] = "none"
        BY <1>1, <1>2, <2>1 DEF QueueInv, Number
      <3>2. \A f \in Entity, n \in Number : outcome'[<<f, n>>] # "none" => n <= last'[f]
        BY <1>1, <1>2, <2>1, <2>3 DEF QueueInv, Number
      <3>3. \A f \in open' : last'[f] \in Number /\ outcome'[<<f, last'[f]>>] = "none"
        BY <1>1, <1>2, <1>5, <2>1, <3>1 DEF QueueInv
      <3>4. \A f \in Entity : status'[f] \in Outcome => last'[f] \in Number /\ outcome'[<<f, last'[f]>>] = status'[f]
        BY <1>1, <1>2, <1>5, <2>1 DEF QueueInv, Outcome
      <3> QED
        BY <1>2, <2>1, <3>2, <3>3, <3>4 DEF QueueInv
    <2> QED
      BY <1>1, <1>3, <1>4, <1>5, <2>1, <2>2, <2>3, <2>4
  <1>6. CASE Create(e)
    BY <1>5, <1>6 DEF Create, Gate!Submit
  <1>7. CASE Update(e)
    BY <1>5, <1>7 DEF Update, Gate!Resubmit
  <1>8. CASE Remove(e)
    <2>1. /\ status' = [status EXCEPT ![e] = "deleted"] /\ open' = open \ {e}
          /\ erased' \subseteq Entity
          /\ UNCHANGED <<last, outcome, stale, bus, redo, job, missed, mails, log, faults>>
      BY <1>1, <1>8 DEF Remove, Gate!Withdraw
    <2>2. QueueInv'
      BY <1>1, <1>2, <2>1 DEF QueueInv, Outcome
    <2> QED
      BY <1>1, <1>3, <2>1, <2>2
  <1>9. ASSUME NEW v \in Outcome, Decide(e, v) PROVE NoticeInv'
    <2> DEFINE i == <<e, last[e]>>
    <2>1. /\ e \in open /\ status' = [status EXCEPT ![e] = v] /\ open' = open \ {e}
          /\ outcome' = [outcome EXCEPT ![i] = v] /\ Publish(K("decided", i))
          /\ UNCHANGED <<last, stale, erased, job, missed, mails, log>>
      BY <1>9 DEF Decide, Gate!Decide
    <2>2. last[e] \in Number /\ outcome[i] = "none" /\ i \in EntryId
      BY <1>2, <2>1 DEF QueueInv, EntryId
    <2>3. K("decided", i) \in Key /\ v \in Decision /\ v # "none"
      BY <2>2, Keys DEF Decision, Outcome
    <2>4. outcome' \in [EntryId -> Decision] /\ Kept
      BY <1>1, <2>1, <2>2, <2>3
    <2>5. \A f \in Entity, n \in Number : <<f, n>> # i => outcome'[<<f, n>>] = outcome[<<f, n>>]
      BY <1>1, <2>1 DEF EntryId
    <2>6. QueueInv'
      <3>1. \A f \in Entity, n \in Number : outcome'[<<f, n>>] # "none" => n <= last'[f]
        BY <1>1, <1>2, <2>1, <2>2, <2>5 DEF QueueInv, Number
      <3>2. \A f \in open' : last'[f] \in Number /\ outcome'[<<f, last'[f]>>] = "none"
        BY <1>1, <1>2, <2>1, <2>5 DEF QueueInv
      <3>3. \A f \in Entity : status'[f] \in Outcome => last'[f] \in Number /\ outcome'[<<f, last'[f]>>] = status'[f]
        BY <1>1, <1>2, <2>1, <2>2, <2>5 DEF QueueInv
      <3>4. \A s \in stale' : outcome'[s] # "none"
        BY <1>1, <1>2, <2>1, <2>4 DEF QueueInv
      <3> QED
        BY <3>1, <3>2, <3>3, <3>4 DEF QueueInv
    <2> QED
      BY <1>1, <1>3, <1>4, <2>1, <2>3, <2>4, <2>6
  <1> QED
    BY <1>6, <1>7, <1>8, <1>9

\* Alarms, and time.
LEMMA OutsideSteps ==
  ASSUME NoticeInv, (\E b \in Broadcasts : Alarm(b)) \/ HoursPass
  PROVE  NoticeInv'
  <1> USE DEF mails, queue, gate, broker
  <1>1. TypeOK /\ QueueInv
    BY DEF NoticeInv
  <1>2. ASSUME NEW b \in Broadcasts, Alarm(b) PROVE NoticeInv'
    <2>1. Publish(Broadcast(b)) /\ UNCHANGED <<gate, queue, job, missed, mails, log>>
      BY <1>2 DEF Alarm
    <2>2. /\ bus' \in [Key -> Nat] /\ redo' \in [Key -> Nat] /\ faults' \in Nat /\ faults' >= faults
          /\ \A k \in Key : bus'[k] >= bus[k]
      BY <1>1, <2>1, Keys, PublishKeeps
    <2>3. TypeOK' /\ QueueInv'
      BY <1>1, <2>1, <2>2 DEF TypeOK, QueueInv
    <2> QED
      BY <2>1, <2>2, <2>3, QueueStep
  <1>3. ASSUME NEW i \in EntryId, HourPasses(i) PROVE NoticeInv'
    <2>1. TypeOK' /\ QueueInv'
      BY <1>1, <1>3 DEF HourPasses, TypeOK, QueueInv
    <2>2. bus \in [Key -> Nat] /\ faults \in Nat
      BY <1>1 DEF TypeOK
    <2> QED
      BY <1>3, <2>1, <2>2, QueueStep DEF HourPasses
  <1> QED
    BY <1>2, <1>3 DEF HoursPass

(* The consumer, the sweep, failures and restarts.                         *)

\* The two workers are at a key at most as often as it has mailers.
LEMMA MailCounts ==
  ASSUME NoticeInv, NEW k \in Key
  PROVE  /\ Bound(k) /\ Mailers(k) \in {1, 2} /\ sent[k] \in Nat /\ faults \in Nat
         /\ Mailers(k) * faults \in Nat
         /\ Mailers(k) * (faults + 1) = Mailers(k) * faults + Mailers(k)
         /\ \A w \in Worker, s \in {"log", "send"} : At(w, k, s) \in {0, 1}
         /\ At("consumer", k, "log") + At("consumer", k, "send") <= 1
         /\ At("sweep", k, "log") + At("sweep", k, "send") <= Mailers(k) - 1
  <1>1. Mailers(k) \in {1, 2} /\ Bound(k) /\ sent[k] \in Nat /\ faults \in Nat
    BY Keys DEF NoticeInv, MailInv, TypeOK
  <1>2. Mailers(k) * faults \in Nat /\ Mailers(k) * (faults + 1) = Mailers(k) * faults + Mailers(k)
    BY <1>1
  <1>3. job["sweep"].key = k /\ job["sweep"].step # "idle" => Mailers(k) = 2
    BY DEF NoticeInv, JobInv, Idle
  <1>4. At("sweep", k, "log") + At("sweep", k, "send") <= Mailers(k) - 1
    BY <1>1, <1>3 DEF At
  <1> QED
    BY <1>1, <1>2, <1>4 DEF At

\* A worker takes up a mail that is not logged.
LEMMA BeginStep ==
  ASSUME NoticeInv, NEW w \in Worker, NEW k \in Key, NEW d \in Decision, job[w] = Idle,
         Begin(w, k, d),
         k \notin log, Tells(outcome, k, d), w = "consumer" => bus[k] > 0,
             w = "sweep" => Mailers(k) = 2,
         missed' \in [half : {"created", "decided"}, todo : SUBSET Key],
             missed'.todo \subseteq missed.todo,
         UNCHANGED <<gate, queue, broker, mails, log, faults>>
  PROVE  NoticeInv'
  <1> USE DEF gate, queue, broker, mails
  <1>1. /\ job' = [job EXCEPT ![w] = [key |-> k, tells |-> d, step |-> "send"]]
        /\ job'[w] = [key |-> k, tells |-> d, step |-> "send"] /\ \A v \in Worker \ {w} : job'[v] = job[v]
    BY DEF Begin, NoticeInv, TypeOK
  <1>2. TypeOK'
    BY <1>1 DEF NoticeInv, TypeOK
  <1>3. JobInv'
    <2>1. \A v \in Worker : job'[v] = Idle \/ (job'[v].key \in Key /\ job'[v].step \in {"send", "log"})
      BY <1>1 DEF NoticeInv, JobInv
    <2>2. \A v \in Worker : job'[v] # Idle => Tells(outcome, job'[v].key, job'[v].tells)
      BY <1>1 DEF NoticeInv, JobInv
    <2>3. \A v \in Worker : job'[v].step = "log" => sent[job'[v].key] > 0
      BY <1>1 DEF NoticeInv, JobInv
    <2>4. /\ job'["consumer"] # Idle => bus[job'["consumer"].key] > 0
          /\ job'["sweep"] # Idle => Mailers(job'["sweep"].key) = 2
      BY <1>1 DEF NoticeInv, JobInv, Worker
    <2> QED
      BY <2>1, <2>2, <2>3, <2>4 DEF NoticeInv, JobInv
  <1>4. ASSUME NEW x \in Key PROVE Bound(x)'
    <2>1. At("consumer", x, "log")' = At("consumer", x, "log")
          /\ At("sweep", x, "log")' = At("sweep", x, "log")
      BY <1>1 DEF At, Worker, Idle
    <2>2. x # k => \A v \in Worker : At(v, x, "send")' = At(v, x, "send")
      BY <1>1 DEF At, Idle
    <2> QED
      BY <2>1, <2>2, MailCounts DEF Bound, Worker
  <1> QED
    BY <1>2, <1>3, <1>4 DEF NoticeInv, QueueInv, MailInv, LoggedWasMailed

LEMMA ConsumeStep ==
  ASSUME NoticeInv, NEW k \in Key, Consume(k)
  PROVE  NoticeInv'
  <1> DEFINE d == EventTells(k)
  <1>1. job["consumer"] = Idle /\ bus[k] > 0 /\ TypeOK
    BY DEF Consume, NoticeInv
  <1>2. CASE Due(k, d)
    <2>1. d \in Decision /\ Tells(outcome, k, d)
      <3>1. CASE k.kind = "decided"
        <4>1. k.of \in Entity /\ k.nr \in Number /\ k.nr >= k.nr
          BY <3>1, Keys, NoticeConstants DEF Number
        <4>2. d = outcome[<<k.of, k.nr>>] /\ d \in Decision
          BY <1>1, <3>1, <4>1 DEF EventTells, TypeOK, EntryId
        <4> QED
          BY <3>1, <4>1, <4>2 DEF Tells
      <3>2. CASE k.kind # "decided"
        BY <3>2 DEF EventTells, Tells, Decision
      <3> QED
        BY <3>1, <3>2
    <2>2. Begin("consumer", k, d) /\ UNCHANGED <<gate, queue, broker, missed, mails, log, faults>>
      BY <1>2 DEF Consume
    <2>3. k \notin log /\ missed' \in [half : {"created", "decided"}, todo : SUBSET Key]
      BY <1>1, <1>2, <2>2 DEF Due, TypeOK
    <2> QED
      BY <1>1, <2>1, <2>2, <2>3, BeginStep DEF Worker
  <1>3. CASE ~Due(k, d)
    <2>1. Handled(k) /\ UNCHANGED <<job, gate, queue, missed, mails, log, faults>>
      BY <1>3 DEF Consume
    <2>2. TypeOK'
      BY <1>1, <2>1, HandledKeeps DEF TypeOK, gate, queue, mails
    <2>3. JobInv'
      BY <1>1, <2>1 DEF NoticeInv, JobInv, queue, mails
    <2> QED
      BY <2>1, <2>2, <2>3
      DEF NoticeInv, QueueInv, MailInv, LoggedWasMailed, Bound, At, queue, gate, mails
  <1> QED
    BY <1>2, <1>3

\* The sweep selects first submissions and decisions; the status of a decided entity tells
\* the decision on its latest submission.
LEMMA SelectSteps ==
  ASSUME NoticeInv, SelectMissed \/ \E k \in Key : Reconcile(k)
  PROVE  NoticeInv'
  <1> USE DEF gate, queue, broker, mails
  <1>1. TypeOK /\ QueueInv /\ JobInv
    BY DEF NoticeInv
  <1>2. ASSUME missed' \in [half : {"created", "decided"}, todo : SUBSET Key],
               \A k \in missed'.todo : Swept(outcome, k),
               UNCHANGED <<job, gate, queue, broker, mails, log, faults>>
        PROVE  NoticeInv'
    <2>1. TypeOK' /\ JobInv'
      BY <1>1, <1>2 DEF TypeOK, JobInv
    <2> QED
      BY <1>2, <2>1 DEF NoticeInv, QueueInv, MailInv, LoggedWasMailed, Bound, At
  <1>3. CASE SelectMissed
    <2>1. \A k \in DecidedKeys : k \in Key /\ Swept(outcome, k)
      <3> SUFFICES ASSUME NEW i \in stale
        PROVE K("decided", i) \in Key /\ Swept(outcome, K("decided", i))
        BY DEF DecidedKeys
      <3>1. i \in EntryId /\ i = <<i[1], i[2]>> /\ outcome[i] # "none"
        BY <1>1 DEF TypeOK, QueueInv, EntryId
      <3> QED
        BY <3>1, Keys DEF K, Swept, Mailers
    <2>2. \A k \in CreatedKeys : k \in Key /\ Swept(outcome, k)
      <3> SUFFICES ASSUME NEW e \in Ratings
                   PROVE  K("created", <<e, 1>>) \in Key /\ Swept(outcome, K("created", <<e, 1>>))
        BY DEF CreatedKeys
      <3>1. <<e, 1>> \in EntryId
        BY NoticeConstants DEF EntryId, Entity, Number
      <3> QED
        BY <3>1, Keys DEF K, Swept, Mailers
    <2>3. missed' \in [half : {"created", "decided"}, todo : SUBSET (DecidedKeys \union CreatedKeys)]
      BY <1>3 DEF SelectMissed, Followed
    <2> QED
      BY <1>2, <1>3, <2>1, <2>2, <2>3 DEF SelectMissed
  <1>4. ASSUME NEW k \in Key, Reconcile(k) PROVE NoticeInv'
    <2> DEFINE d == SweepTells(k)
    <2>1. /\ k \in missed.todo /\ job["sweep"] = Idle /\ missed' = [missed EXCEPT !.todo = @ \ {k}]
          /\ UNCHANGED <<gate, queue, broker, mails, log, faults>>
      BY <1>4 DEF Reconcile
    <2>2. /\ missed' \in [half : {"created", "decided"}, todo : SUBSET Key]
          /\ missed'.todo \subseteq missed.todo
      BY <1>1, <2>1 DEF TypeOK
    <2>3. Swept(outcome, k)
      BY <1>1, <2>1 DEF JobInv
    <2>4. CASE Due(k, status[k.of])
      <3>1. d \in Decision /\ Tells(outcome, k, d)
        <4>1. CASE k.kind = "decided"
          <5>1. k.of \in Entity /\ k.nr \in Number /\ outcome[<<k.of, k.nr>>] # "none"
            BY <2>3, <4>1, Keys DEF Swept
          <5>2. d = status[k.of] /\ d \in Outcome
            BY <2>4, <4>1 DEF Due, Mailable, SweepTells, Outcome
          <5>3. k.nr <= last[k.of] /\ last[k.of] \in Number /\ outcome[<<k.of, last[k.of]>>] = d
            BY <1>1, <5>1, <5>2 DEF QueueInv
          <5>4. last[k.of] >= k.nr
            BY <5>1, <5>3, NoticeConstants DEF Number
          <5> QED
            BY <4>1, <5>2, <5>3, <5>4 DEF Tells, Decision
        <4>2. CASE k.kind # "decided"
          BY <4>2 DEF SweepTells, Tells, Decision
        <4> QED
          BY <4>1, <4>2
      <3>2. Begin("sweep", k, d) /\ k \notin log
        BY <1>4, <2>4 DEF Reconcile, Due
      <3> QED
        BY <2>1, <2>2, <2>3, <3>1, <3>2, BeginStep DEF Worker, Swept
    <2>5. CASE ~Due(k, status[k.of])
      BY <1>1, <1>2, <1>4, <2>1, <2>2, <2>5 DEF Reconcile, JobInv
    <2> QED
      BY <2>4, <2>5
  <1> QED
    BY <1>3, <1>4

\* The mail of the job in hand.
LEMMA MailKeeps ==
  ASSUME NoticeInv, NEW w \in Worker, job[w] # Idle, Mail(w)
  PROVE  /\ job[w].key \in Key /\ sent' \in [Key -> Nat] /\ told' \subseteq Key \X Outcome
         /\ \A k \in Key : sent'[k] = IF k = job[w].key THEN sent[k] + 1 ELSE sent[k]
         /\ \A t \in told' : Tells(outcome, t[1], t[2])
  <1>1. job[w].key \in Key /\ job[w].tells \in Decision /\ Tells(outcome, job[w].key, job[w].tells)
    BY DEF NoticeInv, TypeOK, JobInv
  <1>2. sent \in [Key -> Nat] /\ told \subseteq Key \X Outcome /\ \A t \in told : Tells(outcome, t[1], t[2])
    BY DEF NoticeInv, TypeOK, MailInv
  <1> QED
    BY <1>1, <1>2 DEF Mail, Decision

LEMMA SendStep ==
  ASSUME NoticeInv, NEW w \in Worker, SendMail(w)
  PROVE  NoticeInv'
  <1> USE DEF gate, queue, broker
  <1> DEFINE k == job[w].key
  <1>1. /\ TypeOK /\ JobInv /\ job[w].step = "send" /\ job[w] # Idle /\ Mail(w)
        /\ UNCHANGED <<gate, queue, broker, missed, log, faults>>
    BY DEF SendMail, NoticeInv, Idle
  <1>2. /\ k \in Key /\ sent' \in [Key -> Nat] /\ told' \subseteq Key \X Outcome
        /\ \A x \in Key : sent'[x] = IF x = k THEN sent[x] + 1 ELSE sent[x]
        /\ \A t \in told' : Tells(outcome, t[1], t[2])
    BY <1>1, MailKeeps
  <1>3. /\ job' = [job EXCEPT ![w].step = "log"] /\ \A v \in Worker \ {w} : job'[v] = job[v]
        /\ job'[w].key = k /\ job'[w].tells = job[w].tells /\ job'[w].step = "log" /\ job'[w] # Idle
    BY <1>1 DEF SendMail, TypeOK, Idle
  <1>4. TypeOK'
    <2>1. job' \in [Worker -> [key : Key \union {None}, tells : Decision, step : {"idle", "send", "log"}]]
      BY <1>1, <1>3 DEF TypeOK
    <2> QED
      BY <1>1, <1>2, <2>1 DEF TypeOK
  <1>5. sent \in [Key -> Nat] /\ sent' \in [Key -> Nat] /\ \A x \in Key : sent'[x] >= sent[x]
    BY <1>1, <1>2 DEF TypeOK
  <1>6. JobInv'
    <2>1. \A v \in Worker : job'[v] = Idle \/ (job'[v].key \in Key /\ job'[v].step \in {"send", "log"})
      BY <1>1, <1>2, <1>3 DEF JobInv
    <2>2. \A v \in Worker : job'[v] # Idle => Tells(outcome, job'[v].key, job'[v].tells)
      BY <1>1, <1>3 DEF JobInv
    <2>3. \A v \in Worker : job'[v].step = "log" => sent'[job'[v].key] > 0
      <3>1. sent'[k] > 0
        BY <1>2, <1>5
      <3>2. ASSUME NEW v \in Worker \ {w}, job[v].step = "log" PROVE sent'[job[v].key] > 0
        <4>1. job[v].key \in Key /\ sent[job[v].key] > 0
          BY <1>1, <3>2 DEF JobInv, Idle
        <4> QED
          BY <1>5, <4>1
      <3> QED
        BY <1>3, <3>1, <3>2
    <2>4. /\ job'["consumer"] # Idle => bus[job'["consumer"].key] > 0
          /\ job'["sweep"] # Idle => Mailers(job'["sweep"].key) = 2
      BY <1>1, <1>3 DEF JobInv, Worker
    <2> QED
      BY <1>1, <2>1, <2>2, <2>3, <2>4 DEF JobInv
  <1>7. ASSUME NEW x \in Key PROVE Bound(x)'
    <2>1. \A v \in Worker \ {w}, s \in {"log", "send"} : At(v, x, s)' = At(v, x, s)
      BY <1>3 DEF At
    <2>2. x # k => \A s \in {"log", "send"} : At(w, x, s)' = At(w, x, s)
      BY <1>3 DEF At
    <2>3. x = k => At(w, x, "log")' = 1 /\ At(w, x, "send")' = 0 /\ At(w, x, "log") = 0 /\ At(w, x, "send") = 1
      BY <1>1, <1>3 DEF At
    <2> QED
      BY <1>1, <1>2, <2>1, <2>2, <2>3, MailCounts DEF Bound, Worker
  <1>8. LoggedWasMailed'
    BY <1>1, <1>5 DEF NoticeInv, MailInv, LoggedWasMailed, TypeOK
  <1> QED
    BY <1>1, <1>2, <1>4, <1>6, <1>7, <1>8 DEF NoticeInv, QueueInv, MailInv

\* A worker that is done with a mail has none in hand.
LEMMA FinishKeeps ==
  ASSUME NoticeInv, NEW w \in Worker, job[w] # Idle, Finish(w)
  PROVE  /\ bus' \in [Key -> Nat] /\ redo' \in [Key -> Nat]
         /\ job' \in [Worker -> [key : Key \union {None}, tells : Decision, step : {"idle", "send", "log"}]]
         /\ job'[w] = Idle /\ \A v \in Worker \ {w} : job'[v] = job[v]
         /\ job'["consumer"] # Idle => bus'[job'["consumer"].key] > 0
         /\ job'["sweep"] # Idle => Mailers(job'["sweep"].key) = 2
         /\ \A x \in Key, s \in {"log", "send"} :
              /\ \A v \in Worker \ {w} : At(v, x, s)' = At(v, x, s)
              /\ At(w, x, s)' = 0
  <1>1. TypeOK /\ JobInv
    BY DEF NoticeInv
  <1>2. job' = [job EXCEPT ![w] = Idle] /\ job'[w] = Idle /\ \A v \in Worker \ {w} : job'[v] = job[v]
    BY <1>1 DEF Finish, TypeOK
  <1>3. Idle \in [key : Key \union {None}, tells : Decision, step : {"idle", "send", "log"}]
    BY DEF Idle, Decision
  <1>4. bus' \in [Key -> Nat] /\ redo' \in [Key -> Nat]
    BY <1>1, HandledKeeps DEF Finish, TypeOK, JobInv, broker, Worker
  <1>5. job'["consumer"] # Idle => bus'[job'["consumer"].key] > 0
    BY <1>1, <1>2 DEF Finish, JobInv, broker, Worker
  <1>6. job'["sweep"] # Idle => Mailers(job'["sweep"].key) = 2
    BY <1>1, <1>2 DEF JobInv, Worker
  <1> QED
    BY <1>1, <1>2, <1>3, <1>4, <1>5, <1>6 DEF At, Idle, TypeOK

LEMMA RecordStep ==
  ASSUME NoticeInv, NEW w \in Worker, RecordSent(w)
  PROVE  NoticeInv'
  <1> USE DEF gate, queue, mails
  <1> DEFINE k == job[w].key
  <1>1. /\ TypeOK /\ JobInv /\ job[w].step = "log" /\ job[w] # Idle /\ Finish(w)
        /\ k \in Key /\ sent[k] > 0 /\ log' = log \union {k}
        /\ UNCHANGED <<gate, queue, missed, mails, faults>>
    BY DEF RecordSent, NoticeInv, JobInv, Idle
  <1>2. TypeOK'
    BY <1>1, FinishKeeps DEF TypeOK
  <1>3. JobInv'
    <2>1. \A v \in Worker : job'[v] = Idle \/ job'[v] = job[v]
      BY <1>1, FinishKeeps
    <2> QED
      BY <1>1, <2>1, FinishKeeps DEF JobInv, Idle
  <1>4. ASSUME NEW x \in Key PROVE Bound(x)'
    <2>1. At(w, k, "log") = 1
      BY <1>1 DEF At
    <2>2. /\ \A v \in Worker \ {w}, s \in {"log", "send"} : At(v, x, s)' = At(v, x, s)
          /\ \A s \in {"log", "send"} : At(w, x, s)' = 0
      BY <1>1, FinishKeeps
    <2>3. x # k => At(w, x, "log") = 0
      BY DEF At
    <2> QED
      BY <1>1, <2>1, <2>2, <2>3, MailCounts DEF Bound, Worker
  <1>5. LoggedWasMailed'
    BY <1>1 DEF NoticeInv, MailInv, LoggedWasMailed
  <1> QED
    BY <1>1, <1>2, <1>3, <1>4, <1>5 DEF NoticeInv, QueueInv, MailInv

\* A mail that no row follows is paid for by the fault.
LEMMA FailStep ==
  ASSUME NoticeInv, NEW w \in Worker, HandlerFails(w)
  PROVE  NoticeInv'
  <1> USE DEF gate, queue
  <1> DEFINE k == job[w].key
  <1>1. /\ TypeOK /\ JobInv /\ job[w] # Idle /\ Finish(w) /\ faults' = faults + 1
        /\ k \in Key /\ missed' \in {missed, NoneMissed} /\ UNCHANGED <<gate, queue, log>>
    BY DEF HandlerFails, NoticeInv, JobInv, Fault
  <1>2. \/ UNCHANGED mails
        \/ job[w].step = "send" /\ Mail(w)
    BY DEF HandlerFails
  <1>3. /\ sent \in [Key -> Nat] /\ sent' \in [Key -> Nat] /\ told' \subseteq Key \X Outcome
        /\ \A x \in Key : sent'[x] >= sent[x] /\ sent'[x] <= sent[x] + At(w, x, "send")
        /\ \A t \in told' : Tells(outcome, t[1], t[2])
    <2>1. CASE UNCHANGED mails
      <3>1. \A x \in Key : At(w, x, "send") \in {0, 1}
        BY DEF At
      <3> QED
        BY <1>1, <2>1, <3>1 DEF mails, TypeOK, NoticeInv, MailInv
    <2>2. CASE job[w].step = "send" /\ Mail(w)
      <3>1. sent \in [Key -> Nat] /\ sent' \in [Key -> Nat] /\ told' \subseteq Key \X Outcome
        BY <1>1, <2>2, MailKeeps DEF TypeOK
      <3>2. \A x \in Key : sent'[x] = sent[x] + At(w, x, "send")
        BY <1>1, <2>2, <3>1, MailKeeps DEF At
      <3> QED
        BY <1>1, <2>2, <3>1, <3>2, MailKeeps DEF At
    <2> QED
      BY <1>2, <2>1, <2>2
  <1>4. TypeOK'
    <2>1. missed' \in [half : {"created", "decided"}, todo : SUBSET Key]
      BY <1>1 DEF TypeOK, NoneMissed
    <2> QED
      BY <1>1, <1>3, <2>1, FinishKeeps DEF TypeOK
  <1>5. JobInv'
    <2>1. \A v \in Worker : job'[v] = Idle \/ job'[v] = job[v]
      BY <1>1, FinishKeeps
    <2>2. \A v \in Worker : job'[v].step = "log" => sent'[job'[v].key] > 0
      <3> SUFFICES ASSUME NEW v \in Worker, job'[v].step = "log" PROVE sent'[job'[v].key] > 0
        OBVIOUS
      <3>1. job'[v] = job[v] /\ job[v].key \in Key /\ sent[job[v].key] > 0
        BY <1>1, <2>1 DEF JobInv, Idle
      <3> QED
        BY <1>3, <3>1
    <2>3. \A x \in missed'.todo : Swept(outcome, x)
      BY <1>1 DEF JobInv, NoneMissed
    <2> QED
      BY <1>1, <2>1, <2>2, <2>3, FinishKeeps DEF JobInv
  <1>6. ASSUME NEW x \in Key PROVE Bound(x)'
    <2>1. /\ \A v \in Worker \ {w}, s \in {"log", "send"} : At(v, x, s)' = At(v, x, s)
          /\ \A s \in {"log", "send"} : At(w, x, s)' = 0
      BY <1>1, FinishKeeps
    <2>2. sent'[x] \in Nat /\ sent'[x] <= sent[x] + At(w, x, "send")
      BY <1>3
    <2> QED
      BY <1>1, <2>1, <2>2, MailCounts DEF Bound, Worker
  <1>7. LoggedWasMailed'
    BY <1>1, <1>3 DEF NoticeInv, MailInv, LoggedWasMailed, TypeOK
  <1> QED
    BY <1>1, <1>3, <1>4, <1>5, <1>6, <1>7 DEF NoticeInv, QueueInv, MailInv

LEMMA RestartStep ==
  ASSUME NoticeInv, Restart
  PROVE  NoticeInv'
  <1> USE DEF gate, queue, mails
  <1>1. /\ TypeOK /\ faults' = faults + 1 /\ job' = [w \in Worker |-> Idle] /\ missed' = NoneMissed
        /\ bus' = [k \in Key |-> bus[k] + redo[k]] /\ redo' = [k \in Key |-> 0]
        /\ UNCHANGED <<gate, queue, mails, log>>
    BY DEF Restart, Fault, NoticeInv
  <1>2. TypeOK'
    BY <1>1 DEF TypeOK, Idle, NoneMissed, Decision
  <1>3. JobInv'
    BY <1>1 DEF JobInv, Idle, NoneMissed, Worker
  <1>4. ASSUME NEW x \in Key PROVE Bound(x)'
    <2>1. \A w \in Worker, s \in {"log", "send"} : At(w, x, s)' = 0
      BY <1>1 DEF At, Idle
    <2> QED
      BY <1>1, <2>1, MailCounts DEF Bound, Worker
  <1> QED
    BY <1>1, <1>2, <1>3, <1>4 DEF NoticeInv, QueueInv, MailInv, LoggedWasMailed

(* The theorems.                                                           *)

LEMMA NoticeInit == Init => NoticeInv
  <1> SUFFICES ASSUME Init PROVE NoticeInv
    OBVIOUS
  <1>1. /\ status = [e \in Entity |-> "absent"] /\ open = {}
        /\ last = [e \in Entity |-> 0] /\ outcome = [i \in EntryId |-> "none"]
        /\ stale = {} /\ erased = {}
        /\ bus = [k \in Key |-> 0] /\ redo = [k \in Key |-> 0]
        /\ job = [w \in Worker |-> Idle] /\ missed = NoneMissed
        /\ sent = [k \in Key |-> 0] /\ told = {} /\ log = {} /\ faults = 0
    BY DEF Init, Gate!Init
  <1>2. TypeOK
    BY <1>1, NoticeConstants DEF TypeOK, Decision, Idle, NoneMissed
  <1>3. QueueInv
    BY <1>1 DEF QueueInv, EntryId, Outcome
  <1>4. JobInv
    BY <1>1 DEF JobInv, Idle, NoneMissed, Worker
  <1>5. MailInv
    BY <1>1, Keys DEF MailInv, LoggedWasMailed, Bound, At, Idle
  <1> QED
    BY <1>2, <1>3, <1>4, <1>5 DEF NoticeInv

LEMMA NoticeStep == NoticeInv /\ [Next]_vars => NoticeInv'
  <1> SUFFICES ASSUME NoticeInv, [Next]_vars PROVE NoticeInv'
    OBVIOUS
  <1>1. CASE UNCHANGED vars
    BY <1>1 DEF vars, gate, queue, broker, mails, NoticeInv, TypeOK, QueueInv, JobInv, MailInv,
                LoggedWasMailed, Bound, At
  <1>2. CASE Step
    BY <1>2, QueueSteps, OutsideSteps, ConsumeStep, SelectSteps, SendStep, RecordStep, FailStep,
       RestartStep
       DEF Step, Sweep, Mails, Worker
  <1> QED
    BY <1>1, <1>2 DEF Next

\* Whatever is lost or repeated, the queue, the mail in hand and the log agree: the
\* inductive invariant holds of the composition of the moderation gate, the event bus,
\* the consumer and the sweep.
THEOREM NoticeInvariant == Spec => []NoticeInv
  BY NoticeInit, NoticeStep, PTL DEF Spec

\* A row of notification_log is never written without its mail, of any announcement,
\* whichever faults there are.
THEOREM LogFollowsMail == Spec => [](TypeOK /\ LoggedWasMailed)
  <1>1. NoticeInv => TypeOK /\ LoggedWasMailed
    BY DEF NoticeInv, MailInv
  <1> QED
    BY <1>1, NoticeInvariant, PTL

\* Each worker repeats a mail no more often than there are faults: of the event bus, the
\* mail server, the log and the service itself.
THEOREM FaultsBoundMails == Spec => []MailsAreBounded
  <1>1. NoticeInv => MailsAreBounded
    <2> SUFFICES ASSUME NoticeInv, NEW k \in Key PROVE sent[k] <= Mailers(k) * (faults + 1)
      BY DEF MailsAreBounded
    <2> QED
      BY MailCounts DEF Bound, Worker
  <1> QED
    BY <1>1, NoticeInvariant, PTL

\* No candidate is told of a decision that was not made on the submission or a later one,
\* though the sweep tells the status of the entity instead of the entry's own.
THEOREM MailsTellDecisions == Spec => []MailTellsADecision
  <1>1. NoticeInv => MailTellsADecision
    <2> SUFFICES ASSUME NoticeInv, NEW t \in told
                 PROVE  \E m \in Number : m >= t[1].nr /\ outcome[<<t[1].of, m>>] = t[2]
      BY DEF MailTellsADecision
    <2>1. Tells(outcome, t[1], t[2]) /\ t[2] \in Outcome
      BY DEF NoticeInv, MailInv, TypeOK
    <2> QED
      BY <2>1 DEF Tells, Outcome
  <1> QED
    BY <1>1, NoticeInvariant, PTL

\* The queue that is mailed about is the one of the gate: announcing, mailing and failing
\* add no step to it, so that the lifetime cap holds of what is announced.
THEOREM NoticesUseGate == Spec => Gate!Spec /\ []Gate!EscalationFollowsCap
  <1>1. Init => Gate!Init
    BY DEF Init
  <1>2. [Next]_vars => [Gate!Next]_(Gate!gate)
    <2> SUFFICES ASSUME [Next]_vars PROVE [Gate!Next]_(Gate!gate)
      OBVIOUS
    <2>1. ASSUME NEW e \in Entity, Create(e) \/ Update(e) \/ Remove(e) \/ \E v \in Outcome : Decide(e, v)
          PROVE  Gate!Next
      BY <2>1 DEF Create, Update, Remove, Decide, Outcome, Gate!Next
    <2>2. \/ \E e \in Entity : Create(e) \/ Update(e) \/ Remove(e) \/ \E v \in Outcome : Decide(e, v)
          \/ UNCHANGED gate
      BY DEF Next, Step, vars, Mails, Sweep, HoursPass, Alarm, Consume, SelectMissed, Reconcile, SendMail,
             RecordSent, HourPasses, HandlerFails, Restart
    <2> QED
      BY <2>1, <2>2 DEF gate, Gate!gate
  <1>3. Gate!Spec => [](Gate!Typed /\ Gate!EscalationFollowsCap)
    BY NoticeConstants, Gate!CapEscalates
  <1> QED
    BY <1>1, <1>2, <1>3, PTL DEF Spec, Gate!Spec

-----------------------------------------------------------------------------
(* Deadlines.                                                              *)

(* The inductive invariant.                                                *)

\* The values of sweeping[p] and of review.
SweepOf  == [tier : D!Tier \union {"none"}, todo : SUBSET D!EntryId, at : D!EntryId \union {<< >>}]
ReviewOf == [of : Entity \union {None}, nr : D!Number, flagged : BOOLEAN, step : {"idle", "read", "resolve"}]
USE DEF SweepOf, ReviewOf

Stamps(i)       == entry[i[1]][i[2]].stamps
Waits(i)        == entry[i[1]][i[2]].waits
Unstamped(i, t) == Waits(i) /\ t \notin Stamps(i)

\* Replicas that have announced i and not stamped it, and those that still will announce it.
Handing(i, t)  == {p \in Replicas : sweeping[p].at = i /\ sweeping[p].tier = t}
Selected(i, t) == {p \in Replicas : i \in sweeping[p].todo /\ sweeping[p].tier = t}

RowInv ==
  \A i \in D!EntryId :
    /\ Waits(i) => entry[i[1]][i[2]].exists
    /\ \A t \in Stamps(i) : alarms[i][t] > 0
    /\ i[2] > newest[i[1]] =>
         ~Waits(i) /\ \A t \in D!Tier : Handing(i, t) = {} /\ Selected(i, t) = {} /\ alarms[i][t] = 0

SweepInv ==
  \A p \in Replicas :
    /\ sweeping[p].tier = "none" => sweeping[p].todo = {} /\ sweeping[p].at = << >>
    /\ sweeping[p].at \notin sweeping[p].todo
    /\ sweeping[p].at # << >> => alarms[sweeping[p].at][sweeping[p].tier] > 0

ReviewInv ==
  /\ review.step # "idle" => review.of \in Entity
  /\ review.flagged => review.of \in Entity /\ \E t \in D!Tier : alarms[<<review.of, review.nr>>][t] > 0

\* As long as the stamp is missing, each announcement is one in hand or one whose stamp
\* failed.  With the stamp, only the replicas that had selected the entry before announce it.
Counted(i, t) ==
  IF Unstamped(i, t)
    THEN alarms[i][t] <= Cardinality(Handing(i, t)) + failures
    ELSE alarms[i][t] + Cardinality(Selected(i, t)) <= Cardinality(Replicas) + failures
AlarmInv == \A i \in D!EntryId, t \in D!Tier : Counted(i, t)

DeadlineInv == D!TypeOK /\ RowInv /\ SweepInv /\ ReviewInv /\ AlarmInv

(* Counting replicas.                                                      *)

LEMMA SameCounts ==
  ASSUME NEW S PROVE (D!IsFiniteSet(S) <=> IsFiniteSet(S)) /\ D!Cardinality(S) = Cardinality(S)
  BY DEF D!IsFiniteSet, IsFiniteSet, D!Cardinality, Cardinality

LEMMA Counting ==
  ASSUME D!DeadlineConstants, NEW S \in SUBSET Replicas
  PROVE  /\ Cardinality(S) \in Nat /\ Cardinality(Replicas) \in Nat
         /\ Cardinality(S) <= Cardinality(Replicas)
         /\ \A T \in SUBSET S : Cardinality(T) <= Cardinality(S)
         /\ \A p \in Replicas : /\ p \in S => Cardinality(S \ {p}) = Cardinality(S) - 1
                                /\ p \notin S => Cardinality(S \union {p}) = Cardinality(S) + 1
         /\ \A T \in SUBSET Replicas : S \intersect T = {} =>
              Cardinality(S) + Cardinality(T) <= Cardinality(Replicas)
  <1>1. IsFiniteSet(Replicas)
    BY SameCounts DEF D!DeadlineConstants
  <1>2. \A T \in SUBSET Replicas : IsFiniteSet(T) /\ Cardinality(T) \in Nat /\ Cardinality(T) <= Cardinality(Replicas)
    BY <1>1, FS_Subset, FS_CardinalityType
  <1>3. Cardinality(Replicas) \in Nat
    BY <1>1, FS_CardinalityType
  <1>4. \A T \in SUBSET S : Cardinality(T) <= Cardinality(S)
    BY <1>2, FS_Subset
  <1>5. ASSUME NEW p \in Replicas
        PROVE  /\ p \in S => Cardinality(S \ {p}) = Cardinality(S) - 1
               /\ p \notin S => Cardinality(S \union {p}) = Cardinality(S) + 1
    BY <1>2, FS_RemoveElement, FS_AddElement
  <1>6. ASSUME NEW T \in SUBSET Replicas, S \intersect T = {}
        PROVE  Cardinality(S) + Cardinality(T) <= Cardinality(Replicas)
    BY <1>1, <1>2, <1>3, <1>6, FS_MajoritiesIntersect
  <1> QED
    BY <1>2, <1>3, <1>4, <1>5, <1>6

\* The two sets of replicas of an entry and a tier.
LEMMA AlarmCounts ==
  ASSUME D!DeadlineConstants, DeadlineInv, NEW i \in D!EntryId, NEW t \in D!Tier
  PROVE  /\ Handing(i, t) \in SUBSET Replicas /\ Selected(i, t) \in SUBSET Replicas
         /\ Cardinality(Handing(i, t)) \in Nat /\ Cardinality(Selected(i, t)) \in Nat
         /\ Cardinality(Replicas) \in Nat /\ failures \in Nat /\ alarms[i][t] \in Nat
         /\ Cardinality(Handing(i, t)) <= Cardinality(Replicas)
         /\ Cardinality(Handing(i, t)) + Cardinality(Selected(i, t)) <= Cardinality(Replicas)
         /\ alarms[i][t] + Cardinality(Selected(i, t)) <= Cardinality(Replicas) + failures
  <1>1. Handing(i, t) \in SUBSET Replicas /\ Selected(i, t) \in SUBSET Replicas
    BY DEF Handing, Selected
  <1>2. Handing(i, t) \intersect Selected(i, t) = {}
    BY DEF Handing, Selected, DeadlineInv, SweepInv
  <1>3. failures \in Nat /\ alarms[i][t] \in Nat
    BY DEF DeadlineInv, D!TypeOK
  <1>4. Counted(i, t)
    BY DEF DeadlineInv, AlarmInv
  <1> QED
    BY <1>1, <1>2, <1>3, <1>4, Counting DEF Counted

(* Candidates, moderators and reviews.                                     *)

\* A change of rows: an entry without a stamp is one that had none, or a new one.
LEMMA RowsStep ==
  ASSUME D!DeadlineConstants, DeadlineInv, D!TypeOK', UNCHANGED <<sweeping, alarms, failures>>,
         ReviewInv',
         NEW e \in Entity, \A f \in Entity \ {e} : entry'[f] = entry[f] /\ newest'[f] = newest[f],
         newest'[e] >= newest[e],
         \A n \in D!Number :
           /\ entry'[e][n].waits => entry'[e][n].exists
           /\ entry'[e][n].stamps \subseteq entry[e][n].stamps
           /\ entry'[e][n].waits =>
                /\ n <= newest'[e]
                /\ n > newest[e] \/ (entry[e][n].waits /\ entry'[e][n].stamps = entry[e][n].stamps)
  PROVE  DeadlineInv'
  <1>1. /\ newest \in [Entity -> 0..MaxEntries] /\ newest' \in [Entity -> 0..MaxEntries]
        /\ MaxEntries \in Nat
    BY DEF DeadlineInv, D!TypeOK, D!DeadlineConstants
  <1>2. \A i \in D!EntryId : i[1] \in Entity /\ i[2] \in D!Number /\ i[2] \in Int
    BY <1>1 DEF D!EntryId, D!Number
  <1>3. \A i \in D!EntryId, t \in D!Tier : Handing(i, t)' = Handing(i, t) /\ Selected(i, t)' = Selected(i, t)
    BY DEF Handing, Selected
  <1>4. RowInv'
    <2> SUFFICES ASSUME NEW i \in D!EntryId
                 PROVE  /\ Waits(i)' => entry'[i[1]][i[2]].exists
                        /\ \A t \in Stamps(i)' : alarms[i][t] > 0
                        /\ i[2] > newest'[i[1]] =>
                             ~Waits(i)' /\ \A t \in D!Tier : Handing(i, t) = {} /\ Selected(i, t) = {} /\ alarms[i][t] = 0
      BY <1>3 DEF RowInv
    <2>1. /\ Waits(i) => entry[i[1]][i[2]].exists
          /\ \A t \in Stamps(i) : alarms[i][t] > 0
          /\ i[2] > newest[i[1]] =>
               ~Waits(i) /\ \A t \in D!Tier : Handing(i, t) = {} /\ Selected(i, t) = {} /\ alarms[i][t] = 0
      BY DEF DeadlineInv, RowInv
    <2>2. i[2] > newest'[i[1]] => i[2] > newest[i[1]]
      BY <1>1, <1>2
    <2>3. CASE i[1] = e
      <3>1. /\ Waits(i)' => entry'[i[1]][i[2]].exists /\ i[2] <= newest'[i[1]]
            /\ Stamps(i)' \subseteq Stamps(i)
        BY <1>2, <2>3 DEF Waits, Stamps
      <3>2. i[2] > newest'[i[1]] => ~(i[2] <= newest'[i[1]])
        BY <1>1, <1>2
      <3> QED
        BY <2>1, <2>2, <3>1, <3>2
    <2>4. CASE i[1] # e
      <3>1. entry'[i[1]] = entry[i[1]] /\ newest'[i[1]] = newest[i[1]]
        BY <1>2, <2>4
      <3> QED
        BY <2>1, <3>1 DEF Waits, Stamps
    <2> QED
      BY <2>3, <2>4
  <1>5. SweepInv'
    BY DEF DeadlineInv, SweepInv
  <1>6. AlarmInv'
    <2> SUFFICES ASSUME NEW i \in D!EntryId, NEW t \in D!Tier PROVE Counted(i, t)'
      BY DEF AlarmInv
    <2>1. Unstamped(i, t)' => Unstamped(i, t) \/ alarms[i][t] = 0
      BY <1>2 DEF Unstamped, Waits, Stamps, DeadlineInv, RowInv
    <2>2. Cardinality(Handing(i, t))' = Cardinality(Handing(i, t))
          /\ Cardinality(Selected(i, t))' = Cardinality(Selected(i, t))
      BY <1>3
    <2>3. Counted(i, t)
      BY DEF DeadlineInv, AlarmInv
    <2> QED
      BY <2>1, <2>2, <2>3, AlarmCounts DEF Counted
  <1> QED
    BY <1>4, <1>5, <1>6 DEF DeadlineInv

LEMMA RequestSteps ==
  ASSUME D!DeadlineConstants, DeadlineInv, NEW e \in Entity,
         \/ D!Submit(e) \/ D!Remove(e) \/ D!ClaimOrRelease(e)
         \/ \E n \in D!Number : D!TimePasses(e, n)
  PROVE  DeadlineInv'
  <1> USE DEF D!api
  <1>1. /\ newest \in [Entity -> 0..MaxEntries] /\ entry \in [Entity -> [D!Number -> D!Row]]
        /\ MaxEntries \in Nat \ {0} /\ D!TypeOK /\ ReviewInv
    BY DEF DeadlineInv, D!TypeOK, D!DeadlineConstants
  <1>2. \A n \in D!Number : /\ n \in Int /\ entry[e][n] \in D!Row /\ <<e, n>> \in D!EntryId
                            /\ entry[e][n].waits => entry[e][n].exists /\ n <= newest[e]
    BY <1>1 DEF D!Number, D!EntryId, DeadlineInv, RowInv, Waits
  <1>3. D!NoRow \in D!Row /\ D!NewRow \in D!Row /\ ~D!NoRow.waits /\ D!NoRow.stamps = {}
        /\ D!NewRow.exists /\ D!NewRow.stamps = {}
    BY DEF D!NoRow, D!NewRow, D!Row
  <1>4. UNCHANGED <<D!api, failures>>
    BY DEF D!Submit, D!Remove, D!ClaimOrRelease, D!TimePasses
  <1>5. ReviewInv'
    BY <1>1, <1>4 DEF ReviewInv
  <1>6. ASSUME newest' \in [Entity -> 0..MaxEntries], entry' \in [Entity -> [D!Number -> D!Row]],
               \A f \in Entity \ {e} : entry'[f] = entry[f] /\ newest'[f] = newest[f],
               newest'[e] >= newest[e],
               \A n \in D!Number :
                 /\ entry'[e][n].waits => entry'[e][n].exists
                 /\ entry'[e][n].stamps \subseteq entry[e][n].stamps
                 /\ entry'[e][n].waits =>
                      /\ n <= newest'[e]
                      /\ n > newest[e] \/ (entry[e][n].waits /\ entry'[e][n].stamps = entry[e][n].stamps)
        PROVE  DeadlineInv'
    <2>1. D!TypeOK'
      BY <1>1, <1>4, <1>6 DEF D!TypeOK
    <2> QED
      BY <1>4, <1>5, <1>6, <2>1, RowsStep
  <1>7. CASE D!Submit(e)
    <2> DEFINE rows == [n \in D!Number |->
                 CASE n = newest[e] + 1 -> D!NewRow [] entry[e][n].waits -> D!NoRow [] OTHER -> entry[e][n]]
    <2>1. newest' = [newest EXCEPT ![e] = @ + 1] /\ entry' = [entry EXCEPT ![e] = rows]
          /\ newest[e] < MaxEntries
      BY <1>7 DEF D!Submit
    <2>2. \A n \in D!Number : \/ n = newest[e] + 1 /\ rows[n] = D!NewRow
                              \/ rows[n] = D!NoRow
                              \/ rows[n] = entry[e][n] /\ ~entry[e][n].waits
      OBVIOUS
    <2>3. rows \in [D!Number -> D!Row]
      BY <1>2, <1>3, <2>2
    <2>4. newest'[e] >= newest[e] /\ newest' \in [Entity -> 0..MaxEntries]
      BY <1>1, <2>1
    <2>5. entry'[e] = rows /\ entry' \in [Entity -> [D!Number -> D!Row]]
      BY <1>1, <2>1, <2>3
    <2>6. \A n \in D!Number :
            /\ rows[n].waits => rows[n].exists
            /\ rows[n].stamps \subseteq entry[e][n].stamps
            /\ rows[n].waits => n > newest[e] /\ n <= newest'[e]
      BY <1>1, <1>2, <1>3, <2>1, <2>2
    <2> HIDE DEF rows
    <2> QED
      BY <1>1, <1>6, <2>1, <2>4, <2>5, <2>6
  <1>8. CASE D!Remove(e)
    <2>1. newest' = newest /\ entry' = [entry EXCEPT ![e] = [n \in D!Number |-> D!NoRow]]
      BY <1>8 DEF D!Remove
    <2>2. entry'[e] = [n \in D!Number |-> D!NoRow] /\ entry' \in [Entity -> [D!Number -> D!Row]]
      BY <1>1, <1>3, <2>1
    <2> QED
      BY <1>1, <1>3, <1>6, <2>1, <2>2
  <1>9. ASSUME NEW n \in D!Number, NEW r \in D!Row, entry[e][n].waits, r.waits, r.exists,
               r.stamps = entry[e][n].stamps,
               entry' = [entry EXCEPT ![e][n] = r], newest' = newest
        PROVE  DeadlineInv'
    <2>1. /\ entry' \in [Entity -> [D!Number -> D!Row]]
          /\ \A m \in D!Number : entry'[e][m] = IF m = n THEN r ELSE entry[e][m]
          /\ \A f \in Entity \ {e} : entry'[f] = entry[f]
      BY <1>1, <1>9
    <2>2. ASSUME NEW m \in D!Number
          PROVE  /\ entry'[e][m].waits => entry'[e][m].exists
                 /\ entry'[e][m].stamps \subseteq entry[e][m].stamps
                 /\ entry'[e][m].waits =>
                      m <= newest'[e] /\ entry[e][m].waits
                          /\ entry'[e][m].stamps = entry[e][m].stamps
      BY <1>2, <1>9, <2>1
    <2>3. newest' \in [Entity -> 0..MaxEntries] /\ newest'[e] >= newest[e]
      BY <1>1, <1>9
    <2> QED
      BY <1>6, <1>9, <2>1, <2>2, <2>3
  <1>10. CASE D!ClaimOrRelease(e)
    <2> DEFINE n == newest[e]
               r == [entry[e][n] EXCEPT !.claimed = ~@]
    <2>1. n \in D!Number /\ entry[e][n].waits /\ newest' = newest
          /\ entry' = [entry EXCEPT ![e][n] = r]
      BY <1>1, <1>10 DEF D!ClaimOrRelease, D!Open, D!Current, D!Number
    <2>2. r \in D!Row /\ r.waits /\ r.exists /\ r.stamps = entry[e][n].stamps
      BY <1>2, <2>1 DEF D!Row
    <2> HIDE DEF n, r
    <2> QED
      BY <1>9, <2>1, <2>2
  <1>11. ASSUME NEW n \in D!Number, D!TimePasses(e, n) PROVE DeadlineInv'
    <2> DEFINE r == IF entry[e][n].due = "fresh" THEN [entry[e][n] EXCEPT !.due = "near"]
                    ELSE [entry[e][n] EXCEPT !.due = "over", !.claimed = FALSE]
    <2>1. entry[e][n].waits /\ newest' = newest /\ entry' = [entry EXCEPT ![e][n] = r]
      BY <1>11 DEF D!TimePasses
    <2>2. r \in D!Row /\ r.waits /\ r.exists /\ r.stamps = entry[e][n].stamps
      BY <1>2, <2>1 DEF D!Row
    <2> HIDE DEF r
    <2> QED
      BY <1>9, <2>1, <2>2
  <1> QED
    BY <1>7, <1>8, <1>10, <1>11

\* What happens to the review leaves the entries and the sweeps alone.
LEMMA ReviewStep ==
  ASSUME DeadlineInv, UNCHANGED <<D!queue, sweeping, alarms, failures>>, ReviewInv',
         review' \in ReviewOf
  PROVE  DeadlineInv'
  <1> USE DEF D!queue
  <1>0. D!TypeOK /\ RowInv
    BY DEF DeadlineInv
  <1>1. D!TypeOK'
    BY <1>0 DEF D!TypeOK
  <1>2. \A i \in D!EntryId, t \in D!Tier : Handing(i, t)' = Handing(i, t) /\ Selected(i, t)' = Selected(i, t)
    BY DEF Handing, Selected
  <1>3. \A i \in D!EntryId : Waits(i)' = Waits(i) /\ Stamps(i)' = Stamps(i)
    BY DEF Waits, Stamps
  <1>4. RowInv'
    BY <1>0, <1>2, <1>3 DEF RowInv
  <1>5. SweepInv'
    BY DEF DeadlineInv, SweepInv
  <1>6. AlarmInv'
    <2> SUFFICES ASSUME NEW i \in D!EntryId, NEW t \in D!Tier PROVE Counted(i, t)'
      BY DEF AlarmInv
    <2>1. Counted(i, t)' <=> Counted(i, t)
      BY <1>2, <1>3 DEF Counted, Unstamped
    <2> QED
      BY <2>1 DEF DeadlineInv, AlarmInv
  <1> QED
    BY <1>1, <1>4, <1>5, <1>6 DEF DeadlineInv

\* A review that reads a stamp reads one of an announcement.
LEMMA ReviewSteps ==
  ASSUME D!DeadlineConstants, DeadlineInv,
         D!ReviewDecide \/ D!ReviewResolve \/ \E e \in Entity : D!ReviewRead(e)
  PROVE  DeadlineInv'
  <1> USE DEF D!api, D!queue
  <1>1. D!TypeOK /\ RowInv /\ ReviewInv /\ MaxEntries \in Nat \ {0}
    BY DEF DeadlineInv, D!DeadlineConstants
  <1>2. D!NoReview \in ReviewOf
        /\ D!NoReview.step = "idle" /\ ~D!NoReview.flagged
    BY <1>1 DEF D!NoReview, D!Number
  <1>3. ASSUME UNCHANGED <<D!queue, sweeping, alarms, failures>>, ReviewInv',
               review' \in ReviewOf
        PROVE  DeadlineInv'
    BY <1>3, ReviewStep
  <1>4. ASSUME NEW e \in Entity, D!ReviewRead(e) PROVE DeadlineInv'
    <2> DEFINE n == newest[e]
    <2>1. /\ n \in D!Number /\ UNCHANGED <<D!queue, sweeping, alarms, failures>>
          /\ review' = [of |-> e, nr |-> n, flagged |-> D!IsFlagged(D!Current(e)), step |-> "read"]
      BY <1>1, <1>4 DEF D!ReviewRead, D!Open, D!TypeOK, D!Number
    <2>2. <<e, n>> \in D!EntryId /\ Stamps(<<e, n>>) = D!Current(e).stamps
          /\ D!Current(e).stamps \subseteq D!Tier
      BY <1>1, <2>1 DEF D!EntryId, Stamps, D!Current, D!TypeOK, D!Row
    <2>3. D!IsFlagged(D!Current(e)) => \E t \in D!Tier : alarms[<<e, n>>][t] > 0
      BY <1>1, <2>2 DEF D!IsFlagged, RowInv
    <2>4. D!IsFlagged(D!Current(e)) \in BOOLEAN
      BY DEF D!IsFlagged
    <2>5. /\ ReviewInv'
          /\ review' \in ReviewOf
      BY <2>1, <2>3, <2>4 DEF ReviewInv
    <2> QED
      BY <1>3, <2>1, <2>5
  <1>5. CASE D!ReviewResolve
    BY <1>2, <1>3, <1>5 DEF D!ReviewResolve, ReviewInv
  <1>6. CASE D!ReviewDecide
    <2> DEFINE e == review.of
               n == review.nr
               r == D!Reviewed(entry[e][n])
    <2>1. e \in Entity /\ n \in D!Number /\ newest' = newest
          /\ UNCHANGED <<sweeping, alarms, failures>>
      BY <1>1, <1>6 DEF D!ReviewDecide, ReviewInv, D!TypeOK
    <2>2. CASE ~entry[e][n].waits
      BY <1>2, <1>3, <1>6, <2>1, <2>2 DEF D!ReviewDecide, ReviewInv
    <2>3. CASE entry[e][n].waits
      <3>1. entry' = [entry EXCEPT ![e][n] = r] /\ review' = [review EXCEPT !.step = "resolve"]
        BY <1>6, <2>3 DEF D!ReviewDecide
      <3>2. r \in D!Row /\ r.exists /\ ~r.waits /\ r.stamps = entry[e][n].stamps
        <4>1. entry[e][n].stamps \in SUBSET D!Tier
          BY <1>1, <2>1 DEF D!TypeOK, D!Row
        <4>2. D!NoRow \in D!Row /\ ~D!NoRow.waits
          BY DEF D!NoRow, D!Row
        <4> DEFINE flagged == [D!NoRow EXCEPT !.exists = TRUE]
        <4>3. flagged \in D!Row /\ flagged.exists /\ ~flagged.waits
          BY <4>2 DEF D!Row
        <4>4. r = [flagged EXCEPT !.stamps = entry[e][n].stamps]
          BY DEF D!Reviewed
        <4> HIDE DEF flagged
        <4> QED
          BY <4>1, <4>3, <4>4 DEF D!Row
      <3>3. /\ entry' \in [Entity -> [D!Number -> D!Row]]
            /\ \A m \in D!Number : entry'[e][m] = IF m = n THEN r ELSE entry[e][m]
            /\ \A f \in Entity \ {e} : entry'[f] = entry[f]
        BY <1>1, <2>1, <3>1, <3>2 DEF D!TypeOK
      <3>4. ReviewInv' /\ D!TypeOK'
        BY <1>1, <2>1, <3>1, <3>3 DEF ReviewInv, D!TypeOK
      <3>5. ASSUME NEW m \in D!Number, entry[e][m].waits
            PROVE  entry[e][m].exists /\ m <= newest'[e]
        <4>1. <<e, m>> \in D!EntryId
          BY <2>1 DEF D!EntryId
        <4>2. Waits(<<e, m>>)
          BY <3>5 DEF Waits
        <4>3. newest[e] \in Int /\ m \in Int
          BY <1>1, <2>1, <3>5 DEF D!TypeOK, D!Number
        <4> QED
          BY <1>1, <2>1, <4>1, <4>2, <4>3 DEF RowInv
      <3>6. newest'[e] >= newest[e]
        BY <1>1, <2>1 DEF D!TypeOK
      <3> QED
        BY <2>1, <3>2, <3>3, <3>4, <3>5, <3>6, RowsStep
    <2> QED
      BY <2>2, <2>3
  <1> QED
    BY <1>4, <1>5, <1>6

(* The sweeps.                                                             *)

LEMMA IdsAreNoRest == \A i \in D!EntryId : i # << >> /\ i = <<i[1], i[2]>> /\ i[1] \in Entity /\ i[2] \in D!Number
  BY DEF D!EntryId

\* A sweep that selects has nothing in hand: it selects entries that wait without the stamp.
LEMMA SelectStep ==
  ASSUME D!DeadlineConstants, DeadlineInv, NEW p \in Replicas, D!Select(p)
  PROVE  DeadlineInv'
  <1> USE DEF D!queue
  <1> DEFINE now == sweeping'[p]
  <1>1. D!TypeOK /\ RowInv /\ SweepInv /\ AlarmInv
    BY DEF DeadlineInv
  <1>2. /\ sweeping[p].todo = {} /\ sweeping[p].at = << >>
        /\ UNCHANGED <<newest, entry, review, alarms, failures>>
        /\ \A q \in Replicas \ {p} : sweeping'[q] = sweeping[q]
    BY <1>1 DEF D!Select, D!TypeOK
  <1>3. /\ now \in SweepOf
        /\ now.at = << >> /\ (now.tier = "none" => now.todo = {})
        /\ \A i \in now.todo : Unstamped(i, now.tier)
    <2>1. now \in {D!Rested, [sweeping[p] EXCEPT !.tier = "warning", !.todo = D!WarnableIds],
                   [sweeping[p] EXCEPT !.tier = "breach", !.todo = D!BreachedIds]}
      BY <1>1 DEF D!Select, D!TypeOK, D!Tier
    <2>0. ASSUME NEW t \in D!Tier, NEW ids \in SUBSET D!EntryId, \A i \in ids : Unstamped(i, t),
                 now = [sweeping[p] EXCEPT !.tier = t, !.todo = ids]
          PROVE  /\ now \in SweepOf
                 /\ now.at = << >> /\ (now.tier = "none" => now.todo = {})
                 /\ \A i \in now.todo : Unstamped(i, now.tier)
      <3> DEFINE turned == [sweeping[p] EXCEPT !.tier = t]
      <3>1. /\ turned \in SweepOf
            /\ turned.tier = t /\ turned.at = << >>
        BY <1>1, <1>2, SMTT(30) DEF D!TypeOK, SweepOf
      <3>2. now = [turned EXCEPT !.todo = ids]
        BY <2>0
      <3>3. t # "none"
        BY DEF D!Tier
      <3> HIDE DEF turned, now
      <3>4. now.tier = t /\ now.todo = ids /\ now.at = << >>
        BY <3>1, <3>2
      <3> QED
        BY <2>0, <3>1, <3>2, <3>3, <3>4
    <2>2. /\ D!WarnableIds \subseteq D!EntryId /\ \A i \in D!WarnableIds : Unstamped(i, "warning")
          /\ D!BreachedIds \subseteq D!EntryId /\ \A i \in D!BreachedIds : Unstamped(i, "breach")
      BY DEF D!WarnableIds, D!BreachedIds, D!Warnable, D!Breached, Unstamped, Waits, Stamps
    <2> HIDE DEF now
    <2>3. CASE now = D!Rested
      BY <2>3 DEF D!Rested
    <2>4. CASE now = [sweeping[p] EXCEPT !.tier = "warning", !.todo = D!WarnableIds]
      BY <2>0, <2>2, <2>4 DEF D!Tier
    <2>5. CASE now = [sweeping[p] EXCEPT !.tier = "breach", !.todo = D!BreachedIds]
      BY <2>0, <2>2, <2>5 DEF D!Tier
    <2> QED
      BY <2>1, <2>3, <2>4, <2>5
  <1>4. D!TypeOK'
    <2>1. sweeping' = [q \in Replicas |-> sweeping'[q]]
      <3>1. PICK s : sweeping' = [sweeping EXCEPT ![p] = s]
        BY DEF D!Select
      <3> QED
        BY <1>1, <3>1 DEF D!TypeOK
    <2>2. \A q \in Replicas :
            sweeping'[q] \in SweepOf
      BY <1>1, <1>2, <1>3 DEF D!TypeOK
    <2> QED
      BY <1>1, <1>2, <2>1, <2>2 DEF D!TypeOK
  <1>5. SweepInv'
    <2> SUFFICES ASSUME NEW q \in Replicas
                 PROVE  /\ sweeping'[q].tier = "none" => sweeping'[q].todo = {} /\ sweeping'[q].at = << >>
                        /\ sweeping'[q].at \notin sweeping'[q].todo
                        /\ sweeping'[q].at # << >> => alarms[sweeping'[q].at][sweeping'[q].tier] > 0
      BY <1>2 DEF SweepInv
    <2>1. CASE q = p
      BY <1>3, <2>1, IdsAreNoRest
    <2>2. CASE q # p
      BY <1>1, <1>2, <2>2 DEF SweepInv
    <2> QED
      BY <2>1, <2>2
  <1>6. ASSUME NEW i \in D!EntryId, NEW t \in D!Tier
        PROVE  /\ Handing(i, t)' = Handing(i, t)
               /\ Selected(i, t)' = IF i \in now.todo /\ now.tier = t THEN Selected(i, t) \union {p} ELSE Selected(i, t)
               /\ Unstamped(i, t)' = Unstamped(i, t)
               /\ i \in now.todo /\ now.tier = t => Unstamped(i, t)
    <2>1. sweeping[p].at # i /\ now.at # i /\ i \notin sweeping[p].todo
      BY <1>2, <1>3, IdsAreNoRest
    <2>2. Handing(i, t)' = Handing(i, t)
      BY <1>2, <2>1 DEF Handing
    <2>3. Selected(i, t)' = IF i \in now.todo
          /\ now.tier = t THEN Selected(i, t) \union {p} ELSE Selected(i, t)
      BY <1>2, <2>1 DEF Selected
    <2>4. Unstamped(i, t)' = Unstamped(i, t)
      BY <1>2 DEF Unstamped, Waits, Stamps
    <2> QED
      BY <1>3, <2>2, <2>3, <2>4
  <1>7. RowInv'
    <2> SUFFICES ASSUME NEW i \in D!EntryId, i[2] > newest[i[1]], NEW t \in D!Tier
                 PROVE  Handing(i, t)' = {} /\ Selected(i, t)' = {} /\ alarms[i][t] = 0
      BY <1>1, <1>2 DEF RowInv, Waits, Stamps
    <2>1. Handing(i, t) = {} /\ Selected(i, t) = {} /\ alarms[i][t] = 0
      BY <1>1 DEF RowInv
    <2>2. ~Waits(i)
      BY <1>1 DEF RowInv
    <2> QED
      BY <1>6, <2>1, <2>2 DEF Unstamped
  <1>8. AlarmInv'
    <2> SUFFICES ASSUME NEW i \in D!EntryId, NEW t \in D!Tier PROVE Counted(i, t)'
      BY DEF AlarmInv
    <2>1. Counted(i, t)
      BY <1>1 DEF AlarmInv
    <2> HIDE DEF now
    <2> QED
      BY <1>2, <1>6, <2>1 DEF Counted
  <1> QED
    BY <1>2, <1>4, <1>5, <1>7, <1>8 DEF DeadlineInv, ReviewInv

\* An announcement is in hand until its stamp.
LEMMA AnnounceStep ==
  ASSUME D!DeadlineConstants, DeadlineInv, NEW p \in Replicas, NEW i \in D!EntryId,
         D!Announce(p, i),
         NEW t, t = sweeping[p].tier
  PROVE  DeadlineInv'
  <1> USE DEF D!queue
  <1>1. D!TypeOK /\ RowInv /\ SweepInv /\ ReviewInv /\ AlarmInv
    BY DEF DeadlineInv
  <1>2. /\ i \in sweeping[p].todo /\ sweeping[p].at = << >>
        /\ sweeping' = [sweeping EXCEPT ![p].todo = @ \ {i}, ![p].at = i]
        /\ alarms' = [alarms EXCEPT ![i][t] = @ + 1]
        /\ UNCHANGED <<newest, entry, review, failures>>
    BY DEF D!Announce
  <1>3. t \in D!Tier /\ p \in Selected(i, t) /\ p \notin Handing(i, t) /\ i # << >>
    BY <1>1, <1>2, IdsAreNoRest DEF D!TypeOK, SweepInv, Selected, Handing
  <1>4. /\ sweeping'[p].todo = sweeping[p].todo \ {i} /\ sweeping'[p].at = i /\ sweeping'[p].tier = t
        /\ \A q \in Replicas \ {p} : sweeping'[q] = sweeping[q]
    BY <1>1, <1>2 DEF D!TypeOK
  <1>5. D!TypeOK'
    <2>1. sweeping' \in [Replicas -> SweepOf]
      <3> DEFINE turned == [sweeping EXCEPT ![p].todo = @ \ {i}]
      <3>1. turned \in [Replicas -> SweepOf]
        BY <1>1 DEF D!TypeOK
      <3>2. sweeping' = [turned EXCEPT ![p].at = i]
        BY <1>2
      <3> HIDE DEF turned
      <3> QED
        BY <3>1, <3>2
    <2>2. alarms' \in [D!EntryId -> [D!Tier -> Nat]]
      BY <1>1, <1>2, <1>3 DEF D!TypeOK
    <2> QED
      BY <1>1, <1>2, <2>1, <2>2 DEF D!TypeOK
  <1>6. ASSUME NEW j \in D!EntryId, NEW u \in D!Tier
        PROVE  /\ alarms'[j][u] = IF j = i /\ u = t THEN alarms[j][u] + 1 ELSE alarms[j][u]
               /\ alarms[j][u] \in Nat
               /\ alarms[j][u] > 0 => alarms'[j][u] > 0
    BY <1>1, <1>2, <1>3 DEF D!TypeOK
  <1>7. ASSUME NEW j \in D!EntryId, NEW u \in D!Tier
        PROVE  /\ Handing(j, u)' = IF j = i /\ u = t THEN Handing(j, u) \union {p} ELSE Handing(j, u)
               /\ Selected(j, u)' = IF j = i /\ u = t THEN Selected(j, u) \ {p} ELSE Selected(j, u)
               /\ Unstamped(j, u)' = Unstamped(j, u)
    <2>1. Handing(j, u)' = IF j = i /\ u = t THEN Handing(j, u) \union {p} ELSE Handing(j, u)
      <3>1. j # << >>
        BY IdsAreNoRest
      <3>2. CASE j = i /\ u = t
        BY <1>4, <3>2 DEF Handing
      <3>3. CASE ~(j = i /\ u = t)
        BY <1>2, <1>4, <3>1, <3>3 DEF Handing
      <3> QED
        BY <3>2, <3>3
    <2>2. Selected(j, u)' = IF j = i /\ u = t THEN Selected(j, u) \ {p} ELSE Selected(j, u)
      BY <1>2, <1>4 DEF Selected
    <2>3. Unstamped(j, u)' = Unstamped(j, u)
      BY <1>2 DEF Unstamped, Waits, Stamps
    <2> QED
      BY <2>1, <2>2, <2>3
  <1>8. RowInv'
    <2>1. \A j \in D!EntryId : Stamps(j) \subseteq D!Tier
      BY <1>1, IdsAreNoRest DEF D!TypeOK, D!Row, Stamps
    <2>2. i[2] > newest[i[1]] => FALSE
      BY <1>1, <1>3 DEF RowInv
    <2> SUFFICES ASSUME NEW j \in D!EntryId
                 PROVE  /\ Waits(j)' => entry'[j[1]][j[2]].exists
                        /\ \A u \in Stamps(j)' : alarms'[j][u] > 0
                        /\ j[2] > newest'[j[1]] =>
                             ~Waits(j)' /\ \A u \in D!Tier : Handing(j, u)' = {} /\ Selected(j, u)' = {} /\ alarms'[j][u] = 0
      BY DEF RowInv
    <2>3. Waits(j)' = Waits(j) /\ Stamps(j)' = Stamps(j) /\ newest' = newest /\ entry' = entry
      BY <1>2 DEF Waits, Stamps
    <2>4. \A u \in Stamps(j) : alarms'[j][u] > 0
      BY <1>1, <1>6, <2>1 DEF RowInv
    <2>5. j[2] > newest[j[1]] =>
            ~Waits(j) /\ \A u \in D!Tier : Handing(j, u)' = {} /\ Selected(j, u)' = {} /\ alarms'[j][u] = 0
      BY <1>1, <1>6, <1>7, <2>2 DEF RowInv
    <2>6. Waits(j) => entry[j[1]][j[2]].exists
      BY <1>1 DEF RowInv
    <2> QED
      BY <2>3, <2>4, <2>5, <2>6
  <1>9. SweepInv'
    <2>1. alarms'[i][t] > 0
      BY <1>3, <1>6
    <2> SUFFICES ASSUME NEW q \in Replicas
                 PROVE  /\ sweeping'[q].tier = "none" => sweeping'[q].todo = {} /\ sweeping'[q].at = << >>
                        /\ sweeping'[q].at \notin sweeping'[q].todo
                        /\ sweeping'[q].at # << >> => alarms'[sweeping'[q].at][sweeping'[q].tier] > 0
      BY DEF SweepInv
    <2>2. CASE q = p
      BY <1>3, <1>4, <2>1, <2>2 DEF D!Tier
    <2>3. CASE q # p
      <3>1. sweeping[q].at # << >> => sweeping[q].at \in D!EntryId /\ sweeping[q].tier \in D!Tier
        BY <1>1 DEF D!TypeOK, SweepInv
      <3> QED
        BY <1>1, <1>4, <1>6, <2>3, <3>1 DEF SweepInv
    <2> QED
      BY <2>2, <2>3
  <1>10. ReviewInv'
    <2>1. review' = review /\ (review.flagged => <<review.of, review.nr>> \in D!EntryId)
      BY <1>1, <1>2 DEF ReviewInv, D!TypeOK, D!EntryId
    <2> QED
      BY <1>1, <1>6, <2>1 DEF ReviewInv
  <1>11. AlarmInv'
    <2> SUFFICES ASSUME NEW j \in D!EntryId, NEW u \in D!Tier PROVE Counted(j, u)'
      BY DEF AlarmInv
    <2>1. Counted(j, u) /\ failures' = failures
      BY <1>1, <1>2 DEF AlarmInv
    <2>2. CASE j = i /\ u = t
      <3>1. /\ Cardinality(Handing(i, t) \union {p}) = Cardinality(Handing(i, t)) + 1
            /\ Cardinality(Selected(i, t) \ {p}) = Cardinality(Selected(i, t)) - 1
        BY <1>3, AlarmCounts, Counting
      <3>2. /\ Cardinality(Handing(i, t))' = Cardinality(Handing(i, t)) + 1
            /\ Cardinality(Selected(i, t))' = Cardinality(Selected(i, t)) - 1
            /\ alarms'[i][t] = alarms[i][t] + 1 /\ Unstamped(i, t)' = Unstamped(i, t)
        BY <1>3, <1>6, <1>7, <3>1
      <3>3. Counted(i, t)'
        <4>1. /\ Cardinality(Handing(i, t)) \in Nat /\ Cardinality(Selected(i, t)) \in Nat
              /\ Cardinality(Replicas) \in Nat /\ failures \in Nat /\ alarms[i][t] \in Nat
          BY <1>3, AlarmCounts
        <4>2. Counted(i, t)
          BY <2>1, <2>2
        <4> QED
          BY <2>1, <3>2, <4>1, <4>2 DEF Counted
      <3> QED
        BY <2>2, <3>3
    <2>3. CASE ~(j = i /\ u = t)
      BY <1>6, <1>7, <2>1, <2>3 DEF Counted
    <2> QED
      BY <2>2, <2>3
  <1> QED
    BY <1>5, <1>8, <1>9, <1>10, <1>11 DEF DeadlineInv

\* What a sweep has announced, is stamped or not, and is dealt with.
HandsOver(p, i, t) ==
  sweeping[p].at = i /\ sweeping[p].tier = t /\ sweeping' = [sweeping EXCEPT ![p].at = << >>]

LEMMA HandedOver ==
  ASSUME DeadlineInv, NEW p \in Replicas, NEW i \in D!EntryId, NEW t \in D!Tier, HandsOver(p, i, t)
  PROVE  /\ sweeping' \in [Replicas -> SweepOf]
         /\ \A j \in D!EntryId, u \in D!Tier : Selected(j, u)' = Selected(j, u)
         /\ \A j \in D!EntryId, u \in D!Tier : (j = i /\ u = t) \/ Handing(j, u)' = Handing(j, u)
         /\ Handing(i, t)' = Handing(i, t) \ {p}
         /\ alarms' = alarms => SweepInv'
  <1> USE DEF HandsOver
  <1>1. D!TypeOK /\ SweepInv
    BY DEF DeadlineInv
  <1>2. /\ sweeping'[p].todo = sweeping[p].todo /\ sweeping'[p].tier = t /\ sweeping'[p].at = << >>
        /\ \A q \in Replicas \ {p} : sweeping'[q] = sweeping[q]
    BY <1>1 DEF D!TypeOK
  <1>3. sweeping' \in [Replicas -> SweepOf]
    BY <1>1 DEF D!TypeOK
  <1>4. ASSUME NEW j \in D!EntryId, NEW u \in D!Tier
        PROVE  Handing(j, u)' = IF j = i /\ u = t THEN Handing(j, u) \ {p} ELSE Handing(j, u)
    <2>1. j # << >>
      BY IdsAreNoRest
    <2>2. CASE j = i /\ u = t
      BY <1>2, <2>1, <2>2 DEF Handing
    <2>3. CASE ~(j = i /\ u = t)
      BY <1>2, <2>1, <2>3 DEF Handing
    <2> QED
      BY <2>2, <2>3
  <1>5. \A j \in D!EntryId, u \in D!Tier : Selected(j, u)' = Selected(j, u)
    BY <1>2 DEF Selected
  <1>7. Handing(i, t)' = Handing(i, t) \ {p}
    BY <1>4
  <1>6. ASSUME alarms' = alarms PROVE SweepInv'
    <2> SUFFICES ASSUME NEW q \in Replicas
                 PROVE  /\ sweeping'[q].tier = "none" => sweeping'[q].todo = {} /\ sweeping'[q].at = << >>
                        /\ sweeping'[q].at \notin sweeping'[q].todo
                        /\ sweeping'[q].at # << >> => alarms[sweeping'[q].at][sweeping'[q].tier] > 0
      BY <1>6 DEF SweepInv
    <2>1. CASE q = p
      <3>1. << >> \notin sweeping[p].todo
        BY <1>1, IdsAreNoRest DEF D!TypeOK
      <3> QED
        BY <1>2, <2>1, <3>1 DEF D!Tier
    <2>2. CASE q # p
      BY <1>1, <1>2, <2>2 DEF SweepInv
    <2> QED
      BY <2>1, <2>2
  <1> QED
    BY <1>3, <1>4, <1>5, <1>6, <1>7

LEMMA StampStep ==
  ASSUME D!DeadlineConstants, DeadlineInv, NEW p \in Replicas, NEW i \in D!EntryId,
         NEW t \in D!Tier,
         sweeping[p].at = i, sweeping[p].tier = t, D!Stamp(p)
  PROVE  DeadlineInv'
  <1> DEFINE row == entry[i[1]][i[2]]
             stamps == IF row.exists THEN row.stamps \union {t} ELSE row.stamps
  <1>1. D!TypeOK /\ RowInv /\ SweepInv /\ ReviewInv /\ AlarmInv
    BY DEF DeadlineInv
  <1>2. /\ sweeping' = [sweeping EXCEPT ![p].at = << >>]
        /\ entry' = [entry EXCEPT ![i[1]][i[2]].stamps = stamps]
        /\ UNCHANGED <<newest, review, alarms, failures>>
    BY DEF D!Stamp
  <1>3. /\ i[1] \in Entity /\ i[2] \in D!Number /\ row \in D!Row /\ alarms[i][t] > 0
        /\ p \in Handing(i, t) /\ (row.waits => row.exists)
    BY <1>1, IdsAreNoRest DEF D!TypeOK, RowInv, SweepInv, Handing, Waits
  <1>4. /\ entry' \in [Entity -> [D!Number -> D!Row]]
        /\ \A j \in D!EntryId : /\ j # i => entry'[j[1]][j[2]] = entry[j[1]][j[2]]
                                /\ j = i => entry'[j[1]][j[2]] = [row EXCEPT !.stamps = stamps]
    <2>1. stamps \in SUBSET D!Tier /\ [row EXCEPT !.stamps = stamps] \in D!Row
      BY <1>3 DEF D!Row
    <2>2. entry' = [entry EXCEPT ![i[1]][i[2]] = [row EXCEPT !.stamps = stamps]]
      BY <1>1, <1>2, <1>3 DEF D!TypeOK
    <2> HIDE DEF stamps, row
    <2>3. entry' \in [Entity -> [D!Number -> D!Row]]
      BY <1>1, <1>3, <2>1, <2>2 DEF D!TypeOK
    <2>4. \A e \in Entity, n \in D!Number :
            entry'[e][n] = IF e = i[1]
                /\ n = i[2] THEN [row EXCEPT !.stamps = stamps] ELSE entry[e][n]
      BY <1>1, <1>3, <2>2 DEF D!TypeOK
    <2> QED
      BY <2>3, <2>4, IdsAreNoRest
  <1>5. \A j \in D!EntryId : /\ Waits(j)' = Waits(j) /\ entry'[j[1]][j[2]].exists = entry[j[1]][j[2]].exists
                             /\ j # i => Stamps(j)' = Stamps(j)
                             /\ j = i => Stamps(j)' = stamps
    <2> SUFFICES ASSUME NEW j \in D!EntryId
                 PROVE  /\ Waits(j)' = Waits(j) /\ entry'[j[1]][j[2]].exists = entry[j[1]][j[2]].exists
                        /\ j # i => Stamps(j)' = Stamps(j)
                        /\ j = i => Stamps(j)' = stamps
      OBVIOUS
    <2> HIDE DEF stamps
    <2>1. CASE j # i
      BY <1>4, <2>1 DEF Waits, Stamps
    <2>2. CASE j = i
      BY <1>3, <1>4, <2>2 DEF Waits, Stamps, D!Row
    <2> QED
      BY <2>1, <2>2
  <1>6. /\ sweeping' \in [Replicas -> SweepOf]
        /\ \A j \in D!EntryId, u \in D!Tier : Selected(j, u)' = Selected(j, u)
        /\ \A j \in D!EntryId, u \in D!Tier : (j = i /\ u = t) \/ Handing(j, u)' = Handing(j, u)
        /\ Handing(i, t)' = Handing(i, t) \ {p}
        /\ SweepInv'
    <2>1. HandsOver(p, i, t) /\ alarms' = alarms
      BY <1>2 DEF HandsOver
    <2> QED
      BY <2>1, HandedOver
  <1>7. D!TypeOK'
    BY <1>1, <1>2, <1>4, <1>6 DEF D!TypeOK
  <1>8. ReviewInv'
    BY <1>1, <1>2 DEF ReviewInv
  <1>9. RowInv'
    <2> SUFFICES ASSUME NEW j \in D!EntryId
                 PROVE  /\ Waits(j)' => entry'[j[1]][j[2]].exists
                        /\ \A u \in Stamps(j)' : alarms[j][u] > 0
                        /\ j[2] > newest[j[1]] =>
                             ~Waits(j)' /\ \A u \in D!Tier : Handing(j, u)' = {} /\ Selected(j, u)' = {} /\ alarms[j][u] = 0
      BY <1>2 DEF RowInv
    <2>1. \A u \in Stamps(j)' : alarms[j][u] > 0
      <3>1. \A u \in Stamps(j) : alarms[j][u] > 0
        BY <1>1 DEF RowInv
      <3> QED
        BY <1>3, <1>5, <3>1 DEF Stamps
    <2>2. \A u \in D!Tier : Handing(j, u) = {} => Handing(j, u)' = {}
      BY <1>6
    <2>3. j[2] > newest[j[1]] =>
            ~Waits(j) /\ \A u \in D!Tier : Handing(j, u) = {} /\ Selected(j, u) = {} /\ alarms[j][u] = 0
      BY <1>1 DEF RowInv
    <2>4. Waits(j) => entry[j[1]][j[2]].exists
      BY <1>1 DEF RowInv
    <2> QED
      BY <1>5, <1>6, <2>1, <2>2, <2>3, <2>4
  <1>10. AlarmInv'
    <2> SUFFICES ASSUME NEW j \in D!EntryId, NEW u \in D!Tier PROVE Counted(j, u)'
      BY DEF AlarmInv
    <2>1. Counted(j, u) /\ failures' = failures /\ alarms' = alarms
      BY <1>1, <1>2 DEF AlarmInv
    <2>2. CASE j = i /\ u = t
      <3>1. ~Unstamped(i, t)'
        BY <1>3, <1>5 DEF Unstamped, Waits
      <3> QED
        BY <1>6, <2>1, <2>2, <3>1, AlarmCounts DEF Counted
    <2>3. CASE ~(j = i /\ u = t)
      <3>1. Unstamped(j, u)' = Unstamped(j, u)
        BY <1>5, <2>3 DEF Unstamped, Stamps
      <3> QED
        BY <1>6, <2>1, <2>3, <3>1 DEF Counted
    <2> QED
      BY <2>2, <2>3
  <1> QED
    BY <1>7, <1>8, <1>9, <1>10, <1>6 DEF DeadlineInv

\* A fault leaves at most one announcement without its stamp: that of the replica it hits.
LEMMA FaultCounted ==
  ASSUME D!DeadlineConstants, DeadlineInv, NEW p \in Replicas, UNCHANGED <<D!queue, alarms>>,
         failures' = failures + 1,
         \A j \in D!EntryId, u \in D!Tier : /\ Handing(j, u)' \in {Handing(j, u), Handing(j, u) \ {p}}
                                            /\ Selected(j, u)' \in {Selected(j, u), Selected(j, u) \ {p}}
  PROVE  RowInv' /\ AlarmInv'
  <1> USE DEF D!queue
  <1>1. \A j \in D!EntryId, u \in D!Tier : Unstamped(j, u)' = Unstamped(j, u)
    BY DEF Unstamped, Waits, Stamps
  <1>2. RowInv'
    <2> SUFFICES ASSUME NEW j \in D!EntryId
                 PROVE  /\ Waits(j)' => entry[j[1]][j[2]].exists
                        /\ \A u \in Stamps(j)' : alarms[j][u] > 0
                        /\ j[2] > newest[j[1]] =>
                             ~Waits(j)' /\ \A u \in D!Tier : Handing(j, u)' = {} /\ Selected(j, u)' = {} /\ alarms[j][u] = 0
      BY DEF RowInv
    <2>1. Waits(j)' = Waits(j) /\ Stamps(j)' = Stamps(j)
      BY DEF Waits, Stamps
    <2>2. \A u \in D!Tier : /\ Handing(j, u) = {} => Handing(j, u)' = {}
                            /\ Selected(j, u) = {} => Selected(j, u)' = {}
      OBVIOUS
    <2>3. /\ Waits(j) => entry[j[1]][j[2]].exists
          /\ \A u \in Stamps(j) : alarms[j][u] > 0
          /\ j[2] > newest[j[1]] =>
               ~Waits(j) /\ \A u \in D!Tier : Handing(j, u) = {} /\ Selected(j, u) = {} /\ alarms[j][u] = 0
      BY DEF DeadlineInv, RowInv
    <2> QED
      BY <2>1, <2>2, <2>3
  <1>3. AlarmInv'
    <2> SUFFICES ASSUME NEW j \in D!EntryId, NEW u \in D!Tier PROVE Counted(j, u)'
      BY DEF AlarmInv
    <2>1. Counted(j, u) /\ alarms' = alarms
      BY DEF DeadlineInv, AlarmInv
    <2>2. /\ Handing(j, u) \in SUBSET Replicas /\ Selected(j, u) \in SUBSET Replicas
          /\ Cardinality(Handing(j, u)) \in Nat /\ Cardinality(Selected(j, u)) \in Nat
          /\ Cardinality(Replicas) \in Nat /\ failures \in Nat /\ alarms[j][u] \in Nat
      BY AlarmCounts
    <2>3. Cardinality(Handing(j, u))' \in {Cardinality(Handing(j, u)), Cardinality(Handing(j, u)) - 1}
      <3>1. Handing(j, u) \ {p} = Handing(j, u) \/ p \in Handing(j, u)
        OBVIOUS
      <3>2. p \in Handing(j, u) => Cardinality(Handing(j, u) \ {p}) = Cardinality(Handing(j, u)) - 1
        BY <2>2, Counting
      <3> QED
        BY <3>1, <3>2
    <2>4. Cardinality(Selected(j, u))' \in {Cardinality(Selected(j, u)), Cardinality(Selected(j, u)) - 1}
      <3>1. Selected(j, u) \ {p} = Selected(j, u) \/ p \in Selected(j, u)
        OBVIOUS
      <3>2. p \in Selected(j, u) => Cardinality(Selected(j, u) \ {p}) = Cardinality(Selected(j, u)) - 1
        BY <2>2, Counting
      <3> QED
        BY <3>1, <3>2
    <2> QED
      BY <1>1, <2>1, <2>2, <2>3, <2>4 DEF Counted
  <1> QED
    BY <1>2, <1>3

LEMMA FaultSteps ==
  ASSUME D!DeadlineConstants, DeadlineInv, NEW p \in Replicas, D!StampFails(p) \/ D!Crash(p)
  PROVE  DeadlineInv'
  <1> USE DEF D!queue
  <1>1. D!TypeOK /\ SweepInv /\ ReviewInv
    BY DEF DeadlineInv
  <1>2. CASE D!StampFails(p)
    <2> DEFINE i == sweeping[p].at
               t == sweeping[p].tier
    <2>1. /\ i # << >> /\ failures' = failures + 1 /\ UNCHANGED <<newest, entry, review, alarms>>
          /\ sweeping' = [sweeping EXCEPT ![p].at = << >>]
      BY <1>2 DEF D!StampFails
    <2>2. i \in D!EntryId /\ t \in D!Tier /\ HandsOver(p, i, t)
      BY <1>1, <2>1 DEF D!TypeOK, SweepInv, HandsOver
    <2>3. PICK k \in D!EntryId, u \in D!Tier : HandsOver(p, k, u)
      BY <2>2
    <2>4. /\ sweeping' \in [Replicas -> SweepOf]
          /\ \A j \in D!EntryId, v \in D!Tier : Selected(j, v)' = Selected(j, v)
          /\ \A j \in D!EntryId, v \in D!Tier : (j = k /\ v = u) \/ Handing(j, v)' = Handing(j, v)
          /\ Handing(k, u)' = Handing(k, u) \ {p}
          /\ SweepInv'
      BY <2>1, <2>3, HandedOver
    <2>5. RowInv' /\ AlarmInv'
      BY <2>1, <2>4, FaultCounted
    <2>6. D!TypeOK'
      <3> HIDE DEF i, t
      <3>1. failures' \in Nat
        BY <1>1, <2>1 DEF D!TypeOK
      <3> QED
        BY <1>1, <2>1, <2>4, <3>1 DEF D!TypeOK
    <2> QED
      BY <1>1, <2>1, <2>4, <2>5, <2>6 DEF DeadlineInv, ReviewInv
  <1>3. CASE D!Crash(p)
    <2>1. /\ failures' = failures + 1 /\ UNCHANGED <<newest, entry, alarms>>
          /\ sweeping' = [sweeping EXCEPT ![p] = D!Rested] /\ review' \in {review, D!NoReview}
          /\ sweeping'[p] = D!Rested /\ \A q \in Replicas \ {p} : sweeping'[q] = sweeping[q]
      BY <1>1, <1>3 DEF D!Crash, D!TypeOK
    <2>2. /\ D!Rested \in SweepOf
          /\ D!Rested.todo = {} /\ D!Rested.at = << >>
      BY DEF D!Rested
    <2>3. D!NoReview \in ReviewOf
          /\ D!NoReview.step = "idle" /\ ~D!NoReview.flagged
      BY DEF D!NoReview, D!Number, D!DeadlineConstants
    <2>4. D!TypeOK'
      <3>1. sweeping' \in [Replicas -> SweepOf]
        BY <1>1, <2>1, <2>2 DEF D!TypeOK
      <3> QED
        BY <1>1, <2>1, <2>3, <3>1 DEF D!TypeOK
    <2>5. SweepInv'
      <3> SUFFICES ASSUME NEW q \in Replicas
                   PROVE  /\ sweeping'[q].tier = "none" => sweeping'[q].todo = {} /\ sweeping'[q].at = << >>
                          /\ sweeping'[q].at \notin sweeping'[q].todo
                          /\ sweeping'[q].at # << >> => alarms[sweeping'[q].at][sweeping'[q].tier] > 0
        BY <2>1 DEF SweepInv
      <3>1. CASE q = p
        BY <2>1, <2>2, <3>1
      <3>2. CASE q # p
        BY <1>1, <2>1, <3>2 DEF SweepInv
      <3> QED
        BY <3>1, <3>2
    <2>6. ReviewInv'
      BY <1>1, <2>1, <2>3 DEF ReviewInv
    <2>7. ASSUME NEW j \in D!EntryId, NEW u \in D!Tier
          PROVE  /\ Handing(j, u)' = Handing(j, u) \ {p}
                 /\ Selected(j, u)' = Selected(j, u) \ {p}
      <3>1. j # << >>
        BY IdsAreNoRest
      <3>2. Handing(j, u)' = Handing(j, u) \ {p}
        BY <2>1, <2>2, <3>1 DEF Handing
      <3>3. Selected(j, u)' = Selected(j, u) \ {p}
        BY <2>1, <2>2 DEF Selected
      <3> QED
        BY <3>2, <3>3
    <2>8. RowInv' /\ AlarmInv'
      BY <2>1, <2>7, FaultCounted
    <2> QED
      BY <2>4, <2>5, <2>6, <2>8 DEF DeadlineInv
  <1> QED
    BY <1>2, <1>3

(* The theorems.                                                           *)

LEMMA DeadlineInit ==
  ASSUME D!DeadlineConstants, D!Init
  PROVE  DeadlineInv
  <1>1. D!TypeOK
    BY DEF D!Init, D!TypeOK, D!NoRow, D!Row, D!Rested, D!NoReview, D!Number, D!DeadlineConstants
  <1>2. RowInv
    BY IdsAreNoRest DEF D!Init, RowInv, Waits, Stamps, D!NoRow, Handing, Selected, D!Rested
  <1>3. SweepInv /\ ReviewInv
    BY DEF D!Init, SweepInv, ReviewInv, D!Rested, D!NoReview
  <1>4. AlarmInv
    <2> SUFFICES ASSUME NEW i \in D!EntryId, NEW t \in D!Tier PROVE Counted(i, t)
      BY DEF AlarmInv
    <2>1. alarms[i][t] = 0 /\ failures = 0
      BY DEF D!Init
    <2>2. Handing(i, t) \in SUBSET Replicas /\ Selected(i, t) \in SUBSET Replicas
      BY DEF Handing, Selected
    <2>3. /\ Cardinality(Handing(i, t)) \in Nat /\ Cardinality(Selected(i, t)) \in Nat
          /\ Cardinality(Selected(i, t)) <= Cardinality(Replicas) /\ Cardinality(Replicas) \in Nat
      BY <2>2, Counting
    <2> QED
      BY <2>1, <2>3 DEF Counted
  <1> QED
    BY <1>1, <1>2, <1>3, <1>4 DEF DeadlineInv

LEMMA DeadlineStep ==
  ASSUME D!DeadlineConstants, DeadlineInv, [D!Next]_(D!vars)
  PROVE  DeadlineInv'
  <1>1. CASE UNCHANGED D!vars
    BY <1>1, ReviewStep DEF D!vars, D!queue, D!api, DeadlineInv, D!TypeOK, ReviewInv
  <1>2. ASSUME NEW p \in Replicas, NEW i \in D!EntryId, D!Announce(p, i) PROVE DeadlineInv'
    BY <1>2, AnnounceStep
  <1>3. ASSUME NEW p \in Replicas, D!Stamp(p) PROVE DeadlineInv'
    <2>1. sweeping[p].at \in D!EntryId /\ sweeping[p].tier \in D!Tier
      BY <1>3 DEF D!Stamp, DeadlineInv, D!TypeOK, SweepInv
    <2> QED
      BY <1>3, <2>1, StampStep
  <1>4. CASE D!Next
    BY <1>2, <1>3, <1>4, RequestSteps, ReviewSteps, SelectStep, FaultSteps DEF D!Next, D!Sweep
  <1> QED
    BY <1>1, <1>4

\* The inductive invariant of the sweeps of all replicas, the reviews and the queue.
THEOREM DeadlineInvariant ==
  ASSUME D!DeadlineConstants
  PROVE  D!Spec => []DeadlineInv
  <1>1. D!Init => DeadlineInv
    BY DeadlineInit
  <1>2. DeadlineInv /\ [D!Next]_(D!vars) => DeadlineInv'
    BY DeadlineStep
  <1> QED
    BY <1>1, <1>2, PTL DEF D!Spec

\* Without a lock between the replicas, an alarm is repeated at most once by each of them
\* and once by each fault.
THEOREM ReplicasBoundAlarms ==
  ASSUME D!DeadlineConstants
  PROVE  D!Spec => []D!AlarmsAreBounded
  <1>1. DeadlineInv => D!AlarmsAreBounded
    <2> SUFFICES ASSUME DeadlineInv, NEW i \in D!EntryId, NEW t \in D!Tier
                 PROVE  alarms[i][t] <= Cardinality(Replicas) + failures
      BY SameCounts DEF D!AlarmsAreBounded
    <2> QED
      BY AlarmCounts
  <1> QED
    BY <1>1, DeadlineInvariant, PTL

\* Although review() reads the stamps before its transaction, it reports only an entry
\* resolved that was announced; all variables keep their types.
THEOREM ResolutionFollowsAlarm ==
  ASSUME D!DeadlineConstants
  PROVE  D!Spec => [](D!TypeOK /\ D!ResolvedWasAnnounced)
  <1>1. DeadlineInv => D!TypeOK /\ D!ResolvedWasAnnounced
    BY DEF DeadlineInv, ReviewInv, D!ResolvedWasAnnounced
  <1> QED
    BY <1>1, DeadlineInvariant, PTL

-----------------------------------------------------------------------------
(* Both: a behaviour of MCSpec is one of each, and one of them rests.        *)

LEMMA NoticesPart == MCSpec => Spec
  <1>1. MCInit => Init
    BY DEF MCInit
  <1>2. [MCNext]_MCvars => [Next]_vars
    BY DEF MCNext, MCvars
  <1> QED
    BY <1>1, <1>2, PTL DEF MCSpec, Spec

LEMMA DeadlinesPart == MCSpec => D!Spec
  <1>1. MCInit => D!Init
    BY DEF MCInit
  <1>2. [MCNext]_MCvars => [D!Next]_(D!vars)
    BY DEF MCNext, MCvars, deadlines, D!vars, D!queue, D!api
  <1> QED
    BY <1>1, <1>2, PTL DEF MCSpec, D!Spec

\* The variables of both keep their types.
THEOREM NoticesTyped == MCSpec => []MCTypeOK
  BY NoticesPart, LogFollowsMail, DeadlinesPart, DeadlineAssumption, ResolutionFollowsAlarm, PTL
  DEF MCTypeOK

\* A deadline is announced at most once by each replica, and once more by each fault.
THEOREM AlarmsBounded == MCSpec => []AlarmsAreBounded
  BY DeadlinesPart, DeadlineAssumption, ReplicasBoundAlarms, PTL DEF AlarmsAreBounded

\* Only a deadline that was announced is reported as resolved.
THEOREM ResolvedAfterAlarm == MCSpec => []ResolvedWasAnnounced
  BY DeadlinesPart, DeadlineAssumption, ResolutionFollowsAlarm, PTL DEF ResolvedWasAnnounced

===============================================================================
