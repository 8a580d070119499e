# Interview Insights in TLA+

Interview Insights collects candidates' ratings of interview rounds, recruiters
and whole interview processes.  Nothing a candidate writes is public before it
was approved, and everything that is written, edited, deleted, decided and
published passes through one place: the moderation gate of the `api` service.
These modules model that gate statement by statement; the AI triage that feeds it
and the e-mails that tell of it, through an event bus; the deadlines, throttles,
accounts and erasure around it; and the three pages of the web client that keep
state of their own.  They check all of these with TLC, and prove every safety property
that the passing runs check with TLAPS, for any number of entities, queue entries,
staff, replicas, events, tabs and concurrent requests.

Paths below are relative to the repository (`src/`).  `moderation.service.ts`
is `api/src/moderation/moderation.service.ts`, and so on.

## The system

| Component | State | Operations | Talks to | In the model |
|---|---|---|---|---|
| Moderation service (`api/src/moderation/`) | `moderation_queue`, `ai_auto_approval_audit` | enqueue, reenqueue, removal, approve / reject / flag, claim / release, list / search with self-healing | search indexes, analytics, events, after the commit | `ModerationQueue` |
| Rating write paths (`round-ratings/`, `recruiter-ratings/`, `overall-reviews/`) | one row per rating with `status` and `moderationVerdict` | create, update, remove | the moderation service, in their transaction | `ModerationQueue` |
| Companies (`companies/`) | one row per company request | create, update | the moderation service | `ModerationQueue`, without the slug check |
| Search indexes (`search/`) | moderator queue index, public review index, company index | index, remove | written by the effects of the services above | `ModerationQueue`, as sets of documents |
| Analytics (`analytics/`) | materialized views | refresh | refreshed on approval | `ModerationQueue`, the refresh |
| Verdict consumer (`verdict-consumer/`) | `moderationVerdict` | store a verdict, auto-approve, flag a stalled triage | events in; the moderation service | its decisions in `ModerationQueue` (the actor `System`) and the whole of it in `VerdictPipeline` |
| Review analyzer (`services/review-analyzer/`) | none of its own | triage of a `*.created` event, hourly sweep over rows without a verdict | reads the api's tables; events in and out | `VerdictPipeline` |
| SLA sweep (`moderation/sla-breach-detection.service.ts`) | `breachNotifiedAt`, `warningNotifiedAt` | announce a breach or a warning, then stamp the entry; each replica of the api sweeps | reads and stamps `moderation_queue`; events out | `Deadlines` |
| Notification service (`services/notification-service/`) | `notification_log` | consume an event, mail, log; hourly sweep over what was missed | reads the api's tables; events in, mail out | `Notices` |
| Edit and IP throttle (`common/edit-throttle.*`, `common/ip-throttle.ts`) | a window and a count per candidate in a table, per address in memory | check and record | guards of the endpoints | `Throttles` |
| Staff accounts and their sessions (`staff-accounts/`, `admin-auth/`, `web: moderation/staff`) | moderator rows, an audit log | create, change role, (de)activate, reset and change passwords, sign in | none | `StaffAccounts` |
| Candidate authentication (`candidate-auth/`) | tokens, passwords, `tokenVersion` | register, link, verify, login, reset, logout | mail out | `CandidateAuth` |
| Erasure (`me/`) and the rows it removes (`interview-processes/`, `interview-rounds/`, ...) | all rows of a candidate | erase, next to creations, submissions, edits and decisions | moderation tables, indexes | `Erasure` |
| Web client (`web/src/app/me`, `moderation`, `write-review`) | lists, forms, drafts, calls under way | fetch, search, edit, act, submit | the api | `MyReviews`, `QueuePage`, `ReviewWizard` |
| Fraud checks, round-type registry, read-only pages, infrastructure, seeds | | reads, single inserts, rendering, deployment | | not modelled, reasons in `PROJECT.json` |

What makes the code hard:

- **Interleaving.** Every endpoint is an `async` handler; each `await` of a
  query lets any other request run.  There are several pods and no locks but
  the row locks that `UPDATE` and `DELETE` take, at READ COMMITTED.
- **Read, then transact.** Handlers check ownership, status and escalation on
  rows they read before their transaction starts.
- **After the commit.** Indexes, views and events are updated afterwards, best
  effort, one call after the other; calls of different requests overtake each
  other and may fail or be lost in a restart.
- **Lock order.** Edits lock the rating and then its queue row; reviews and
  deletions lock them the other way round.
- **No foreign key** between a queue entry and its entity, and a restricting one
  between an audit row and its queue entry.
- **Events without a version.** A verdict names an entity, not the text it was
  computed on; the notification sweep tells the status of now.
- **Send, then record.** The mail goes out before its log row, the alarm before its
  stamp: a restart in between repeats it, and every replica sweeps.
- **Check, then write.** The last admin, the throttle's window, a login link, a
  password are each checked in one query and written in another.
- **Answers out of order.** The pages neither cancel a call nor number its answers.

## Modules

| Module | What it is |
|---|---|
| `ModerationGate` | The abstract specification: per entity a status, at most one open submission, its escalation, and the number of decided ones.  `Submit`, `Resubmit`, `Decide`, `Withdraw` are atomic.  Also the theorem `CapEscalates` about it. |
| `ModerationQueue` | The detailed specification: the database tables, the row locks, and every request as a process with a program counter.  States the safety, action and liveness properties, and the refinement mapping into `ModerationGate`. |
| `ModerationInvariant` | The inductive invariant `GateInv`. |
| `ModerationClaims` | Statements of comments and documents that the handlers do not keep; each has a run with a counterexample. |
| `ModerationProofs` | TLAPS: `GateInv` is inductive, and the safety properties follow. |
| `ModerationRefinement` | TLAPS: `ModerationQueue` implements `ModerationGate`. |
| `EffectProofs` | TLAPS: the events that requests publish and the documents they put into public search after their commit. |
| `VerdictPipeline` | The AI triage of ratings: the review analyzer's consumer and its sweep, the event bus, the verdict consumer.  Uses `ModerationGate` for the requests to the gate.  States its properties and its inductive invariant `PipelineInv`. |
| `VerdictProofs` | TLAPS: `PipelineInv` is inductive, and the safety properties follow. |
| `Notices` | The e-mails: announcements of the gate (instance of `ModerationGate`) and of others, the event bus, the consumer and the sweep of the notification service, its log. |
| `Deadlines` | The sweeps of all replicas over the deadlines of the queue, against reviews, edits, claims. |
| `NoticeProofs` | TLAPS: the inductive invariants of both, and their safety properties. |
| `StaffAccounts`, `CandidateAuth` | Accounts, sign-in, passwords, sessions: each handler as its statements. |
| `Throttles` | The edit throttle (three statements on a shared table) and the IP throttle (memory of a replica). |
| `Erasure` | `eraseMe()` against concurrent requests on the candidate's content. |
| `AccountProofs` | TLAPS: an admin remains; which sessions outlive a password; what the throttles grant; what an erasure leaves. |
| `MyReviews`, `QueuePage`, `ReviewWizard` | Three pages of the web client with their calls and answers. |
| `PageProofs` | TLAPS: drafts become one process; the pages show what their user changed. |
| `MCModeration`, `MCVerdicts`, `MCNotices`, `MCServices` | The instances for TLC; the symmetry of requests in the first. |

### How `ModerationQueue` corresponds to the code

*State.*  `status` and `text` are the columns of an entity (a round rating, one of
the other ratings, or a company).  `text` is the number of the submission the
row's content came with, so that "this verdict is on that text" can be said.
`entry` is `moderation_queue`, indexed by the order of creation; `audits` is
`ai_auto_approval_audit`.  `entityLock` and `entryLock` are Postgres' row locks.
`queueIndex`, `publicIndex`, `view`, `created`, `announced` are the two kinds of
search index, the materialized views, and the two kinds of event.

*Requests.*  A request is a process: `pc` is its next statement, `arg` what it has
read (the local variables of the handler), `todo` the calls left after its
commit.  There is one action per database statement that reads committed state
or takes a lock.  Statements that a lock already protects are merged with the
one before them; the writes of a transaction become visible at its last
statement, since nobody sees them earlier at READ COMMITTED and their rows stay
locked until then.

| Handler | Statements |
|---|---|
| `create()` | `Create`: a transaction that only inserts |
| `update()` | `UpdateRead` (the check of the status), `UpdateRow` (the entity's row), `DeleteUnreviewed` and `Enqueue` (`reenqueue()`: delete, count, insert, commit) |
| `remove()` | `RemoveRead`, `SnapshotEntries` and `RemoveEntries` (the `DELETE` of all queue rows: the rows its snapshot shows, then their locks; an audited one fails it), `RemoveRow` and the commit |
| `review()` | `ReviewRead` (with the guard), `ReviewExists` (or the removal of an orphan), `ReviewDecide` (`updateMany ... reviewedAt: null`), `ReviewApply` (the entity, the audit, the commit) |
| `claim()`, `release()` | `ClaimRead` / `ClaimWrite`, `ReleaseRead` / `ReleaseWrite` |
| `listPending()`, `search()` | `ListRead` / `SearchRead`, `HealOrphans` (fails on an audited one) |
| after the commit | `Call` (`Fetch` reads the row a document is made of, `Perform` is the call itself, `CallFails`), `Respond` |
| Postgres and the pod | `DeadlockVictim`, `Crash` |

`Committed`, `Fail`, `Begin` and the lock operators are the few ways a handler can
move on.

*Abstractions.*  A text is the submission it came with.  Types of ratings that
differ in nothing but their table are told apart only where the code does
(only round ratings have a public index; each view covers one type).  A refresh
of the materialized views is one step.  The consumer's `findFirst` and the read at
the beginning of `review()` are one step, since `review()` checks everything the
first read could have got wrong but `escalated`, which never changes in a row.
The guard's read of `escalated` is merged with the handler's own for the same
reason.  `approve()` of a company that collides with an approved slug is not
modelled.

### How `VerdictPipeline` corresponds to the code

*State.*  `status`, `open`, `escalated`, `decided` are the variables of
`ModerationGate`, instantiated for ratings.  `verdict` is `moderationVerdict`, as the
number of the text the LLM was shown (0 for null).  `aged` are the ratings whose
`createdAt` the sweep finds old enough; an edit does not change `createdAt`.
`requests` and `bus` are the two kinds of topics, by rating: the events are keyed by
the rating, so those of one rating stay in order.  `job` is what the analyzer's
consumer and its sweep have in hand while they wait for the LLM, `applying` what the
verdict consumer has done of the message it has in hand, `stale` the ids the sweep
still has to go through.

*Steps.*  The requests to the gate are single steps here, because the statements of
their handlers implement exactly those steps: that is the theorem
`HandlersImplementGate`.  In the pipeline each query that reads or writes shared state
is a step of its own:

| Handler | Steps |
|---|---|
| `create()`, `update()`, `remove()`, `review()` | `Create`, `Update`, `Remove`, `Review` |
| `AnalysisConsumerService.processEvent()` | `ConsumeCreated` (the content is fetched), `PublishVerdict` (the LLM has answered, or not) |
| `ReconciliationSweepService.sweep()` | `Sweep` (the selection), `ReconcileOne` (the content is fetched), `PublishSwept` (a verdict, or a request for a flag) |
| `VerdictConsumerService.processEvent()` | `StoreVerdict`, `FindEntry`, `DecideEntry`, and `HandlerFails` at any of them |
| Restarts | `AnalyzerRestarts`, `ApiRestarts` |

*Faults.*  An event may be lost when it is published, a handler may fail and is not
retried, a restart drops what is in hand and replays it together with some events
that were handled already (offsets are committed from time to time).  The LLM may
give no answer, or one without a confidence, any number of times: the event made of the
latter (`NoConfidence`) does not fit the schema of the api, which skips it.

*Abstractions.*  An answer of the LLM is the text it is about, whether it makes
the rating eligible for approval, and whether its event fits the schema (`valid`).  The three types of ratings are swept as one, and
one sweep at a time.  A rating has one consumer, as its partition has one in the
group.  An analyzer without an API key, which does nothing, and a
producer's retry that duplicates a message are not modelled.

### How `Notices` and `Deadlines` correspond to the code

`status`, `open`, `escalated`, `decided` of `Notices` are those of `ModerationGate`, whose
steps are atomic by `HandlersImplementGate`; `outcome` is the decision in each row of
`moderation_queue`, `stale` those more than an hour old.  `bus` counts the messages of a
key that wait, `redo` the handled ones whose offset is not committed.  A key is the row
an announcement gets in `notification_log`; keys do not affect each other, so the bus
is a bag, and a behaviour follows one kind of announcement (`followed`), by which the
run is kept small.

| Code | Steps |
|---|---|
| `create()`, `update()`, `remove()` / `eraseMe()`, `review()` | `Create`, `Update`, `Remove`, `Decide`, each with its `Publish`, which may lose the event silently |
| the breach sweep, staff actions | `Alarm` |
| `NotificationConsumerService.processEvent()` and its counterparts | `Consume` (log and recipients), `SendMail`, `RecordSent`, or `HandlerFails` |
| `ReconciliationSweepService` | `SelectMissed`, `Reconcile`, `SendMail`, `RecordSent` |
| a restart of the service | `Restart` |

In `Deadlines` an entry is what the sweep's two queries look at: whether it waits, how
near its deadline is, whether it is claimed, and its stamps.  `Select`, `Announce`, `Stamp`
are the sweep of one replica (`sweepWarnings()` and `sweepBreaches()`), `StampFails` and
`Crash` its faults; `ReviewRead`, `ReviewDecide`, `ReviewResolve` are what `review()` does of
it; submissions, removals and claims are atomic.

### How the other modules correspond to the code

Each follows the same rule: a query or a call is a step, what follows it up to the next
one belongs to it.

- `StaffAccounts`: `Ask`, `Read`, `Count` (the guard of the last admin), `Write`, `Finish` (the
  audit row) are the statements of `StaffAccountsService` and of the own password change;
  `SignIn`, `SignOut`, `Boot` (the seeded root admin), `Load`, `Arrive` the session and the
  page.  Root, seeded and created accounts, all three roles and their permissions.
- `CandidateAuth`: `Upsert`, `Create`, `Mail` (a link), `Check` (the link's row), `Consume`, `Use`
  (login, verification, reset), `Respond` (the cookie).  `tokenVersion` is compared by
  `Accepted`.  Mails may be lost, links expire, the account may be erased.
- `Throttles`: `Bump`, `Read`, `Start` are the three statements of `recordAttemptIfAllowed()`,
  `Attempt` is `isBlocked()` and `recordAttempt()` of one address; `Tick` is time, `Restart` the
  loss of a replica's memory.
- `Erasure`: `Begin`, `Read` (the tables, in any order), `Delete` (one transaction), `Purge` (one
  call per document), next to `Submit`, `Edit`, `Decide` with their `Fetch` / `Index`, and
  `CreateProcess`, `CreateRound`, `RemoveProcess`.
- `MyReviews`, `QueuePage`: `Call` / `Act` sends, `Carry` is the api's answer being computed, the
  `...Arrives` actions are the answers; fetches and searches likewise.  A call
  is carried out or not, and the answer of one that was may be lost, which is an error for
  the page.  Each call has a number, so that two equal ones remain two.  The list of `QueuePage` is grouped by
  submission as `groups` is in the page; `Sorted` says what its order is and not how it is
  computed, since entries of equal deadlines may come in any order.
- `ReviewWizard`: `store` is the browser's `localStorage`, `wizard` the state of a tab; the
  `Edit...`, `Add...`, `Remove...` actions write the whole copy through (`Persist`);
  `CreateBulkProcess`, `Succeeds`, `Fails` are the one call and its answers; a tab that shows
  something else (`Unmount`) has no page left for the answers of what it sent before.  `StepIssues` and
  `ValidateDraft` translate the validation.

*Abstractions.*  Passwords, texts and titles are model values; a session token is the
version it was issued for.  One mail address, one candidate, one address per
throttle: those of others are other rows.  `MyReviews` does not delete empty
processes (`RemoveProcess` of `Erasure` does); the page of the staff is followed for the
root admin.

## What the runs show

Bounds are constants of each `.cfg`.  `Proc` has two requests wherever requests
interleave: every conflict in this code is between two transactions (lock
cycles, a check against a write), and the proofs cover any number of them.
`MaxEntries` bounds the submissions ever made.  A run says which endpoints are
called (`Ops`) and which effects are followed (`Tracked`).  All runs of the gate
set `CHECK_DEADLOCK FALSE`: once the ids are used up and everything is decided,
the system is idle, and nothing is left to do; that requests do not block each
other for ever is checked as `EveryRequestEnds`.

| Run | Question | Instance |
|---|---|---|
| `Gate` | Do concurrent creations, edits, deletions and decisions keep the tables consistent and implement the abstract gate? | one rating, a moderator, an admin and the system, two requests, 4 submissions, `Cap` 2: an entity is decided twice and submitted a third time, escalated, and a fourth time |
| `Claims` | Is a claim ever taken over; does an event ever announce what was not decided? | two moderators, failing calls, crashes |
| `Progress` | Is what was approved found by public search once the requests are done?  Do requests end, orphans go, pending entities become findable? | a round rating and a company with their documents and the view, 2 submissions in all, no lost calls; safety and liveness, 0.24 million states |
| `Triage` | Does automation keep off escalated and young ratings, and keep its verdicts in order, whatever is lost, repeated, late or malformed; does a pending rating stay without a verdict for ever? | one rating, submitted and edited, `Cap` 1 so that the edit of a decided rating is escalated; two events of it on the bus, one loss, one restart with one replayed event per topic; 2.5 million states |
| `Notices` | Is a decision mailed whatever is lost; are mails and alarms repeated by faults only, and do they tell what was decided? | one rating, two submissions, a broadcast, two alarms of it, one fault (a lost event, a failure, a restart) with one replayed message; or two replicas with the deadlines of two entries; 0.74 million states |
| `Services` | The seven smaller modules, each for itself: does an admin remain, is a session's password the one in force, is the throttle's limit kept per window, does an erasure leave nothing, do the pages show what was done, does a draft become one process? | 3 accounts, two of them seeded admins, 2 operations, 1 crash; 2 browsers, 2 passwords, 2 links, 3 requests; 2 callers, limit 2, window 1; 2 ratings, 2 processes, 5 requests; an item of each kind (2 present), 2 edits; 2 queue entries of two submissions, 4 calls; 1 tab, 1 draft, 2 changes, 2 submissions; 1.55 million states |
| `StaleVerdict` | Is it the approved text that was triaged?  Refuted | one rating, one edit, no faults |
| `AnswerWithoutConfidence` | Does the sweep re-triage or flag every rating it finds?  Refuted | one rating, one text, no faults |
| `EditAfterPermanentRejection`, `DeletionOfAutoApproved`, `EditDuringApproval`, `RejectionOfPublic` | The four claims of `ModerationClaims`, each refuted | |

The properties:

- `OneLiveEntry`: an entity never has two entries to review, though two edits
  delete and insert concurrently.  The row lock of the entity serializes them.
- `VerdictIsOnCurrentText`: a status is the verdict on the text the row has now,
  though an edit and a review touch the row and the entry in opposite order.
- `EscalatedAtCap`: an open entry is escalated exactly if its entity has `Cap`
  decided entries, though the count is read while reviews run.
- `EscalatedNeedsAdmin`: no moderator and no automation approves or rejects an
  escalated entry.
- `AuditedIffAutoApproved`: an audit row exists exactly for automatic approvals.
- `DecisionIsFinal`, `TrailIsPermanent`, `ClaimIsNotStolen`: what a step may never do.
- `AnnouncedWasDecided`: an event tells a committed verdict.
- `ApprovedIsSearchable`: without crashes and lost calls, no order of effects
  leaves an approved entity out of public search.
- `ImplementsGate`: the refinement.
- `EveryRequestEnds`, `OrphansAreHealed`, `PendingBecomesFindable`: liveness.
- `AutomationSparesEscalated`: the verdict consumer checks `escalated` in one query
  and approves in another, and `approveWithAudit()` checks nothing; the entry's id
  ties the two together, since an edit never escalates an entry but replaces it.
- `YoungVerdictsAdvance`: in its first day, and without a replay, a rating's verdict
  never goes back to an earlier text: the order of its events carries through both
  services, whatever is edited, lost, or left without an answer.
- `StalledFlagIsLate`: automation flags nothing that has not waited for a day, though
  requests for a flag may be replayed.
- `PipelineInv`: what the sweep, the bus, a replay and the consumer have in hand fits the
  rating as it is now, whatever was edited, decided or lost since.
- `OnlyUnfitAnswersLeaveUntriaged`: though events are lost, services restart and the LLM
  fails for ever, a rating stays pending without a verdict only if the LLM answers without
  a confidence again and again.  That this does happen is what `AnswerWithoutConfidence`
  shows.

- `LoggedWasMailed`: a row of `notification_log`, which suppresses a mail for good, is
  never there without the mail, whatever fails between the two.
- `MailsAreBounded`: two workers mail from the same tables and neither locks: a key is
  mailed at most once by each, and once more per fault.
- `MailTellsADecision`: the sweep tells the status the entity has *now*, and the entry it
  is about may be an earlier one; yet what it tells was decided, on that or a later entry.
- `DecisionIsMailed`: liveness; a decision that stands is mailed though its event was lost.
- `AlarmsAreBounded`, `ResolvedWasAnnounced`: the replicas select before they stamp, and the
  review reads the stamps before its transaction.
- `AnAdminRemains`: an active admin other than the root one remains, unless two removals
  are past their counts at the same time; then the last admin does go (a defect below).
- `PasswordSessionsAreCurrent`: a session given for a password, those included that were
  about to be given at the time of a reset, is not accepted after the reset; overlapping
  registrations are the exception.
- `GrantsAreBounded`: a window grants at most the limit; windows that overlapping
  requests start are counted, so the limit per hour is not kept.
- `ErasureIsComplete`: nothing of the candidate is left but of ratings with a request or a
  lost call meanwhile, or edited after they were public (a defect below).
- `PagesShowOwnChanges`: with nothing under way, the page of own reviews shows what is
  stored unless an older list came last or the answer of the latest change, or its list, was
  lost; and the queue page shows no entry that it was told is decided, unless a list read
  earlier came later.
- `ADraftBecomesOneProcess`: a draft is submitted once and not lost.

*Exceptions in properties.*  `raced`, `overwritten`, `missed`, `edited`, `overtaken`, `floor`,
`droppable` and `repeatable` are history variables that name the interleavings in which the
code does not keep the promise; the properties say that there are no others *in the model*,
and each exception is listed as a defect below.  What a property says is thus weaker than
what one would want of the code: `floor` excuses the page of own reviews as long as a newer
list has come, or a change was carried out without its answer; `Unfit` excuses the
triage as long as answers without a confidence keep coming.

*Fairness.*  `RequestsRun` is strong fairness of each request's next statement: the
event loop runs a started request on, and a transaction that waits for a row
lock is in Postgres' queue for that lock, so that it gets it although others
take it in between; Postgres aborts one transaction of a lock cycle
(`DeadlockVictim`).  `QueueIsRead` says that moderators open the unfiltered queue
page again and again; `OrphansAreHealed` and `PendingBecomesFindable` need it,
since the code heals its tables and the index on that read only.  `ServicesRun` is
weak fairness of the cron job and of each step of the sweep and of the verdict
consumer, and of time passing: both are loops that run as long as their pods do,
and restarts and losses are finitely many in a run (`MaxRestarts`, `MaxLost`).
The analyzer's consumer is not assumed to run at all: the sweep alone must do.  No
run assumes that anybody decides, edits or submits, or that the LLM answers, with or
without a confidence.

`DecisionIsMailed` assumes that hours pass and that the sweep of the notification service
runs on (`FairSpec`); of the bus and its consumer nothing.

*Size of `Notices` and `Services`.*  The parts of a run share no variable, so that a
behaviour is one of a single part.  The safety properties of all of them are proved without
bounds.  The bounds of the runs leave room for what they are about: two overlapping requests on one account with a link each
and a third to see the result; an erasure with an edit, a decision and its index call;
an answer that is overtaken by a later one and by an action; a submission repeated after
a failure.  `ReviewWizard` was also checked with two tabs and one change.

*Size of `Triage`.*  One rating: two ratings share nothing but the services' turns,
and the theorems hold for any number.  The safety properties have proofs
without bounds.  The liveness property needs a loss, a restart, an edit and an answer that
does not fit to be endangered, and the run has all four.

*Size of `Progress`.*  Two submissions are two of one entity, so that the effects of its
first approval meet its edit, its second approval and its deletion, or one of each
kind of entity, for the view.  `ApprovedIsFound` proves the safety property for any number.

## Where the code and its documents disagree

Each is a run with a counterexample (the quotations are in `PROJECT.json`):

1. `EditAfterPermanentRejection`: `permanently_rejected` is called terminal, but
   `update()` checks it before its transaction and then sets `pending`
   unconditionally.
2. `DeletionOfAutoApproved`: "a candidate may delete their own rating at any
   status", but the audit row of an automatic approval restricts the deletion of
   its queue entry, at any later status.
3. `EditDuringApproval`: only approved texts are public, but the text that is
   indexed is fetched after the approval's commit.
4. `RejectionOfPublic`: a rejection "keeps it hidden", but nothing removes the
   document of an earlier approval.
5. `StaleVerdict`: an edit resets the verdict so that the new text cannot "be
   auto-approved against" the old one's, but a verdict that is computed or on the bus
   at that time names only the rating: it is stored over the null, and approves the
   new text.
6. `AnswerWithoutConfidence`: the sweep "re-triages/escalates" every rating that waits for a
   day, but an answer of the LLM without a confidence is a verdict for the analyzer and a
   malformed event for the api: it is published and skipped every hour, and the rating is
   neither triaged nor flagged.

Seen while modelling, without a run of their own:

- Gate and triage: the cap does not count submissions that were replaced before their
  decision (`moderation.service.ts` 282-283 says every submission counts); a crash after
  the commit leaves an approved rating out of the public index, and nothing repairs
  that; the view is refreshed on approvals only, so it counts ratings that were edited
  or deleted since (941-944); a late verdict on an earlier text also takes the rating
  out of the sweep's selection, so that an edit whose own event was lost is never
  triaged, against `analysis-consumer.service.ts` 153-157 ("a dropped event here just
  means that" the sweep computes the verdict later); and `verdict-consumer.service.ts`
  202-207 says that a dropped verdict stays null "permanently", which
  `OnlyUnfitAnswersLeaveUntriaged` shows to be too pessimistic for all events but the
  malformed ones; `CompaniesService.update()`
  (86) undoes a concurrent approval.
- Notices: `notification-consumer.service.ts` 428-430 says "there's no sweep that re-sends
  a missed notification", while `reconciliation-sweep.service.ts` is one; permanent
  rejections are never mailed; an entry that is approved after a flag on an earlier one
  is mailed twice; an error in the sweep leaves the rest of it to the next hour.
- Deadlines: an alarm that is stamped after `review()` read the entry is never reported
  as resolved.
- Staff: two admins who remove each other both pass the count of the last admin; the
  change of one's own password overwrites an admin's concurrent reset; the audit row is
  lost if the api stops between the change and its record.
- Candidates: a link can be used by two requests that overlap; `register()` can overwrite
  a password that was set meanwhile, without ending sessions.
- Throttle: `edit-throttle.service.ts` 64 says that concurrent requests under-count "by at
  most one"; each of them that finds the window expired starts it again.
- Erasure: the document of a rating edited after its approval stays public
  (`me.service.ts` 292-299 takes out approved ones only); a candidate with an automatically
  approved rating cannot be erased (the foreign key of defect 2); documents of pending
  ratings stay in the moderators' index.
- Recruiters: the label of `findOrCreate()` is made from a count, so two at the same time
  get the same one.
- Pages: the page of own reviews keeps its old list when a change was made and its answer
  lost, or when two lists arrive out of order (`me/page.tsx` 108, 122, 636), and a repeated
  removal is then answered with an error; clearing a comment is never stored and a form is filled once, at mount
  (`me/page.tsx` 104, 241-244, 391); the queue page rejects without the category the api
  requires, remembers open groups by position (`moderation/page.tsx` 493), and does not
  cancel an overtaken list; a draft in two tabs, or one left while its submission is on its
  way, can become two processes or come back; edits during a submission are lost with the
  draft; after a removal two rounds can have the same number (`write-review/page.tsx` 377).

## What is proved

Every invariant and every action property of the passing runs has a theorem, and so has
the refinement.  Assumptions: for the gate `ConstantsOK` only (ids of different kinds
differ, `Cap >= 1`); for each other module the named assumption on its constants, which
TLC evaluates with each run.  The sets of entities, staff, replicas, tabs and requests are
arbitrary, and so are all bounds.  Where a run puts several modules side by side
(`MCNotices`, `MCServices`), a lemma per module shows that the specification of the run
implies the one of the module (`StaffPart`, `QueuePart`, ...), so that the theorems speak
of exactly the properties that the run checks.

| Properties | Theorems | Module | Inductive invariant |
|---|---|---|---|
| `TypeOK`, `OneLiveEntry`, `VerdictIsOnCurrentText`, `EscalatedNeedsAdmin`, `AuditedIffAutoApproved`, `DecisionIsFinal`, `TrailIsPermanent`, `ClaimIsNotStolen` | `TypeCorrect` and those after it | `ModerationProofs` | `GateInv` |
| `ImplementsGate`, `EscalatedAtCap` | `HandlersImplementGate`, `EscalationIsAtCap` | `ModerationRefinement` | `GateInv`, and `CapEscalates` in the abstract gate |
| `AnnouncedWasDecided`, `ApprovedIsSearchable` | `EventsTellVerdicts`, `ApprovedIsFound` | `EffectProofs` | `GateInv` and `EffectInv` |
| those of `Triage` | `PipelineInvariant`, `EscalatedIsSpared`, `FlagsAreLate`, `YoungVerdictsInOrder` | `VerdictProofs` | `PipelineInv` |
| those of `Notices` | `LogFollowsMail`, `FaultsBoundMails`, `MailsTellDecisions`; `NoticesTyped`, `AlarmsBounded`, `ResolvedAfterAlarm` | `NoticeProofs` | `NoticeInv`, `DeadlineInv` |
| `AnAdminRemains`, `PasswordSessionsAreCurrent`, `GrantsAreBounded`, `ErasureIsComplete` | `StaffKeepsAnAdmin`, `ResetsEndSessions`, `ThrottlesBoundGrants`, `ErasuresEndComplete` | `AccountProofs` | `StaffInv`, `CandidateInv`, `ThrottleInv`, `ErasureInv` |
| `ADraftBecomesOneProcess`, `PagesShowOwnChanges`, `ServicesTyped` | `DraftsAreSafe`, `PagesAreCurrent`, `ServicesAreTyped` | `PageProofs` | `WizardInv`, `ReviewsInv`, `QueueInv` |

### The gate

`GateInv` (in `ModerationInvariant`) is the inductive invariant:

- `TypeOK`;
- `ReadsAreOfRows`: what a request has read names rows that were inserted, and
  its reviewer may decide that entry (`escalated` never changes, so the guard's
  early read stays right);
- `LocksAreHeld`: at its writing statements a request has locked exactly the rows
  it is about to write; at `enqueue` these are *all* live entries of the entity,
  because only the holder of the entity's lock inserts entries and the others'
  decisions are waited for;
- `TablesInv`: `OneLiveEntry`, `LiveIsCurrent` (the live entry is the one of the
  current text), `VerdictIsOnCurrentText`, `EscalatedNeedsAdmin`,
  `AuditedIffAutoApproved`.

The properties alone are not inductive: that an edit leaves one live entry needs
that the rows it deletes are the ones live *when it commits*, which is
`LocksAreHeld`; that a review's verdict fits the text needs that its entry is the
entity's live one, which needs `LiveIsCurrent`.

`ModerationProofs` shows `Init => GateInv`, and for each statement that it keeps each
part of `GateInv`.

`ModerationRefinement` shows that each statement maps to a step of the gate:
`Create` to `Submit`, `Enqueue` to `Resubmit`, `ReviewApply` to `Decide`, `RemoveRow` to
`Withdraw`, and all others to a stutter (`HandlersImplementGate`).  In the abstract
gate, `CapEscalates` is a short induction; `EscalationIsAtCap` carries it over to
the rows of the table.

`EffectProofs` adds what requests do after their commits.  `EffectsAreSound` says of each
effect a request has *left* that it can only do right: an event to publish is of the
decision in its row, which `DecisionIsFinal` keeps; only what is deleted is to be taken out
of public search.  `ApprovedAreFindable` says that an approved entity is in the index *or
some request is about to put it there* — that a document put by one request may be
overwritten by another, late one does no harm as none of them takes it out.  When no
request is left, the first half remains, which is `ApprovedIsSearchable`.

### Triage

`VerdictProofs` shows `PipelineInv` from `PipelineConstants` alone (`None` is
not a rating, the bounds are numbers, as large as one likes).  Besides `TypeOK` it
says:

- `OpenIsPending`, `AbsentHasNoText`: what the pipeline needs to know of the gate;
- `ConsumesARequest`: the analyzer has only events in hand that are not handled yet;
- `LooksUpEntries`: the message in hand is the first of its rating, and the entry
  that was looked up for an approval is not escalated *as long as it is the one to
  review*, which is why the later decision, tied to that entry, spares escalated ones
  (`EscalatedIsSpared`);
- `SweepIsLate`: neither the sweep's selection, nor an event on the bus, nor one that a
  restart may replay asks for a flag of a young rating (`FlagsAreLate`);
- `VerdictsInOrder`: along row, bus and analyzer the texts of a young rating's
  verdicts never decrease (`YoungVerdictsInOrder`).

The pipeline and the notices act on the gate by its own operations, so that both implement
`ModerationGate` (`PipelineUsesGate`, `NoticesUseGate`) and inherit `CapEscalates`.  With
`EscalatedIsSpared` this gives `CappedIsSpared`: the consumer approves nothing that was
decided `Cap` times, though it counts no decisions and reads the escalation early.

### Notices and deadlines

`NoticeInv` adds to `TypeOK` that the decisions in the queue are
of past submissions and the status of a decided entity is that of its latest one
(`QueueInv`); that each worker has a key in hand whose decision was made, and past the mail
has sent it (`JobInv`); and a count (`Bound`): before the log row, every mail of a key is one
whose worker is about to log it, or one of an earlier fault; after it, workers that had
begun before are all that can still mail.  `LogFollowsMail`, `FaultsBoundMails` and
`MailsTellDecisions` follow.

`DeadlineInv` counts replicas: as long as an entry is not stamped, each announcement is
in the hand of a replica or belongs to a fault; once it is stamped, only the replicas that
had selected it before can announce it again.  The two sets are disjoint, which gives
the bound (`ReplicasBoundAlarms`).  A stamp follows its announcement, so a review that read
a stamp reports an announced entry (`ResolutionFollowsAlarm`).

### Accounts, throttles, erasure

- `StaffInv`: a removal that is past its count of the other admins, or needed none, leaves
  an admin behind, as long as no second one is past its own (`raced`).
- `CandidateInv`: the sessions in the browsers *and those that requests under way are about
  to give* are of no account or version that is still to come (`Dated`), and those that
  would be accepted were given for the password in force (`Current`).  The first is needed:
  a session of a version to come would be accepted after the next reset.
- `ThrottleInv`: the windows before the current one are filled at most to the limit, and the
  current one by its count (`Filled`).
- `ErasureInv`: what the erasure has read of each table is all there is but for what is
  `missed` or `edited` (`ReadsAreComplete`), so that what remains after its transaction is
  known: the documents it is still to remove, and those of the exceptions
  (`RemainsAreKnown`).  Both need that each request under way finds its rating as it left
  it while the candidate is there (`RowsStand`), and that nothing is added afterwards
  (`NothingLeft`).

### Pages

- `WizardInv`: as long as a draft was not changed or opened again during a submission, it is
  in one tab and in one submission, and that tab waits for it (`Alone`); a process that was
  made of it belongs to a submission still to be answered, or the draft is gone
  (`MadeOnce`); store, tabs and submissions agree on its content until then (`NotLost`).
  A page that waits shows the draft it waits for (`MountedStays`).  The submissions have
  numbers, and the processes made and those on their way are no more than these.
- `ReviewsInv`: a list that saw as many changes as there were is what is stored
  (`NewestIsCurrent`), and one that saw all of them is there, on its way, or about to be
  asked for, or its loss or that of the change's answer is recorded in `floor`
  (`NewerIsComing`), in whatever order answers come.
- `QueueInv`: what this page decided is decided, also between the api's answer and its
  arrival (`DecidedIsKept`), and each list on its way that still shows it was noted in
  `overtaken` (`AnswersAreNoted`).

The proof of the wizard found a fault of an earlier version of the model: a tab that opened
another draft still took the answer of what it had sent before, which the page, being
unmounted, does not.  That of the reviews found another: two equal calls were one element
of a set.

### Only model-checked

The liveness properties: `EveryRequestEnds`, `OrphansAreHealed`, `PendingBecomesFindable`,
`OnlyUnfitAnswersLeaveUntriaged`, `DecisionIsMailed`.  They rest on fairness, hence on `ENABLED`,
which TLAPS does not reason about.  The refuted claims have counterexamples instead of
proofs.  What a sort or a filter of a sequence computes would need an induction over its
length, which is out of reach too; so the lists are described by what they are
(`Sorted`), and sequences are taken apart at their ends only.

## Not modelled

- Fraud checks, the round-type registry, read-only endpoints and pages, analytics
  queries: reads, or a single insert of one row.
- The slug of a company (a unique constraint decides), the labels of recruiters.
- The contents of mails and events, formatting, translations, layout.
- Infrastructure, migrations but for the constraints they leave, seeds, the bootstrap of
  secrets: they run once, before or beside the system.
- The delivery of the mail itself; the broker, beyond loss, delay and replay.

`PROJECT.json` lists every component with its state and the reason.

## Plan

All components whose steps interleave are modelled, some in part (`PROJECT.json` names
what is left out of each), and their safety properties are proved.  What could come next:

- abstract specifications of the smaller modules, as `ModerationGate` is one of the gate: a
  log of mails that are sent at least once, a password that one session version belongs
  to, a draft that is submitted once; and the proof that the modules implement them;
- for the liveness properties, the safety half of their arguments: that a pending rating
  without a verdict stays selected by the sweep until it has one.
