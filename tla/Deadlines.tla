------------------------------- MODULE Deadlines -------------------------------
(***************************************************************************)
(* The deadlines of the moderation queue.  An hourly sweep in each replica *)
(* of the api announces entries whose deadline draws near or has passed,   *)
(* and stamps them afterwards; a review announces that an entry with a     *)
(* stamp was dealt with.  What becomes of the announcements is the subject *)
(* of module Notices.                                                      *)
(*                                                                         *)
(* Of the requests to the moderation gate only the queue entries matter    *)
(* here; a submission, an edit and a deletion are atomic (module           *)
(* ModerationQueue has their statements).  Every query of the sweeps, and  *)
(* everything a review does before and after its commit, is a step of its  *)
(* own.  A ..._Mutant is the definition after it with a bug in it; no      *)
(* action uses it.                                                         *)
(***************************************************************************)
EXTENDS Integers, FiniteSets

CONSTANTS
  Entity,       \* rated entities and requests for a company
  MaxEntries,   \* bound on the submissions of an entity
  Replicas,     \* of the api: each runs the sweep
  MaxFaults,    \* bound on failed stamps and restarts of replicas
  None

DeadlineConstants ==
  /\ MaxEntries \in Nat \ {0} /\ MaxFaults \in Nat
  /\ IsFiniteSet(Replicas) /\ None \notin Entity

VARIABLES
  newest,        \* number of the latest queue entry of an entity
  entry,       \* moderation_queue
  sweeping,    \* what the sweep of each replica has selected and not dealt with yet
  review,      \* the review under way, with what it has read
  alarms,      \* how often an alarm was handed to the publisher, by entry
  failures

queue == <<newest, entry>>
api   == <<sweeping, review, alarms>>
vars  == <<queue, api, failures>>

Number  == 1..MaxEntries
EntryId == Entity \X Number
Tier    == {"warning", "breach"}

\* A queue entry: whether it is in the table and still to be reviewed, whether its
\* deadline is near or over, whether someone is on it, and the alarms stamped on it.
Row == [exists : BOOLEAN, waits : BOOLEAN, due : {"fresh", "near", "over"},
        claimed : BOOLEAN, stamps : SUBSET Tier]
NoRow == [exists |-> FALSE, waits |-> FALSE, due |-> "fresh", claimed |-> FALSE, stamps |-> {}]
NewRow == [NoRow EXCEPT !.exists = TRUE, !.waits = TRUE]
\* Nobody looks at the deadline or the claimant of a reviewed entry.
Reviewed(r) == [NoRow EXCEPT !.exists = TRUE, !.stamps = r.stamps]
Current(e) == entry[e][newest[e]]
Open(e)    == newest[e] > 0 /\ Current(e).waits

-----------------------------------------------------------------------------
(* Candidates and moderators.                                              *)

\* enqueue() and reenqueue(), which deletes the entry that waits.
Submit(e) ==
  /\ newest[e] < MaxEntries
  /\ newest' = [newest EXCEPT ![e] = @ + 1]
  /\ entry' = [entry EXCEPT ![e] = [n \in Number |->
       CASE n = newest[e] + 1 -> NewRow [] @[n].waits -> NoRow [] OTHER -> @[n]]]
  /\ UNCHANGED <<api, failures>>

\* removeQueueEntries().
Remove(e) ==
  /\ newest[e] > 0 /\ Current(e).exists
  /\ entry' = [entry EXCEPT ![e] = [n \in Number |-> NoRow]]
  /\ UNCHANGED <<newest, api, failures>>

\* claim() and release(); breaches are announced whether the entry is claimed or not.
ClaimOrRelease(e) ==
  /\ Open(e) /\ Current(e).due # "over"
  /\ entry' = [entry EXCEPT ![e][newest[e]].claimed = ~@]
  /\ UNCHANGED <<newest, api, failures>>

\* The deadline draws near, and passes.
TimePasses(e, n) ==
  /\ entry[e][n].waits /\ entry[e][n].due # "over"
  /\ entry' = [entry EXCEPT ![e][n] =
       IF @.due = "fresh" THEN [@ EXCEPT !.due = "near"]
                          ELSE [@ EXCEPT !.due = "over", !.claimed = FALSE]]
  /\ UNCHANGED <<newest, api, failures>>

-----------------------------------------------------------------------------
(* review(): by a moderator, or by the verdict consumer.                   *)

NoReview == [of |-> None, nr |-> 1, flagged |-> FALSE, step |-> "idle"]

\* The entry as it is read first; an alarm may be stamped on it later.
IsFlagged_Mutant(r) == r.due = "over"
IsFlagged(r) == r.stamps # {}

ReviewRead(e) ==
  /\ review.step = "idle" /\ Open(e)
  /\ review' = [of |-> e, nr |-> newest[e], flagged |-> IsFlagged(Current(e)), step |-> "read"]
  /\ UNCHANGED <<queue, sweeping, alarms, failures>>

\* updateMany ... reviewedAt: null; it fails for an entry decided or gone by now.
ReviewDecide ==
  LET e == review.of
      n == review.nr
  IN /\ review.step = "read"
     /\ IF entry[e][n].waits
          THEN /\ entry' = [entry EXCEPT ![e][n] = Reviewed(@)]
               /\ review' = [review EXCEPT !.step = "resolve"]
          ELSE review' = NoReview /\ UNCHANGED <<entry>>
     /\ UNCHANGED <<newest, sweeping, alarms, failures>>

\* publishSlaResolvedEvent(), if the entry that was read had a stamp.
ReviewResolve ==
  /\ review.step = "resolve"
  /\ review' = NoReview
  /\ UNCHANGED <<queue, sweeping, alarms, failures>>

-----------------------------------------------------------------------------
(* SlaBreachDetectionService: warnings first, then breaches.               *)

Rested == [tier |-> "none", todo |-> {}, at |-> << >>]

Warnable(r) == r.waits /\ ~r.claimed /\ "warning" \notin r.stamps /\ r.due = "near"
Breached_Mutant(r) == r.waits /\ r.due = "over"
Breached(r) == r.waits /\ "breach" \notin r.stamps /\ r.due = "over"

WarnableIds == {i \in EntryId : Warnable(entry[i[1]][i[2]])}
BreachedIds == {i \in EntryId : Breached(entry[i[1]][i[2]])}

\* sweep(), sweepWarnings(), sweepBreaches(): the two selections, one after the other.
Select(p) ==
  /\ sweeping[p].todo = {} /\ sweeping[p].at = << >>
  /\ sweeping' = [sweeping EXCEPT ![p] =
       CASE @.tier = "none"    -> [@ EXCEPT !.tier = "warning", !.todo = WarnableIds]
         [] @.tier = "warning" -> [@ EXCEPT !.tier = "breach", !.todo = BreachedIds]
         [] @.tier = "breach"  -> Rested]
  /\ UNCHANGED <<queue, review, alarms, failures>>

\* notifyWarning(), notifyBreach(): the event is handed to the publisher, which does
\* not tell whether it reached the broker ...
Announce(p, i) ==
  /\ i \in sweeping[p].todo /\ sweeping[p].at = << >>
  /\ sweeping' = [sweeping EXCEPT ![p].todo = @ \ {i}, ![p].at = i]
  /\ alarms' = [alarms EXCEPT ![i][sweeping[p].tier] = @ + 1]
  /\ UNCHANGED <<queue, review, failures>>

\* ... and the entry is stamped.  A failure is logged, an entry that is gone is no more.
Stamp(p) ==
  LET i == sweeping[p].at
  IN /\ i # << >>
     /\ sweeping' = [sweeping EXCEPT ![p].at = << >>]
     /\ entry' = [entry EXCEPT ![i[1]][i[2]].stamps =
          IF entry[i[1]][i[2]].exists THEN @ \union {sweeping[p].tier} ELSE @]
     /\ UNCHANGED <<newest, review, alarms, failures>>

StampFails(p) ==
  /\ sweeping[p].at # << >> /\ failures < MaxFaults /\ failures' = failures + 1
  /\ sweeping' = [sweeping EXCEPT ![p].at = << >>]
  /\ UNCHANGED <<queue, review, alarms>>

\* The sweep of a replica ends with it, and the review if it is the one that runs it.
Crash(p) ==
  /\ failures < MaxFaults /\ failures' = failures + 1
  /\ sweeping' = [sweeping EXCEPT ![p] = Rested]
  /\ review' \in {review, NoReview}
  /\ UNCHANGED <<queue, alarms>>

-----------------------------------------------------------------------------
Init ==
  /\ newest = [e \in Entity |-> 0]
  /\ entry = [e \in Entity |-> [n \in Number |-> NoRow]]
  /\ sweeping = [p \in Replicas |-> Rested]
  /\ review = NoReview
  /\ alarms = [i \in EntryId |-> [t \in Tier |-> 0]]
  /\ failures = 0

Sweep(p) == Select(p) \/ Stamp(p) \/ \E i \in EntryId : Announce(p, i)

Next ==
  \/ \E e \in Entity :
       \/ Submit(e) \/ Remove(e) \/ ClaimOrRelease(e) \/ ReviewRead(e)
       \/ \E n \in Number : TimePasses(e, n)
  \/ ReviewDecide \/ ReviewResolve
  \/ \E p \in Replicas : Sweep(p) \/ StampFails(p) \/ Crash(p)

Spec == Init /\ [][Next]_vars

-----------------------------------------------------------------------------
(* Properties.                                                             *)

\* Every row, selection and counter has a value of its kind.
TypeOK ==
  /\ newest \in [Entity -> 0..MaxEntries]
  /\ entry \in [Entity -> [Number -> Row]]
  /\ sweeping \in [Replicas -> [tier : Tier \union {"none"}, todo : SUBSET EntryId,
                                at : EntryId \union {<< >>}]]
  /\ review \in [of : Entity \union {None}, nr : Number, flagged : BOOLEAN,
                 step : {"idle", "read", "resolve"}]
  /\ alarms \in [EntryId -> [Tier -> Nat]]
  /\ failures \in Nat

\* However the sweeps of the replicas interleave: an entry is announced at most once by
\* each of them, and once more for a restart or a failure in the gap between an event
\* and its stamp.
AlarmsAreBounded ==
  \A i \in EntryId, t \in Tier : alarms[i][t] <= Cardinality(Replicas) + failures

\* Only an entry that was announced is reported as resolved.
ResolvedWasAnnounced ==
  review.step = "resolve" /\ review.flagged => \E t \in Tier : alarms[<<review.of, review.nr>>][t] > 0
===============================================================================
