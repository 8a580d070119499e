------------------------------ MODULE MCServices ------------------------------
(***************************************************************************)
(* Instances for TLC of seven parts of the system that share no state: the *)
(* accounts of the staff and of a candidate, the throttles, the erasure of *)
(* a candidate, and three pages of the web client.  A behaviour is one of  *)
(* a single part: interleavings of two parts would only repeat them.       *)
(***************************************************************************)
EXTENDS Integers, FiniteSets

CONSTANTS
  Account, Root, Seeded, MaxOperations, MaxCrashes, None,
  Browser, Password, MaxLinks, MaxRequests,
  Caller, Limit, Window, MaxTime, MaxGrants,
  Rating, RoundRating, Process, MaxWork,
  RoundItem, RecruiterItem, OverallItem, Text, NoText, MaxEdits,
  Entry, Submissions, Searches, NoSearch, MaxCalls,
  Tab, Draft, Nothing, MaxChanges, MaxSubmits

VARIABLES
  part,
  moderator, signedIn, knowing, asked, page, raced, spent,
  account, links, mailbox, visit, cookie, overwritten, requests,
  clock, tally, caller, edits, memory, attempts,
  owner, process, rating, home, queued, audited, public, eraser, work, missed, edited, requested,
  stored, changes, calls, fetches, lists, list, floor, details, form, hint, sent,
  status, holder, viewer, filter, term, timer, loading, groups, results, expanded, asks, answers,
  acts, called, decided, overtaken,
  store, wizard, session, submits, made, written, submitted, last, droppable, repeatable

\* The page filters by nothing, or by the claims of its own on the first entry.
Filters == {[match |-> Entry, claim |-> "any"], [match |-> {1}, claim |-> "mine"]}

Staff     == INSTANCE StaffAccounts
Candidate == INSTANCE CandidateAuth
Throttle  == INSTANCE Throttles
Erase     == INSTANCE Erasure
Mine      == INSTANCE MyReviews
Queue     == INSTANCE QueuePage
Wizard    == INSTANCE ReviewWizard

ASSUME StaffAssumption == Staff!StaffConstants
ASSUME CandidateAssumption == Candidate!AuthConstants
ASSUME ThrottleAssumption == Throttle!ThrottleConstants
ASSUME ErasureAssumption == Erase!ErasureConstants
ASSUME ReviewsAssumption == Mine!PageConstants
ASSUME QueueAssumption == Queue!QueuePageConstants
ASSUME WizardAssumption == Wizard!WizardConstants

staffs     == <<moderator, signedIn, knowing, asked, page, raced, spent>>
candidates == <<account, links, mailbox, visit, cookie, overwritten, requests>>
throttles  == <<clock, tally, caller, edits, memory, attempts>>
erasures   == <<owner, process, rating, home, queued, audited, public, eraser, work, missed,
                edited, requested>>
reviews    == <<stored, changes, calls, fetches, lists, list, floor, details, form, hint, sent>>
queues     == <<status, holder, viewer, filter, term, timer, loading, groups, results, expanded,
                asks, answers, acts, called, decided, overtaken>>
wizards    == <<store, wizard, session, submits, made, written, submitted, last, droppable,
                repeatable>>
MCvars     == <<part, staffs, candidates, throttles, erasures, reviews, queues, wizards>>

\* Two of the three ratings are on the page and have a comment; the second entry of the
\* queue is not submitted yet.  The parts that rest start in one state.
MCInit ==
  /\ part \in {"staff", "candidate", "throttle", "erasure", "reviews", "queue", "wizard"}
  /\ Staff!Init /\ Candidate!Init /\ Throttle!Init /\ Erase!Init /\ Mine!Init /\ Queue!Init
  /\ Wizard!Init
  /\ \A i \in Mine!Item : stored[i] # NoText
  /\ Cardinality({i \in Mine!Item : stored[i] # Mine!Gone}) = IF part = "reviews" THEN 2 ELSE 0
  /\ \A e \in Entry : status[e] = IF e = 2 THEN "new" ELSE "open"
  /\ part # "erasure" => /\ \A p \in Process : process[p] = "none"
                         /\ home = [r \in Rating |-> CHOOSE p \in Process : TRUE]
  /\ part # "wizard" => ~session /\ \A d \in Draft : store[d] = Wizard!NoContent

MCNext ==
  \/ /\ part = "staff" /\ Staff!Next
     /\ UNCHANGED <<part, candidates, throttles, erasures, reviews, queues, wizards>>
  \/ /\ part = "candidate" /\ Candidate!Next
     /\ UNCHANGED <<part, staffs, throttles, erasures, reviews, queues, wizards>>
  \/ /\ part = "throttle" /\ Throttle!Next
     /\ UNCHANGED <<part, staffs, candidates, erasures, reviews, queues, wizards>>
  \/ /\ part = "erasure" /\ Erase!Next
     /\ UNCHANGED <<part, staffs, candidates, throttles, reviews, queues, wizards>>
  \/ /\ part = "reviews" /\ Mine!Next
     /\ UNCHANGED <<part, staffs, candidates, throttles, erasures, queues, wizards>>
  \/ /\ part = "queue" /\ Queue!Next
     /\ UNCHANGED <<part, staffs, candidates, throttles, erasures, reviews, wizards>>
  \/ /\ part = "wizard" /\ Wizard!Next
     /\ UNCHANGED <<part, staffs, candidates, throttles, erasures, reviews, queues>>

MCSpec == MCInit /\ [][MCNext]_MCvars

\* The type invariant of each part.
ServicesTyped ==
  /\ Staff!TypeOK /\ Candidate!TypeOK /\ Throttle!TypeOK /\ Erase!TypeOK
  /\ Mine!TypeOK /\ Queue!TypeOK /\ Wizard!TypeOK

AnAdminRemains             == Staff!AnAdminRemains
PasswordSessionsAreCurrent == Candidate!PasswordSessionsAreCurrent
GrantsAreBounded           == Throttle!GrantsAreBounded
ErasureIsComplete          == Erase!ErasureIsComplete
ADraftBecomesOneProcess    == Wizard!ADraftBecomesOneProcess

\* Both pages with a list keep to it what their user did.
PagesShowOwnChanges == Mine!ChangesAreShown /\ Queue!DecidedStaysHidden
===============================================================================
