------------------------------- MODULE QueuePage -------------------------------
(***************************************************************************)
(* A moderator's queue page, open in one tab: the entries that wait for a  *)
(* decision, grouped by submission and narrowed by filters, and beside     *)
(* them the results of a search.                                           *)
(*                                                                         *)
(* A call is sent, carried out by the api and answered; answers come in    *)
(* any order and none is cancelled when the next call is made.  Other      *)
(* moderators work on the same queue.  A ..._Mutant is the definition      *)
(* after it with a bug in it; no action uses it.                           *)
(***************************************************************************)
EXTENDS Integers, FiniteSetsExt, Functions

CONSTANTS
  Entry,        \* queue entries, numbers in the order of their deadlines
  Submissions,  \* the sets of entries that belong together
  Filters,      \* what the page can filter by: entries that match, and a state of claims
  Searches,     \* the sets of entries that a search term finds
  NoSearch,     \* no term and no category
  MaxCalls      \* bound on the calls of the page and of others

QueuePageConstants ==
  /\ Entry \subseteq Nat /\ UNION Submissions = Entry /\ IsFiniteSet(Submissions)
  /\ \A s, u \in Submissions : s = u \/ s \cap u = {}
  /\ Searches \subseteq SUBSET Entry
  /\ Filters \subseteq [match : SUBSET Entry, claim : {"any", "unclaimed", "mine"}]
  /\ NoSearch \notin Searches /\ MaxCalls \in Nat

VARIABLES
  status,     \* of each entry: not yet submitted, open, or decided
  holder,     \* who claimed it
  viewer,     \* what the page knows of its session; "left" is the login page
  filter, term,
  timer,      \* a search that waits for the next keystroke
  loading,    \* "Searching..." is shown
  groups,     \* the list, in the order of urgency; Loading before the first
  results,    \* what the last search found
  expanded,   \* the places of the list whose details are shown
  asks,       \* lists and searches that were asked for
  answers,    \* and those on their way back
  acts,       \* decisions, claims and releases on their way
  called,
  decided,    \* entries that a decision of this page was answered for
  overtaken   \* those of them that were on their way in an older answer

table_ == <<status, holder>>
shown_ == <<filter, term, timer, loading, groups, results, expanded>>
calls_ == <<asks, answers, acts, called>>
ghost_ == <<decided, overtaken>>
qVars  == <<table_, viewer, shown_, calls_, ghost_>>

Loading == <<{}>>
Row(e)  == [id |-> e, by |-> holder[e]]
Ids(rows) == {r.id : r \in rows}
Listed  == Ids(UNION Range(groups))
Ops     == {"decide", "reject", "claim", "release"}   \* an approval and a flag decide
MayAct  == viewer = "moderator"

\* The lists of the elements of a set that are in an order; there is one if the order is total.
Sorted(S, Before(_, _)) ==
  {list \in [1..Cardinality(S) -> S] :
     \A i, j \in DOMAIN list : i < j => Before(list[i], list[j])}

-----------------------------------------------------------------------------
(* The api: what a list and a search return, and what a call does.         *)

Matching(f) ==
  {e \in f.match : /\ status[e] = "open"
                   /\ f.claim = "unclaimed" => holder[e] = "nobody"
                   /\ f.claim = "mine" => holder[e] = "me"}

Parts(f) == {s \cap Matching(f) : s \in Submissions} \ {{}}
ListPending(f) ==
  {[g \in DOMAIN order |-> {Row(e) : e \in order[g]}] :
     order \in Sorted(Parts(f), LAMBDA a, b : Min(a) < Min(b))}

Search(found) == {<<{Row(e) : e \in {x \in found : status[x] = "open"}}>>}

Answer(a) ==
  /\ a \in asks /\ asks' = asks \ {a}
  /\ \E rows \in IF a.kind = "list" THEN ListPending(a.of) ELSE Search(a.of) :
       answers' = answers \cup {[kind |-> a.kind, n |-> a.n, rows |-> rows]}
  /\ UNCHANGED <<table_, viewer, shown_, acts, called, ghost_>>

\* A rejection is refused: the page sends no reason for it.
Allowed(c) ==
  /\ status[c.entry] = "open"
  /\ c.op # "reject"
  /\ c.op = "claim" => holder[c.entry] \in {"nobody", "me"}
  /\ c.op = "release" => holder[c.entry] = "me"

\* The answer of a call that was carried out may be lost.
Carry(c) ==
  /\ c \in acts /\ c.at = "sent"
  /\ \E ok \in BOOLEAN : \E told \in {ok, FALSE} :
       /\ ok => Allowed(c)
       /\ acts' = (acts \ {c}) \cup {[c EXCEPT !.at = IF told THEN "done" ELSE "failed"]}
       /\ status' = IF ok /\ c.op = "decide"
                    THEN [status EXCEPT ![c.entry] = "decided"] ELSE status
       /\ holder' = IF ok /\ c.op \in {"claim", "release"}
                    THEN [holder EXCEPT ![c.entry] = IF c.op = "claim" THEN "me" ELSE "nobody"]
                    ELSE holder
  /\ UNCHANGED <<viewer, shown_, asks, answers, called, ghost_>>

\* The candidates and the other moderators.
Others(e) ==
  /\ called < MaxCalls /\ called' = called + 1
  /\ \/ /\ status[e] = "new" /\ status' = [status EXCEPT ![e] = "open"] /\ UNCHANGED holder
     \/ /\ status[e] = "open" /\ status' = [status EXCEPT ![e] = "decided"] /\ UNCHANGED holder
     \/ /\ status[e] = "open" /\ holder[e] # "me" /\ UNCHANGED status
        /\ holder' = [holder EXCEPT ![e] = IF @ = "nobody" THEN "other" ELSE "nobody"]
  /\ UNCHANGED <<viewer, shown_, asks, answers, acts, ghost_>>

-----------------------------------------------------------------------------
(* The page.                                                               *)

\* The effects of a render run when what they depend on changed.
Ask(kind, of) ==
  /\ called < MaxCalls /\ called' = called + 1
  /\ asks' = asks \cup {[kind |-> kind, of |-> of, n |-> called]}
  /\ UNCHANGED <<table_, groups, results, answers, acts, ghost_>>

CheckSession(role) ==
  /\ viewer = "checking" /\ viewer' = role
  /\ IF role = "left" THEN UNCHANGED <<table_, shown_, calls_, ghost_>>
     ELSE Ask("list", filter) /\ UNCHANGED <<filter, term, timer, loading, expanded>>

SetFilter(f) ==
  /\ viewer \in {"moderator", "staff"} /\ term = NoSearch /\ f # filter /\ filter' = f
  /\ Ask("list", f) /\ UNCHANGED <<viewer, term, timer, loading, expanded>>

\* An empty search shows the list again; the last result may still come.
TypeSearch(t) ==
  /\ viewer \in {"moderator", "staff"} /\ t # term /\ term' = t
  /\ timer' = (t # NoSearch) /\ loading' = (t # NoSearch)
  /\ results' = IF t = NoSearch THEN {} ELSE results
  /\ UNCHANGED <<table_, viewer, filter, groups, expanded, calls_, ghost_>>

TimerFires ==
  /\ viewer \in {"moderator", "staff"} /\ timer /\ timer' = FALSE
  /\ Ask("search", term) /\ UNCHANGED <<viewer, filter, term, loading, expanded>>

\* A list or a search that fails shows an error and leaves what was shown.
ListArrives(a, ok) ==
  /\ a \in answers /\ a.kind = "list" /\ answers' = answers \ {a}
  /\ groups' = IF ok THEN a.rows ELSE groups
  /\ expanded' = IF ok THEN {} ELSE expanded
  /\ UNCHANGED <<table_, viewer, filter, term, timer, loading, results, asks, acts, called, ghost_>>

SearchArrives(a, ok) ==
  /\ a \in answers /\ a.kind = "search" /\ answers' = answers \ {a} /\ loading' = FALSE
  /\ results' = IF ok THEN a.rows[1] ELSE results
  /\ UNCHANGED <<table_, viewer, filter, term, timer, groups, expanded, asks, acts, called, ghost_>>

ToggleExpanded(g) ==
  /\ viewer \in {"moderator", "staff"} /\ term = NoSearch /\ groups # Loading /\ g \in DOMAIN groups
  /\ expanded' = IF g \in expanded THEN expanded \ {g} ELSE expanded \cup {g}
  /\ UNCHANGED <<table_, viewer, filter, term, timer, loading, groups, results, calls_, ghost_>>

\* An entry that can be acted on: of a group whose details are shown, or a result.
Shown(e) ==
  /\ viewer \in {"moderator", "staff"}
  /\ IF term = NoSearch
     THEN \E g \in expanded \cap DOMAIN groups : e \in Ids(groups[g])
     ELSE ~loading /\ e \in Ids(results)

\* Staff who may only read see no button; a claim is offered when nobody's is shown.
Act(e, op) ==
  /\ MayAct /\ Shown(e) /\ called < MaxCalls /\ called' = called + 1
  /\ LET rows == IF term = NoSearch THEN UNION Range(groups) ELSE results
     IN /\ op = "claim" => [id |-> e, by |-> "nobody"] \in rows
        /\ op = "release" => [id |-> e, by |-> "me"] \in rows
  /\ acts' = acts \cup {[entry |-> e, op |-> op, n |-> called, at |-> "sent"]}
  /\ UNCHANGED <<table_, viewer, shown_, asks, answers, ghost_>>

Without(rows, e) == {r \in rows : r.id # e}
DropFromGroups(e) ==
  LET kept == {g \in DOMAIN groups : Without(groups[g], e) # {}}
  IN \E place \in Sorted(kept, LAMBDA g, h : g < h) :
       groups' = [g \in DOMAIN place |-> Without(groups[place[g]], e)]
Drop_Mutant(e) == DropFromGroups(e) /\ UNCHANGED results
Drop(e)        == DropFromGroups(e) /\ results' = Without(results, e)

Decided(c) ==
  /\ c \in acts /\ c.at = "done" /\ c.op = "decide" /\ acts' = acts \ {c}
  /\ Drop(c.entry)
  /\ decided' = decided \cup {c.entry}
  /\ overtaken' = IF \E a \in answers : c.entry \in Ids(UNION Range(a.rows))
                  THEN overtaken \cup {c.entry} ELSE overtaken
  /\ UNCHANGED <<table_, viewer, filter, term, timer, loading, expanded, asks, answers, called>>

ClaimedOrReleased(c) ==
  /\ c \in acts /\ c.at = "done" /\ c.op \in {"claim", "release"} /\ acts' = acts \ {c}
  /\ LET patch(rows) == {IF r.id = c.entry
                         THEN [r EXCEPT !.by = IF c.op = "claim" THEN "me" ELSE "nobody"]
                         ELSE r : r \in rows}
     IN groups' = [g \in DOMAIN groups |-> patch(groups[g])] /\ results' = patch(results)
  /\ UNCHANGED <<table_, viewer, filter, term, timer, loading, expanded, asks, answers, called, ghost_>>

\* An error is shown, and the entry stays.
Failed(c) ==
  /\ c \in acts /\ c.at = "failed" /\ acts' = acts \ {c}
  /\ UNCHANGED <<table_, viewer, shown_, asks, answers, called, ghost_>>

\* A log-out, or a call of an expired session: what the page showed is gone, and nobody
\* waits for its calls.
Leave ==
  /\ viewer \in {"moderator", "staff"} /\ viewer' = "left"
  /\ timer' = FALSE /\ loading' = FALSE
  /\ groups' = Loading /\ results' = {} /\ expanded' = {}
  /\ asks' = {} /\ answers' = {} /\ acts' = {}
  /\ UNCHANGED <<table_, filter, term, called, ghost_>>

-----------------------------------------------------------------------------
Init ==
  /\ status \in [Entry -> {"new", "open"}] /\ holder = [e \in Entry |-> "nobody"]
  /\ viewer = "checking"
  /\ filter = [match |-> Entry, claim |-> "any"] /\ term = NoSearch
  /\ timer = FALSE /\ loading = FALSE
  /\ groups = Loading /\ results = {} /\ expanded = {}
  /\ asks = {} /\ answers = {} /\ acts = {} /\ called = 0
  /\ decided = {} /\ overtaken = {}

Next ==
  \/ TimerFires \/ Leave
  \/ \E role \in {"moderator", "staff", "left"} : CheckSession(role)
  \/ \E f \in Filters : SetFilter(f)
  \/ \E t \in Searches \cup {NoSearch} : TypeSearch(t)
  \/ \E a \in asks : Answer(a)
  \/ \E a \in answers, ok \in BOOLEAN : ListArrives(a, ok) \/ SearchArrives(a, ok)
  \/ \E g \in DOMAIN groups : ToggleExpanded(g)
  \/ \E e \in Entry, op \in Ops : Act(e, op)
  \/ \E c \in acts : Carry(c) \/ Decided(c) \/ ClaimedOrReleased(c) \/ Failed(c)
  \/ \E e \in Entry : Others(e)

Spec == Init /\ [][Next]_qVars

-----------------------------------------------------------------------------
(* Properties.                                                             *)

Rows == [id : Entry, by : {"nobody", "me", "other"}]

\* Every entry, list and call has a value of its kind.
TypeOK ==
  /\ status \in [Entry -> {"new", "open", "decided"}]
  /\ holder \in [Entry -> {"nobody", "me", "other"}]
  /\ viewer \in {"checking", "moderator", "staff", "left"}
  /\ filter.match \subseteq Entry /\ term \in Searches \cup {NoSearch}
  /\ timer \in BOOLEAN /\ loading \in BOOLEAN
  /\ \A g \in DOMAIN groups : groups[g] \subseteq Rows
  /\ results \subseteq Rows /\ expanded \subseteq 1..Cardinality(Submissions)
  /\ \A c \in acts : c.entry \in Entry /\ c.at \in {"sent", "done", "failed"}
  /\ called \in 0..MaxCalls /\ decided \subseteq Entry /\ overtaken \subseteq Entry

\* An entry that this page decided is shown in neither of its views again, unless an
\* answer that was read before the decision came after it: act() takes it from both.
DecidedStaysHidden == (Listed \cup Ids(results)) \cap decided \subseteq overtaken
===============================================================================
