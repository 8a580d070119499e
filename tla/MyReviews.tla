------------------------------- MODULE MyReviews -------------------------------
(***************************************************************************)
(* The candidate's page of own reviews, open in one tab: a list that is    *)
(* fetched again after each change, and an item for each rating with a     *)
(* form of its own.                                                        *)
(*                                                                         *)
(* A call is sent, carried out by the api and answered, and so is the      *)
(* fetch of a list; nothing orders the answers.  One process is shown:     *)
(* closing its details unmounts the items and forgets their forms, while   *)
(* their calls go on.  A ..._Mutant is the definition after it with a bug  *)
(* in it; no action uses it.                                               *)
(***************************************************************************)
EXTENDS Integers, FiniteSets

CONSTANTS
  RoundItem, RecruiterItem, OverallItem,   \* ratings and reviews of the process
  Text,        \* what the optional field of a form can hold; NoText when it is empty
  NoText,
  MaxEdits     \* bound on the calls

Item == RoundItem \cup RecruiterItem \cup OverallItem

PageConstants == NoText \in Text /\ MaxEdits \in Nat

VARIABLES
  stored,     \* the rows: text, or that it is deleted
  changes,    \* how many changes the api has made
  calls,      \* calls of items, sent or answered
  fetches,    \* lists that were asked for and not read yet
  lists,      \* lists on their way to the page
  list,       \* the list that is shown
  floor,      \* the newest list that came, or would have come had no list and no answer
              \* of a call been lost
  details,    \* the details are shown
  form,       \* each item's form
  hint,       \* the hint of a session was not looked at, is there, is not there, or
              \* the candidate left the page
  sent

api_   == <<stored, changes>>
page   == <<list, floor, details, form, hint>>
rVars  == <<api_, calls, fetches, lists, page, sent>>

Gone    == "gone"
Rows    == {[seen |-> changes, items |-> stored]}
Closed  == [editing |-> FALSE, busy |-> FALSE, text |-> NoText]
NoList  == [seen |-> -1, items |-> [i \in Item |-> Gone]]
Listed(i) == list.items[i] # Gone

\* What an item starts with: useState() takes the rating of the first render.
Fresh(i) == [Closed EXCEPT !.text = IF Listed(i) THEN list.items[i] ELSE NoText]

Set(i, f) == form' = [form EXCEPT ![i] = f]

-----------------------------------------------------------------------------
(* The page.                                                               *)

\* Without the hint only a link to the login is shown.
LookAtHint(there) ==
  /\ hint = "new" /\ hint' = IF there THEN "shown" ELSE "stranger"
  /\ fetches' = IF there THEN fetches + 1 ELSE fetches
  /\ UNCHANGED <<api_, calls, lists, list, floor, details, form, sent>>

\* reload(): the list that arrives last is the one that stays.
Reload_Mutant == fetches' = IF fetches + Cardinality(lists) > 0 THEN fetches ELSE 1
Reload == fetches' = fetches + 1

ListArrives(a) ==
  /\ a \in lists /\ lists' = lists \ {a}
  /\ list' = a /\ floor' = IF a.seen > floor THEN a.seen ELSE floor
  /\ form' = [i \in Item |-> IF details /\ ~Listed(i) THEN [Closed EXCEPT !.text =
                               IF a.items[i] = Gone THEN NoText ELSE a.items[i]] ELSE form[i]]
  /\ UNCHANGED <<api_, calls, fetches, details, hint, sent>>

ListFails ==
  /\ fetches > 0 /\ fetches' = fetches - 1 /\ floor' = changes
  /\ UNCHANGED <<api_, calls, lists, list, details, form, hint, sent>>

ToggleExpanded ==
  /\ hint = "shown" /\ details' = ~details
  /\ form' = [i \in Item |-> IF details THEN Closed ELSE Fresh(i)]
  /\ calls' = {[c EXCEPT !.mounted = FALSE] : c \in calls}
  /\ UNCHANGED <<api_, fetches, lists, list, floor, hint, sent>>

-----------------------------------------------------------------------------
(* An item.                                                                *)

Shown(i) == hint = "shown" /\ details /\ Listed(i)
Resting  == UNCHANGED <<api_, calls, fetches, lists, list, floor, details, hint, sent>>

StartEdit(i) == Shown(i) /\ ~form[i].editing /\ ~form[i].busy
                /\ Set(i, [form[i] EXCEPT !.editing = TRUE]) /\ Resting

\* What was typed is still there when the form is opened again.
Cancel(i) == Shown(i) /\ form[i].editing /\ ~form[i].busy
             /\ Set(i, [form[i] EXCEPT !.editing = FALSE]) /\ Resting

Type(i, t) == Shown(i) /\ form[i].editing /\ t # form[i].text
              /\ Set(i, [form[i] EXCEPT !.text = t]) /\ Resting

Call(op, i, text) ==
  /\ sent < MaxEdits /\ sent' = sent + 1
  /\ calls' = calls \cup {[op |-> op, item |-> i, text |-> text, n |-> sent, at |-> "sent",
                             mounted |-> TRUE]}
  /\ Set(i, [form[i] EXCEPT !.busy = TRUE])
  /\ UNCHANGED <<api_, fetches, lists, list, floor, details, hint>>

Save(i)   == Shown(i) /\ form[i].editing /\ ~form[i].busy /\ Call("save", i, form[i].text)
Remove(i) == Shown(i) /\ ~form[i].editing /\ ~form[i].busy /\ Call("remove", i, NoText)

\* The api: an optional field that is left out keeps its value.  The answer of a call
\* that was carried out may be lost: the page cannot tell that from a failure.
Carry(c) ==
  /\ c \in calls /\ c.at = "sent"
  /\ \E ok \in BOOLEAN : \E told \in {ok, FALSE} :
       /\ ok => stored[c.item] # Gone
       /\ calls' = (calls \ {c}) \cup {[c EXCEPT !.at = IF told THEN "done" ELSE "failed"]}
       /\ stored' = [stored EXCEPT ![c.item] =
            IF ~ok THEN @ ELSE IF c.op = "remove" THEN Gone ELSE IF c.text = NoText THEN @ ELSE c.text]
       /\ changes' = IF ok THEN changes + 1 ELSE changes
       /\ floor' = IF ok /\ ~told THEN changes + 1 ELSE floor
  /\ UNCHANGED <<fetches, lists, list, details, form, hint, sent>>

\* The answer: the page fetches its list again, or the item shows an error.  After a
\* removal the item stays busy, until the list without it comes.
Answered(c) ==
  /\ c \in calls /\ c.at # "sent" /\ calls' = calls \ {c}
  /\ form' = IF ~c.mounted \/ (c.op = "remove" /\ c.at = "done") THEN form
             ELSE [form EXCEPT ![c.item].busy = FALSE,
                               ![c.item].editing = @ /\ c.at = "failed"]
  /\ IF c.at = "done" /\ hint = "shown" THEN Reload ELSE UNCHANGED fetches
  /\ UNCHANGED <<api_, lists, list, floor, details, hint, sent>>

ReadList ==
  /\ fetches > 0 /\ fetches' = fetches - 1 /\ lists' = lists \cup Rows
  /\ UNCHANGED <<api_, calls, page, sent>>

ItemStep(i) == StartEdit(i) \/ Cancel(i) \/ Save(i) \/ Remove(i) \/ \E t \in Text : Type(i, t)

RoundRatingItem(i)     == i \in RoundItem /\ ItemStep(i)
RecruiterRatingItem(i) == i \in RecruiterItem /\ ItemStep(i)
OverallReviewItem(i)   == i \in OverallItem /\ ItemStep(i)

\* The account is deleted, or the candidate goes elsewhere.
Leave ==
  /\ hint = "shown" /\ hint' = "left"
  /\ UNCHANGED <<api_, calls, fetches, lists, list, floor, details, form, sent>>

-----------------------------------------------------------------------------
Init ==
  /\ stored \in [Item -> Text \cup {Gone}] /\ changes = 0
  /\ calls = {} /\ fetches = 0 /\ lists = {}
  /\ list = NoList /\ floor = 0 /\ details = FALSE
  /\ form = [i \in Item |-> Closed] /\ hint = "new" /\ sent = 0

Next ==
  \/ ToggleExpanded \/ ListFails \/ ReadList \/ Leave
  \/ \E there \in BOOLEAN : LookAtHint(there)
  \/ \E a \in lists : ListArrives(a)
  \/ \E c \in calls : Carry(c) \/ Answered(c)
  \/ \E i \in Item : RoundRatingItem(i) \/ RecruiterRatingItem(i) \/ OverallReviewItem(i)

Spec == Init /\ [][Next]_rVars

-----------------------------------------------------------------------------
(* Properties.                                                             *)

Lists == [seen : 0..MaxEdits, items : [Item -> Text \cup {Gone}]]

\* Every row, call, list and form has a value of its kind.
TypeOK ==
  /\ stored \in [Item -> Text \cup {Gone}] /\ changes \in 0..MaxEdits /\ sent \in 0..MaxEdits
  /\ calls \subseteq [op : {"save", "remove"}, item : Item, text : Text, n : Nat,
                      at : {"sent", "done", "failed"}, mounted : BOOLEAN]
  /\ fetches \in Nat /\ lists \subseteq Lists /\ list \in Lists \cup {NoList}
  /\ floor \in 0..MaxEdits /\ details \in BOOLEAN
  /\ form \in [Item -> [editing : BOOLEAN, busy : BOOLEAN, text : Text]]
  /\ hint \in {"new", "shown", "stranger", "left"}

\* When every call is answered and every list has come, the page shows what is stored: a
\* change the candidate made is never hidden by a list that was read before it.  The list
\* that came last must not be an older one, and nothing newer lost: after a lost answer
\* or a failed list the page is as it should be with the next change that is answered.
ChangesAreShown ==
  hint = "shown" /\ calls = {} /\ fetches = 0 /\ lists = {} /\ list.seen >= floor
    => list.items = stored
===============================================================================
