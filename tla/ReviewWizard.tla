----------------------------- MODULE ReviewWizard -----------------------------
(***************************************************************************)
(* The wizard that writes a review: drafts kept in the browser, shared by  *)
(* its tabs, and the one call that makes a process of a draft.             *)
(*                                                                         *)
(* A tab keeps a copy of the draft it opened and stores the whole copy on  *)
(* every change.  Leaving the wizard does not stop a call, and the call's  *)
(* answer still deletes the draft.  A ..._Mutant is the definition after   *)
(* it with a bug in it; no action uses it.                                 *)
(***************************************************************************)
EXTENDS Integers, Sequences, FiniteSets

CONSTANTS
  Tab,         \* tabs of one browser
  Draft,       \* ids of drafts
  Nothing,     \* no draft
  MaxChanges,  \* bound on drafts created and changes made to them
  MaxSubmits   \* bound on submissions

WizardConstants ==
  /\ MaxChanges \in Nat /\ MaxSubmits \in Nat
  /\ Nothing \notin Draft

VARIABLES
  store,       \* localStorage: the content of each draft
  wizard,      \* of each tab: the draft it shows, and where in it
  session,     \* the browser has the hint of a session, which every tab looks at
  submits,     \* submissions, sent or answered
  made,        \* the processes that were made of each draft, in order
  written,     \* how often drafts were created or changed
  submitted,   \* how many submissions were sent
  last,        \* the last content of each draft that a tab stored
  droppable,   \* drafts deleted by hand, changed while a submission was on its way, or shared
  repeatable   \* drafts shared by tabs, or whose answer was lost

wGhosts == <<last, droppable, repeatable>>
wVars   == <<store, wizard, session, submits, made, written, submitted, wGhosts>>

-----------------------------------------------------------------------------
(* Drafts.  A round and a recruiter touchpoint have an id of their own; of *)
(* a rating only matters whether it is there and within its bounds.        *)

Ratings == {"none", "good", "bad"}

ProcessStep == <<"process">>
OverallStep == <<"overall">>
ReviewStep  == <<"review">>
StepId      == <<"step", written>>

NoContent == [title |-> FALSE, rounds |-> <<>>, recruiters |-> <<>>, overall |-> "gone"]
Empty     == [NoContent EXCEPT !.overall = "none"]

\* The number of a new round counts the rounds there are, not those there were.
AddRoundStep(c, id) ==
  [c EXCEPT !.rounds = Append(@, [id |-> id, number |-> Len(@) + 1, rating |-> "good"])]
UpdateRoundStep(c, id, rating) ==
  [c EXCEPT !.rounds = [i \in DOMAIN @ |-> IF @[i].id = id THEN [@[i] EXCEPT !.rating = rating] ELSE @[i]]]
RemoveRoundStep(c, id) == [c EXCEPT !.rounds = SelectSeq(@, LAMBDA s : s.id # id)]

AddRecruiterStep(c, id, timing) ==
  [c EXCEPT !.recruiters =
     Append(@, [id |-> id, timing |-> timing, named |-> FALSE, rating |-> "none"])]
UpdateRecruiterStep(c, id, named, rating) ==
  [c EXCEPT !.recruiters = [i \in DOMAIN @ |-> IF @[i].id = id
     THEN [@[i] EXCEPT !.named = named, !.rating = rating] ELSE @[i]]]
RemoveRecruiterStep(c, id) == [c EXCEPT !.recruiters = SelectSeq(@, LAMBDA s : s.id # id)]

SetOverallReview(c, rating) == [c EXCEPT !.overall = rating]

Elements(s) == {s[i] : i \in DOMAIN s}
Ids(s)      == {e.id : e \in Elements(s)}

\* The rules, each with the step it belongs to.
RoleTitle(c)        == IF c.title THEN {} ELSE {ProcessStep}
RoundBounds(c)      == Ids(SelectSeq(c.rounds, LAMBDA s : s.rating = "bad"))
Identifiers(c)      == Ids(SelectSeq(c.recruiters, LAMBDA s : ~s.named))
RecruiterBounds(c)  == Ids(SelectSeq(c.recruiters, LAMBDA s : s.rating = "bad"))
OverallBounds(c)    == IF c.overall = "bad" THEN {OverallStep} ELSE {}
StepIssues(c) ==
  RoleTitle(c) \cup RoundBounds(c) \cup Identifiers(c) \cup RecruiterBounds(c) \cup OverallBounds(c)
ValidateDraft(c) == StepIssues(c) = {} /\ c.rounds # <<>>

-----------------------------------------------------------------------------
(* The wizard.                                                             *)

NoWizard == [draft |-> Nothing, content |-> NoContent, step |-> ProcessStep, modal |-> FALSE,
             submitting |-> FALSE]
Opened(d, c) == [NoWizard EXCEPT !.draft = d, !.content = c]

Stored   == {d \in Draft : store[d] # NoContent}
Sending(d) == \E s \in submits : s.draft = d
Show(t, w) == wizard' = [wizard EXCEPT ![t] = w]
Quiet == UNCHANGED <<store, session, submits, made, written, submitted, wGhosts>>

\* Nobody waits for the answers of what a page sent once another one is opened in its tab.
Unmount(t) == submits' = {IF s.tab = t THEN [s EXCEPT !.mounted = FALSE] ELSE s : s \in submits}

\* A draft of the list, or the draft of the company that was chosen: the page is new.
Resume(t, d) ==
  /\ wizard[t].draft = Nothing /\ d \in Stored
  /\ Show(t, Opened(d, store[d])) /\ Unmount(t)
  /\ LET shared == IF Sending(d) \/ \E u \in Tab : wizard[u].draft = d THEN {d} ELSE {}
     IN droppable' = droppable \cup shared /\ repeatable' = repeatable \cup shared
  /\ UNCHANGED <<store, session, made, written, submitted, last>>

\* For a company that has no draft yet.
StartDraft(t, d) ==
  /\ wizard[t].draft = Nothing /\ last[d] = NoContent
  /\ written < MaxChanges /\ written' = written + 1
  /\ store' = [store EXCEPT ![d] = Empty] /\ last' = [last EXCEPT ![d] = Empty]
  /\ Show(t, Opened(d, Empty)) /\ Unmount(t)
  /\ UNCHANGED <<session, made, submitted, droppable, repeatable>>

\* saveDraft(): the copy of this tab becomes the draft, whatever the store holds by now.
Persist(t, c, step) ==
  /\ wizard[t].draft # Nothing /\ written < MaxChanges /\ written' = written + 1
  /\ Show(t, [wizard[t] EXCEPT !.content = c, !.step = step, !.modal = FALSE])
  /\ store' = [store EXCEPT ![wizard[t].draft] = c]
  /\ last' = [last EXCEPT ![wizard[t].draft] = c]
  /\ droppable' = IF Sending(wizard[t].draft) THEN droppable \cup {wizard[t].draft} ELSE droppable
  /\ UNCHANGED <<session, submits, made, submitted, repeatable>>

At(t, step) == wizard[t].draft # Nothing /\ ~wizard[t].modal /\ wizard[t].step = step

UpdateTitle(t, b) == At(t, ProcessStep) /\ Persist(t, [wizard[t].content EXCEPT !.title = b], ProcessStep)

AddRecruiter(t, timing) ==
  /\ ~wizard[t].modal
  /\ Persist(t, AddRecruiterStep(wizard[t].content, StepId, timing), StepId)

EditRound(t, id, rating) == At(t, id) /\ Persist(t, UpdateRoundStep(wizard[t].content, id, rating), id)
RemoveRound(t, id) == At(t, id) /\ Persist(t, RemoveRoundStep(wizard[t].content, id), ProcessStep)
EditRecruiter(t, id, named, rating) ==
  At(t, id) /\ Persist(t, UpdateRecruiterStep(wizard[t].content, id, named, rating), id)
RemoveRecruiter(t, id) == At(t, id) /\ Persist(t, RemoveRecruiterStep(wizard[t].content, id), ProcessStep)
EditOverall(t, rating) ==
  At(t, OverallStep) /\ Persist(t, SetOverallReview(wizard[t].content, rating), OverallStep)

\* The steps of a draft in order; the navigator jumps to any of them.
Steps(c) ==
  <<ProcessStep>> \o [i \in DOMAIN c.rounds |-> c.rounds[i].id]
    \o [i \in DOMAIN c.recruiters |-> c.recruiters[i].id] \o <<OverallStep, ReviewStep>>

Select(t, step) ==
  /\ wizard[t].draft # Nothing /\ ~wizard[t].modal /\ step # wizard[t].step
  /\ Show(t, [wizard[t] EXCEPT !.step = step]) /\ Quiet

OffersRound(c, step) ==
  IF step = ProcessStep THEN c.rounds = <<>>
  ELSE c.rounds # <<>> /\ step = c.rounds[Len(c.rounds)].id

\* A step with an issue keeps the candidate; the next step may be a new round.
HandleNext(t) ==
  LET w == wizard[t]
      steps == Steps(w.content)
  IN /\ w.draft # Nothing /\ ~w.modal /\ w.step # ReviewStep /\ w.step \notin StepIssues(w.content)
     /\ IF OffersRound(w.content, w.step) THEN Show(t, [w EXCEPT !.modal = TRUE])
        ELSE \E i \in 1..(Len(steps) - 1) :
               steps[i] = w.step /\ Show(t, [w EXCEPT !.step = steps[i + 1]])
     /\ Quiet

AddRound(t) == wizard[t].modal /\ Persist(t, AddRoundStep(wizard[t].content, StepId), StepId)
CloseModal(t, review) ==
  /\ wizard[t].modal
  /\ Show(t, [wizard[t] EXCEPT !.modal = FALSE, !.step = IF review THEN ReviewStep ELSE @]) /\ Quiet

CheckSession ==
  session' = ~session /\ UNCHANGED <<store, wizard, submits, made, written, submitted, wGhosts>>

\* After a question, from the wizard or from the list of drafts.
Discard(t, d) ==
  /\ wizard[t].draft \in {d, Nothing} /\ d \in Stored
  /\ store' = [store EXCEPT ![d] = NoContent]
  /\ Show(t, NoWizard) /\ droppable' = droppable \cup {d}
  /\ UNCHANGED <<session, submits, made, written, submitted, last, repeatable>>

\* The answer of a submission is handled all the same.
Leave(t) ==
  /\ wizard[t].draft # Nothing
  /\ Show(t, NoWizard) /\ Unmount(t)
  /\ UNCHANGED <<store, session, made, written, submitted, wGhosts>>

-----------------------------------------------------------------------------
(* Submission.                                                             *)

CanSubmit_Mutant(t) == At(t, ReviewStep) /\ session /\ ValidateDraft(wizard[t].content)
CanSubmit(t) ==
  /\ At(t, ReviewStep) /\ session /\ ~wizard[t].submitting
  /\ ValidateDraft(wizard[t].content)

Submit(t) ==
  /\ CanSubmit(t) /\ submitted < MaxSubmits /\ submitted' = submitted + 1
  /\ submits' = submits \cup {[tab |-> t, draft |-> wizard[t].draft, content |-> wizard[t].content,
                               n |-> submitted, at |-> "sent", mounted |-> TRUE]}
  /\ Show(t, [wizard[t] EXCEPT !.submitting = TRUE])
  /\ UNCHANGED <<store, session, made, written, wGhosts>>

\* The api makes everything or nothing.
CreateBulkProcess(s, ok) ==
  /\ s \in submits /\ s.at = "sent"
  /\ submits' = (submits \ {s}) \cup {[s EXCEPT !.at = IF ok THEN "done" ELSE "failed"]}
  /\ made' = IF ok THEN [made EXCEPT ![s.draft] = Append(@, s.content)] ELSE made
  /\ UNCHANGED <<store, wizard, session, written, submitted, wGhosts>>

\* The draft goes with everything that the tab shows of it.
Succeeds(s) ==
  /\ s \in submits /\ s.at = "done" /\ submits' = submits \ {s}
  /\ store' = [store EXCEPT ![s.draft] = NoContent]
  /\ IF s.mounted THEN Show(s.tab, NoWizard) ELSE UNCHANGED wizard
  /\ UNCHANGED <<session, made, written, submitted, wGhosts>>

\* An error, or an answer that is lost; when the session was over the button goes, too.
Fails(s, expired) ==
  /\ s \in submits /\ s.at # "sent" /\ submits' = submits \ {s}
  /\ expired => s.at = "failed"
  /\ IF ~s.mounted THEN UNCHANGED wizard
     ELSE Show(s.tab, [wizard[s.tab] EXCEPT !.submitting = FALSE])
  /\ session' = (session /\ ~expired)
  /\ repeatable' = IF s.at = "done" THEN repeatable \cup {s.draft} ELSE repeatable
  /\ UNCHANGED <<store, made, written, submitted, last, droppable>>

-----------------------------------------------------------------------------
\* Drafts may be there from an earlier visit, one of them ready to be submitted.
Ready == [title |-> TRUE, overall |-> "none",
          rounds |-> <<[id |-> <<"round">>, number |-> 1, rating |-> "good"]>>,
          recruiters |-> <<[id |-> <<"recruiter">>, timing |-> "end", named |-> TRUE, rating |-> "none"]>>]

Init ==
  /\ store \in [Draft -> {NoContent, Ready}] /\ wizard = [t \in Tab |-> NoWizard]
  /\ session \in BOOLEAN /\ submits = {} /\ made = [d \in Draft |-> <<>>] /\ written = 0 /\ submitted = 0
  /\ last = store /\ droppable = {} /\ repeatable = {}

Edit(t) ==
  \/ \E b \in BOOLEAN : UpdateTitle(t, b)
  \/ \E timing \in {"start", "end"} : AddRecruiter(t, timing)
  \/ \E id \in Ids(wizard[t].content.rounds) :
       RemoveRound(t, id) \/ \E rating \in Ratings : EditRound(t, id, rating)
  \/ \E id \in Ids(wizard[t].content.recruiters) :
       RemoveRecruiter(t, id) \/ \E named \in BOOLEAN, rating \in Ratings : EditRecruiter(t, id, named, rating)
  \/ \E rating \in Ratings : EditOverall(t, rating)
  \/ AddRound(t)

Move(t) ==
  \/ HandleNext(t) \/ Leave(t)
  \/ \E step \in Elements(Steps(wizard[t].content)) : Select(t, step)
  \/ \E review \in BOOLEAN : CloseModal(t, review)

Next ==
  \/ CheckSession
  \/ \E t \in Tab : Edit(t) \/ Move(t) \/ Submit(t)
  \/ \E t \in Tab, d \in Draft : Discard(t, d) \/ Resume(t, d) \/ StartDraft(t, d)
  \/ \E s \in submits : Succeeds(s) \/ \E b \in BOOLEAN : CreateBulkProcess(s, b) \/ Fails(s, b)

Spec == Init /\ [][Next]_wVars

-----------------------------------------------------------------------------
(* Properties.                                                             *)

\* Every draft, tab and submission has a value of its kind.
TypeOK ==
  /\ DOMAIN store = Draft /\ DOMAIN last = Draft
  /\ \A t \in Tab : wizard[t].draft \in Draft \cup {Nothing}
  /\ \A s \in submits : s.tab \in Tab /\ s.draft \in Draft /\ s.at \in {"sent", "done", "failed"}
  /\ \A d \in Draft : Len(made[d]) <= submitted
  /\ session \in BOOLEAN /\ written \in 0..MaxChanges /\ submitted \in 0..MaxSubmits
  /\ droppable \subseteq Draft /\ repeatable \subseteq Draft

\* A draft becomes at most one process, and what the candidate wrote last is in the store
\* or in that process: neither a double click, a failure, a closed tab nor a session that
\* ends changes that.  Left out are drafts deleted by hand, shared by two tabs or with a
\* submission on its way, and of the first part those whose answer was lost, of the second
\* those changed while a submission was on its way.
ADraftBecomesOneProcess ==
  \A d \in Draft :
    /\ d \notin repeatable => Len(made[d]) <= 1
    /\ d \notin droppable => \/ store[d] = last[d]
                             \/ made[d] # <<>> /\ made[d][Len(made[d])] = last[d]
===============================================================================
