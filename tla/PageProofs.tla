----------------------------- MODULE PageProofs -------------------------------
(***************************************************************************)
(* Three pages of the web client, for any number of tabs, drafts, entries, *)
(* ratings and calls: the inductive invariant of each, and from it the     *)
(* property that the page is checked for.                                  *)
(***************************************************************************)
EXTENDS AccountProofs, FiniteSetTheorems

-----------------------------------------------------------------------------
(* The wizard: drafts, tabs and submissions.                               *)

\* A content that was made in a wizard; NoContent is none.
Written(c) == "overall" \in DOMAIN c /\ c.overall \in Wizard!Ratings

IsWizard(w) == w \in [draft : Draft \union {Nothing}, content : {w.content}, step : {w.step},
                      modal : BOOLEAN, submitting : BOOLEAN]
IsSubmission(s) ==
  s \in [tab : Tab, draft : Draft, content : {s.content}, n : 0..(submitted - 1),
         at : {"sent", "done", "failed"}, mounted : BOOLEAN]

WizardTyped ==
  /\ DOMAIN store = Draft /\ DOMAIN last = Draft /\ DOMAIN wizard = Tab /\ DOMAIN made = Draft
  /\ session \in BOOLEAN /\ written \in 0..MaxChanges /\ submitted \in 0..MaxSubmits
  /\ droppable \subseteq Draft /\ repeatable \subseteq Draft
  /\ \A t \in Tab : IsWizard(wizard[t])
  /\ \A t \in Tab : wizard[t].draft # Nothing => Written(wizard[t].content)
  /\ \A s \in submits : IsSubmission(s)
  /\ \A d \in Draft : store[d] # Wizard!NoContent => Written(store[d])
  /\ \A d \in Draft : \E S : made[d] \in Seq(S)

\* A submission is known by its number, and each that is on its way may still make a process.
SentNumbers(d) ==
  {n \in 0..(submitted - 1) : \E s \in submits : s.n = n /\ s.draft = d /\ s.at = "sent"}
WizardNumbered ==
  /\ \A r, s \in submits : r.n = s.n => r = s
  /\ \A d \in Draft : Len(made[d]) + Cardinality(SentNumbers(d)) <= submitted

\* The last process of the draft has its last content.
Ended(d) == made[d] # <<>> /\ made[d][Len(made[d])] = last[d]

\* A page that waits for an answer shows the draft of it, unless that was deleted by hand.
MountedStays == \A s \in submits : s.mounted => wizard[s.tab].draft \in {s.draft, Nothing}

\* The draft is in one tab and in one submission, and the tab waits for that one.
Alone(d) ==
  /\ \A t, u \in Tab : wizard[t].draft = d /\ wizard[u].draft = d => t = u
  /\ \A r, s \in submits : r.draft = d /\ s.draft = d => r = s
  /\ \A t \in Tab, s \in submits : wizard[t].draft = d /\ s.draft = d
       => s.tab = t /\ s.mounted /\ wizard[t].submitting

Unused(d) == (\A t \in Tab : wizard[t].draft # d) /\ (\A s \in submits : s.draft # d)

NewIsUnused(d) == last[d] = Wizard!NoContent => store[d] = Wizard!NoContent /\ Unused(d) /\ made[d] = <<>>

\* A process is made of the draft at most once: by a submission that is still to be
\* answered, or the draft is gone.
MadeOnce(d) ==
  \/ made[d] = <<>>
  \/ /\ Len(made[d]) = 1
     /\ \/ \E s \in submits : s.draft = d /\ s.at = "done"
        \/ Unused(d) /\ store[d] = Wizard!NoContent

\* Store, tabs and submissions agree on the draft until a process was made of it.
NotLost(d) ==
  /\ store[d] = last[d] \/ (store[d] = Wizard!NoContent /\ Ended(d))
  /\ \A t \in Tab : wizard[t].draft = d => wizard[t].content = last[d]
  /\ \A s \in submits : s.draft = d => s.content = last[d] /\ (s.at = "done" => Ended(d))

SafeOf(d) ==
  /\ d \notin droppable \intersect repeatable => Alone(d)
  /\ NewIsUnused(d)
  /\ d \notin repeatable => MadeOnce(d)
  /\ d \notin droppable => NotLost(d)

Safe == MountedStays /\ \A d \in Draft : SafeOf(d)
WizardInv == WizardTyped /\ WizardNumbered /\ Safe

LEMMA ContentsAreThere == \A c : Written(c) => c # Wizard!NoContent
  BY DEF Written, Wizard!Ratings, Wizard!NoContent

LEMMA Starts == Written(Wizard!Empty) /\ Wizard!Empty # Wizard!NoContent /\ Written(Wizard!Ready) /\ Wizard!Ready # Wizard!NoContent
  <1>1. Wizard!Empty.overall = "none" /\ "overall" \in DOMAIN Wizard!Empty
    BY DEF Wizard!Empty, Wizard!NoContent
  <1>2. Written(Wizard!Empty)
    BY <1>1 DEF Written, Wizard!Ratings
  <1>3. Wizard!Ready.overall = "none" /\ "overall" \in DOMAIN Wizard!Ready
    BY DEF Wizard!Ready
  <1>4. Written(Wizard!Ready)
    BY <1>3 DEF Written, Wizard!Ratings
  <1> QED
    BY <1>2, <1>4, ContentsAreThere

LEMMA EditsAreWritten ==
  ASSUME NEW c, Written(c)
  PROVE  /\ \A b : Written([c EXCEPT !.title = b])
         /\ \A id : Written(Wizard!AddRoundStep(c, id)) /\ Written(Wizard!RemoveRoundStep(c, id))
         /\ \A id, r : Written(Wizard!UpdateRoundStep(c, id, r))
         /\ \A id, time : Written(Wizard!AddRecruiterStep(c, id, time))
         /\ \A id, named, r : Written(Wizard!UpdateRecruiterStep(c, id, named, r))
         /\ \A id : Written(Wizard!RemoveRecruiterStep(c, id))
         /\ \A r \in Wizard!Ratings : Written(Wizard!SetOverallReview(c, r))
  <1>1. \A b : Written([c EXCEPT !.title = b]) /\ Written([c EXCEPT !.rounds = b])
               /\ Written([c EXCEPT !.recruiters = b])
    BY DEF Written
  <1>2. \A r \in Wizard!Ratings : Written([c EXCEPT !.overall = r])
    BY DEF Written
  <1>3. ASSUME NEW id
    PROVE Written(Wizard!AddRoundStep(c, id)) /\ Written(Wizard!RemoveRoundStep(c, id))
                            /\ Written(Wizard!RemoveRecruiterStep(c, id))
    BY <1>1 DEF Wizard!AddRoundStep, Wizard!RemoveRoundStep, Wizard!RemoveRecruiterStep
  <1>4. ASSUME NEW id, NEW r
    PROVE Written(Wizard!UpdateRoundStep(c, id, r)) /\ Written(Wizard!AddRecruiterStep(c, id, r))
    BY <1>1 DEF Wizard!UpdateRoundStep, Wizard!AddRecruiterStep
  <1>5. ASSUME NEW id, NEW named, NEW r PROVE Written(Wizard!UpdateRecruiterStep(c, id, named, r))
    BY <1>1 DEF Wizard!UpdateRecruiterStep
  <1> QED
    BY <1>1, <1>2, <1>3, <1>4, <1>5 DEF Wizard!SetOverallReview

LEMMA EditPersists ==
  ASSUME WizardTyped, NEW t \in Tab, Wizard!Edit(t)
  PROVE  wizard[t].draft # Nothing /\ \E c, step : Written(c) /\ Wizard!Persist(t, c, step)
  <1> DEFINE c == wizard[t].content
  <1>1. wizard[t].draft # Nothing
    BY DEF Wizard!Edit, Wizard!UpdateTitle, Wizard!AddRecruiter, Wizard!RemoveRound,
       Wizard!EditRound, Wizard!RemoveRecruiter, Wizard!EditRecruiter,
           Wizard!EditOverall, Wizard!AddRound, Wizard!Persist
  <1>2. Written(c)
    BY <1>1 DEF WizardTyped
  <1> HIDE DEF c
  <1>3. ASSUME NEW b \in BOOLEAN, Wizard!UpdateTitle(t, b)
    PROVE \E e, step : Written(e) /\ Wizard!Persist(t, e, step)
    BY <1>2, <1>3, EditsAreWritten DEF Wizard!UpdateTitle, c
  <1>4. ASSUME NEW time, Wizard!AddRecruiter(t, time)
    PROVE \E e, step : Written(e) /\ Wizard!Persist(t, e, step)
    BY <1>2, <1>4, EditsAreWritten DEF Wizard!AddRecruiter, c
  <1>5. ASSUME NEW id, Wizard!RemoveRound(t, id)
    PROVE \E e, step : Written(e) /\ Wizard!Persist(t, e, step)
    BY <1>2, <1>5, EditsAreWritten DEF Wizard!RemoveRound, c
  <1>6. ASSUME NEW id, NEW r, Wizard!EditRound(t, id, r)
    PROVE \E e, step : Written(e) /\ Wizard!Persist(t, e, step)
    BY <1>2, <1>6, EditsAreWritten DEF Wizard!EditRound, c
  <1>7. ASSUME NEW id, Wizard!RemoveRecruiter(t, id)
    PROVE \E e, step : Written(e) /\ Wizard!Persist(t, e, step)
    BY <1>2, <1>7, EditsAreWritten DEF Wizard!RemoveRecruiter, c
  <1>8. ASSUME NEW id, NEW named, NEW r, Wizard!EditRecruiter(t, id, named, r)
        PROVE \E e, step : Written(e) /\ Wizard!Persist(t, e, step)
    BY <1>2, <1>8, EditsAreWritten DEF Wizard!EditRecruiter, c
  <1>9. ASSUME NEW r \in Wizard!Ratings, Wizard!EditOverall(t, r)
    PROVE \E e, step : Written(e) /\ Wizard!Persist(t, e, step)
    BY <1>2, <1>9, EditsAreWritten DEF Wizard!EditOverall, c
  <1>10. ASSUME Wizard!AddRound(t) PROVE \E e, step : Written(e) /\ Wizard!Persist(t, e, step)
    BY <1>2, <1>10, EditsAreWritten DEF Wizard!AddRound, c
  <1> QED
    BY <1>1, <1>3, <1>4, <1>5, <1>6, <1>7, <1>8, <1>9, <1>10 DEF Wizard!Edit

\* A tab shows something else.
LEMMA PageShown ==
  ASSUME WizardTyped, NEW t \in Tab, NEW w, Wizard!Show(t, w)
  PROVE  DOMAIN wizard' = Tab /\ wizard'[t] = w /\ \A u \in Tab \ {t} : wizard'[u] = wizard[u]
  BY DEF WizardTyped, Wizard!Show

\* The kinds of a page and of a submission.
LEMMA WizardKinds ==
  /\ \A w : IsWizard(w) => /\ w.draft \in Draft \union {Nothing} /\ w.modal \in BOOLEAN
                          /\ w.submitting \in BOOLEAN
  /\ \A s : IsSubmission(s) => /\ s.tab \in Tab /\ s.draft \in Draft /\ s.n \in 0..(submitted - 1)
                              /\ s.at \in {"sent", "done", "failed"} /\ s.mounted \in BOOLEAN
  BY DEF IsWizard, IsSubmission

LEMMA NoWizardShown ==
  /\ IsWizard(Wizard!NoWizard) /\ Wizard!NoWizard.draft = Nothing
  /\ \A d \in Draft : \A c : IsWizard(Wizard!Opened(d, c)) /\ Wizard!Opened(d, c).draft = d /\ Wizard!Opened(d, c).content = c
                        /\ Wizard!Opened(d, c).submitting = FALSE
  BY DEF IsWizard, Wizard!NoWizard, Wizard!Opened

\* A submission whose page is left.
Left(s, t) == IF s.tab = t THEN [s EXCEPT !.mounted = FALSE] ELSE s

LEMMA Leaving ==
  ASSUME NEW t, NEW s, IsSubmission(s)
  PROVE  /\ IsSubmission(Left(s, t))
         /\ Left(s, t).tab = s.tab /\ Left(s, t).draft = s.draft /\ Left(s, t).content = s.content
         /\ Left(s, t).n = s.n /\ Left(s, t).at = s.at
         /\ Left(s, t).mounted => s.mounted /\ s.tab # t
         /\ s.tab # t => Left(s, t) = s
  BY DEF Left, IsSubmission

(* What each step does to the drafts.                                      *)

\* A change: only if nothing of the draft is on its way does it stay as it was stored.
LEMMA PersistKeeps ==
  ASSUME Wizard!WizardConstants, WizardTyped, Safe, NEW t \in Tab, NEW c, NEW step, Written(c),
         Wizard!Persist(t, c, step)
  PROVE  WizardTyped' /\ Safe'
  <1> DEFINE d0 == wizard[t].draft
             w  == [wizard[t] EXCEPT !.content = c, !.step = step, !.modal = FALSE]
  <1>1. /\ d0 \in Draft /\ c # Wizard!NoContent /\ IsWizard(w) /\ w.draft = d0 /\ w.content = c
        /\ w.submitting = wizard[t].submitting
    <2>1. IsWizard(wizard[t]) /\ d0 # Nothing
      BY DEF WizardTyped, Wizard!Persist
    <2> QED
      BY <2>1, ContentsAreThere DEF IsWizard
  <1>2. /\ Wizard!Show(t, w) /\ store' = [store EXCEPT ![d0] = c] /\ last' = [last EXCEPT ![d0] = c]
        /\ UNCHANGED <<session, submits, made, submitted, repeatable>>
        /\ droppable \subseteq droppable' /\ droppable' \subseteq droppable \union {d0}
        /\ Wizard!Sending(d0) => d0 \in droppable'
        /\ written' \in 0..MaxChanges
    BY DEF Wizard!Persist, WizardTyped, Wizard!WizardConstants
  <1> HIDE DEF w, d0
  <1>3. DOMAIN wizard' = Tab /\ wizard'[t] = w /\ \A u \in Tab \ {t} : wizard'[u] = wizard[u]
    BY <1>2, PageShown
  <1>4. \A u \in Tab : wizard'[u].draft = wizard[u].draft /\ wizard'[u].submitting = wizard[u].submitting
    BY <1>1, <1>3 DEF d0
  <1>5. /\ store'[d0] = c /\ last'[d0] = c
        /\ \A d \in Draft \ {d0} : store'[d] = store[d] /\ last'[d] = last[d]
    BY <1>1, <1>2 DEF WizardTyped
  <1>6. WizardTyped'
    <2>1. \A s : IsSubmission(s)' <=> IsSubmission(s)
      BY <1>2 DEF IsSubmission
    <2>2. \A u \in Tab : IsWizard(wizard'[u]) /\ (wizard'[u].draft # Nothing => Written(wizard'[u].content))
      BY <1>1, <1>3 DEF WizardTyped
    <2>3. \A d \in Draft : store'[d] # Wizard!NoContent => Written(store'[d])
      BY <1>5 DEF WizardTyped
    <2> QED
      BY <1>1, <1>2, <1>3, <2>1, <2>2, <2>3 DEF WizardTyped, IsWizard, Written
  <1>7. MountedStays'
    BY <1>2, <1>4, WizardKinds DEF Safe, MountedStays, WizardTyped
  <1>8. ASSUME NEW d \in Draft PROVE SafeOf(d)'
    <2>1. SafeOf(d)
      BY DEF Safe
    <2>2. (d \notin droppable \intersect repeatable => Alone(d)')
      BY <1>2, <1>4, <2>1 DEF SafeOf, Alone
    <2>3. NewIsUnused(d)'
      BY <1>1, <1>2, <1>4, <1>5, <2>1 DEF SafeOf, NewIsUnused, Unused
    <2>4. d \notin repeatable => MadeOnce(d)'
      <3>1. CASE d = d0
        BY <1>1, <1>2, <2>1, <3>1 DEF SafeOf, MadeOnce, Unused, d0
      <3>2. CASE d # d0
        BY <1>2, <1>4, <1>5, <2>1, <3>2 DEF SafeOf, MadeOnce, Unused
      <3> QED
        BY <3>1, <3>2
    <2>5. ASSUME d \notin droppable' PROVE NotLost(d)'
      <3>1. CASE d = d0
        <4>1. \A s \in submits : s.draft # d
          BY <1>2, <2>5, <3>1 DEF Wizard!Sending
        <4>2. \A u \in Tab : wizard'[u].draft = d => u = t
          BY <1>1, <1>2, <1>4, <2>1, <2>5, <3>1 DEF SafeOf, Alone, d0
        <4> QED
          BY <1>1, <1>2, <1>3, <1>5, <3>1, <4>1, <4>2 DEF NotLost
      <3>2. CASE d # d0
        BY <1>1, <1>2, <1>3, <1>5, <2>1, <2>5, <3>2 DEF SafeOf, NotLost, Ended, d0
      <3> QED
        BY <3>1, <3>2
    <2> QED
      BY <1>2, <2>2, <2>3, <2>4, <2>5 DEF SafeOf
  <1> QED
    BY <1>6, <1>7, <1>8 DEF Safe

\* A step within the wizard leaves the draft alone.
LEMMA MoveKeeps ==
  ASSUME WizardTyped, Safe, NEW t \in Tab, NEW w, IsWizard(w), Wizard!Show(t, w), Wizard!Quiet,
         w.draft = wizard[t].draft, w.content = wizard[t].content,
         w.submitting = wizard[t].submitting
  PROVE  WizardTyped' /\ Safe'
  <1>1. DOMAIN wizard' = Tab /\ wizard'[t] = w /\ \A u \in Tab \ {t} : wizard'[u] = wizard[u]
    BY PageShown
  <1>2. \A u \in Tab : /\ wizard'[u].draft = wizard[u].draft /\ wizard'[u].content = wizard[u].content
                       /\ wizard'[u].submitting = wizard[u].submitting
    BY <1>1
  <1>3. UNCHANGED <<store, session, submits, made, written, submitted, last, droppable, repeatable>>
    BY DEF Wizard!Quiet, Wizard!wGhosts
  <1>4. WizardTyped'
    <2>1. \A s : IsSubmission(s)' <=> IsSubmission(s)
      BY <1>3 DEF IsSubmission
    <2>2. \A u \in Tab : IsWizard(wizard'[u]) /\ (wizard'[u].draft # Nothing => Written(wizard'[u].content))
      BY <1>1, <1>2 DEF WizardTyped
    <2> QED
      BY <1>1, <1>3, <2>1, <2>2 DEF WizardTyped, IsWizard, Written
  <1>5. MountedStays'
    BY <1>2, <1>3, WizardKinds DEF Safe, MountedStays, WizardTyped
  <1>6. ASSUME NEW d \in Draft PROVE SafeOf(d)'
    <2>1. SafeOf(d)
      BY DEF Safe
    <2>2. Alone(d) => Alone(d)'
      BY <1>2, <1>3 DEF Alone
    <2>3. NewIsUnused(d)'
      BY <1>2, <1>3, <2>1 DEF SafeOf, NewIsUnused, Unused
    <2>4. MadeOnce(d) => MadeOnce(d)'
      BY <1>2, <1>3 DEF MadeOnce, Unused
    <2>5. NotLost(d) => NotLost(d)'
      BY <1>2, <1>3 DEF NotLost, Ended
    <2> QED
      BY <1>3, <2>1, <2>2, <2>3, <2>4, <2>5 DEF SafeOf
  <1> QED
    BY <1>4, <1>5, <1>6 DEF Safe

LEMMA MovesKeep ==
  ASSUME WizardTyped, Safe, NEW t \in Tab,
         \/ Wizard!HandleNext(t) \/ \E step : Wizard!Select(t, step)
         \/ \E review \in BOOLEAN : Wizard!CloseModal(t, review)
  PROVE  WizardTyped' /\ Safe'
  <1> DEFINE W(w) == /\ IsWizard(w) /\ w.draft = wizard[t].draft /\ w.content = wizard[t].content
                     /\ w.submitting = wizard[t].submitting
  <1>1. IsWizard(wizard[t])
    BY DEF WizardTyped
  <1>2. \A step : W([wizard[t] EXCEPT !.step = step])
    BY <1>1 DEF IsWizard
  <1>3. \A b \in BOOLEAN : W([wizard[t] EXCEPT !.modal = b])
    BY <1>1 DEF IsWizard
  <1>4. \A step : \A b \in BOOLEAN : W([wizard[t] EXCEPT !.modal = b, !.step = step])
    BY <1>1 DEF IsWizard
  <1>5. Wizard!Quiet /\ \E w : W(w) /\ Wizard!Show(t, w)
    <2>1. CASE Wizard!HandleNext(t)
      BY <1>2, <1>3, <2>1 DEF Wizard!HandleNext
    <2>2. CASE \E step : Wizard!Select(t, step)
      BY <1>2, <2>2 DEF Wizard!Select
    <2>3. CASE \E review \in BOOLEAN : Wizard!CloseModal(t, review)
      <3> PICK review \in BOOLEAN : Wizard!CloseModal(t, review)
        BY <2>3
      <3>1. Wizard!Show(t, [wizard[t] EXCEPT !.modal = FALSE,
                                      !.step = IF review THEN Wizard!ReviewStep ELSE wizard[t].step]) /\ Wizard!Quiet
        BY <1>1 DEF Wizard!CloseModal, IsWizard
      <3> QED
        BY <1>4, <3>1
    <2> QED
      BY <2>1, <2>2, <2>3
  <1> QED
    BY <1>5, MoveKeeps

\* The submissions of a tab whose page is left.
LEMMA Unmounts ==
  ASSUME WizardTyped, NEW t \in Tab, Wizard!Unmount(t), submitted' = submitted
  PROVE  /\ \A s \in submits : Left(s, t) \in submits'
         /\ \A s \in submits' : \E r \in submits : s = Left(r, t)
         /\ \A s \in submits' : IsSubmission(s)'
         /\ MountedStays => \A s \in submits' : s.mounted =>
              s.tab \in Tab \ {t} /\ wizard[s.tab].draft \in {s.draft, Nothing}
  <1>1. submits' = {Left(s, t) : s \in submits}
    BY DEF Wizard!Unmount, Left
  <1>2. \A s : IsSubmission(s)' <=> IsSubmission(s)
    BY DEF IsSubmission
  <1>3. \A s \in submits : IsSubmission(s)
    BY DEF WizardTyped
  <1>4. ASSUME MountedStays, NEW s \in submits', s.mounted
        PROVE  s.tab \in Tab \ {t} /\ wizard[s.tab].draft \in {s.draft, Nothing}
    <2>1. PICK r \in submits : s = Left(r, t)
      BY <1>1
    <2>2. r.mounted /\ r.tab # t /\ s.tab = r.tab /\ s.draft = r.draft
      BY <1>3, <1>4, <2>1, Leaving
    <2> QED
      BY <1>3, <1>4, <2>2, WizardKinds DEF MountedStays
  <1> QED
    BY <1>1, <1>2, <1>3, <1>4, Leaving

LEMMA WizardLeaveKeeps ==
  ASSUME Wizard!WizardConstants, WizardTyped, Safe, NEW t \in Tab, Wizard!Leave(t)
  PROVE  WizardTyped' /\ Safe'
  <1>1. /\ wizard[t].draft # Nothing /\ Wizard!Show(t, Wizard!NoWizard) /\ Wizard!Unmount(t)
        /\ UNCHANGED <<store, session, made, written, submitted, last, droppable, repeatable>>
    BY DEF Wizard!Leave, Wizard!wGhosts
  <1>2. /\ DOMAIN wizard' = Tab /\ wizard'[t].draft = Nothing /\ IsWizard(wizard'[t])
        /\ \A u \in Tab \ {t} : wizard'[u] = wizard[u]
    BY <1>1, PageShown, NoWizardShown
  <1>4. /\ \A s \in submits : IsSubmission(s) /\ Left(s, t) \in submits'
        /\ \A s \in submits' : \E r \in submits : s = Left(r, t)
        /\ \A s \in submits' : IsSubmission(s)'
    BY <1>1, Unmounts DEF WizardTyped
  <1>5. WizardTyped'
    <2>1. \A u \in Tab : IsWizard(wizard'[u]) /\ (wizard'[u].draft # Nothing => Written(wizard'[u].content))
      BY <1>2 DEF WizardTyped
    <2> QED
      BY <1>1, <1>2, <1>4, <2>1 DEF WizardTyped, IsWizard, Written
  <1>6. MountedStays'
    BY <1>1, <1>2, Unmounts DEF Safe, MountedStays
  <1>7. ASSUME NEW d \in Draft PROVE SafeOf(d)'
    <2>1. SafeOf(d)
      BY DEF Safe
    <2>2. \A u \in Tab : wizard'[u].draft = d => u # t /\ wizard'[u] = wizard[u]
      BY <1>2 DEF Wizard!WizardConstants
    <2>3. ASSUME Alone(d) PROVE Alone(d)'
      <3>1. \A u, v \in Tab : wizard'[u].draft = d /\ wizard'[v].draft = d => u = v
        BY <2>2, <2>3 DEF Alone
      <3>2. ASSUME NEW r \in submits', NEW s \in submits', r.draft = d, s.draft = d PROVE r = s
        BY <1>4, <2>3, <3>2, Leaving DEF Alone
      <3>3. ASSUME NEW u \in Tab, NEW s \in submits', wizard'[u].draft = d, s.draft = d
            PROVE  s.tab = u /\ s.mounted /\ wizard'[u].submitting
        BY <1>4, <2>2, <2>3, <3>3, Leaving DEF Alone
      <3> QED
        BY <3>1, <3>2, <3>3 DEF Alone
    <2>4. \A s \in submits' : s.draft = d => \E r \in submits :
            r.draft = d /\ r.content = s.content /\ r.at = s.at
      BY <1>4, Leaving
    <2>5. \A r \in submits : r.draft = d => \E s \in submits' : s.draft = d /\ s.at = r.at
      BY <1>4, Leaving
    <2>6. Unused(d) => Unused(d)'
      BY <2>2, <2>4 DEF Unused
    <2>7. NewIsUnused(d)'
      BY <1>1, <2>1, <2>6 DEF SafeOf, NewIsUnused
    <2>8. MadeOnce(d) => MadeOnce(d)'
      BY <1>1, <2>5, <2>6 DEF MadeOnce
    <2>9. NotLost(d) => NotLost(d)'
      BY <1>1, <2>2, <2>4 DEF NotLost, Ended
    <2> QED
      BY <1>1, <2>1, <2>3, <2>7, <2>8, <2>9 DEF SafeOf
  <1> QED
    BY <1>5, <1>6, <1>7 DEF Safe

LEMMA DiscardKeeps ==
  ASSUME Wizard!WizardConstants, WizardTyped, Safe, NEW t \in Tab, NEW d0 \in Draft,
         Wizard!Discard(t, d0)
  PROVE  WizardTyped' /\ Safe'
  <1>1. /\ Wizard!Show(t, Wizard!NoWizard) /\ store' = [store EXCEPT ![d0] = Wizard!NoContent]
        /\ droppable' = droppable \union {d0} /\ wizard[t].draft \in {d0, Nothing}
        /\ UNCHANGED <<session, submits, made, written, submitted, last, repeatable>>
    BY DEF Wizard!Discard
  <1>2. /\ DOMAIN wizard' = Tab /\ wizard'[t].draft = Nothing /\ IsWizard(wizard'[t])
        /\ \A u \in Tab \ {t} : wizard'[u] = wizard[u]
    BY <1>1, PageShown, NoWizardShown
  <1>3. \A d \in Draft : \A u \in Tab : wizard'[u].draft = d => wizard'[u] = wizard[u]
    BY <1>2 DEF Wizard!WizardConstants
  <1>4. store'[d0] = Wizard!NoContent /\ \A d \in Draft \ {d0} : store'[d] = store[d]
    BY <1>1 DEF WizardTyped
  <1>5. WizardTyped'
    <2>1. \A s : IsSubmission(s)' <=> IsSubmission(s)
      BY <1>1 DEF IsSubmission
    <2>2. \A u \in Tab : IsWizard(wizard'[u]) /\ (wizard'[u].draft # Nothing => Written(wizard'[u].content))
      BY <1>2 DEF WizardTyped
    <2>3. \A d \in Draft : store'[d] # Wizard!NoContent => Written(store'[d])
      BY <1>4 DEF WizardTyped
    <2> QED
      BY <1>1, <1>2, <2>1, <2>2, <2>3 DEF WizardTyped, IsWizard, Written
  <1>6. MountedStays'
    BY <1>1, <1>2, WizardKinds DEF Safe, MountedStays, WizardTyped
  <1>7. ASSUME NEW d \in Draft PROVE SafeOf(d)'
    <2>1. SafeOf(d)
      BY DEF Safe
    <2>2. Alone(d) => Alone(d)'
      BY <1>1, <1>3 DEF Alone
    <2>3. Unused(d) => Unused(d)'
      BY <1>1, <1>3 DEF Unused
    <2>4. NewIsUnused(d)'
      BY <1>1, <1>4, <2>1, <2>3 DEF SafeOf, NewIsUnused
    <2>5. MadeOnce(d) => MadeOnce(d)'
      BY <1>1, <1>4, <2>3 DEF MadeOnce
    <2>6. d # d0 /\ NotLost(d) => NotLost(d)'
      BY <1>1, <1>3, <1>4 DEF NotLost, Ended
    <2> QED
      BY <1>1, <2>1, <2>2, <2>4, <2>5, <2>6 DEF SafeOf
  <1> QED
    BY <1>5, <1>6, <1>7 DEF Safe

\* A draft is opened for which there is nothing in the tabs and in the submissions, or it
\* counts as shared.
LEMMA OpenKeeps ==
  ASSUME Wizard!WizardConstants, WizardTyped, Safe, NEW t \in Tab, NEW d0 \in Draft,
         wizard[t].draft = Nothing, Wizard!Show(t, Wizard!Opened(d0, store'[d0])),
             Wizard!Unmount(t),
         store'[d0] # Wizard!NoContent, Written(store'[d0]), last'[d0] # Wizard!NoContent,
         UNCHANGED <<session, made, submitted>>, written' \in 0..MaxChanges,
         DOMAIN store' = Draft, DOMAIN last' = Draft,
         \A d \in Draft \ {d0} : store'[d] = store[d] /\ last'[d] = last[d],
         droppable \subseteq droppable', repeatable \subseteq repeatable',
         droppable' \subseteq Draft, repeatable' \subseteq Draft,
         d0 \in droppable' \intersect repeatable' \/
           (/\ Unused(d0) /\ (d0 \notin droppable' => store'[d0] = last'[d0])
            /\ d0 \notin repeatable' => made[d0] = <<>>)
  PROVE  WizardTyped' /\ Safe'
  <1>1. /\ DOMAIN wizard' = Tab /\ wizard'[t].draft = d0 /\ wizard'[t].content = store'[d0]
        /\ IsWizard(wizard'[t]) /\ \A u \in Tab \ {t} : wizard'[u] = wizard[u]
    BY PageShown, NoWizardShown
  <1>2. /\ \A s \in submits : IsSubmission(s) /\ Left(s, t) \in submits'
        /\ \A s \in submits' : \E r \in submits : s = Left(r, t)
        /\ \A s \in submits' : IsSubmission(s)'
    BY Unmounts DEF WizardTyped
  <1>3. WizardTyped'
    <2>1. \A u \in Tab : IsWizard(wizard'[u]) /\ (wizard'[u].draft # Nothing => Written(wizard'[u].content))
      BY <1>1 DEF WizardTyped
    <2>2. \A d \in Draft : store'[d] # Wizard!NoContent => Written(store'[d])
      BY DEF WizardTyped
    <2> QED
      BY <1>1, <1>2, <2>1, <2>2 DEF WizardTyped, IsWizard, Written
  <1>4. MountedStays'
    BY <1>1, Unmounts DEF Safe, MountedStays
  <1>5. \A d : \A s \in submits' : s.draft = d => \E r \in submits :
            r.draft = d /\ r.content = s.content /\ r.at = s.at
    BY <1>2, Leaving
  <1>6. \A d : \A r \in submits : r.draft = d => \E s \in submits' : s.draft = d /\ s.at = r.at
    BY <1>2, Leaving
  <1>7. ASSUME NEW d \in Draft \ {d0} PROVE SafeOf(d)'
    <2>1. SafeOf(d)
      BY DEF Safe
    <2>2. \A u \in Tab : wizard'[u].draft = d => u # t /\ wizard'[u] = wizard[u]
      BY <1>1
    <2>3. ASSUME Alone(d) PROVE Alone(d)'
      <3>1. \A u, v \in Tab : wizard'[u].draft = d /\ wizard'[v].draft = d => u = v
        BY <2>2, <2>3 DEF Alone
      <3>2. ASSUME NEW r \in submits', NEW s \in submits', r.draft = d, s.draft = d PROVE r = s
        BY <1>2, <2>3, <3>2, Leaving DEF Alone
      <3>3. ASSUME NEW u \in Tab, NEW s \in submits', wizard'[u].draft = d, s.draft = d
            PROVE  s.tab = u /\ s.mounted /\ wizard'[u].submitting
        BY <1>2, <2>2, <2>3, <3>3, Leaving DEF Alone
      <3> QED
        BY <3>1, <3>2, <3>3 DEF Alone
    <2>6. Unused(d) => Unused(d)'
      BY <1>5, <2>2 DEF Unused
    <2>7. NewIsUnused(d)'
      BY <2>1, <2>6 DEF SafeOf, NewIsUnused
    <2>8. MadeOnce(d) => MadeOnce(d)'
      BY <1>6, <2>6 DEF MadeOnce
    <2>9. NotLost(d) => NotLost(d)'
      BY <1>5, <2>2 DEF NotLost, Ended
    <2> QED
      BY <2>1, <2>3, <2>7, <2>8, <2>9 DEF SafeOf
  <1>8. SafeOf(d0)'
    <2>1. CASE d0 \in droppable' \intersect repeatable'
      BY <2>1 DEF SafeOf, NewIsUnused
    <2>2. CASE /\ Unused(d0) /\ (d0 \notin droppable' => store'[d0] = last'[d0])
               /\ d0 \notin repeatable' => made[d0] = <<>>
      <3>1. \A u \in Tab : wizard'[u].draft = d0 => u = t
        BY <1>1, <2>2 DEF Unused
      <3>2. \A s \in submits' : s.draft # d0
        BY <1>5, <2>2 DEF Unused
      <3>3. Alone(d0)' /\ NewIsUnused(d0)' /\ (d0 \notin repeatable' => MadeOnce(d0)')
        BY <2>2, <3>1, <3>2 DEF Alone, NewIsUnused, MadeOnce
      <3>4. d0 \notin droppable' => NotLost(d0)'
        BY <1>1, <2>2, <3>1, <3>2 DEF NotLost
      <3> QED
        BY <3>3, <3>4 DEF SafeOf
    <2> QED
      BY <2>1, <2>2
  <1> QED
    BY <1>3, <1>4, <1>7, <1>8 DEF Safe

LEMMA ResumeKeeps ==
  ASSUME Wizard!WizardConstants, WizardTyped, Safe, NEW t \in Tab, NEW d \in Draft,
         Wizard!Resume(t, d)
  PROVE  WizardTyped' /\ Safe'
  <1> DEFINE shared == IF Wizard!Sending(d) \/ \E u \in Tab : wizard[u].draft = d THEN {d} ELSE {}
  <1>1. /\ wizard[t].draft = Nothing /\ store[d] # Wizard!NoContent
        /\ Wizard!Show(t, Wizard!Opened(d, store[d])) /\ Wizard!Unmount(t)
        /\ droppable' = droppable \union shared /\ repeatable' = repeatable \union shared
        /\ UNCHANGED <<store, session, made, written, submitted, last>>
    BY DEF Wizard!Resume, Wizard!Stored
  <1>2. shared = {d} \/ (shared = {} /\ Unused(d))
    BY DEF Wizard!Sending, Unused
  <1> HIDE DEF shared
  <1>3. SafeOf(d) /\ last[d] # Wizard!NoContent
    BY <1>1 DEF Safe, SafeOf, NewIsUnused
  <1>4. Unused(d) => /\ d \notin droppable => store[d] = last[d]
                     /\ d \notin repeatable => made[d] = <<>>
    BY <1>1, <1>3 DEF SafeOf, MadeOnce, NotLost, Unused
  <1>5. d \in droppable' \intersect repeatable' \/
           (/\ Unused(d) /\ (d \notin droppable' => store'[d] = last'[d])
            /\ d \notin repeatable' => made[d] = <<>>)
    BY <1>1, <1>2, <1>4
  <1>6. /\ Written(store[d]) /\ DOMAIN store = Draft /\ DOMAIN last = Draft /\ written \in 0..MaxChanges
        /\ droppable' \subseteq Draft /\ repeatable' \subseteq Draft
    BY <1>1, <1>2 DEF WizardTyped
  <1> QED
    BY <1>1, <1>3, <1>5, <1>6, OpenKeeps

LEMMA StartDraftKeeps ==
  ASSUME Wizard!WizardConstants, WizardTyped, Safe, NEW t \in Tab, NEW d \in Draft,
         Wizard!StartDraft(t, d)
  PROVE  WizardTyped' /\ Safe'
  <1>1. /\ wizard[t].draft = Nothing /\ last[d] = Wizard!NoContent
        /\ store' = [store EXCEPT ![d] = Wizard!Empty] /\ last' = [last EXCEPT ![d] = Wizard!Empty]
        /\ Wizard!Show(t, Wizard!Opened(d, Wizard!Empty)) /\ Wizard!Unmount(t)
        /\ UNCHANGED <<session, made, submitted, droppable, repeatable>>
    BY DEF Wizard!StartDraft
  <1>2. written' \in 0..MaxChanges
    BY DEF Wizard!StartDraft, WizardTyped, Wizard!WizardConstants
  <1>3. Unused(d) /\ made[d] = <<>>
    BY <1>1 DEF Safe, SafeOf, NewIsUnused
  <1>4. /\ store'[d] = Wizard!Empty /\ last'[d] = Wizard!Empty /\ DOMAIN store' = Draft /\ DOMAIN last' = Draft
        /\ \A e \in Draft \ {d} : store'[e] = store[e] /\ last'[e] = last[e]
        /\ droppable' \subseteq Draft /\ repeatable' \subseteq Draft
    BY <1>1 DEF WizardTyped
  <1> QED
    BY <1>1, <1>2, <1>3, <1>4, Starts, OpenKeeps

\* A double click finds the button disabled.
LEMMA SubmitKeeps ==
  ASSUME Wizard!WizardConstants, WizardTyped, Safe, NEW t \in Tab, Wizard!Submit(t)
  PROVE  WizardTyped' /\ Safe'
  <1> DEFINE d0 == wizard[t].draft
             w  == [wizard[t] EXCEPT !.submitting = TRUE]
             s0 == [tab |-> t, draft |-> d0, content |-> wizard[t].content,
                    n |-> submitted, at |-> "sent", mounted |-> TRUE]
  <1>1. /\ d0 # Nothing /\ ~wizard[t].submitting /\ submitted < MaxSubmits
        /\ submitted' = submitted + 1 /\ submits' = submits \union {s0} /\ Wizard!Show(t, w)
        /\ UNCHANGED <<store, session, made, written, last, droppable, repeatable>>
    BY DEF Wizard!Submit, Wizard!CanSubmit, Wizard!At, Wizard!wGhosts
  <1>2. IsWizard(w) /\ w.draft = d0 /\ w.content = wizard[t].content /\ d0 \in Draft
    BY <1>1 DEF WizardTyped, IsWizard
  <1>3. w.submitting
    BY DEF WizardTyped, IsWizard
  <1>4. /\ s0.tab = t /\ s0.draft = d0 /\ s0.content = wizard[t].content /\ s0.n = submitted
        /\ s0.at = "sent"
    OBVIOUS
  <1>5. s0.mounted
    OBVIOUS
  <1>6. submitted \in Nat /\ submitted' \in 0..MaxSubmits /\ submitted' - 1 = submitted
    <2>1. submitted \in 0..MaxSubmits /\ MaxSubmits \in Nat
      BY DEF WizardTyped, Wizard!WizardConstants
    <2> HIDE DEF s0, w, d0
    <2> QED
      BY <1>1, <2>1
  <1>7. s0 \in [tab : Tab, draft : Draft, content : {s0.content}, n : 0..(submitted' - 1),
                at : {"sent", "done", "failed"}, mounted : BOOLEAN]
    BY <1>2, <1>6
  <1> HIDE DEF s0, w
  <1>8. DOMAIN wizard' = Tab /\ wizard'[t] = w /\ \A u \in Tab \ {t} : wizard'[u] = wizard[u]
    BY <1>1, PageShown
  <1> HIDE DEF d0
  <1>9. \A u \in Tab : wizard'[u].draft = wizard[u].draft /\ wizard'[u].content = wizard[u].content
    BY <1>2, <1>8 DEF d0
  <1>10. WizardTyped'
    <2>1. \A s \in submits' : IsSubmission(s)'
      <3>1. ASSUME NEW s \in submits PROVE IsSubmission(s)'
        <4>1. IsSubmission(s)
          BY DEF WizardTyped
        <4> QED
          BY <1>6, <4>1 DEF IsSubmission
      <3> QED
        BY <1>1, <1>7, <3>1 DEF IsSubmission
    <2>2. \A u \in Tab : IsWizard(wizard'[u]) /\ (wizard'[u].draft # Nothing => Written(wizard'[u].content))
      BY <1>2, <1>8, <1>9 DEF WizardTyped
    <2> QED
      BY <1>1, <1>6, <1>7, <1>8, <2>1, <2>2 DEF WizardTyped, IsWizard, Written
  <1>11. MountedStays'
    BY <1>1, <1>4, <1>9, WizardKinds DEF Safe, MountedStays, WizardTyped, d0
  <1>12. ASSUME NEW d \in Draft PROVE SafeOf(d)'
    <2>1. SafeOf(d)
      BY DEF Safe
    <2>2. CASE d # d0
      <3>1. Alone(d) => Alone(d)'
        BY <1>1, <1>2, <1>4, <1>8, <1>9, <2>2 DEF Alone, d0
      <3>2. Unused(d) => Unused(d)'
        BY <1>1, <1>4, <1>9, <2>2 DEF Unused
      <3>3. NewIsUnused(d)' /\ (MadeOnce(d) => MadeOnce(d)')
        BY <1>1, <2>1, <3>2 DEF SafeOf, NewIsUnused, MadeOnce
      <3>4. NotLost(d) => NotLost(d)'
        BY <1>1, <1>4, <1>9, <2>2 DEF NotLost, Ended
      <3> QED
        BY <1>1, <2>1, <3>1, <3>3, <3>4 DEF SafeOf
    <2>3. CASE d = d0
      <3>1. Alone(d) => \A s \in submits : s.draft # d
        BY <1>1, <2>3 DEF Alone, d0
      <3>2. Alone(d) => Alone(d)'
        BY <1>1, <1>3, <1>4, <1>5, <1>8, <1>9, <2>3, <3>1 DEF Alone, d0
      <3>3. NewIsUnused(d)'
        BY <1>1, <2>1, <2>3 DEF SafeOf, NewIsUnused, Unused, d0
      <3>4. d \notin repeatable => MadeOnce(d)'
        BY <1>1, <2>1, <2>3, <3>1 DEF SafeOf, MadeOnce, Unused, d0
      <3>5. NotLost(d) => NotLost(d)'
        BY <1>1, <1>4, <1>9, <2>3 DEF NotLost, Ended, d0
      <3> QED
        BY <1>1, <2>1, <3>2, <3>3, <3>4, <3>5 DEF SafeOf
    <2> QED
      BY <2>2, <2>3
  <1> QED
    BY <1>10, <1>11, <1>12 DEF Safe

\* The api makes a process: of a submission that waits, so of none that was made before.
LEMMA CreateKeeps ==
  ASSUME Wizard!WizardConstants, WizardTyped, Safe, NEW s0 \in submits, NEW ok \in BOOLEAN,
         Wizard!CreateBulkProcess(s0, ok)
  PROVE  WizardTyped' /\ Safe'
  <1> DEFINE d0 == s0.draft
             s1 == [s0 EXCEPT !.at = IF ok THEN "done" ELSE "failed"]
  <1>1. /\ s0.at = "sent" /\ submits' = (submits \ {s0}) \union {s1}
        /\ made' = IF ok THEN [made EXCEPT ![d0] = Append(made[d0], s0.content)] ELSE made
        /\ UNCHANGED <<store, wizard, session, written, submitted, last, droppable, repeatable>>
    BY DEF Wizard!CreateBulkProcess, Wizard!wGhosts
  <1>2. /\ IsSubmission(s0) /\ IsSubmission(s1) /\ d0 \in Draft /\ s1.tab = s0.tab /\ s1.draft = d0
        /\ s1.content = s0.content /\ s1.n = s0.n /\ s1.at = IF ok THEN "done" ELSE "failed"
    BY DEF WizardTyped, IsSubmission
  <1>3. s1.mounted <=> s0.mounted
    BY DEF WizardTyped, IsSubmission
  <1> HIDE DEF s1, d0
  <1>4. /\ DOMAIN made' = Draft /\ \A d \in Draft \ {d0} : made'[d] = made[d]
        /\ ~ok => made'[d0] = made[d0]
        /\ ok => made'[d0] = Append(made[d0], s0.content)
    BY <1>1, <1>2 DEF WizardTyped
  <1>5. PICK S : made[d0] \in Seq(S)
    BY <1>2 DEF WizardTyped
  <1>6. ok => /\ made'[d0] \in Seq(S \union {s0.content}) /\ made'[d0] # <<>>
              /\ Len(made'[d0]) = Len(made[d0]) + 1
              /\ made'[d0][Len(made'[d0])] = s0.content
    <2>1. made[d0] \in Seq(S \union {s0.content})
      BY <1>5
    <2> QED
      BY <1>4, <2>1
  <1>7. WizardTyped'
    <2>1. \A s : IsSubmission(s)' <=> IsSubmission(s)
      BY <1>1 DEF IsSubmission
    <2>2. \A d \in Draft : \E T : made'[d] \in Seq(T)
      BY <1>4, <1>5, <1>6 DEF WizardTyped
    <2> QED
      BY <1>1, <1>2, <1>4, <2>1, <2>2 DEF WizardTyped, IsWizard, Written
  <1>8. MountedStays'
    BY <1>1, <1>2, <1>3 DEF Safe, MountedStays, d0
  <1>9. ASSUME NEW d \in Draft PROVE SafeOf(d)'
    <2>1. SafeOf(d)
      BY DEF Safe
    <2>2. Alone(d) => Alone(d)'
      BY <1>1, <1>2, <1>3 DEF Alone, d0
    <2>3. Unused(d) => Unused(d)' /\ d # d0
      BY <1>1, <1>2 DEF Unused, d0
    <2>4. NewIsUnused(d)'
      BY <1>1, <1>4, <2>1, <2>3 DEF SafeOf, NewIsUnused
    <2>5. MadeOnce(d) /\ Alone(d) => MadeOnce(d)'
      <3>1. CASE d # d0
        <4>1. \A s \in submits : s.draft = d => s \in submits'
          BY <1>1, <3>1 DEF d0
        <4> QED
          BY <1>1, <1>4, <2>3, <3>1, <4>1 DEF MadeOnce
      <3>2. ASSUME d = d0, MadeOnce(d), Alone(d) PROVE MadeOnce(d)'
        <4>1. made[d] = <<>>
          BY <1>1, <3>2 DEF MadeOnce, Alone, Unused, d0
        <4>2. CASE ~ok
          BY <1>4, <3>2, <4>1, <4>2 DEF MadeOnce
        <4>3. CASE ok
          <5>1. Len(made'[d]) = 1
            BY <1>6, <3>2, <4>1, <4>3
          <5>2. s1 \in submits' /\ s1.draft = d /\ s1.at = "done"
            BY <1>1, <1>2, <3>2, <4>3
          <5> QED
            BY <5>1, <5>2 DEF MadeOnce
        <4> QED
          BY <4>2, <4>3
      <3> QED
        BY <3>1, <3>2
    <2>6. ASSUME NotLost(d) PROVE NotLost(d)'
      <3>1. CASE d # d0
        BY <1>1, <1>2, <1>4, <2>6, <3>1 DEF NotLost, Ended
      <3>2. CASE d = d0
        <4>1. s0.content = last[d]
          BY <2>6, <3>2 DEF NotLost, d0
        <4>2. (Ended(d) => Ended(d)') /\ (ok => Ended(d)')
          BY <1>1, <1>4, <1>6, <3>2, <4>1 DEF Ended
        <4>3. \A s \in submits' : s.draft = d => s.content = last[d] /\ (s.at = "done" => Ended(d)')
          BY <1>1, <1>2, <2>6, <4>1, <4>2 DEF NotLost
        <4> QED
          BY <1>1, <2>6, <4>2, <4>3 DEF NotLost
      <3> QED
        BY <3>1, <3>2
    <2> QED
      BY <1>1, <2>1, <2>2, <2>4, <2>5, <2>6 DEF SafeOf
  <1> QED
    BY <1>7, <1>8, <1>9 DEF Safe

\* The draft goes once its process was made.
LEMMA SuccessKeeps ==
  ASSUME Wizard!WizardConstants, WizardTyped, Safe, NEW s0 \in submits, Wizard!Succeeds(s0)
  PROVE  WizardTyped' /\ Safe'
  <1> DEFINE d0 == s0.draft
  <1>1. /\ s0.at = "done" /\ submits' = submits \ {s0} /\ store' = [store EXCEPT ![d0] = Wizard!NoContent]
        /\ IF s0.mounted THEN Wizard!Show(s0.tab, Wizard!NoWizard) ELSE UNCHANGED wizard
        /\ UNCHANGED <<session, made, written, submitted, last, droppable, repeatable>>
    BY DEF Wizard!Succeeds, Wizard!wGhosts
  <1>2. IsSubmission(s0) /\ d0 \in Draft /\ s0.tab \in Tab
    BY WizardKinds DEF WizardTyped
  <1>3. /\ DOMAIN wizard' = Tab
        /\ \A u \in Tab : \/ wizard'[u] = wizard[u] /\ ~(u = s0.tab /\ s0.mounted)
                          \/ u = s0.tab /\ wizard'[u] = Wizard!NoWizard
    BY <1>1, <1>2, PageShown DEF WizardTyped
  <1>4. \A d \in Draft : \A u \in Tab : wizard'[u].draft = d =>
          wizard'[u] = wizard[u] /\ ~(u = s0.tab /\ s0.mounted)
    BY <1>3, NoWizardShown DEF Wizard!WizardConstants
  <1>5. store'[d0] = Wizard!NoContent /\ \A d \in Draft \ {d0} : store'[d] = store[d]
    BY <1>1, <1>2 DEF WizardTyped
  <1>6. WizardTyped'
    <2>1. \A s : IsSubmission(s)' <=> IsSubmission(s)
      BY <1>1 DEF IsSubmission
    <2>2. \A u \in Tab : IsWizard(wizard'[u]) /\ (wizard'[u].draft # Nothing => Written(wizard'[u].content))
      BY <1>3, NoWizardShown DEF WizardTyped
    <2>3. \A d \in Draft : store'[d] # Wizard!NoContent => Written(store'[d])
      BY <1>5 DEF WizardTyped
    <2> QED
      BY <1>1, <1>2, <1>3, <2>1, <2>2, <2>3 DEF WizardTyped, IsWizard, Written
  <1>7. MountedStays'
    BY <1>1, <1>3, WizardKinds, NoWizardShown DEF Safe, MountedStays, WizardTyped
  <1>8. ASSUME NEW d \in Draft PROVE SafeOf(d)'
    <2>1. SafeOf(d)
      BY DEF Safe
    <2>2. Alone(d) => Alone(d)'
      BY <1>1, <1>4 DEF Alone
    <2>3. Unused(d) => Unused(d)'
      BY <1>1, <1>4 DEF Unused
    <2>4. NewIsUnused(d)'
      BY <1>1, <1>5, <2>1, <2>3 DEF SafeOf, NewIsUnused
    <2>5. Alone(d) /\ d = d0 => Unused(d)'
      BY <1>1, <1>4 DEF Alone, Unused
    <2>6. MadeOnce(d) /\ Alone(d) => MadeOnce(d)'
      BY <1>1, <1>5, <2>3, <2>5 DEF MadeOnce
    <2>7. NotLost(d) => NotLost(d)'
      BY <1>1, <1>4, <1>5 DEF NotLost, Ended
    <2> QED
      BY <1>1, <2>1, <2>2, <2>4, <2>6, <2>7 DEF SafeOf
  <1> QED
    BY <1>6, <1>7, <1>8 DEF Safe

\* After an error the same draft may be submitted again: the failed submission made nothing.
LEMMA FailKeeps ==
  ASSUME Wizard!WizardConstants, WizardTyped, Safe, NEW s0 \in submits, NEW expired \in BOOLEAN,
         Wizard!Fails(s0, expired)
  PROVE  WizardTyped' /\ Safe'
  <1> DEFINE d0 == s0.draft
             w  == [wizard[s0.tab] EXCEPT !.submitting = FALSE]
  <1>1. /\ s0.at # "sent" /\ submits' = submits \ {s0}
        /\ IF ~s0.mounted THEN UNCHANGED wizard ELSE Wizard!Show(s0.tab, w)
        /\ s0.at = "done" => d0 \in repeatable'
        /\ repeatable \subseteq repeatable' /\ repeatable' \subseteq repeatable \union {d0}
        /\ UNCHANGED <<store, made, written, submitted, last, droppable>>
    BY DEF Wizard!Fails
  <1>2. IsSubmission(s0) /\ d0 \in Draft /\ s0.tab \in Tab /\ IsWizard(wizard[s0.tab])
    BY WizardKinds DEF WizardTyped
  <1>3. IsWizard(w) /\ w.draft = wizard[s0.tab].draft /\ w.content = wizard[s0.tab].content
    BY <1>2 DEF IsWizard
  <1> HIDE DEF w
  <1>4. session' \in BOOLEAN
    BY DEF Wizard!Fails
  <1>5. /\ DOMAIN wizard' = Tab
        /\ \A u \in Tab : wizard'[u] = wizard[u] \/ (u = s0.tab /\ s0.mounted /\ wizard'[u] = w)
    BY <1>1, <1>2, PageShown DEF WizardTyped
  <1>6. \A u \in Tab : wizard'[u].draft = wizard[u].draft /\ wizard'[u].content = wizard[u].content
    BY <1>3, <1>5
  <1>7. WizardTyped'
    <2>1. \A s : IsSubmission(s)' <=> IsSubmission(s)
      BY <1>1 DEF IsSubmission
    <2>2. \A u \in Tab : IsWizard(wizard'[u]) /\ (wizard'[u].draft # Nothing => Written(wizard'[u].content))
      BY <1>3, <1>5, <1>6 DEF WizardTyped
    <2> QED
      BY <1>1, <1>2, <1>4, <1>5, <2>1, <2>2 DEF WizardTyped, IsWizard, Written
  <1>8. MountedStays'
    BY <1>1, <1>6, WizardKinds DEF Safe, MountedStays, WizardTyped
  <1>9. ASSUME NEW d \in Draft PROVE SafeOf(d)'
    <2>1. SafeOf(d)
      BY DEF Safe
    <2>2. Alone(d) => Alone(d)'
      <3>1. CASE d = d0
        BY <1>1, <1>6, <3>1 DEF Alone
      <3>2. CASE d # d0
        <4>1. \A u \in Tab : wizard'[u].draft = d => wizard'[u] = wizard[u]
          BY <1>2, <1>3, <1>5, <3>2 DEF Safe, MountedStays, Wizard!WizardConstants
        <4> QED
          BY <1>1, <4>1 DEF Alone
      <3> QED
        BY <3>1, <3>2
    <2>3. Unused(d) => Unused(d)'
      BY <1>1, <1>6 DEF Unused
    <2>4. NewIsUnused(d)'
      BY <1>1, <2>1, <2>3 DEF SafeOf, NewIsUnused
    <2>5. d \notin repeatable' /\ MadeOnce(d) => MadeOnce(d)'
      BY <1>1, <2>3 DEF MadeOnce
    <2>6. NotLost(d) => NotLost(d)'
      BY <1>1, <1>6 DEF NotLost, Ended
    <2> QED
      BY <1>1, <2>1, <2>2, <2>4, <2>5, <2>6 DEF SafeOf
  <1> QED
    BY <1>7, <1>8, <1>9 DEF Safe

(* No more processes than submissions.                                     *)

LEMMA WizardCounting ==
  ASSUME WizardTyped, NEW d \in Draft
  PROVE  /\ IsFiniteSet(SentNumbers(d)) /\ Cardinality(SentNumbers(d)) \in Nat
         /\ submitted \in Nat /\ Len(made[d]) \in Nat
  <1>1. submitted \in Nat
    BY DEF WizardTyped
  <1>2. IsFiniteSet(0..(submitted - 1))
    BY <1>1, FS_Interval
  <1>3. SentNumbers(d) \subseteq 0..(submitted - 1)
    BY DEF SentNumbers
  <1> QED
    BY <1>1, <1>2, <1>3, FS_Subset, FS_CardinalityType DEF WizardTyped

\* What keeps the numbers on their way.
LEMMA WizardNumbersStay ==
  ASSUME WizardTyped, WizardNumbered, UNCHANGED <<made, submitted>>,
         \/ UNCHANGED submits
         \/ \E t \in Tab : Wizard!Unmount(t)
         \/ \E s \in submits : s.at # "sent" /\ submits' = submits \ {s}
  PROVE  WizardNumbered'
  <1>1. /\ \A r, s \in submits' : r.n = s.n => r = s
        /\ \A d \in Draft : SentNumbers(d)' = SentNumbers(d)
    <2>1. CASE UNCHANGED submits
      BY <2>1 DEF WizardNumbered, SentNumbers
    <2>2. ASSUME NEW t \in Tab, Wizard!Unmount(t)
          PROVE  /\ \A r, q \in submits' : r.n = q.n => r = q
                 /\ \A d \in Draft : SentNumbers(d)' = SentNumbers(d)
      <3>1. /\ \A s \in submits : IsSubmission(s) /\ Left(s, t) \in submits'
            /\ \A s \in submits' : \E r \in submits : s = Left(r, t)
        BY <2>2, Unmounts DEF WizardTyped
      <3>2. ASSUME NEW r \in submits', NEW s \in submits', r.n = s.n PROVE r = s
        BY <3>1, <3>2, Leaving DEF WizardNumbered
      <3>3. ASSUME NEW d \in Draft PROVE SentNumbers(d)' = SentNumbers(d)
        BY <3>1, Leaving DEF SentNumbers
      <3> QED
        BY <3>2, <3>3
    <2>3. ASSUME NEW s \in submits, s.at # "sent", submits' = submits \ {s}
          PROVE  /\ \A r, q \in submits' : r.n = q.n => r = q
                 /\ \A d \in Draft : SentNumbers(d)' = SentNumbers(d)
      BY <2>3 DEF WizardNumbered, SentNumbers
    <2> QED
      BY <2>1, <2>2, <2>3
  <1> QED
    BY <1>1 DEF WizardNumbered

LEMMA SubmitCounts ==
  ASSUME Wizard!WizardConstants, WizardTyped, WizardNumbered, NEW t \in Tab, Wizard!Submit(t)
  PROVE  WizardNumbered'
  <1> DEFINE d0 == wizard[t].draft
             s0 == [tab |-> t, draft |-> d0, content |-> wizard[t].content,
                    n |-> submitted, at |-> "sent", mounted |-> TRUE]
  <1>1. submitted' = submitted + 1 /\ submits' = submits \union {s0} /\ UNCHANGED made
    BY DEF Wizard!Submit
  <1>2. s0.draft = d0 /\ s0.n = submitted /\ s0.at = "sent"
    OBVIOUS
  <1> HIDE DEF s0, d0
  <1>3. \A s \in submits : s.n \in 0..(submitted - 1)
    BY WizardKinds DEF WizardTyped
  <1>4. submitted \in Nat
    BY DEF WizardTyped
  <1>5. \A r, s \in submits' : r.n = s.n => r = s
    BY <1>1, <1>2, <1>3, <1>4 DEF WizardNumbered
  <1>6. ASSUME NEW d \in Draft
        PROVE  Len(made'[d]) + Cardinality(SentNumbers(d)') <= submitted'
    <2>1. SentNumbers(d)' \in {SentNumbers(d), SentNumbers(d) \union {submitted}}
      <3>1. CASE d = d0
        <4>1. SentNumbers(d)' = SentNumbers(d) \union {submitted}
          BY <1>1, <1>2, <1>4, <3>1 DEF SentNumbers
        <4> QED
          BY <4>1
      <3>2. CASE d # d0
        <4>1. SentNumbers(d)' = SentNumbers(d)
          BY <1>1, <1>2, <1>3, <1>4, <3>2 DEF SentNumbers
        <4> QED
          BY <4>1
      <3> QED
        BY <3>1, <3>2
    <2>2. submitted \notin SentNumbers(d)
      BY <1>4 DEF SentNumbers
    <2>3. PICK T : T = SentNumbers(d)
      OBVIOUS
    <2>4. IsFiniteSet(T) /\ Cardinality(T) \in Nat
          /\ Cardinality(T \union {submitted}) = Cardinality(T) + 1
      <3>1. IsFiniteSet(T) /\ Cardinality(T) \in Nat /\ submitted \notin T
        BY <2>2, <2>3, WizardCounting
      <3> QED
        BY <3>1, FS_AddElement
    <2>5. PICK U : U = SentNumbers(d)'
      OBVIOUS
    <2>6. U = T \/ U = T \union {submitted}
      BY <2>1, <2>3, <2>5
    <2>7. Cardinality(U) \in Nat /\ Cardinality(U) <= Cardinality(T) + 1
      <3>1. CASE U = T
        BY <2>4, <3>1
      <3>2. CASE U = T \union {submitted}
        BY <2>4, <3>2
      <3> QED
        BY <2>6, <3>1, <3>2
    <2>8. Len(made[d]) \in Nat /\ Len(made[d]) + Cardinality(T) <= submitted
      <3>1. Len(made[d]) + Cardinality(SentNumbers(d)) <= submitted
        BY DEF WizardNumbered
      <3> QED
        BY <2>3, <3>1, WizardCounting
    <2>9. Len(made[d]) + Cardinality(U) <= submitted'
      BY <1>1, <1>4, <2>4, <2>7, <2>8
    <2> QED
      BY <1>1, <2>5, <2>9
  <1> QED
    BY <1>5, <1>6 DEF WizardNumbered

LEMMA CreateCounts ==
  ASSUME WizardTyped, WizardNumbered, NEW s0 \in submits, NEW ok \in BOOLEAN,
         Wizard!CreateBulkProcess(s0, ok)
  PROVE  WizardNumbered'
  <1> DEFINE d0 == s0.draft
             s1 == [s0 EXCEPT !.at = IF ok THEN "done" ELSE "failed"]
  <1>1. /\ s0.at = "sent" /\ submits' = (submits \ {s0}) \union {s1} /\ submitted' = submitted
        /\ made' = IF ok THEN [made EXCEPT ![d0] = Append(made[d0], s0.content)] ELSE made
    BY DEF Wizard!CreateBulkProcess
  <1>2. IsSubmission(s0) /\ d0 \in Draft /\ s1.draft = d0 /\ s1.n = s0.n /\ s1.at # "sent"
    BY DEF WizardTyped, IsSubmission
  <1> HIDE DEF s1
  <1>3. \A r, s \in submits' : r.n = s.n => r = s
    BY <1>1, <1>2 DEF WizardNumbered
  <1>4. ASSUME NEW d \in Draft \ {d0} PROVE SentNumbers(d)' = SentNumbers(d) /\ made'[d] = made[d]
    <2>1. SentNumbers(d)' = SentNumbers(d)
      BY <1>1, <1>2 DEF SentNumbers
    <2> QED
      BY <1>1, <2>1 DEF WizardTyped
  <1>5. s0.n \in SentNumbers(d0) /\ SentNumbers(d0)' = SentNumbers(d0) \ {s0.n}
    <2>1. s0.n \in 0..(submitted - 1)
      BY <1>2, WizardKinds
    <2> QED
      BY <1>1, <1>2, <2>1 DEF SentNumbers, WizardNumbered
  <1>6. PICK S : made[d0] \in Seq(S)
    BY <1>2 DEF WizardTyped
  <1>7. Len(made'[d0]) <= Len(made[d0]) + 1
    <2>1. made[d0] \in Seq(S \union {s0.content})
      BY <1>6
    <2>2. Len(Append(made[d0], s0.content)) = Len(made[d0]) + 1
      BY <2>1
    <2>3. made'[d0] \in {made[d0], Append(made[d0], s0.content)} /\ Len(made[d0]) \in Nat
      BY <1>1, <1>2, <2>1 DEF WizardTyped
    <2> QED
      BY <2>2, <2>3
  <1>8. Len(made'[d0]) \in Nat
    <2>1. made[d0] \in Seq(S \union {s0.content})
      BY <1>6
    <2> QED
      BY <1>1, <1>2, <2>1 DEF WizardTyped
  <1>9. Cardinality(SentNumbers(d0)') = Cardinality(SentNumbers(d0)) - 1
    BY <1>2, <1>5, WizardCounting, FS_RemoveElement
  <1>10. Len(made'[d0]) + Cardinality(SentNumbers(d0)') <= submitted'
    <2>1. Len(made[d0]) + Cardinality(SentNumbers(d0)) <= submitted
      BY <1>2 DEF WizardNumbered
    <2> QED
      BY <1>1, <1>2, <1>7, <1>8, <1>9, <2>1, WizardCounting
  <1> QED
    BY <1>1, <1>3, <1>4, <1>10 DEF WizardNumbered

(* The wizard keeps all of it.                                             *)

LEMMA WizardInvInit ==
  ASSUME Wizard!WizardConstants, Wizard!Init
  PROVE  WizardInv
  <1>1. /\ \A d \in Draft : store[d] \in {Wizard!NoContent, Wizard!Ready} /\ made[d] = <<>> /\ last[d] = store[d]
        /\ \A t \in Tab : wizard[t] = Wizard!NoWizard
        /\ submits = {} /\ submitted = 0 /\ written = 0 /\ session \in BOOLEAN
        /\ droppable = {} /\ repeatable = {}
        /\ DOMAIN store = Draft /\ DOMAIN last = Draft /\ DOMAIN wizard = Tab /\ DOMAIN made = Draft
    BY DEF Wizard!Init
  <1>2. MaxChanges \in Nat /\ MaxSubmits \in Nat /\ Nothing \notin Draft
    BY DEF Wizard!WizardConstants
  <1>3. WizardTyped
    <2>1. \A t \in Tab : IsWizard(wizard[t]) /\ wizard[t].draft = Nothing
      BY <1>1, NoWizardShown
    <2>2. \A d \in Draft : store[d] # Wizard!NoContent => Written(store[d])
      BY <1>1, Starts
    <2>3. \A d \in Draft : made[d] \in Seq({})
      <3>1. <<>> \in Seq({})
        OBVIOUS
      <3> QED
        BY <1>1, <3>1
    <2>4. \A d \in Draft : \E S : made[d] \in Seq(S)
      BY <2>3
    <2>5. written \in 0..MaxChanges /\ submitted \in 0..MaxSubmits
      BY <1>1, <1>2
    <2> QED
      BY <1>1, <2>1, <2>2, <2>4, <2>5 DEF WizardTyped
  <1>4. WizardNumbered
    <2>1. ASSUME NEW d \in Draft PROVE Len(made[d]) + Cardinality(SentNumbers(d)) <= submitted
      <3>1. SentNumbers(d) = {}
        BY <1>1 DEF SentNumbers
      <3>2. Cardinality(SentNumbers(d)) = 0
        BY <3>1, FS_EmptySet
      <3>3. Len(made[d]) = 0
        BY <1>1
      <3> QED
        BY <1>1, <3>2, <3>3
    <2> QED
      BY <1>1, <2>1 DEF WizardNumbered
  <1>5. Safe
    <2>1. MountedStays
      BY <1>1 DEF MountedStays
    <2>2. ASSUME NEW d \in Draft PROVE SafeOf(d)
      <3>1. Unused(d)
        BY <1>1, <1>2, NoWizardShown DEF Unused
      <3>2. Alone(d)
        BY <1>1, <3>1 DEF Alone, Unused
      <3>3. NewIsUnused(d) /\ MadeOnce(d)
        BY <1>1, <3>1 DEF NewIsUnused, MadeOnce
      <3>4. NotLost(d)
        BY <1>1, <3>1 DEF NotLost, Unused
      <3> QED
        BY <3>2, <3>3, <3>4 DEF SafeOf
    <2> QED
      BY <2>1, <2>2 DEF Safe
  <1> QED
    BY <1>3, <1>4, <1>5 DEF WizardInv

LEMMA WizardInvNext ==
  ASSUME Wizard!WizardConstants, WizardInv, [Wizard!Next]_(Wizard!wVars)
  PROVE  WizardInv'
  <1> USE DEF WizardInv
  <1>1. CASE UNCHANGED Wizard!wVars
    <2>1. UNCHANGED <<store, wizard, session, submits, made, written, submitted, last, droppable,
                      repeatable>>
      BY <1>1 DEF Wizard!wVars, Wizard!wGhosts
    <2>2. WizardTyped'
      BY <2>1 DEF WizardTyped, IsWizard, IsSubmission
    <2>3. WizardNumbered'
      BY <2>1, WizardNumbersStay
    <2>4. Safe'
      BY <2>1 DEF Safe, MountedStays, SafeOf, Alone, NewIsUnused, Unused, MadeOnce, NotLost, Ended
    <2> QED
      BY <2>2, <2>3, <2>4
  <1>2. CASE Wizard!CheckSession
    <2>1. session' \in BOOLEAN
          /\ UNCHANGED <<store, wizard, submits, made, written, submitted, last,
                                             droppable, repeatable>>
      BY <1>2 DEF Wizard!CheckSession, Wizard!wGhosts
    <2>2. WizardTyped'
      BY <2>1 DEF WizardTyped, IsWizard, IsSubmission
    <2>3. WizardNumbered'
      BY <2>1, WizardNumbersStay
    <2>4. Safe'
      BY <2>1 DEF Safe, MountedStays, SafeOf, Alone, NewIsUnused, Unused, MadeOnce, NotLost, Ended
    <2> QED
      BY <2>2, <2>3, <2>4
  <1>3. ASSUME NEW t \in Tab, Wizard!Edit(t) PROVE WizardInv'
    <2>1. PICK c, step : Written(c) /\ Wizard!Persist(t, c, step)
      BY <1>3, EditPersists
    <2>2. UNCHANGED <<submits, made, submitted>>
      BY <2>1 DEF Wizard!Persist
    <2>3. WizardNumbered'
      BY <2>2, WizardNumbersStay
    <2> QED
      BY <2>1, <2>3, PersistKeeps
  <1>4. ASSUME NEW t \in Tab, Wizard!Move(t) PROVE WizardInv'
    <2>1. CASE Wizard!Leave(t)
      <3>1. Wizard!Unmount(t) /\ UNCHANGED <<made, submitted>>
        BY <2>1 DEF Wizard!Leave
      <3>2. WizardNumbered'
        BY <3>1, WizardNumbersStay
      <3> QED
        BY <2>1, <3>2, WizardLeaveKeeps
    <2>2. ASSUME \/ Wizard!HandleNext(t) \/ \E step : Wizard!Select(t, step)
                 \/ \E review \in BOOLEAN : Wizard!CloseModal(t, review)
          PROVE  WizardInv'
      <3>1. UNCHANGED <<submits, made, submitted>>
        BY <2>2 DEF Wizard!HandleNext, Wizard!Select, Wizard!CloseModal, Wizard!Quiet
      <3>2. WizardNumbered'
        BY <3>1, WizardNumbersStay
      <3> QED
        BY <2>2, <3>2, MovesKeep
    <2> QED
      BY <1>4, <2>1, <2>2 DEF Wizard!Move
  <1>5. ASSUME NEW t \in Tab, Wizard!Submit(t) PROVE WizardInv'
    BY <1>5, SubmitKeeps, SubmitCounts
  <1>6. ASSUME NEW t \in Tab, NEW d \in Draft, Wizard!Discard(t, d) PROVE WizardInv'
    <2>1. WizardNumbered'
      BY <1>6, WizardNumbersStay DEF Wizard!Discard
    <2> QED
      BY <1>6, <2>1, DiscardKeeps
  <1>7. ASSUME NEW t \in Tab, NEW d \in Draft, Wizard!Resume(t, d) PROVE WizardInv'
    <2>1. WizardNumbered'
      BY <1>7, WizardNumbersStay DEF Wizard!Resume
    <2> QED
      BY <1>7, <2>1, ResumeKeeps
  <1>8. ASSUME NEW t \in Tab, NEW d \in Draft, Wizard!StartDraft(t, d) PROVE WizardInv'
    <2>1. WizardNumbered'
      BY <1>8, WizardNumbersStay DEF Wizard!StartDraft
    <2> QED
      BY <1>8, <2>1, StartDraftKeeps
  <1>9. ASSUME NEW s \in submits, Wizard!Succeeds(s) PROVE WizardInv'
    <2>1. s.at # "sent" /\ submits' = submits \ {s} /\ UNCHANGED <<made, submitted>>
      BY <1>9 DEF Wizard!Succeeds
    <2>2. WizardNumbered'
      BY <2>1, WizardNumbersStay
    <2> QED
      BY <1>9, <2>2, SuccessKeeps
  <1>10. ASSUME NEW s \in submits, NEW b \in BOOLEAN, Wizard!CreateBulkProcess(s, b)
    PROVE WizardInv'
    BY <1>10, CreateKeeps, CreateCounts
  <1>11. ASSUME NEW s \in submits, NEW b \in BOOLEAN, Wizard!Fails(s, b) PROVE WizardInv'
    <2>1. s.at # "sent" /\ submits' = submits \ {s} /\ UNCHANGED <<made, submitted>>
      BY <1>11 DEF Wizard!Fails
    <2>2. WizardNumbered'
      BY <2>1, WizardNumbersStay
    <2> QED
      BY <1>11, <2>2, FailKeeps
  <1> QED
    BY <1>1, <1>2, <1>3, <1>4, <1>5, <1>6, <1>7, <1>8, <1>9, <1>10, <1>11 DEF Wizard!Next

LEMMA WizardInvGives ==
  ASSUME WizardInv
  PROVE  Wizard!TypeOK /\ Wizard!ADraftBecomesOneProcess
  <1>1. \A d \in Draft : Len(made[d]) <= submitted
    <2>1. ASSUME NEW d \in Draft PROVE Len(made[d]) <= submitted
      <3>1. Len(made[d]) + Cardinality(SentNumbers(d)) <= submitted
        BY DEF WizardInv, WizardNumbered
      <3> QED
        BY <3>1, WizardCounting DEF WizardInv
    <2> QED
      BY <2>1
  <1>2. Wizard!TypeOK
    BY <1>1, WizardKinds DEF Wizard!TypeOK, WizardInv, WizardTyped
  <1>3. ASSUME NEW d \in Draft
        PROVE  /\ d \notin repeatable => Len(made[d]) <= 1
               /\ d \notin droppable => store[d] = last[d] \/ Ended(d)
    <2>1. made[d] = <<>> => Len(made[d]) = 0
      OBVIOUS
    <2>2. SafeOf(d)
      BY DEF WizardInv, Safe
    <2>3. d \notin repeatable => Len(made[d]) <= 1
      <3>1. d \notin repeatable => made[d] = <<>> \/ Len(made[d]) = 1
        BY <2>2 DEF SafeOf, MadeOnce
      <3>2. d \notin repeatable => Len(made[d]) \in {0, 1}
        BY <2>1, <3>1
      <3>3. \A n \in {0, 1} : n <= 1
        OBVIOUS
      <3> QED
        BY <3>2, <3>3
    <2>4. d \notin droppable => store[d] = last[d] \/ Ended(d)
      BY <2>2 DEF SafeOf, NotLost
    <2> QED
      BY <2>3, <2>4
  <1> QED
    BY <1>2, <1>3 DEF Wizard!ADraftBecomesOneProcess, Ended

\* Until a process was made of a draft, the store, the one tab and the one submission that
\* have it agree; after that the draft is gone, or the answer that deletes it is on its way.
THEOREM WizardInvariant ==
  ASSUME Wizard!WizardConstants
  PROVE  Wizard!Spec => []WizardInv
  <1>1. Wizard!Init => WizardInv
    BY WizardInvInit
  <1>2. WizardInv /\ [Wizard!Next]_(Wizard!wVars) => WizardInv'
    BY WizardInvNext
  <1> QED
    BY <1>1, <1>2, PTL DEF Wizard!Spec

\* A draft becomes at most one process, and its last content is stored or in that process.
THEOREM DraftsBecomeOneProcess ==
  ASSUME Wizard!WizardConstants
  PROVE  Wizard!Spec => [](Wizard!TypeOK /\ Wizard!ADraftBecomesOneProcess)
  <1>1. WizardInv => Wizard!TypeOK /\ Wizard!ADraftBecomesOneProcess
    BY WizardInvGives
  <1> QED
    BY <1>1, WizardInvariant, PTL

-----------------------------------------------------------------------------
(* The page of own reviews.                                                *)

Contents == [Mine!Item -> Text \union {Mine!Gone}]
ReadLists == [seen : Nat, items : Contents]
AllCalls  == [op : {"save", "remove"}, item : Mine!Item, text : Text, n : Nat,
              at : {"sent", "done", "failed"}, mounted : BOOLEAN]

ReviewsTyped ==
  /\ stored \in Contents /\ changes \in Nat /\ sent \in 0..MaxEdits
  /\ calls \subseteq AllCalls
  /\ fetches \in Nat /\ lists \subseteq ReadLists /\ list \in ReadLists \union {Mine!NoList}
  /\ floor \in Nat /\ details \in BOOLEAN
  /\ form \in [Mine!Item -> [editing : BOOLEAN, busy : BOOLEAN, text : Text]]
  /\ hint \in {"new", "shown", "stranger", "left"}

\* A call is known by its number, and each that is on its way may still change a row.
SentCalls == {n \in 0..(sent - 1) : \E c \in calls : c.n = n /\ c.at = "sent"}
ReviewsNumbered ==
  /\ \A b, c \in calls : b.n = c.n => b = c
  /\ \A c \in calls : c.n < sent
  /\ changes + Cardinality(SentCalls) <= sent

\* A list that is as new as the last change has what is stored.
NewestIsCurrent ==
  /\ \A a \in lists \union {list} : a.seen <= changes /\ (a.seen = changes => a.items = stored)
  /\ floor <= changes

\* A list that has every change came, or is to come: it is on its way, it will be read, or
\* an answer will ask for it.
NewerIsComing ==
  hint = "shown" => \/ floor >= changes \/ fetches > 0 \/ \E a \in lists : a.seen = changes
                    \/ \E c \in calls : c.at = "done"

ReviewsInv == ReviewsTyped /\ ReviewsNumbered /\ NewestIsCurrent /\ NewerIsComing

LEMMA ReviewsCounting ==
  ASSUME ReviewsTyped
  PROVE  IsFiniteSet(SentCalls) /\ Cardinality(SentCalls) \in Nat /\ sent \in Nat /\ changes \in Nat
  <1>1. sent \in Nat /\ changes \in Nat
    BY DEF ReviewsTyped
  <1>2. IsFiniteSet(0..(sent - 1))
    BY <1>1, FS_Interval
  <1>3. SentCalls \subseteq 0..(sent - 1)
    BY DEF SentCalls
  <1> QED
    BY <1>1, <1>2, <1>3, FS_Subset, FS_CardinalityType

\* The numbers of calls stay when each call of a step was there before as it is, but for
\* its page.
LEMMA ReviewsNumbersStay ==
  ASSUME ReviewsTyped, ReviewsNumbered, sent' = sent, changes' = changes,
         \/ calls' = calls
         \/ calls' = {[c EXCEPT !.mounted = FALSE] : c \in calls}
         \/ \E c \in calls : c.at # "sent" /\ calls' = calls \ {c}
  PROVE  ReviewsNumbered'
  <1>1. /\ \A b, c \in calls' : b.n = c.n => b = c
        /\ \A c \in calls' : c.n < sent
        /\ SentCalls' = SentCalls
    <2>1. CASE calls' = calls
      BY <2>1 DEF ReviewsNumbered, SentCalls
    <2>2. CASE calls' = {[c EXCEPT !.mounted = FALSE] : c \in calls}
      <3>1. \A c \in calls : LET b == [c EXCEPT !.mounted = FALSE]
                             IN b.n = c.n /\ b.at = c.at /\ b \in calls'
        BY <2>2 DEF ReviewsTyped, AllCalls
      <3>2. \A b \in calls' : \E c \in calls : b = [c EXCEPT !.mounted = FALSE] /\ b.n = c.n /\ b.at = c.at
        BY <2>2, <3>1
      <3>3. ASSUME NEW b \in calls', NEW c \in calls', b.n = c.n PROVE b = c
        <4>1. PICK b1 \in calls : b = [b1 EXCEPT !.mounted = FALSE] /\ b.n = b1.n
          BY <3>2
        <4>2. PICK c1 \in calls : c = [c1 EXCEPT !.mounted = FALSE] /\ c.n = c1.n
          BY <3>2
        <4>3. b1 = c1
          BY <3>3, <4>1, <4>2 DEF ReviewsNumbered
        <4> QED
          BY <4>1, <4>2, <4>3
      <3>4. \A c \in calls' : c.n < sent
        BY <3>2 DEF ReviewsNumbered
      <3>5. SentCalls' = SentCalls
        <4>1. ASSUME NEW n PROVE (\E c \in calls' : c.n = n /\ c.at = "sent")
                                 <=> \E c \in calls : c.n = n /\ c.at = "sent"
          <5>1. ASSUME NEW c \in calls', c.n = n, c.at = "sent"
                PROVE  \E b \in calls : b.n = n /\ b.at = "sent"
            <6>1. PICK b \in calls : b.n = c.n /\ b.at = c.at
              BY <3>2
            <6> QED
              BY <5>1, <6>1
          <5>2. ASSUME NEW b \in calls, b.n = n, b.at = "sent"
                PROVE  \E c \in calls' : c.n = n /\ c.at = "sent"
            <6>1. \E c \in calls' : c.n = b.n /\ c.at = b.at
              BY <3>1
            <6> QED
              BY <5>2, <6>1
          <5> QED
            BY <5>1, <5>2
        <4> QED
          BY <4>1 DEF SentCalls
      <3> QED
        BY <3>3, <3>4, <3>5
    <2>3. ASSUME NEW c \in calls, c.at # "sent", calls' = calls \ {c}
          PROVE  /\ \A b, d \in calls' : b.n = d.n => b = d
                 /\ \A d \in calls' : d.n < sent
                 /\ SentCalls' = SentCalls
      BY <2>3 DEF ReviewsNumbered, SentCalls
    <2> QED
      BY <2>1, <2>2, <2>3
  <1> QED
    BY <1>1 DEF ReviewsNumbered

LEMMA CallCounts ==
  ASSUME ReviewsTyped, ReviewsNumbered, NEW op, NEW i, NEW text, Mine!Call(op, i, text)
  PROVE  ReviewsNumbered'
  <1> DEFINE c0 == [op |-> op, item |-> i, text |-> text, n |-> sent, at |-> "sent", mounted |-> TRUE]
  <1>1. sent' = sent + 1 /\ calls' = calls \union {c0} /\ changes' = changes
    BY DEF Mine!Call, Mine!api_
  <1>2. c0.n = sent /\ c0.at = "sent"
    OBVIOUS
  <1> HIDE DEF c0
  <1>3. sent \in Nat /\ \A c \in calls : c.n \in Nat /\ c.n < sent
    BY DEF ReviewsTyped, ReviewsNumbered, AllCalls
  <1>4. \A b, c \in calls' : b.n = c.n => b = c
    BY <1>1, <1>2, <1>3 DEF ReviewsNumbered
  <1>5. \A c \in calls' : c.n < sent'
    BY <1>1, <1>2, <1>3
  <1>6. SentCalls' = SentCalls \union {sent} /\ sent \notin SentCalls
    BY <1>1, <1>2, <1>3 DEF SentCalls
  <1>7. PICK T : T = SentCalls
    OBVIOUS
  <1>8. Cardinality(T \union {sent}) = Cardinality(T) + 1 /\ Cardinality(T) \in Nat
    <2>1. IsFiniteSet(T) /\ Cardinality(T) \in Nat /\ sent \notin T
      BY <1>6, <1>7, ReviewsCounting
    <2> QED
      BY <2>1, FS_AddElement
  <1>9. changes \in Nat /\ changes + Cardinality(T) <= sent
    BY <1>7, ReviewsCounting DEF ReviewsNumbered
  <1>10. changes' + Cardinality(T \union {sent}) <= sent'
    BY <1>1, <1>3, <1>8, <1>9
  <1>11. changes' + Cardinality(SentCalls') <= sent'
    BY <1>6, <1>7, <1>10
  <1> QED
    BY <1>4, <1>5, <1>11 DEF ReviewsNumbered

LEMMA CarryCounts ==
  ASSUME ReviewsTyped, ReviewsNumbered, NEW c0 \in calls, Mine!Carry(c0)
  PROVE  ReviewsNumbered'
  <1>1. PICK ok \in BOOLEAN, told \in BOOLEAN :
          /\ calls' = (calls \ {c0}) \union {[c0 EXCEPT !.at = IF told THEN "done" ELSE "failed"]}
          /\ changes' = IF ok THEN changes + 1 ELSE changes
    BY DEF Mine!Carry
  <1>2. c0.at = "sent" /\ sent' = sent
    BY DEF Mine!Carry
  <1> DEFINE c1 == [c0 EXCEPT !.at = IF told THEN "done" ELSE "failed"]
  <1>3. c0 \in AllCalls /\ c1.n = c0.n /\ c1.at # "sent"
    BY DEF ReviewsTyped, AllCalls
  <1>4. calls' = (calls \ {c0}) \union {c1}
    BY <1>1
  <1> HIDE DEF c1
  <1>5. \A b, c \in calls' : b.n = c.n => b = c
    BY <1>3, <1>4 DEF ReviewsNumbered
  <1>6. \A c \in calls' : c.n < sent'
    BY <1>2, <1>3, <1>4 DEF ReviewsNumbered
  <1>7. c0.n \in SentCalls /\ SentCalls' = SentCalls \ {c0.n}
    <2>1. c0.n \in 0..(sent - 1)
      BY <1>3 DEF ReviewsTyped, ReviewsNumbered, AllCalls
    <2> QED
      BY <1>2, <1>3, <1>4, <2>1 DEF SentCalls, ReviewsNumbered
  <1>8. PICK T : T = SentCalls
    OBVIOUS
  <1>9. Cardinality(T \ {c0.n}) = Cardinality(T) - 1 /\ Cardinality(T) \in Nat
    <2>1. IsFiniteSet(T) /\ Cardinality(T) \in Nat /\ c0.n \in T
      BY <1>7, <1>8, ReviewsCounting
    <2> QED
      BY <2>1, FS_RemoveElement
  <1>10. changes \in Nat /\ sent \in Nat /\ changes + Cardinality(T) <= sent
    BY <1>8, ReviewsCounting DEF ReviewsNumbered
  <1>11. changes' + Cardinality(T \ {c0.n}) <= sent'
    BY <1>1, <1>2, <1>9, <1>10
  <1>12. changes' + Cardinality(SentCalls') <= sent'
    BY <1>7, <1>8, <1>11
  <1> QED
    BY <1>5, <1>6, <1>12 DEF ReviewsNumbered

(* Every step keeps the kinds of values.                                     *)

LEMMA ReviewsKinds ==
  ASSUME Mine!PageConstants, ReviewsTyped
  PROVE  /\ Mine!NoList.items \in Contents /\ Mine!NoList.seen = -1 /\ list.items \in Contents
         /\ Mine!Closed \in [editing : BOOLEAN, busy : BOOLEAN, text : Text]
         /\ \A i \in Mine!Item : form[i] \in [editing : BOOLEAN, busy : BOOLEAN, text : Text]
         /\ \A i \in Mine!Item : Mine!Fresh(i) \in [editing : BOOLEAN, busy : BOOLEAN, text : Text]
  <1>1. NoText \in Text
    BY DEF Mine!PageConstants
  <1>2. Mine!NoList.items \in Contents /\ Mine!NoList.seen = -1
    BY DEF Mine!NoList, Contents
  <1>3. list.items \in Contents
    BY <1>2 DEF ReviewsTyped, ReadLists
  <1>4. Mine!Closed \in [editing : BOOLEAN, busy : BOOLEAN, text : Text]
    BY <1>1 DEF Mine!Closed
  <1>5. ASSUME NEW i \in Mine!Item
        PROVE  Mine!Fresh(i) \in [editing : BOOLEAN, busy : BOOLEAN, text : Text]
    <2>1. list.items[i] # Mine!Gone => list.items[i] \in Text
      BY <1>3 DEF Contents
    <2> QED
      BY <1>1, <1>4, <2>1 DEF Mine!Fresh, Mine!Listed
  <1> QED
    BY <1>2, <1>3, <1>4, <1>5 DEF ReviewsTyped

LEMMA ItemSteps ==
  ASSUME Mine!PageConstants, ReviewsTyped, ReviewsNumbered, NewestIsCurrent, NewerIsComing,
         NEW i \in Mine!Item, Mine!ItemStep(i)
  PROVE  ReviewsInv'
  <1>1. ASSUME Mine!Resting, NEW f \in [editing : BOOLEAN, busy : BOOLEAN, text : Text],
               Mine!Set(i, f)
        PROVE  ReviewsInv'
    <2>1. UNCHANGED <<stored, changes, calls, fetches, lists, list, floor, details, hint, sent>>
      BY <1>1 DEF Mine!Resting, Mine!api_
    <2>2. form' = [form EXCEPT ![i] = f]
      BY <1>1 DEF Mine!Set
    <2>3. ReviewsTyped'
      BY <1>1, <2>1, <2>2 DEF ReviewsTyped
    <2>4. ReviewsNumbered'
      BY <2>1, ReviewsNumbersStay
    <2>5. NewestIsCurrent' /\ NewerIsComing'
      BY <2>1 DEF NewestIsCurrent, NewerIsComing
    <2> QED
      BY <2>3, <2>4, <2>5 DEF ReviewsInv
  <1>2. ASSUME NEW op \in {"save", "remove"}, NEW text \in Text, Mine!Call(op, i, text)
        PROVE  ReviewsInv'
    <2>1. UNCHANGED <<stored, changes, fetches, lists, list, floor, details, hint>>
      BY <1>2 DEF Mine!Call, Mine!api_
    <2>2. form' = [form EXCEPT ![i] = [form[i] EXCEPT !.busy = TRUE]] /\ sent' = sent + 1
          /\ sent < MaxEdits
      BY <1>2 DEF Mine!Call, Mine!Set
    <2>3. calls' = calls \union {[op |-> op, item |-> i, text |-> text, n |-> sent, at |-> "sent",
                                  mounted |-> TRUE]}
      BY <1>2 DEF Mine!Call
    <2>4. ReviewsTyped'
      <3>1. sent' \in 0..MaxEdits /\ sent \in Nat
        BY <2>2 DEF ReviewsTyped, Mine!PageConstants
      <3>2. calls' \subseteq AllCalls
        <4>1. [op |-> op, item |-> i, text |-> text, n |-> sent, at |-> "sent", mounted |-> TRUE]
                \in AllCalls
          BY <1>2, <3>1 DEF AllCalls
        <4> QED
          BY <2>3, <4>1 DEF ReviewsTyped
      <3>3. form' \in [Mine!Item -> [editing : BOOLEAN, busy : BOOLEAN, text : Text]]
        BY <2>2, ReviewsKinds DEF ReviewsTyped
      <3> QED
        BY <2>1, <3>1, <3>2, <3>3 DEF ReviewsTyped
    <2>5. ReviewsNumbered'
      BY <1>2, CallCounts
    <2>6. NewestIsCurrent' /\ NewerIsComing'
      BY <2>1, <2>3 DEF NewestIsCurrent, NewerIsComing
    <2> QED
      BY <2>4, <2>5, <2>6 DEF ReviewsInv
  <1>3. form[i] \in [editing : BOOLEAN, busy : BOOLEAN, text : Text]
    BY ReviewsKinds
  <1>4. CASE Mine!StartEdit(i)
    BY <1>1, <1>3, <1>4 DEF Mine!StartEdit
  <1>5. CASE Mine!Cancel(i)
    BY <1>1, <1>3, <1>5 DEF Mine!Cancel
  <1>6. CASE Mine!Save(i)
    BY <1>2, <1>3, <1>6 DEF Mine!Save
  <1>7. CASE Mine!Remove(i)
    BY <1>2, <1>7 DEF Mine!Remove, Mine!PageConstants
  <1>8. ASSUME NEW t \in Text, Mine!Type(i, t) PROVE ReviewsInv'
    BY <1>1, <1>3, <1>8 DEF Mine!Type
  <1> QED
    BY <1>4, <1>5, <1>6, <1>7, <1>8 DEF Mine!ItemStep

LEMMA ReviewsCarryKeeps ==
  ASSUME Mine!PageConstants, ReviewsTyped, ReviewsNumbered, NewestIsCurrent, NewerIsComing,
         NEW c \in calls, Mine!Carry(c)
  PROVE  ReviewsInv'
  <1>1. PICK ok \in BOOLEAN, told \in BOOLEAN :
          /\ calls' = (calls \ {c}) \union {[c EXCEPT !.at = IF told THEN "done" ELSE "failed"]}
          /\ stored' = [stored EXCEPT ![c.item] = IF ~ok THEN stored[c.item]
               ELSE IF c.op = "remove" THEN Mine!Gone ELSE IF c.text = NoText THEN stored[c.item] ELSE c.text]
          /\ changes' = IF ok THEN changes + 1 ELSE changes
          /\ floor' = IF ok /\ ~told THEN changes + 1 ELSE floor
    BY DEF Mine!Carry
  <1>2. c.at = "sent" /\ UNCHANGED <<fetches, lists, list, details, form, hint, sent>>
    BY DEF Mine!Carry
  <1>3. c \in AllCalls
    BY DEF ReviewsTyped
  <1>4. changes' \in Nat /\ changes' >= changes /\ floor' \in Nat
    BY <1>1 DEF ReviewsTyped
  <1>5. stored' \in Contents
    BY <1>1, <1>3 DEF ReviewsTyped, AllCalls, Contents
  <1>6. [c EXCEPT !.at = IF told THEN "done" ELSE "failed"] \in AllCalls
    BY <1>3 DEF AllCalls
  <1>7. ReviewsTyped'
    BY <1>1, <1>2, <1>4, <1>5, <1>6 DEF ReviewsTyped
  <1>8. ReviewsNumbered'
    BY CarryCounts
  <1>9. NewestIsCurrent'
    <2>1. ASSUME NEW a \in lists \union {list}
          PROVE  a.seen <= changes' /\ (a.seen = changes' => a.items = stored')
      <3>1. a.seen \in Int /\ a.seen <= changes /\ (a.seen = changes => a.items = stored)
        BY ReviewsKinds DEF ReviewsTyped, ReadLists, NewestIsCurrent
      <3>2. CASE ok
        BY <1>1, <3>1, <3>2 DEF ReviewsTyped
      <3>3. CASE ~ok
        <4>1. stored' = stored /\ changes' = changes
          BY <1>1, <3>3 DEF ReviewsTyped, Contents
        <4> QED
          BY <3>1, <4>1
      <3> QED
        BY <3>2, <3>3
    <2>2. floor' <= changes'
      BY <1>1, <1>4 DEF NewestIsCurrent, ReviewsTyped
    <2> QED
      BY <1>2, <2>1, <2>2 DEF NewestIsCurrent
  <1>10. NewerIsComing'
    <2>1. CASE told
      <3>1. [c EXCEPT !.at = "done"].at = "done" /\ [c EXCEPT !.at = "done"] \in calls'
        BY <1>1, <1>3, <2>1 DEF AllCalls
      <3> QED
        BY <3>1 DEF NewerIsComing
    <2>2. CASE ok /\ ~told
      <3>1. floor' = changes'
        BY <1>1, <2>2
      <3> QED
        BY <1>4, <3>1 DEF NewerIsComing
    <2>3. CASE ~ok
      <3>1. changes' = changes /\ floor' = floor /\ \A b \in calls : b.at = "done" => b \in calls'
        BY <1>1, <1>2, <2>3
      <3> QED
        BY <1>2, <3>1 DEF NewerIsComing
    <2> QED
      BY <2>1, <2>2, <2>3
  <1> QED
    BY <1>7, <1>8, <1>9, <1>10 DEF ReviewsInv

LEMMA AnsweredKeeps ==
  ASSUME Mine!PageConstants, ReviewsTyped, ReviewsNumbered, NewestIsCurrent, NewerIsComing,
         NEW c \in calls, Mine!Answered(c)
  PROVE  ReviewsInv'
  <1>1. /\ c.at # "sent" /\ calls' = calls \ {c}
        /\ UNCHANGED <<stored, changes, lists, list, floor, details, hint, sent>>
    BY DEF Mine!Answered, Mine!api_
  <1>2. fetches' = IF c.at = "done" /\ hint = "shown" THEN fetches + 1 ELSE fetches
    BY DEF Mine!Answered, Mine!Reload
  <1>3. form' \in [Mine!Item -> [editing : BOOLEAN, busy : BOOLEAN, text : Text]]
    BY DEF Mine!Answered, ReviewsTyped
  <1>4. ReviewsTyped'
    BY <1>1, <1>2, <1>3 DEF ReviewsTyped
  <1>5. ReviewsNumbered'
    BY <1>1, ReviewsNumbersStay
  <1>6. NewestIsCurrent'
    BY <1>1 DEF NewestIsCurrent
  <1>7. NewerIsComing'
    <2>1. CASE c.at = "done" /\ hint = "shown"
      BY <1>2, <2>1 DEF NewerIsComing, ReviewsTyped
    <2>2. CASE ~(c.at = "done" /\ hint = "shown")
      BY <1>1, <1>2, <2>2 DEF NewerIsComing
    <2> QED
      BY <2>1, <2>2
  <1> QED
    BY <1>4, <1>5, <1>6, <1>7 DEF ReviewsInv

LEMMA ListArrivesKeeps ==
  ASSUME Mine!PageConstants, ReviewsTyped, ReviewsNumbered, NewestIsCurrent, NewerIsComing,
         NEW a \in lists, Mine!ListArrives(a)
  PROVE  ReviewsInv'
  <1>1. /\ lists' = lists \ {a} /\ list' = a /\ floor' = IF a.seen > floor THEN a.seen ELSE floor
        /\ UNCHANGED <<stored, changes, calls, fetches, details, hint, sent>>
    BY DEF Mine!ListArrives, Mine!api_
  <1>2. a \in ReadLists /\ a.seen \in Nat /\ a.items \in Contents /\ a.seen <= changes
    BY DEF ReviewsTyped, ReadLists, NewestIsCurrent
  <1>3. form' \in [Mine!Item -> [editing : BOOLEAN, busy : BOOLEAN, text : Text]]
    <2>1. form' = [i \in Mine!Item |-> IF details /\ ~Mine!Listed(i) THEN [Mine!Closed EXCEPT !.text =
                     IF a.items[i] = Mine!Gone THEN NoText ELSE a.items[i]] ELSE form[i]]
      BY DEF Mine!ListArrives
    <2>2. ASSUME NEW i \in Mine!Item
          PROVE  [Mine!Closed EXCEPT !.text = IF a.items[i] = Mine!Gone THEN NoText ELSE a.items[i]]
                   \in [editing : BOOLEAN, busy : BOOLEAN, text : Text]
      <3>1. a.items[i] # Mine!Gone => a.items[i] \in Text
        BY <1>2 DEF Contents
      <3> QED
        BY <3>1, ReviewsKinds DEF Mine!PageConstants
    <2> QED
      BY <2>1, <2>2, ReviewsKinds
  <1>4. ReviewsTyped'
    BY <1>1, <1>2, <1>3 DEF ReviewsTyped
  <1>5. ReviewsNumbered'
    BY <1>1, ReviewsNumbersStay
  <1>6. NewestIsCurrent'
    BY <1>1, <1>2 DEF NewestIsCurrent
  <1>7. NewerIsComing'
    <2>1. floor' >= floor /\ floor' >= a.seen
      BY <1>1, <1>2 DEF ReviewsTyped
    <2>2. \A b \in lists : b = a \/ b \in lists'
      BY <1>1
    <2> QED
      BY <1>1, <1>2, <2>1, <2>2 DEF NewerIsComing, ReviewsTyped
  <1> QED
    BY <1>4, <1>5, <1>6, <1>7 DEF ReviewsInv

LEMMA ReadListKeeps ==
  ASSUME Mine!PageConstants, ReviewsTyped, ReviewsNumbered, NewestIsCurrent, NewerIsComing,
         Mine!ReadList
  PROVE  ReviewsInv'
  <1> DEFINE a == [seen |-> changes, items |-> stored]
  <1>1. /\ fetches > 0 /\ fetches' = fetches - 1 /\ lists' = lists \union {a}
        /\ UNCHANGED <<stored, changes, calls, list, floor, details, form, hint, sent>>
    BY DEF Mine!ReadList, Mine!Rows, Mine!api_, Mine!page
  <1>2. a \in ReadLists /\ a.seen = changes /\ a.items = stored
    BY DEF ReviewsTyped, ReadLists
  <1> HIDE DEF a
  <1>3. ReviewsTyped'
    BY <1>1, <1>2 DEF ReviewsTyped
  <1>4. ReviewsNumbered'
    BY <1>1, ReviewsNumbersStay
  <1>5. NewestIsCurrent'
    BY <1>1, <1>2 DEF NewestIsCurrent, ReviewsTyped
  <1>6. NewerIsComing'
    BY <1>1, <1>2 DEF NewerIsComing
  <1> QED
    BY <1>3, <1>4, <1>5, <1>6 DEF ReviewsInv

LEMMA ReviewsInvInit ==
  ASSUME Mine!PageConstants, Mine!Init
  PROVE  ReviewsInv
  <1>1. /\ stored \in Contents /\ changes = 0 /\ calls = {} /\ fetches = 0 /\ lists = {}
        /\ list = Mine!NoList /\ floor = 0 /\ details = FALSE /\ hint = "new" /\ sent = 0
        /\ form = [i \in Mine!Item |-> Mine!Closed]
    BY DEF Mine!Init, Contents
  <1>2. ReviewsTyped
    <2>1. Mine!Closed \in [editing : BOOLEAN, busy : BOOLEAN, text : Text]
      BY DEF Mine!Closed, Mine!PageConstants
    <2>2. form \in [Mine!Item -> [editing : BOOLEAN, busy : BOOLEAN, text : Text]]
      BY <1>1, <2>1
    <2>3. sent \in 0..MaxEdits
      BY <1>1 DEF Mine!PageConstants
    <2> QED
      BY <1>1, <2>2, <2>3 DEF ReviewsTyped
  <1>3. ReviewsNumbered
    <2>1. SentCalls = {}
      BY <1>1 DEF SentCalls
    <2>2. Cardinality(SentCalls) = 0
      BY <2>1, FS_EmptySet
    <2> QED
      BY <1>1, <2>2 DEF ReviewsNumbered
  <1>4. NewestIsCurrent
    BY <1>1 DEF NewestIsCurrent, Mine!NoList
  <1>5. NewerIsComing
    BY <1>1 DEF NewerIsComing
  <1> QED
    BY <1>2, <1>3, <1>4, <1>5 DEF ReviewsInv

LEMMA ReviewsInvNext ==
  ASSUME Mine!PageConstants, ReviewsInv, [Mine!Next]_(Mine!rVars)
  PROVE  ReviewsInv'
  <1>0. ReviewsTyped /\ ReviewsNumbered /\ NewestIsCurrent /\ NewerIsComing
    BY DEF ReviewsInv
  <1>1. CASE UNCHANGED Mine!rVars
    <2>1. UNCHANGED <<stored, changes, calls, fetches, lists, list, floor, details, form, hint, sent>>
      BY <1>1 DEF Mine!rVars, Mine!api_, Mine!page
    <2>2. ReviewsNumbered'
      BY <1>0, <2>1, ReviewsNumbersStay
    <2>3. ReviewsTyped' /\ NewestIsCurrent' /\ NewerIsComing'
      BY <1>0, <2>1 DEF ReviewsTyped, NewestIsCurrent, NewerIsComing
    <2> QED
      BY <2>2, <2>3 DEF ReviewsInv
  <1>2. CASE Mine!ToggleExpanded
    <2>1. /\ details' = ~details /\ calls' = {[c EXCEPT !.mounted = FALSE] : c \in calls}
          /\ form' = [i \in Mine!Item |-> IF details THEN Mine!Closed ELSE Mine!Fresh(i)]
          /\ UNCHANGED <<stored, changes, fetches, lists, list, floor, hint, sent>>
      BY <1>2 DEF Mine!ToggleExpanded, Mine!api_
    <2>2. form' \in [Mine!Item -> [editing : BOOLEAN, busy : BOOLEAN, text : Text]]
      BY <1>0, <2>1, ReviewsKinds
    <2>3. calls' \subseteq AllCalls
      <3>1. ASSUME NEW c \in calls PROVE [c EXCEPT !.mounted = FALSE] \in AllCalls
        BY <1>0 DEF ReviewsTyped, AllCalls
      <3> QED
        BY <2>1, <3>1
    <2>4. ReviewsTyped'
      BY <1>0, <2>1, <2>2, <2>3 DEF ReviewsTyped
    <2>5. ReviewsNumbered'
      BY <1>0, <2>1, ReviewsNumbersStay
    <2>6. NewestIsCurrent'
      BY <1>0, <2>1 DEF NewestIsCurrent
    <2>7. \A c \in calls : [c EXCEPT !.mounted = FALSE] \in calls' /\ [c EXCEPT !.mounted = FALSE].at = c.at
      BY <1>0, <2>1 DEF ReviewsTyped, AllCalls
    <2>8. NewerIsComing'
      BY <1>0, <2>1, <2>7 DEF NewerIsComing
    <2> QED
      BY <2>4, <2>5, <2>6, <2>8 DEF ReviewsInv
  <1>3. CASE Mine!ListFails
    <2>1. /\ fetches > 0 /\ fetches' = fetches - 1 /\ floor' = changes
          /\ UNCHANGED <<stored, changes, calls, lists, list, details, form, hint, sent>>
      BY <1>3 DEF Mine!ListFails, Mine!api_
    <2>2. ReviewsNumbered'
      BY <1>0, <2>1, ReviewsNumbersStay
    <2>3. ReviewsTyped'
      BY <1>0, <2>1 DEF ReviewsTyped
    <2>4. NewestIsCurrent' /\ NewerIsComing'
      BY <1>0, <2>1 DEF ReviewsTyped, NewestIsCurrent, NewerIsComing
    <2> QED
      BY <2>2, <2>3, <2>4 DEF ReviewsInv
  <1>4. CASE Mine!ReadList
    BY <1>0, <1>4, ReadListKeeps
  <1>5. CASE Mine!Leave
    <2>1. /\ hint' = "left"
          /\ UNCHANGED <<stored, changes, calls, fetches, lists, list, floor, details, form, sent>>
      BY <1>5 DEF Mine!Leave, Mine!api_
    <2>2. ReviewsNumbered'
      BY <1>0, <2>1, ReviewsNumbersStay
    <2>3. ReviewsTyped' /\ NewestIsCurrent' /\ NewerIsComing'
      BY <1>0, <2>1 DEF ReviewsTyped, NewestIsCurrent, NewerIsComing
    <2> QED
      BY <2>2, <2>3 DEF ReviewsInv
  <1>6. ASSUME NEW there \in BOOLEAN, Mine!LookAtHint(there) PROVE ReviewsInv'
    <2>1. /\ hint' = IF there THEN "shown" ELSE "stranger"
          /\ fetches' = IF there THEN fetches + 1 ELSE fetches
          /\ UNCHANGED <<stored, changes, calls, lists, list, floor, details, form, sent>>
      BY <1>6 DEF Mine!LookAtHint, Mine!api_
    <2>2. ReviewsNumbered'
      BY <1>0, <2>1, ReviewsNumbersStay
    <2>3. ReviewsTyped'
      BY <1>0, <1>6, <2>1 DEF ReviewsTyped
    <2>4. NewestIsCurrent' /\ NewerIsComing'
      BY <1>0, <1>6, <2>1 DEF ReviewsTyped, NewestIsCurrent, NewerIsComing
    <2> QED
      BY <2>2, <2>3, <2>4 DEF ReviewsInv
  <1>7. ASSUME NEW a \in lists, Mine!ListArrives(a) PROVE ReviewsInv'
    BY <1>0, <1>7, ListArrivesKeeps
  <1>8. ASSUME NEW c \in calls, Mine!Carry(c) PROVE ReviewsInv'
    BY <1>0, <1>8, ReviewsCarryKeeps
  <1>9. ASSUME NEW c \in calls, Mine!Answered(c) PROVE ReviewsInv'
    BY <1>0, <1>9, AnsweredKeeps
  <1>10. ASSUME NEW i \in Mine!Item, Mine!ItemStep(i) PROVE ReviewsInv'
    BY <1>0, <1>10, ItemSteps
  <1> QED
    BY <1>1, <1>2, <1>3, <1>4, <1>5, <1>6, <1>7, <1>8, <1>9, <1>10
       DEF Mine!Next, Mine!RoundRatingItem, Mine!RecruiterRatingItem, Mine!OverallReviewItem

LEMMA ReviewsInvGives ==
  ASSUME Mine!PageConstants, ReviewsInv
  PROVE  Mine!TypeOK /\ Mine!ChangesAreShown
  <1>0. ReviewsTyped /\ ReviewsNumbered /\ NewestIsCurrent /\ NewerIsComing
    BY DEF ReviewsInv
  <1>1. changes \in 0..MaxEdits /\ sent \in 0..MaxEdits /\ floor \in 0..MaxEdits
    <2>1. changes <= sent
      BY <1>0, ReviewsCounting DEF ReviewsNumbered
    <2> QED
      BY <1>0, <2>1 DEF ReviewsTyped, NewestIsCurrent, Mine!PageConstants
  <1>2. \A a \in ReadLists : a.seen <= changes => a \in Mine!Lists
    <2>1. ASSUME NEW a \in ReadLists, a.seen <= changes PROVE a \in Mine!Lists
      <3>1. a.seen \in 0..MaxEdits
        BY <1>1, <2>1 DEF ReadLists, Mine!PageConstants
      <3> QED
        BY <3>1 DEF ReadLists, Mine!Lists, Contents
    <2> QED
      BY <2>1
  <1>3. lists \subseteq Mine!Lists
    <2>1. ASSUME NEW a \in lists PROVE a \in Mine!Lists
      <3>1. a \in ReadLists /\ a.seen <= changes
        BY <1>0 DEF ReviewsTyped, NewestIsCurrent
      <3> QED
        BY <1>2, <3>1
    <2> QED
      BY <2>1
  <1>4. list \in Mine!Lists \union {Mine!NoList}
    <2>1. CASE list \in ReadLists
      <3>1. list.seen <= changes
        BY <1>0 DEF NewestIsCurrent
      <3> QED
        BY <1>2, <2>1, <3>1
    <2> QED
      BY <1>0, <2>1 DEF ReviewsTyped
  <1>5. Mine!TypeOK
    BY <1>0, <1>1, <1>3, <1>4 DEF Mine!TypeOK, ReviewsTyped, AllCalls, Contents
  <1>6. Mine!ChangesAreShown
    <2>1. SUFFICES ASSUME hint = "shown", calls = {}, fetches = 0, lists = {}, list.seen >= floor
                   PROVE  list.items = stored
      BY DEF Mine!ChangesAreShown
    <2>2. floor >= changes
      BY <1>0, <2>1 DEF NewerIsComing
    <2>3. list.seen \in Int
      BY <1>0, ReviewsKinds DEF ReviewsTyped, ReadLists
    <2>4. list.seen = changes
      BY <1>0, <2>1, <2>2, <2>3 DEF NewestIsCurrent, ReviewsTyped
    <2> QED
      BY <1>0, <2>4 DEF NewestIsCurrent
  <1> QED
    BY <1>5, <1>6

\* A list that is as new as the last change shows what is stored, and as long as none came a
\* newer one is to come.
THEOREM ReviewsInvariant ==
  ASSUME Mine!PageConstants
  PROVE  Mine!Spec => []ReviewsInv
  <1>1. Mine!Init => ReviewsInv
    BY ReviewsInvInit
  <1>2. ReviewsInv /\ [Mine!Next]_(Mine!rVars) => ReviewsInv'
    BY ReviewsInvNext
  <1> QED
    BY <1>1, <1>2, PTL DEF Mine!Spec

\* The page of own reviews ends up with what is stored.
THEOREM ReviewsShowChanges ==
  ASSUME Mine!PageConstants
  PROVE  Mine!Spec => [](Mine!TypeOK /\ Mine!ChangesAreShown)
  <1>1. ReviewsInv => Mine!TypeOK /\ Mine!ChangesAreShown
    BY ReviewsInvGives
  <1> QED
    BY <1>1, ReviewsInvariant, PTL

-----------------------------------------------------------------------------
(* The moderator's queue page.                                             *)

\* A list of at most as many groups as there are submissions, and the entries in it.
IsList(rows) == \E n \in 0..Cardinality(Submissions) : rows \in [1..n -> SUBSET Queue!Rows]
Shows(rows)  == Queue!Ids(UNION Queue!Range(rows))

Acts == [entry : Entry, op : Queue!Ops, n : Nat, at : {"sent", "done", "failed"}]

TypedTable == /\ status \in [Entry -> {"new", "open", "decided"}]
              /\ holder \in [Entry -> {"nobody", "me", "other"}]
TypedPage ==
  /\ viewer \in {"checking", "moderator", "staff", "left"}
  /\ filter.match \subseteq Entry /\ term \in Searches \union {NoSearch}
  /\ timer \in BOOLEAN /\ (timer => term \in Searches) /\ loading \in BOOLEAN
TypedShown ==
  /\ groups = Queue!Loading \/ IsList(groups)
  /\ results \subseteq Queue!Rows /\ expanded \subseteq 1..Cardinality(Submissions)
TypedAsks ==
  \A a \in asks : \/ a.kind = "list" /\ a.of.match \subseteq Entry
                  \/ a.kind = "search" /\ a.of \in Searches
TypedAnswers ==
  \A a \in answers : \/ a.kind = "list" /\ IsList(a.rows)
                     \/ a.kind = "search" /\ a.rows \in [1..1 -> SUBSET Queue!Rows]
TypedRest == /\ acts \subseteq Acts /\ called \in 0..MaxCalls
             /\ decided \subseteq Entry /\ overtaken \subseteq Entry
QueueTyped == TypedTable /\ TypedPage /\ TypedShown /\ TypedAsks /\ TypedAnswers /\ TypedRest

\* What this page decided is decided, and an answer on its way that still shows it was
\* noted when the decision was answered.
DecidedIsKept ==
  /\ \A e \in decided : status[e] = "decided"
  /\ \A c \in acts : c.at = "done" /\ c.op = "decide" => status[c.entry] = "decided"
AnswersAreNoted ==
  \A a \in answers : Shows(a.rows) \intersect decided \subseteq overtaken

QueueInv == QueueTyped /\ DecidedIsKept /\ AnswersAreNoted /\ Queue!DecidedStaysHidden

(* What a list shows.                                                        *)

LEMMA Showing ==
  ASSUME NEW rows, NEW e
  PROVE  e \in Shows(rows) <=> \E g \in DOMAIN rows : \E r \in rows[g] : r.id = e
  BY DEF Shows, Queue!Ids, Queue!Range

LEMMA SameCounts ==
  ASSUME NEW S
  PROVE  (Queue!IsFiniteSet(S) <=> IsFiniteSet(S)) /\ Queue!Cardinality(S) = Cardinality(S)
  BY DEF Queue!IsFiniteSet, IsFiniteSet, Queue!Cardinality, Cardinality

LEMMA Sizes ==
  ASSUME Queue!QueuePageConstants
  PROVE  Cardinality(Submissions) \in Nat
  BY SameCounts, FS_CardinalityType DEF Queue!QueuePageConstants

LEMMA PartsAreFew ==
  ASSUME Queue!QueuePageConstants, NEW f
  PROVE  /\ IsFiniteSet(Queue!Parts(f)) /\ Cardinality(Queue!Parts(f)) \in 0..Cardinality(Submissions)
         /\ \A p \in Queue!Parts(f) : p \subseteq Queue!Matching(f)
  <1> DEFINE cut   == [s \in Submissions |-> s \intersect Queue!Matching(f)]
             image == {s \intersect Queue!Matching(f) : s \in Submissions}
  <1>1. IsFiniteSet(Submissions) /\ Cardinality(Submissions) \in Nat
    BY Sizes, SameCounts DEF Queue!QueuePageConstants
  <1>2. cut \in Surjection(Submissions, image)
    BY DEF Surjection
  <1>3. Queue!Parts(f) \subseteq image /\ \A p \in Queue!Parts(f) : p \subseteq Queue!Matching(f)
    BY DEF Queue!Parts
  <1> HIDE DEF cut, image
  <1>4. IsFiniteSet(image) /\ Cardinality(image) <= Cardinality(Submissions)
    BY <1>1, <1>2, FS_Surjection
  <1>5. Cardinality(image) \in Nat
    BY <1>4, FS_CardinalityType
  <1>6. IsFiniteSet(Queue!Parts(f)) /\ Cardinality(Queue!Parts(f)) <= Cardinality(image)
    BY <1>3, <1>4, FS_Subset
  <1>7. Cardinality(Queue!Parts(f)) \in Nat
    BY <1>6, FS_CardinalityType
  <1> QED
    BY <1>1, <1>3, <1>4, <1>5, <1>6, <1>7

\* A list and a search show open entries only.
LEMMA PendingIsOpen ==
  ASSUME Queue!QueuePageConstants, TypedTable, NEW f, f.match \subseteq Entry,
         NEW rows \in Queue!ListPending(f)
  PROVE  IsList(rows) /\ \A e \in Shows(rows) : status[e] = "open"
  <1>1. PICK order \in [1..Cardinality(Queue!Parts(f)) -> Queue!Parts(f)] :
          rows = [g \in DOMAIN order |-> {Queue!Row(e) : e \in order[g]}]
    BY SameCounts DEF Queue!ListPending, Queue!Sorted
  <1>2. \A g \in DOMAIN order : order[g] \subseteq Queue!Matching(f)
    BY <1>1, PartsAreFew
  <1>3. Queue!Matching(f) \subseteq Entry /\ \A e \in Queue!Matching(f) : status[e] = "open"
    BY DEF Queue!Matching
  <1>4. \A e \in Entry : Queue!Row(e) \in Queue!Rows /\ Queue!Row(e).id = e
    BY DEF Queue!Row, Queue!Rows, TypedTable
  <1>5. \A g \in DOMAIN order : {Queue!Row(e) : e \in order[g]} \in SUBSET Queue!Rows
    BY <1>2, <1>3, <1>4
  <1>6. rows \in [1..Cardinality(Queue!Parts(f)) -> SUBSET Queue!Rows]
    BY <1>1, <1>5
  <1>7. IsList(rows)
    BY <1>6, PartsAreFew DEF IsList
  <1>8. ASSUME NEW e \in Shows(rows) PROVE status[e] = "open"
    <2>1. PICK g \in DOMAIN rows : \E r \in rows[g] : r.id = e
      BY Showing
    <2>2. PICK x \in order[g] : Queue!Row(x).id = e
      BY <1>1, <2>1
    <2> QED
      BY <1>1, <1>2, <1>3, <1>4, <2>1, <2>2
  <1> QED
    BY <1>7, <1>8

LEMMA SearchIsOpen ==
  ASSUME Queue!QueuePageConstants, TypedTable, NEW found, found \subseteq Entry,
         NEW rows \in Queue!Search(found)
  PROVE  rows \in [1..1 -> SUBSET Queue!Rows] /\ \A e \in Shows(rows) : status[e] = "open"
  <1> DEFINE open == {Queue!Row(e) : e \in {x \in found : status[x] = "open"}}
  <1>1. \A e \in Entry : Queue!Row(e) \in Queue!Rows /\ Queue!Row(e).id = e
    BY DEF Queue!Row, Queue!Rows, TypedTable
  <1>2. open \in SUBSET Queue!Rows /\ \A r \in open : status[r.id] = "open"
    BY <1>1
  <1>3. rows = <<open>>
    BY DEF Queue!Search
  <1> HIDE DEF open
  <1>4. DOMAIN rows = 1..1 /\ rows[1] = open
    BY <1>3
  <1>5. rows \in [1..1 -> SUBSET Queue!Rows]
    BY <1>2, <1>3, <1>4
  <1>6. ASSUME NEW e \in Shows(rows) PROVE status[e] = "open"
    BY <1>2, <1>4, Showing
  <1> QED
    BY <1>5, <1>6

LEMMA LoadingShows == Queue!Loading \in [1..1 -> SUBSET Queue!Rows] /\ Shows(Queue!Loading) = {} /\ DOMAIN Queue!Loading = 1..1
  <1>1. Queue!Loading \in [1..1 -> SUBSET Queue!Rows] /\ Queue!Loading[1] = {}
    BY DEF Queue!Loading
  <1>2. DOMAIN Queue!Loading = 1..1
    BY <1>1
  <1>3. \A g \in DOMAIN Queue!Loading : Queue!Loading[g] = {}
    BY <1>1, <1>2
  <1> QED
    BY <1>1, <1>2, <1>3, Showing

\* A group without rows goes, and the entry with it.
LEMMA Dropping ==
  ASSUME Queue!QueuePageConstants, TypedShown, NEW e, Queue!DropFromGroups(e)
  PROVE  IsList(groups') /\ e \notin Shows(groups') /\ Shows(groups') \subseteq Shows(groups)
  <1> DEFINE kept == {g \in DOMAIN groups : Queue!Without(groups[g], e) # {}}
  <1>1. PICK place \in [1..Cardinality(kept) -> kept] :
          groups' = [g \in DOMAIN place |-> Queue!Without(groups[place[g]], e)]
    BY SameCounts DEF Queue!DropFromGroups, Queue!Sorted
  <1>2. PICK n \in Nat : groups \in [1..n -> SUBSET Queue!Rows] /\ (n <= Cardinality(Submissions) \/ kept = {})
    <2>1. CASE groups = Queue!Loading
      <3>1. groups[1] = {} /\ DOMAIN groups = 1..1 /\ groups \in [1..1 -> SUBSET Queue!Rows]
        BY <2>1, LoadingShows DEF Queue!Loading
      <3>2. kept = {}
        BY <3>1 DEF Queue!Without
      <3> QED
        BY <3>1, <3>2
    <2>2. CASE IsList(groups)
      BY <2>2, Sizes DEF IsList
    <2> QED
      BY <2>1, <2>2 DEF TypedShown
  <1>3. kept \subseteq 1..n
    BY <1>2
  <1>4. Cardinality(kept) \in 0..Cardinality(Submissions)
    <2>1. IsFiniteSet(1..n) /\ Cardinality(1..n) = n
      BY <1>2, FS_Interval
    <2> HIDE DEF kept
    <2>2. IsFiniteSet(kept) /\ Cardinality(kept) <= n
      <3>1. PICK all : all = 1..n
        OBVIOUS
      <3>2. IsFiniteSet(all) /\ Cardinality(all) = n /\ kept \in SUBSET all
        BY <1>3, <2>1, <3>1
      <3>3. IsFiniteSet(kept) /\ Cardinality(kept) <= Cardinality(all)
        BY <3>2, FS_Subset
      <3> QED
        BY <3>2, <3>3
    <2>3. Cardinality(kept) \in Nat
      BY <2>2, FS_CardinalityType
    <2>4. kept = {} => Cardinality(kept) = 0
      BY FS_EmptySet
    <2> QED
      BY <1>2, <2>2, <2>3, <2>4, Sizes
  <1>5. \A g \in DOMAIN place : place[g] \in DOMAIN groups
    BY <1>1, <1>2
  <1>6. \A g \in DOMAIN groups : Queue!Without(groups[g], e) \in SUBSET Queue!Rows
    BY <1>2 DEF Queue!Without
  <1> HIDE DEF kept
  <1>7. groups' \in [1..Cardinality(kept) -> SUBSET Queue!Rows]
    BY <1>1, <1>5, <1>6
  <1>8. IsList(groups')
    BY <1>4, <1>7 DEF IsList
  <1>9. ASSUME NEW x \in Shows(groups') PROVE x # e /\ x \in Shows(groups)
    <2>1. PICK g \in DOMAIN groups' : \E r \in groups'[g] : r.id = x
      BY Showing
    <2>2. PICK r \in groups[place[g]] : r.id = x /\ r.id # e
      BY <1>1, <2>1 DEF Queue!Without
    <2>3. place[g] \in DOMAIN groups
      BY <1>1, <1>5, <2>1
    <2> QED
      BY <2>2, <2>3, Showing
  <1> QED
    BY <1>8, <1>9

\* What the claim of an entry changes in a list: the entries stay.
Patch(c, rows) == {IF r.id = c.entry
                   THEN [r EXCEPT !.by = IF c.op = "claim" THEN "me" ELSE "nobody"]
                   ELSE r : r \in rows}

LEMMA Patching ==
  ASSUME NEW c, NEW rows, rows \subseteq Queue!Rows
  PROVE  Patch(c, rows) \subseteq Queue!Rows /\ Queue!Ids(Patch(c, rows)) = Queue!Ids(rows)
  <1> DEFINE P(r) == IF r.id = c.entry
                     THEN [r EXCEPT !.by = IF c.op = "claim" THEN "me" ELSE "nobody"] ELSE r
  <1>1. \A r \in Queue!Rows : P(r) \in Queue!Rows /\ P(r).id = r.id
    BY DEF Queue!Rows
  <1>2. Patch(c, rows) = {P(r) : r \in rows}
    BY DEF Patch
  <1> HIDE DEF P
  <1> QED
    BY <1>1, <1>2 DEF Queue!Ids

LEMMA PatchingLists ==
  ASSUME NEW c, TypedShown, groups' = [g \in DOMAIN groups |-> Patch(c, groups[g])]
  PROVE  /\ groups' = Queue!Loading \/ IsList(groups')
         /\ Shows(groups') = Shows(groups)
  <1>1. \A g \in DOMAIN groups : groups[g] \subseteq Queue!Rows
    BY LoadingShows DEF TypedShown, IsList
  <1>2. DOMAIN groups' = DOMAIN groups
        /\ \A g \in DOMAIN groups : groups'[g] \subseteq Queue!Rows /\ Queue!Ids(groups'[g]) = Queue!Ids(groups[g])
    BY <1>1, Patching
  <1>3. Shows(groups') = Shows(groups)
    <2>1. ASSUME NEW x PROVE x \in Shows(groups') <=> x \in Shows(groups)
      <3>1. x \in Shows(groups') <=> \E g \in DOMAIN groups' : x \in Queue!Ids(groups'[g])
        BY Showing DEF Queue!Ids
      <3>2. x \in Shows(groups) <=> \E g \in DOMAIN groups : x \in Queue!Ids(groups[g])
        BY Showing DEF Queue!Ids
      <3> QED
        BY <1>2, <3>1, <3>2
    <2> QED
      BY <2>1
  <1>4. CASE groups = Queue!Loading
    <2>1. Patch(c, {}) = {}
      BY DEF Patch
    <2>2. groups' = [g \in 1..1 |-> {}]
      BY <1>4, <2>1, LoadingShows DEF Queue!Loading
    <2> QED
      BY <1>3, <2>2 DEF Queue!Loading
  <1>5. CASE IsList(groups)
    <2>1. PICK n \in 0..Cardinality(Submissions) : groups \in [1..n -> SUBSET Queue!Rows]
      BY <1>5 DEF IsList
    <2>2. groups' \in [1..n -> SUBSET Queue!Rows]
      BY <1>2, <2>1
    <2> QED
      BY <1>3, <2>2 DEF IsList
  <1> QED
    BY <1>4, <1>5 DEF TypedShown

(* Every step keeps it.                                                      *)

LEMMA AnswerKeeps ==
  ASSUME Queue!QueuePageConstants, QueueInv, NEW a \in asks, Queue!Answer(a)
  PROVE  QueueInv'
  <1>1. PICK rows \in IF a.kind = "list" THEN Queue!ListPending(a.of) ELSE Queue!Search(a.of) :
          answers' = answers \union {[kind |-> a.kind, n |-> a.n, rows |-> rows]}
    BY DEF Queue!Answer
  <1>2. /\ asks' = asks \ {a}
        /\ UNCHANGED <<status, holder, viewer, filter, term, timer, loading, groups, results,
                       expanded, acts, called, decided, overtaken>>
    BY DEF Queue!Answer, Queue!table_, Queue!shown_, Queue!ghost_
  <1>3. QueueTyped /\ DecidedIsKept /\ AnswersAreNoted /\ Queue!DecidedStaysHidden /\ TypedTable
    BY DEF QueueInv, QueueTyped
  <1>4. /\ \/ a.kind = "list" /\ IsList(rows)
           \/ a.kind = "search" /\ rows \in [1..1 -> SUBSET Queue!Rows]
        /\ \A e \in Shows(rows) : status[e] = "open"
    <2>1. CASE a.kind = "list" /\ a.of.match \subseteq Entry
      BY <1>1, <1>3, <2>1, PendingIsOpen
    <2>2. CASE a.kind = "search" /\ a.of \in Searches
      <3>1. a.of \subseteq Entry
        BY <2>2 DEF Queue!QueuePageConstants
      <3> QED
        BY <1>1, <1>3, <2>2, <3>1, SearchIsOpen
    <2> QED
      BY <1>3, <2>1, <2>2 DEF QueueTyped, TypedAsks
  <1>5. TypedAnswers'
    <2>1. \A b \in answers : \/ b.kind = "list" /\ IsList(b.rows)
                             \/ b.kind = "search" /\ b.rows \in [1..1 -> SUBSET Queue!Rows]
      BY <1>3 DEF QueueTyped, TypedAnswers
    <2>2. \A b \in answers' : \/ b.kind = "list" /\ IsList(b.rows)
                              \/ b.kind = "search" /\ b.rows \in [1..1 -> SUBSET Queue!Rows]
      BY <1>1, <1>4, <2>1
    <2> QED
      BY <2>2 DEF TypedAnswers, IsList
  <1>6. QueueTyped'
    BY <1>2, <1>3, <1>5
       DEF QueueTyped, TypedTable, TypedPage, TypedShown, IsList, TypedAsks, TypedRest
  <1>7. Shows(rows) \intersect decided = {}
    BY <1>3, <1>4 DEF DecidedIsKept
  <1>8. AnswersAreNoted'
    <2>1. \A b \in answers' : Shows(b.rows) \intersect decided \subseteq overtaken
      BY <1>1, <1>3, <1>7 DEF AnswersAreNoted
    <2> QED
      BY <1>2, <2>1 DEF AnswersAreNoted, Shows, Queue!Ids
  <1>9. DecidedIsKept' /\ Queue!DecidedStaysHidden'
    BY <1>2, <1>3 DEF DecidedIsKept, Queue!DecidedStaysHidden, Queue!Listed, Queue!Ids
  <1> QED
    BY <1>6, <1>8, <1>9 DEF QueueInv

\* A step that changes only what the page asks for and how it looks.
LEMMA LooksKeep ==
  ASSUME QueueInv, TypedPage', TypedAsks', called' \in 0..MaxCalls,
         results' \in {results, {}}, expanded' \subseteq 1..Cardinality(Submissions),
         UNCHANGED <<status, holder, groups, answers, acts, decided, overtaken>>
  PROVE  QueueInv'
  <1>1. QueueTyped /\ DecidedIsKept /\ AnswersAreNoted /\ Queue!DecidedStaysHidden
    BY DEF QueueInv
  <1>2. QueueTyped'
    BY <1>1 DEF QueueTyped, TypedTable, TypedShown, IsList, TypedAnswers, TypedRest
  <1>3. DecidedIsKept' /\ AnswersAreNoted'
    BY <1>1 DEF DecidedIsKept, AnswersAreNoted, Shows, Queue!Ids
  <1>4. Queue!DecidedStaysHidden'
    <2>1. Queue!Ids({}) = {}
      BY DEF Queue!Ids
    <2>2. results' = results \/ Queue!Ids(results') = {}
      BY <2>1
    <2> QED
      BY <1>1, <2>2 DEF Queue!DecidedStaysHidden, Queue!Listed, Queue!Ids
  <1> QED
    BY <1>2, <1>3, <1>4 DEF QueueInv

LEMMA AskKeeps ==
  ASSUME Queue!QueuePageConstants, QueueInv, NEW kind, NEW of, Queue!Ask(kind, of), TypedPage',
         expanded' = expanded,
         \/ kind = "list" /\ of.match \subseteq Entry
         \/ kind = "search" /\ of \in Searches
  PROVE  QueueInv'
  <1>1. /\ called < MaxCalls /\ called' = called + 1
        /\ asks' = asks \union {[kind |-> kind, of |-> of, n |-> called]}
        /\ UNCHANGED <<status, holder, groups, results, answers, acts, decided, overtaken>>
    BY DEF Queue!Ask, Queue!table_, Queue!ghost_
  <1>2. called' \in 0..MaxCalls /\ expanded \subseteq 1..Cardinality(Submissions)
    BY <1>1 DEF QueueInv, QueueTyped, TypedRest, TypedShown, Queue!QueuePageConstants
  <1>3. TypedAsks'
    BY <1>1 DEF QueueInv, QueueTyped, TypedAsks
  <1> QED
    BY <1>1, <1>2, <1>3, LooksKeep

\* A step that changes a call, an answer or the claims only.
LEMMA ViewsKeep ==
  ASSUME QueueInv, acts' \subseteq Acts, called' \in 0..MaxCalls, answers' \subseteq answers,
         loading' \in BOOLEAN, TypedTable',
         \A e \in Entry : status[e] = "decided" => status'[e] = "decided",
         \A c \in acts' : c.at = "done" /\ c.op = "decide" => c \in acts \/ status'[c.entry] = "decided",
         UNCHANGED <<viewer, filter, term, timer, groups, results, expanded, asks, decided, overtaken>>
  PROVE  QueueInv'
  <1>1. QueueTyped /\ DecidedIsKept /\ AnswersAreNoted /\ Queue!DecidedStaysHidden
    BY DEF QueueInv
  <1>2. QueueTyped'
    BY <1>1 DEF QueueTyped, TypedPage, TypedShown, IsList, TypedAsks, TypedAnswers, TypedRest
  <1>3. DecidedIsKept'
    <2>1. ASSUME NEW e \in decided PROVE status'[e] = "decided"
      BY <1>1 DEF DecidedIsKept, QueueTyped, TypedRest
    <2>2. ASSUME NEW c \in acts', c.at = "done", c.op = "decide" PROVE status'[c.entry] = "decided"
      <3>1. c.entry \in Entry
        BY DEF Acts
      <3> QED
        BY <1>1, <2>2, <3>1 DEF DecidedIsKept
    <2> QED
      BY <2>1, <2>2 DEF DecidedIsKept
  <1>4. AnswersAreNoted' /\ Queue!DecidedStaysHidden'
    BY <1>1 DEF AnswersAreNoted, Queue!DecidedStaysHidden, Queue!Listed, Shows, Queue!Ids
  <1> QED
    BY <1>2, <1>3, <1>4 DEF QueueInv

LEMMA QueueCarryKeeps ==
  ASSUME Queue!QueuePageConstants, QueueInv, NEW c \in acts, Queue!Carry(c)
  PROVE  QueueInv'
  <1>0. PICK ok \in BOOLEAN : \E told \in {ok, FALSE} :
          /\ ok => Queue!Allowed(c)
          /\ acts' = (acts \ {c}) \union {[c EXCEPT !.at = IF told THEN "done" ELSE "failed"]}
          /\ status' = IF ok /\ c.op = "decide" THEN [status EXCEPT ![c.entry] = "decided"] ELSE status
          /\ holder' = IF ok /\ c.op \in {"claim", "release"}
                       THEN [holder EXCEPT ![c.entry] = IF c.op = "claim" THEN "me" ELSE "nobody"]
                       ELSE holder
    BY DEF Queue!Carry
  <1>1. PICK told \in {ok, FALSE} :
          /\ ok => Queue!Allowed(c)
          /\ acts' = (acts \ {c}) \union {[c EXCEPT !.at = IF told THEN "done" ELSE "failed"]}
          /\ status' = IF ok /\ c.op = "decide" THEN [status EXCEPT ![c.entry] = "decided"] ELSE status
          /\ holder' = IF ok /\ c.op \in {"claim", "release"}
                       THEN [holder EXCEPT ![c.entry] = IF c.op = "claim" THEN "me" ELSE "nobody"]
                       ELSE holder
    BY <1>0
  <1>2. UNCHANGED <<viewer, filter, term, timer, loading, groups, results, expanded, asks, answers,
                    called, decided, overtaken>>
    BY DEF Queue!Carry, Queue!shown_, Queue!ghost_
  <1>3. QueueTyped /\ c \in Acts
    BY DEF QueueInv, QueueTyped, TypedRest
  <1> DEFINE at1 == IF told THEN "done" ELSE "failed"
             c1 == [c EXCEPT !.at = at1]
  <1>4. c1 \in Acts /\ c1.entry = c.entry /\ c1.op = c.op /\ (c1.at = "done" => ok)
    <2>1. at1 \in {"done", "failed"} /\ (at1 = "done" => ok)
      <3>1. told = ok \/ told = FALSE
        BY <1>1
      <3>2. CASE told
        <4>1. ok
          BY <3>1, <3>2
        <4>2. at1 = "done"
          BY <3>2
        <4> QED
          BY <4>1, <4>2
      <3>3. CASE ~told
        <4>1. at1 = "failed"
          BY <3>3
        <4> QED
          BY <4>1
      <3> QED
        BY <3>2, <3>3
    <2> HIDE DEF at1
    <2> QED
      BY <1>3, <2>1 DEF Acts
  <1>5. acts' = (acts \ {c}) \union {c1}
    BY <1>1
  <1> HIDE DEF c1
  <1>6. TypedTable'
    BY <1>1, <1>3 DEF QueueTyped, TypedTable
  <1>7. \A e \in Entry : status[e] = "decided" => status'[e] = "decided"
    BY <1>1, <1>3 DEF QueueTyped, TypedTable
  <1>8. acts' \subseteq Acts /\ called' \in 0..MaxCalls /\ loading' \in BOOLEAN
    BY <1>2, <1>3, <1>4, <1>5 DEF QueueTyped, TypedRest, TypedPage
  <1>9. c1.at = "done" /\ c1.op = "decide" => status'[c1.entry] = "decided"
    BY <1>1, <1>3, <1>4 DEF QueueTyped, TypedTable, Acts
  <1> QED
    BY <1>2, <1>5, <1>6, <1>7, <1>8, <1>9, ViewsKeep

LEMMA OthersKeep ==
  ASSUME Queue!QueuePageConstants, QueueInv, NEW e \in Entry, Queue!Others(e)
  PROVE  QueueInv'
  <1>1. /\ called < MaxCalls /\ called' = called + 1
        /\ UNCHANGED <<viewer, filter, term, timer, loading, groups, results, expanded, asks, answers,
                       acts, decided, overtaken>>
    BY DEF Queue!Others, Queue!shown_, Queue!ghost_
  <1>2. QueueTyped
    BY DEF QueueInv
  <1>3. TypedTable'
    BY <1>2 DEF Queue!Others, QueueTyped, TypedTable
  <1>4. \A x \in Entry : status[x] = "decided" => status'[x] = "decided"
    BY <1>2 DEF Queue!Others, QueueTyped, TypedTable
  <1>5. acts' \subseteq Acts /\ called' \in 0..MaxCalls /\ loading' \in BOOLEAN
    BY <1>1, <1>2 DEF QueueTyped, TypedRest, TypedPage, Queue!QueuePageConstants
  <1> QED
    BY <1>1, <1>3, <1>4, <1>5, ViewsKeep

LEMMA ActKeeps ==
  ASSUME Queue!QueuePageConstants, QueueInv, NEW e \in Entry, NEW op \in Queue!Ops, Queue!Act(e, op)
  PROVE  QueueInv'
  <1>1. /\ called < MaxCalls /\ called' = called + 1
        /\ acts' = acts \union {[entry |-> e, op |-> op, n |-> called, at |-> "sent"]}
        /\ UNCHANGED <<status, holder, viewer, filter, term, timer, loading, groups, results, expanded,
                       asks, answers, decided, overtaken>>
    BY DEF Queue!Act, Queue!table_, Queue!shown_, Queue!ghost_
  <1>2. QueueTyped
    BY DEF QueueInv
  <1>3. called \in Nat /\ called' \in 0..MaxCalls
    BY <1>1, <1>2 DEF QueueTyped, TypedRest, Queue!QueuePageConstants
  <1>4. [entry |-> e, op |-> op, n |-> called, at |-> "sent"] \in Acts
    BY <1>3 DEF Acts
  <1>5. acts' \subseteq Acts /\ loading' \in BOOLEAN
    BY <1>1, <1>2, <1>4 DEF QueueTyped, TypedRest, TypedPage
  <1>6. TypedTable'
    BY <1>1, <1>2 DEF QueueTyped, TypedTable
  <1>7. \A c \in acts' : c.at = "done" /\ c.op = "decide" => c \in acts
    BY <1>1
  <1> QED
    BY <1>1, <1>3, <1>5, <1>6, <1>7, ViewsKeep

\* The steps that show other rows.
LEMMA ArrivalKeeps ==
  ASSUME Queue!QueuePageConstants, QueueInv, NEW a \in answers, NEW ok \in BOOLEAN,
         Queue!ListArrives(a, ok) \/ Queue!SearchArrives(a, ok)
  PROVE  QueueInv'
  <1>1. QueueTyped /\ DecidedIsKept /\ AnswersAreNoted /\ Queue!DecidedStaysHidden
    BY DEF QueueInv
  <1>2. /\ answers' = answers \ {a}
        /\ UNCHANGED <<status, holder, viewer, filter, term, timer, asks, acts, called, decided, overtaken>>
    BY DEF Queue!ListArrives, Queue!SearchArrives, Queue!table_, Queue!ghost_
  <1>3. Shows(a.rows) \intersect decided \subseteq overtaken
    BY <1>1 DEF AnswersAreNoted
  <1>4. /\ groups' = Queue!Loading \/ IsList(groups')
        /\ Shows(groups') \in {Shows(groups), Shows(a.rows)}
        /\ results' \subseteq Queue!Rows /\ Queue!Ids(results') \subseteq Queue!Ids(results) \union Shows(a.rows)
        /\ expanded' \subseteq 1..Cardinality(Submissions) /\ loading' \in BOOLEAN
    <2>1. CASE Queue!ListArrives(a, ok)
      <3>1. /\ a.kind = "list" /\ groups' = (IF ok THEN a.rows ELSE groups) /\ results' = results
            /\ expanded' = (IF ok THEN {} ELSE expanded) /\ loading' = loading
        BY <2>1 DEF Queue!ListArrives
      <3>2. IsList(a.rows)
        BY <1>1, <3>1 DEF QueueTyped, TypedAnswers
      <3> QED
        BY <1>1, <3>1, <3>2 DEF QueueTyped, TypedShown, TypedPage
    <2>2. CASE Queue!SearchArrives(a, ok)
      <3>1. /\ a.kind = "search" /\ groups' = groups /\ results' = (IF ok THEN a.rows[1] ELSE results)
            /\ expanded' = expanded /\ loading' = FALSE
        BY <2>2 DEF Queue!SearchArrives
      <3>2. a.rows \in [1..1 -> SUBSET Queue!Rows]
        BY <1>1, <3>1 DEF QueueTyped, TypedAnswers
      <3>3. a.rows[1] \subseteq Queue!Rows
        BY <3>2
      <3>4. Queue!Ids(a.rows[1]) \subseteq Shows(a.rows)
        BY <3>2, Showing DEF Queue!Ids
      <3> QED
        BY <1>1, <3>1, <3>3, <3>4 DEF QueueTyped, TypedShown
    <2> QED
      BY <2>1, <2>2
  <1>5. QueueTyped'
    <2>1. TypedTable' /\ TypedPage' /\ TypedAsks' /\ TypedRest'
      BY <1>1, <1>2, <1>4 DEF QueueTyped, TypedTable, TypedPage, TypedAsks, TypedRest
    <2>2. TypedShown'
      BY <1>4 DEF TypedShown, IsList
    <2>3. TypedAnswers'
      BY <1>1, <1>2 DEF QueueTyped, TypedAnswers, IsList
    <2> QED
      BY <2>1, <2>2, <2>3 DEF QueueTyped
  <1>6. DecidedIsKept'
    BY <1>1, <1>2 DEF DecidedIsKept
  <1>7. AnswersAreNoted'
    BY <1>1, <1>2 DEF AnswersAreNoted, Shows, Queue!Ids
  <1>8. Queue!DecidedStaysHidden'
    <2>1. Shows(groups) \intersect decided \subseteq overtaken
          /\ Queue!Ids(results) \intersect decided \subseteq overtaken
      BY <1>1 DEF Queue!DecidedStaysHidden, Queue!Listed, Shows
    <2>2. (Shows(groups') \union Queue!Ids(results')) \intersect decided \subseteq overtaken
      BY <1>3, <1>4, <2>1
    <2> QED
      BY <1>2, <2>2 DEF Queue!DecidedStaysHidden, Queue!Listed, Shows, Queue!Ids
  <1> QED
    BY <1>5, <1>6, <1>7, <1>8 DEF QueueInv

LEMMA DecisionKeeps ==
  ASSUME Queue!QueuePageConstants, QueueInv, NEW c \in acts, Queue!Decided(c)
  PROVE  QueueInv'
  <1>1. QueueTyped /\ DecidedIsKept /\ AnswersAreNoted /\ Queue!DecidedStaysHidden /\ TypedShown
    BY DEF QueueInv, QueueTyped
  <1>2. /\ c.at = "done" /\ c.op = "decide" /\ acts' = acts \ {c}
        /\ Queue!DropFromGroups(c.entry) /\ results' = Queue!Without(results, c.entry)
        /\ decided' = decided \union {c.entry} /\ overtaken \subseteq overtaken'
        /\ UNCHANGED <<status, holder, viewer, filter, term, timer, loading, expanded, asks, answers, called>>
    BY DEF Queue!Decided, Queue!Drop, Queue!table_
  <1>3. overtaken' \subseteq overtaken \union {c.entry}
        /\ \A a \in answers : c.entry \in Shows(a.rows) => c.entry \in overtaken'
    BY DEF Queue!Decided, Shows
  <1>4. c.entry \in Entry /\ status[c.entry] = "decided"
    BY <1>1, <1>2 DEF QueueTyped, TypedRest, Acts, DecidedIsKept
  <1>5. IsList(groups') /\ c.entry \notin Shows(groups') /\ Shows(groups') \subseteq Shows(groups)
    BY <1>1, <1>2, Dropping
  <1>6. results' \subseteq results /\ c.entry \notin Queue!Ids(results')
    BY <1>2 DEF Queue!Without, Queue!Ids
  <1>7. QueueTyped'
    <2>1. TypedTable' /\ TypedPage' /\ TypedAsks' /\ TypedRest'
      BY <1>1, <1>2, <1>3, <1>4 DEF QueueTyped, TypedTable, TypedPage, TypedAsks, TypedRest
    <2>2. TypedShown'
      BY <1>1, <1>2, <1>5, <1>6 DEF TypedShown, IsList
    <2>3. TypedAnswers'
      BY <1>1, <1>2 DEF QueueTyped, TypedAnswers, IsList
    <2> QED
      BY <2>1, <2>2, <2>3 DEF QueueTyped
  <1>8. DecidedIsKept'
    BY <1>1, <1>2, <1>4 DEF DecidedIsKept
  <1>9. AnswersAreNoted'
    <2>1. \A a \in answers : Shows(a.rows) \intersect decided' \subseteq overtaken'
      BY <1>1, <1>2, <1>3 DEF AnswersAreNoted
    <2> QED
      BY <1>2, <2>1 DEF AnswersAreNoted, Shows, Queue!Ids
  <1>10. Queue!DecidedStaysHidden'
    <2>1. (Shows(groups) \union Queue!Ids(results)) \intersect decided \subseteq overtaken
      BY <1>1 DEF Queue!DecidedStaysHidden, Queue!Listed, Shows
    <2>2. Queue!Ids(results') \subseteq Queue!Ids(results)
      BY <1>6 DEF Queue!Ids
    <2>3. (Shows(groups') \union Queue!Ids(results')) \intersect decided' \subseteq overtaken'
      BY <1>2, <1>5, <1>6, <2>1, <2>2
    <2> QED
      BY <2>3 DEF Queue!DecidedStaysHidden, Queue!Listed, Shows, Queue!Ids
  <1> QED
    BY <1>7, <1>8, <1>9, <1>10 DEF QueueInv

LEMMA ClaimKeeps ==
  ASSUME Queue!QueuePageConstants, QueueInv, NEW c \in acts, Queue!ClaimedOrReleased(c)
  PROVE  QueueInv'
  <1>1. QueueTyped /\ DecidedIsKept /\ AnswersAreNoted /\ Queue!DecidedStaysHidden /\ TypedShown
    BY DEF QueueInv, QueueTyped
  <1>2. /\ acts' = acts \ {c}
        /\ groups' = [g \in DOMAIN groups |-> Patch(c, groups[g])] /\ results' = Patch(c, results)
        /\ UNCHANGED <<status, holder, viewer, filter, term, timer, loading, expanded, asks, answers,
                       called, decided, overtaken>>
    BY DEF Queue!ClaimedOrReleased, Patch, Queue!table_, Queue!ghost_
  <1>3. (groups' = Queue!Loading \/ IsList(groups')) /\ Shows(groups') = Shows(groups)
    BY <1>1, <1>2, PatchingLists
  <1>4. results' \subseteq Queue!Rows /\ Queue!Ids(results') = Queue!Ids(results)
    BY <1>1, <1>2, Patching DEF TypedShown
  <1>5. QueueTyped'
    <2>1. TypedTable' /\ TypedPage' /\ TypedAsks' /\ TypedRest'
      BY <1>1, <1>2 DEF QueueTyped, TypedTable, TypedPage, TypedAsks, TypedRest
    <2>2. TypedShown'
      BY <1>1, <1>2, <1>3, <1>4 DEF TypedShown, IsList
    <2>3. TypedAnswers'
      BY <1>1, <1>2 DEF QueueTyped, TypedAnswers, IsList
    <2> QED
      BY <2>1, <2>2, <2>3 DEF QueueTyped
  <1>6. DecidedIsKept'
    BY <1>1, <1>2 DEF DecidedIsKept
  <1>7. AnswersAreNoted'
    BY <1>1, <1>2 DEF AnswersAreNoted, Shows, Queue!Ids
  <1>8. Queue!DecidedStaysHidden'
    <2>1. (Shows(groups') \union Queue!Ids(results')) \intersect decided \subseteq overtaken
      BY <1>1, <1>3, <1>4 DEF Queue!DecidedStaysHidden, Queue!Listed, Shows
    <2> QED
      BY <1>2, <2>1 DEF Queue!DecidedStaysHidden, Queue!Listed, Shows, Queue!Ids
  <1> QED
    BY <1>5, <1>6, <1>7, <1>8 DEF QueueInv

LEMMA QueueLeaveKeeps ==
  ASSUME Queue!QueuePageConstants, QueueInv, Queue!Leave
  PROVE  QueueInv'
  <1>1. QueueTyped /\ DecidedIsKept
    BY DEF QueueInv
  <1>2. /\ viewer' = "left" /\ timer' = FALSE /\ loading' = FALSE /\ groups' = Queue!Loading /\ results' = {}
        /\ expanded' = {} /\ asks' = {} /\ answers' = {} /\ acts' = {}
        /\ UNCHANGED <<status, holder, filter, term, called, decided, overtaken>>
    BY DEF Queue!Leave, Queue!table_, Queue!ghost_
  <1>3. QueueTyped'
    BY <1>1, <1>2
    DEF QueueTyped, TypedTable, TypedPage, TypedShown, TypedAsks, TypedAnswers, TypedRest
  <1>4. DecidedIsKept' /\ AnswersAreNoted'
    BY <1>1, <1>2 DEF DecidedIsKept, AnswersAreNoted
  <1>5. Queue!DecidedStaysHidden'
    <2>1. Shows(groups') = {} /\ Queue!Ids(results') = {}
      BY <1>2, LoadingShows DEF Queue!Ids
    <2> QED
      BY <2>1 DEF Queue!DecidedStaysHidden, Queue!Listed, Shows, Queue!Ids
  <1> QED
    BY <1>3, <1>4, <1>5 DEF QueueInv

LEMMA QueueInvInit ==
  ASSUME Queue!QueuePageConstants, Queue!Init
  PROVE  QueueInv
  <1>1. /\ status \in [Entry -> {"new", "open"}] /\ holder = [e \in Entry |-> "nobody"]
        /\ viewer = "checking" /\ filter = [match |-> Entry, claim |-> "any"] /\ term = NoSearch
        /\ timer = FALSE /\ loading = FALSE /\ groups = Queue!Loading /\ results = {} /\ expanded = {}
        /\ asks = {} /\ answers = {} /\ acts = {} /\ called = 0 /\ decided = {} /\ overtaken = {}
    BY DEF Queue!Init
  <1>2. QueueTyped
    <2>1. TypedTable
      BY <1>1 DEF TypedTable
    <2>2. TypedPage
      BY <1>1 DEF TypedPage
    <2>3. TypedShown /\ TypedAsks /\ TypedAnswers
      BY <1>1 DEF TypedShown, TypedAsks, TypedAnswers
    <2>4. TypedRest
      BY <1>1 DEF TypedRest, Queue!QueuePageConstants
    <2> QED
      BY <2>1, <2>2, <2>3, <2>4 DEF QueueTyped
  <1> QED
    BY <1>1, <1>2 DEF QueueInv, DecidedIsKept, AnswersAreNoted, Queue!DecidedStaysHidden

LEMMA QueueInvNext ==
  ASSUME Queue!QueuePageConstants, QueueInv, [Queue!Next]_(Queue!qVars)
  PROVE  QueueInv'
  <1>1. QueueTyped /\ TypedPage /\ TypedAsks /\ TypedShown
    BY DEF QueueInv, QueueTyped
  <1>2. called \in 0..MaxCalls /\ acts \subseteq Acts /\ TypedTable
    BY <1>1 DEF QueueTyped, TypedRest
  <1>3. CASE UNCHANGED Queue!qVars
    <2>1. UNCHANGED <<status, holder, viewer, filter, term, timer, loading, groups, results, expanded,
                      asks, answers, acts, called, decided, overtaken>>
      BY <1>3 DEF Queue!qVars, Queue!table_, Queue!shown_, Queue!calls_, Queue!ghost_
    <2>2. TypedPage' /\ TypedAsks'
      BY <1>1, <2>1 DEF TypedPage, TypedAsks
    <2> QED
      BY <1>1, <1>2, <2>1, <2>2, LooksKeep DEF TypedShown
  <1>4. CASE Queue!TimerFires
    <2>1. /\ timer /\ timer' = FALSE /\ Queue!Ask("search", term)
          /\ UNCHANGED <<viewer, filter, term, loading, expanded>>
      BY <1>4 DEF Queue!TimerFires
    <2>2. term \in Searches /\ TypedPage'
      BY <1>1, <2>1 DEF TypedPage
    <2> QED
      BY <2>1, <2>2, AskKeeps
  <1>5. CASE Queue!Leave
    BY <1>5, QueueLeaveKeeps
  <1>6. ASSUME NEW role \in {"moderator", "staff", "left"}, Queue!CheckSession(role) PROVE QueueInv'
    <2>1. viewer' = role
      BY <1>6 DEF Queue!CheckSession
    <2>2. CASE role = "left"
      <3>1. UNCHANGED <<status, holder, filter, term, timer, loading, groups, results, expanded, asks,
                        answers, acts, called, decided, overtaken>>
        BY <1>6, <2>2 DEF Queue!CheckSession, Queue!table_, Queue!shown_, Queue!calls_, Queue!ghost_
      <3>2. TypedPage' /\ TypedAsks'
        BY <1>1, <2>1, <2>2, <3>1 DEF TypedPage, TypedAsks
      <3> QED
        BY <1>1, <1>2, <3>1, <3>2, LooksKeep DEF TypedShown
    <2>3. CASE role # "left"
      <3>1. Queue!Ask("list", filter) /\ UNCHANGED <<filter, term, timer, loading, expanded>>
        BY <1>6, <2>3 DEF Queue!CheckSession
      <3>2. filter.match \subseteq Entry /\ TypedPage'
        BY <1>1, <1>6, <2>1, <3>1 DEF TypedPage
      <3> QED
        BY <3>1, <3>2, AskKeeps
    <2> QED
      BY <2>2, <2>3
  <1>7. ASSUME NEW f \in Filters, Queue!SetFilter(f) PROVE QueueInv'
    <2>1. filter' = f /\ Queue!Ask("list", f)
          /\ UNCHANGED <<viewer, term, timer, loading, expanded>>
      BY <1>7 DEF Queue!SetFilter
    <2>2. f.match \subseteq Entry
      BY DEF Queue!QueuePageConstants
    <2>3. TypedPage'
      BY <1>1, <2>1, <2>2 DEF TypedPage
    <2> QED
      BY <2>1, <2>2, <2>3, AskKeeps
  <1>8. ASSUME NEW t \in Searches \union {NoSearch}, Queue!TypeSearch(t) PROVE QueueInv'
    <2>1. /\ term' = t /\ timer' = (t # NoSearch) /\ loading' = (t # NoSearch)
          /\ results' = IF t = NoSearch THEN {} ELSE results
          /\ UNCHANGED <<status, holder, viewer, filter, groups, expanded, asks, answers, acts, called,
                         decided, overtaken>>
      BY <1>8 DEF Queue!TypeSearch, Queue!table_, Queue!calls_, Queue!ghost_
    <2>2. TypedPage' /\ TypedAsks'
      BY <1>1, <1>8, <2>1 DEF TypedPage, TypedAsks
    <2> QED
      BY <1>1, <1>2, <2>1, <2>2, LooksKeep DEF TypedShown
  <1>9. ASSUME NEW a \in asks, Queue!Answer(a) PROVE QueueInv'
    BY <1>9, AnswerKeeps
  <1>10. ASSUME NEW a \in answers, NEW ok \in BOOLEAN,
                Queue!ListArrives(a, ok) \/ Queue!SearchArrives(a, ok)
         PROVE  QueueInv'
    BY <1>10, ArrivalKeeps
  <1>11. ASSUME NEW g \in DOMAIN groups, Queue!ToggleExpanded(g) PROVE QueueInv'
    <2>1. /\ groups # Queue!Loading /\ expanded' \subseteq expanded \union {g}
          /\ UNCHANGED <<status, holder, viewer, filter, term, timer, loading, groups, results, asks,
                         answers, acts, called, decided, overtaken>>
      BY <1>11 DEF Queue!ToggleExpanded, Queue!table_, Queue!calls_, Queue!ghost_
    <2>2. g \in 1..Cardinality(Submissions)
      BY <1>1, <2>1, Sizes DEF TypedShown, IsList
    <2>3. TypedPage' /\ TypedAsks'
      BY <1>1, <2>1 DEF TypedPage, TypedAsks
    <2> QED
      BY <1>1, <1>2, <2>1, <2>2, <2>3, LooksKeep DEF TypedShown
  <1>12. ASSUME NEW e \in Entry, NEW op \in Queue!Ops, Queue!Act(e, op) PROVE QueueInv'
    BY <1>12, ActKeeps
  <1>13. ASSUME NEW c \in acts, Queue!Carry(c) PROVE QueueInv'
    BY <1>13, QueueCarryKeeps
  <1>14. ASSUME NEW c \in acts, Queue!Decided(c) PROVE QueueInv'
    BY <1>14, DecisionKeeps
  <1>15. ASSUME NEW c \in acts, Queue!ClaimedOrReleased(c) PROVE QueueInv'
    BY <1>15, ClaimKeeps
  <1>16. ASSUME NEW c \in acts, Queue!Failed(c) PROVE QueueInv'
    <2>1. /\ acts' = acts \ {c}
          /\ UNCHANGED <<status, holder, viewer, filter, term, timer, loading, groups, results, expanded,
                         asks, answers, called, decided, overtaken>>
      BY <1>16 DEF Queue!Failed, Queue!table_, Queue!shown_, Queue!ghost_
    <2>2. TypedTable' /\ loading' \in BOOLEAN
      BY <1>1, <1>2, <2>1 DEF TypedTable, TypedPage
    <2> QED
      BY <1>2, <2>1, <2>2, ViewsKeep
  <1>17. ASSUME NEW e \in Entry, Queue!Others(e) PROVE QueueInv'
    BY <1>17, OthersKeep
  <1> QED
    BY <1>3, <1>4, <1>5, <1>6, <1>7, <1>8, <1>9, <1>10, <1>11, <1>12, <1>13, <1>14, <1>15, <1>16,
       <1>17
       DEF Queue!Next

LEMMA QueueInvGives ==
  ASSUME Queue!QueuePageConstants, QueueInv
  PROVE  Queue!TypeOK /\ Queue!DecidedStaysHidden
  <1>1. QueueTyped
    BY DEF QueueInv
  <1>2. \A g \in DOMAIN groups : groups[g] \subseteq Queue!Rows
    BY <1>1, LoadingShows DEF QueueTyped, TypedShown, IsList
  <1>3. Queue!TypeOK
    BY <1>1, <1>2, SameCounts
    DEF Queue!TypeOK, QueueTyped, TypedTable, TypedPage, TypedShown, TypedRest, Acts
  <1> QED
    BY <1>3 DEF QueueInv

\* What the page decided is decided for the api, so that no later answer has it, and each
\* earlier one that has it was noted.
THEOREM QueueInvariant ==
  ASSUME Queue!QueuePageConstants
  PROVE  Queue!Spec => []QueueInv
  <1>1. Queue!Init => QueueInv
    BY QueueInvInit
  <1>2. QueueInv /\ [Queue!Next]_(Queue!qVars) => QueueInv'
    BY QueueInvNext
  <1> QED
    BY <1>1, <1>2, PTL DEF Queue!Spec

\* An entry that the page decided is shown again only by an older answer.
THEOREM DecisionsStayHidden ==
  ASSUME Queue!QueuePageConstants
  PROVE  Queue!Spec => [](Queue!TypeOK /\ Queue!DecidedStaysHidden)
  <1>1. QueueInv => Queue!TypeOK /\ Queue!DecidedStaysHidden
    BY QueueInvGives
  <1> QED
    BY <1>1, QueueInvariant, PTL

-----------------------------------------------------------------------------
(* The parts together: a behaviour of MCSpec is one of each part, in which   *)
(* all but one rest.                                                         *)

LEMMA WizardPart == MCSpec => Wizard!Spec
  <1>1. MCInit => Wizard!Init
    BY DEF MCInit
  <1>2. [MCNext]_MCvars => [Wizard!Next]_(Wizard!wVars)
    BY DEF MCNext, MCvars, wizards, Wizard!wVars, Wizard!wGhosts
  <1> QED
    BY <1>1, <1>2, PTL DEF MCSpec, Wizard!Spec

LEMMA ReviewsPart == MCSpec => Mine!Spec
  <1>1. MCInit => Mine!Init
    BY DEF MCInit
  <1>2. [MCNext]_MCvars => [Mine!Next]_(Mine!rVars)
    BY DEF MCNext, MCvars, reviews, Mine!rVars, Mine!api_, Mine!page
  <1> QED
    BY <1>1, <1>2, PTL DEF MCSpec, Mine!Spec

LEMMA QueuePart == MCSpec => Queue!Spec
  <1>1. MCInit => Queue!Init
    BY DEF MCInit
  <1>2. [MCNext]_MCvars => [Queue!Next]_(Queue!qVars)
    BY DEF MCNext, MCvars, queues, Queue!qVars, Queue!table_, Queue!shown_, Queue!calls_,
       Queue!ghost_
  <1> QED
    BY <1>1, <1>2, PTL DEF MCSpec, Queue!Spec

\* A draft becomes at most one process and what was written last is not lost, for any number
\* of tabs, drafts, edits and submissions.
THEOREM DraftsAreSafe == MCSpec => []ADraftBecomesOneProcess
  BY WizardAssumption, WizardPart, DraftsBecomeOneProcess, PTL DEF ADraftBecomesOneProcess

\* The page of own reviews ends up with what is stored, and an entry that the queue page
\* decided stays hidden, for any number of ratings, entries, searches and calls.
THEOREM PagesAreCurrent == MCSpec => []PagesShowOwnChanges
  BY ReviewsAssumption, ReviewsPart, ReviewsShowChanges, QueueAssumption, QueuePart,
     DecisionsStayHidden, PTL DEF PagesShowOwnChanges

\* All seven parts keep to their kinds and bounds.
THEOREM ServicesAreTyped == MCSpec => []ServicesTyped
  <1>1. MCSpec => [](Staff!TypeOK /\ Candidate!TypeOK)
    BY StaffAssumption, CandidateAssumption, StaffPart, CandidatePart, AdminsRemain,
       SessionsEndWithPasswords, PTL
  <1>2. MCSpec => [](Throttle!TypeOK /\ Erase!TypeOK)
    BY ThrottleAssumption, ErasureAssumption, ThrottlePart, ErasurePart, GrantsBounded,
       ErasuresAreComplete, PTL
  <1>3. MCSpec => [](Mine!TypeOK /\ Queue!TypeOK /\ Wizard!TypeOK)
    BY ReviewsAssumption, QueueAssumption, WizardAssumption, ReviewsPart, QueuePart, WizardPart,
       ReviewsShowChanges, DecisionsStayHidden, DraftsBecomeOneProcess, PTL
  <1> QED
    BY <1>1, <1>2, <1>3, PTL DEF ServicesTyped
===============================================================================
