-------------------------------- MODULE Erasure --------------------------------
(***************************************************************************)
(* One candidate erases the account while requests on the candidate's own  *)
(* content run: processes and their parts, ratings submitted, edited and   *)
(* decided.                                                                *)
(*                                                                         *)
(* The erasure reads ids in parallel, deletes in one transaction, and then *)
(* takes the ratings it read as approved out of the public index.  A queue *)
(* entry has no foreign key, and the index is no part of the transaction.  *)
(* A request on a rating is two or three steps: its guard, its transaction *)
(* and the call of the index.  A ..._Mutant is the definition after it     *)
(* with a bug in it; no action uses it.                                    *)
(***************************************************************************)
EXTENDS Integers, FiniteSets

CONSTANTS
  Rating,        \* ids of ratings and reviews of the candidate
  RoundRating,   \* those of rounds: no other rating is in the public index
  Process,       \* ids of interview processes
  MaxWork        \* bound on the requests

ErasureConstants == RoundRating \subseteq Rating /\ MaxWork \in Nat

VARIABLES
  owner,     \* the row of the candidate is there
  process,   \* each process: no row, a row, a row with rounds or interactions
  rating,    \* each rating: its status, or that it has no row (yet or any more)
  home,      \* the process it is part of
  queued,    \* ratings that have an entry in the moderation queue
  audited,   \* those with an entry that the audit of an automatic approval refers to
  public,    \* ratings that have a document in the public index
  eraser,    \* the erasure: its step, what is left to read, and what it read
  work,      \* the request on each rating
  missed,    \* ratings with a request during or after the erasure, or a lost call
  edited,    \* ratings edited since they were made public
  requested

rows    == <<owner, process, rating, home>>
derived == <<queued, audited, public>>
ghosts  == <<missed, edited>>
eVars   == <<rows, derived, eraser, work, ghosts, requested>>

Table     == {"ratings", "others", "processes"}
Kinds     == {"none", "bare", "full"}
HasRow(r) == rating[r] \in {"pending", "approved", "rejected"}
Unread    == [step |-> "idle", left |-> {}, ids |-> {}, shown |-> {}, homes |-> {}]

\* An erasure is under way or done.
Erasing   == eraser.step # "idle" \/ ~owner
Missed(r) == missed' = IF Erasing THEN missed \cup {r} ELSE missed

Request == requested < MaxWork /\ requested' = requested + 1

-----------------------------------------------------------------------------
(* InterviewProcessesService, RoundsService, RecruiterInteractionsService. *)

CreateProcess(p) ==
  /\ owner /\ process[p] = "none" /\ Request
  /\ process' = [process EXCEPT ![p] = "bare"]
  /\ UNCHANGED <<owner, rating, home, derived, eraser, work, ghosts>>

CreateRound(p) ==
  /\ process[p] # "none" /\ Request
  /\ process' = [process EXCEPT ![p] = "full"]
  /\ UNCHANGED <<owner, rating, home, derived, eraser, work, ghosts>>

\* Refused when there is any content; a rating that comes later holds the
\* process by its foreign key, and the transaction fails.
RemoveProcess(p) ==
  /\ process[p] # "none" /\ Request
  /\ ~\E r \in Rating : HasRow(r) /\ home[r] = p
  /\ process' = [process EXCEPT ![p] = "none"]
  /\ UNCHANGED <<owner, rating, home, derived, eraser, work, ghosts>>

-----------------------------------------------------------------------------
(* Requests on a rating.                                                   *)

Goto(r, step) == work' = [work EXCEPT ![r] = step]

StartSubmit(r, p) ==
  /\ owner /\ rating[r] = "unused" /\ work[r] = "rest" /\ Request
  /\ home' = [home EXCEPT ![r] = p] /\ Goto(r, "submit") /\ Missed(r)
  /\ UNCHANGED <<owner, process, rating, derived, eraser, edited>>

\* The row needs those of the candidate and of the process's part.
Submit(r) ==
  /\ work[r] = "submit" /\ Goto(r, "rest") /\ Missed(r)
  /\ IF owner /\ process[home[r]] = "full"
       THEN rating' = [rating EXCEPT ![r] = "pending"] /\ queued' = queued \cup {r}
       ELSE UNCHANGED <<rating, queued>>
  /\ UNCHANGED <<owner, process, home, audited, public, eraser, edited, requested>>

StartEdit(r) ==
  /\ owner /\ HasRow(r) /\ work[r] = "rest" /\ Request
  /\ Goto(r, "edit") /\ Missed(r)
  /\ UNCHANGED <<rows, derived, eraser, edited>>

\* The document of an approved rating is left where it is.
Edit(r) ==
  /\ work[r] = "edit" /\ Goto(r, "rest") /\ Missed(r)
  /\ IF HasRow(r)
       THEN /\ rating' = [rating EXCEPT ![r] = "pending"] /\ queued' = queued \cup {r}
            /\ edited' = edited \cup (public \cap {r})
       ELSE UNCHANGED <<rating, queued, edited>>
  /\ UNCHANGED <<owner, process, home, audited, public, eraser, requested>>

StartDecide(r) ==
  /\ r \in queued /\ rating[r] = "pending" /\ work[r] = "rest" /\ Request
  /\ Goto(r, "decide") /\ Missed(r)
  /\ UNCHANGED <<rows, derived, eraser, edited>>

\* Not without a row: the transaction fails.
Decide(r, status, automatic) ==
  /\ work[r] = "decide" /\ Missed(r)
  /\ IF HasRow(r)
       THEN /\ rating' = [rating EXCEPT ![r] = status]
            /\ audited' = IF automatic THEN audited \cup {r} ELSE audited
            /\ Goto(r, IF status = "approved" /\ r \in RoundRating THEN "fetch" ELSE "rest")
       ELSE Goto(r, "rest") /\ UNCHANGED <<rating, audited>>
  /\ UNCHANGED <<owner, process, home, queued, public, eraser, edited, requested>>

\* indexApprovedReview() reads the row it puts into the index.
Fetch(r) ==
  /\ work[r] = "fetch" /\ Goto(r, IF HasRow(r) THEN "index" ELSE "rest") /\ Missed(r)
  /\ UNCHANGED <<rows, derived, eraser, edited, requested>>

Index(r) ==
  /\ work[r] = "index" /\ Goto(r, "rest") /\ Missed(r)
  /\ public' = public \cup {r} /\ edited' = edited \ {r}
  /\ UNCHANGED <<rows, queued, audited, eraser, requested>>

\* A list of the queue deletes the entries it finds without a rating.
Heal(r) ==
  /\ r \in queued /\ ~HasRow(r) /\ queued' = queued \ {r}
  /\ UNCHANGED <<rows, audited, public, eraser, work, ghosts, requested>>

\* A request ends at a crash or an error.
LoseWork(r) ==
  /\ work[r] # "rest" /\ Goto(r, "rest") /\ Missed(r)
  /\ UNCHANGED <<rows, derived, eraser, edited, requested>>

-----------------------------------------------------------------------------
(* MeService.eraseMe().                                                    *)

Begin ==
  /\ owner /\ eraser.step = "idle" /\ Request
  /\ eraser' = [Unread EXCEPT !.step = "read", !.left = Table]
  /\ UNCHANGED <<rows, derived, work, ghosts>>

\* The candidate's ratings in one table, of every status.
Own_Mutant(table) == {r \in Rating : rating[r] = "approved" /\ (r \in RoundRating <=> table = "ratings")}
Own(table) == {r \in Rating : HasRow(r) /\ (r \in RoundRating <=> table = "ratings")}

Read(table) ==
  /\ eraser.step = "read" /\ table \in eraser.left
  /\ eraser' =
       [eraser EXCEPT !.left = @ \ {table},
                      !.step = IF eraser.left = {table} THEN "delete" ELSE "read",
                      !.ids = @ \cup (IF table = "processes" THEN {} ELSE Own(table)),
                      !.shown = IF table = "ratings" THEN {r \in Own(table) : rating[r] = "approved"}
                                                     ELSE @,
                      !.homes = IF table = "processes" THEN {p \in Process : process[p] # "none"}
                                                       ELSE @]
  /\ UNCHANGED <<rows, derived, work, ghosts, requested>>

\* The parts of a process that was not read hold it, an audit holds its entry, and
\* the transaction fails.
Held == \/ \E p \in Process \ eraser.homes : process[p] = "full"
        \/ audited \cap eraser.ids # {}

Delete ==
  /\ eraser.step = "delete"
  /\ IF Held
       THEN eraser' = Unread /\ UNCHANGED <<rows, queued>>
       ELSE /\ owner' = FALSE /\ process' = [p \in Process |-> "none"]
            /\ queued' = queued \ eraser.ids
            /\ rating' = [r \in Rating |-> IF HasRow(r) THEN "gone" ELSE rating[r]]
            /\ eraser' = [eraser EXCEPT !.step = "purge"] /\ UNCHANGED home
  /\ UNCHANGED <<audited, public, work, ghosts, requested>>

\* A document is taken out, or the call fails and only a log tells.
Purge(r) ==
  /\ eraser.step = "purge" /\ r \in eraser.shown
  /\ eraser' = [eraser EXCEPT !.shown = @ \ {r}]
  /\ \/ public' = public \ {r} /\ UNCHANGED missed
     \/ missed' = missed \cup {r} /\ UNCHANGED public
  /\ UNCHANGED <<rows, queued, audited, work, edited, requested>>

Done ==
  /\ eraser.step = "purge" /\ eraser.shown = {}
  /\ eraser' = Unread
  /\ UNCHANGED <<rows, derived, work, ghosts, requested>>

\* The erasure ends at a crash or an error.
LoseErasure ==
  /\ eraser.step # "idle" /\ eraser' = Unread
  /\ missed' = IF owner THEN missed ELSE missed \cup eraser.shown
  /\ UNCHANGED <<rows, derived, work, edited, requested>>

-----------------------------------------------------------------------------
Init ==
  /\ owner = TRUE /\ process \in [Process -> {"none", "full"}]
  /\ rating = [r \in Rating |-> "unused"] /\ home \in {[r \in Rating |-> p] : p \in Process}
  /\ queued = {} /\ audited = {} /\ public = {} /\ missed = {} /\ edited = {}
  /\ eraser = Unread /\ work = [r \in Rating |-> "rest"] /\ requested = 0

Structure == \E p \in Process : CreateProcess(p) \/ CreateRound(p) \/ RemoveProcess(p)

Content(r) ==
  \/ \E p \in Process : StartSubmit(r, p)
  \/ Submit(r) \/ StartEdit(r) \/ Edit(r) \/ StartDecide(r)
  \/ Decide(r, "rejected", FALSE) \/ (\E automatic \in BOOLEAN : Decide(r, "approved", automatic))
  \/ Fetch(r) \/ Index(r) \/ Heal(r) \/ LoseWork(r)

Erase == Begin \/ (\E table \in Table : Read(table)) \/ Delete \/ Done \/ LoseErasure

Next ==
  \/ Structure \/ Erase
  \/ \E r \in Rating : Content(r) \/ Purge(r)

Spec == Init /\ [][Next]_eVars

-----------------------------------------------------------------------------
(* Properties.                                                             *)

\* Every row, read and request has a value of its kind.
TypeOK ==
  /\ owner \in BOOLEAN /\ process \in [Process -> Kinds] /\ requested \in 0..MaxWork
  /\ rating \in [Rating -> {"unused", "pending", "approved", "rejected", "gone"}]
  /\ home \in [Rating -> Process]
  /\ queued \subseteq Rating /\ audited \subseteq Rating /\ public \subseteq RoundRating
  /\ eraser \in [step : {"idle", "read", "delete", "purge"}, left : SUBSET Table,
                 ids : SUBSET Rating, shown : SUBSET RoundRating, homes : SUBSET Process]
  /\ work \in [Rating -> {"rest", "submit", "edit", "decide", "fetch", "index"}]
  /\ missed \subseteq Rating /\ edited \subseteq RoundRating

\* Once an erasure is over no row of the candidate is left, and a queue entry or a
\* public document is left only of a rating that had a request or a lost call
\* meanwhile, or that had been edited after it was made public: the erasure takes
\* out the documents of those it read as approved, and an edit resets the status.
ErasureIsComplete ==
  ~owner /\ eraser.step = "idle" =>
    /\ \A r \in Rating : ~HasRow(r)
    /\ \A p \in Process : process[p] = "none"
    /\ queued \subseteq missed
    /\ public \subseteq missed \cup edited
===============================================================================
