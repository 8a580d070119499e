------------------------------- MODULE Throttles -------------------------------
(***************************************************************************)
(* The limits on requests: edits of a candidate, counted in a table that   *)
(* all replicas of the api share, and sign-ins, links, resets and new      *)
(* companies, counted by IP address in the memory of each replica.         *)
(*                                                                         *)
(* The edits of one candidate, and the attempts from one address at one    *)
(* replica.  A check of the table takes up to three statements, each a     *)
(* step; a check in memory is one.  Time passes in ticks.  A ..._Mutant is *)
(* the definition after it with a bug in it; no action uses it.            *)
(***************************************************************************)
EXTENDS Integers

CONSTANTS
  Caller,     \* concurrent requests of the candidate
  Limit,      \* of grants in a window
  Window,     \* its length
  MaxTime,    \* bound on the clock
  MaxGrants   \* bound on what is granted

ThrottleConstants == /\ Limit \in Nat \ {0} /\ Window \in Nat \ {0}
                     /\ MaxTime \in Nat /\ MaxGrants \in Nat

VARIABLES
  clock,
  tally,     \* edit_throttle_state of the candidate; none before the first edit
  caller,    \* each request: how far its check is, and the time it began
  edits,     \* windows started and edits granted in the table
  memory,    \* attempts from the address, since when
  attempts   \* windows started and attempts granted in memory

table == <<tally, caller, edits>>
local == <<memory, attempts>>
vars  == <<clock, table, local>>

Time == 0..MaxTime
NoTally == [count |-> 0, since |-> -Window - 1]   \* no row: as if the last window were over

Count(c, since) == [count |-> c, since |-> since]
Current(w, now) == w.since >= now - Window     \* the windowFloor of a request
Waiting == [step |-> "idle", now |-> 0]

\* A window is started, or one more granted in it.
Restarted(n) == [starts |-> n.starts + 1, granted |-> n.granted + 1]
Granted(n)   == [n EXCEPT !.granted = @ + 1]

Tick ==
  /\ clock < MaxTime
  /\ clock' = clock + 1
  /\ UNCHANGED <<table, local>>

-----------------------------------------------------------------------------
(* EditThrottleService.recordAttemptIfAllowed(), called by the guard.      *)

Enter(p) ==
  /\ caller[p].step = "idle" /\ edits.granted < MaxGrants
  /\ caller' = [caller EXCEPT ![p] = [step |-> "bump", now |-> clock]]
  /\ UNCHANGED <<clock, tally, edits, local>>

\* The guarded statement: one more in a window that is not over and not full.
Bumpable_Mutant(now) == Current(tally, now) /\ tally.count <= Limit
Bumpable(now) == Current(tally, now) /\ tally.count < Limit

Bump(p) ==
  LET now == caller[p].now
  IN /\ caller[p].step = "bump"
     /\ IF Bumpable(now)
          THEN /\ tally' = [tally EXCEPT !.count = @ + 1] /\ edits' = Granted(edits)
               /\ caller' = [caller EXCEPT ![p] = Waiting]
          ELSE caller' = [caller EXCEPT ![p].step = "read"] /\ UNCHANGED <<tally, edits>>
     /\ UNCHANGED <<clock, local>>

\* The window is not over: it is full, and the request is refused.
Read(p) ==
  /\ caller[p].step = "read"
  /\ caller' = [caller EXCEPT ![p] =
       IF Current(tally, @.now) THEN Waiting ELSE [@ EXCEPT !.step = "start"]]
  /\ UNCHANGED <<clock, tally, edits, local>>

\* The upsert, whatever the row is by now.
Start(p) ==
  /\ caller[p].step = "start"
  /\ tally' = Count(1, caller[p].now) /\ edits' = Restarted(edits)
  /\ caller' = [caller EXCEPT ![p] = Waiting]
  /\ UNCHANGED <<clock, local>>

\* The request is lost with its replica.
Lose(p) ==
  /\ caller[p].step # "idle"
  /\ caller' = [caller EXCEPT ![p] = Waiting]
  /\ UNCHANGED <<clock, tally, edits, local>>

-----------------------------------------------------------------------------
(* IpThrottle: isBlocked() and recordAttempt(), without a pause between.   *)

Elapsed(w) == clock - w.since >= Window
Blocked(w) == w # NoTally /\ ~Elapsed(w) /\ w.count >= Limit

Attempt ==
  /\ ~Blocked(memory) /\ attempts.granted < MaxGrants
  /\ IF memory = NoTally \/ Elapsed(memory)
       THEN memory' = Count(1, clock) /\ attempts' = Restarted(attempts)
       ELSE memory' = [memory EXCEPT !.count = @ + 1] /\ attempts' = Granted(attempts)
  /\ UNCHANGED <<clock, table>>

\* The counts are gone with the replica.
Restart == memory # NoTally /\ memory' = NoTally /\ UNCHANGED <<clock, table, attempts>>

-----------------------------------------------------------------------------
Init ==
  /\ clock = 0
  /\ tally = NoTally /\ memory = NoTally
  /\ caller = [p \in Caller |-> Waiting]
  /\ edits = [starts |-> 0, granted |-> 0] /\ attempts = edits

Next ==
  \/ Tick \/ Attempt \/ Restart
  \/ \E p \in Caller : Enter(p) \/ Bump(p) \/ Read(p) \/ Start(p) \/ Lose(p)

Spec == Init /\ [][Next]_vars

-----------------------------------------------------------------------------
(* Properties.                                                             *)

\* Every count and request has a value of its kind.
Counted == [count : 0..Limit, since : Int]
Totals  == [starts : Nat, granted : Nat]
TypeOK ==
  /\ clock \in Nat /\ tally \in Counted /\ memory \in Counted
  /\ caller \in [Caller -> [step : {"idle", "bump", "read", "start"}, now : Nat]]
  /\ edits \in Totals /\ attempts \in Totals

\* Each window that is started grants at most the limit.  Requests that overlap when a
\* window ends start one each, and each of these grants as many again: the limit holds
\* for a window, and not for an hour.
GrantsAreBounded == /\ edits.granted    <= Limit * edits.starts
                    /\ attempts.granted <= Limit * attempts.starts
===============================================================================
