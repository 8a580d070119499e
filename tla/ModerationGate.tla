---------------------------- MODULE ModerationGate ----------------------------
(***************************************************************************)
(* What the moderation gate promises, without statements, locks, requests  *)
(* or indexes: an entity has a status, at most one open submission, and a  *)
(* count of decided ones.  Every operation is a single step.               *)
(***************************************************************************)
EXTENDS Integers, TLAPS

CONSTANTS Entity, Companies, Cap

VARIABLES
  status,      \* as the candidate and the public see it
  open,        \* entities with a submission that waits for its decision
  escalated,   \* those of them that only an admin may approve or reject
  decided      \* decided submissions of an entity, while it exists

gate == <<status, open, escalated, decided>>

Init ==
  /\ status = [e \in Entity |-> "absent"]
  /\ open = {} /\ escalated = {}
  /\ decided = [e \in Entity |-> 0]

Submit(e) ==
  /\ status[e] = "absent"
  /\ status' = [status EXCEPT ![e] = "pending"]
  /\ open' = open \union {e}
  /\ UNCHANGED <<escalated, decided>>

\* An edit replaces an undecided submission by the new one.
Resubmit(e) ==
  /\ status[e] \notin {"absent", "deleted"}
  /\ status' = [status EXCEPT ![e] = "pending"]
  /\ open' = open \union {e}
  /\ escalated' = IF decided[e] >= Cap THEN escalated \union {e} ELSE escalated \ {e}
  /\ UNCHANGED decided

\* A decision closes the open submission, and only that.
Decide(e, verdict) ==
  /\ e \in open
  /\ verdict = "permanently_rejected" => e \in escalated
  /\ verdict = "rejected" => e \notin escalated
  /\ status' = [status EXCEPT ![e] = verdict]
  /\ open' = open \ {e}
  /\ escalated' = escalated \ {e}
  /\ decided' = [decided EXCEPT ![e] = @ + 1]

Withdraw(e) ==
  /\ e \notin Companies
  /\ status[e] \notin {"absent", "deleted"}
  /\ status' = [status EXCEPT ![e] = "deleted"]
  /\ open' = open \ {e}
  /\ escalated' = escalated \ {e}
  /\ decided' = [decided EXCEPT ![e] = 0]

Next == \E e \in Entity :
  \/ Submit(e) \/ Resubmit(e) \/ Withdraw(e)
  \/ \E v \in {"approved", "rejected", "flagged", "permanently_rejected"} : Decide(e, v)

Spec == Init /\ [][Next]_gate

-----------------------------------------------------------------------------
Typed == /\ DOMAIN status = Entity /\ open \subseteq Entity /\ decided \in [Entity -> Nat]
         /\ \A e \in Entity : status[e] = "absent" => decided[e] = 0 /\ e \notin escalated

\* Only an admin decides an open submission of an entity that was decided Cap times,
\* and an admin is not needed for any other one.
EscalationFollowsCap == \A e \in open : e \in escalated <=> decided[e] >= Cap

\* Of the gate alone: whatever is submitted, decided and withdrawn, the cap and the
\* escalation of the open submission agree.
THEOREM CapEscalates ==
  ASSUME Cap \in Nat \ {0}
  PROVE  Spec => [](Typed /\ EscalationFollowsCap)
<1>1. Init => Typed /\ EscalationFollowsCap
  BY DEF Init, Typed, EscalationFollowsCap
<1>2. Typed /\ EscalationFollowsCap /\ [Next]_gate => (Typed /\ EscalationFollowsCap)'
  <2> SUFFICES ASSUME Typed, EscalationFollowsCap, [Next]_gate
               PROVE  Typed' /\ EscalationFollowsCap'
    OBVIOUS
  <2> USE DEF Typed, EscalationFollowsCap
  <2>1. ASSUME NEW e \in Entity, Submit(e)
        PROVE  Typed' /\ EscalationFollowsCap'
    BY <2>1 DEF Submit
  <2>2. ASSUME NEW e \in Entity, Resubmit(e)
        PROVE  Typed' /\ EscalationFollowsCap'
    BY <2>2 DEF Resubmit
  <2>3. ASSUME NEW e \in Entity, Withdraw(e)
        PROVE  Typed' /\ EscalationFollowsCap'
    BY <2>3 DEF Withdraw
  <2>4. ASSUME NEW e \in Entity,
               NEW v \in {"approved", "rejected", "flagged", "permanently_rejected"}, Decide(e, v)
        PROVE  Typed' /\ EscalationFollowsCap'
    BY <2>4 DEF Decide
  <2>5. CASE UNCHANGED gate
    BY <2>5 DEF gate
  <2>6. QED
    BY <2>1, <2>2, <2>3, <2>4, <2>5 DEF Next
<1>3. QED
  BY <1>1, <1>2, PTL DEF Spec
===============================================================================
