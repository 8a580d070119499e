------------------------------- MODULE MCNotices -------------------------------
(***************************************************************************)
(* Instances of the notices and of the deadlines for TLC.  The two share   *)
(* no variable, and each property is about one of them, so a behaviour of  *)
(* this module is one of the first or one of the second: their             *)
(* interleavings would only repeat it.                                     *)
(***************************************************************************)
EXTENDS Notices

CONSTANT Replicas

VARIABLES part, newest, entry, sweeping, review, alarms, failures

D == INSTANCE Deadlines

deadlines == <<newest, entry, sweeping, review, alarms, failures>>

ASSUME DeadlineAssumption == D!DeadlineConstants

MCInit ==
  /\ part \in {"notices", "deadlines"} /\ Init /\ D!Init
  /\ part = "deadlines" => followed = CHOOSE kinds \in Topics : TRUE

MCNext ==
  \/ part = "notices"   /\ Next   /\ UNCHANGED <<part, deadlines>>
  \/ part = "deadlines" /\ D!Next /\ UNCHANGED <<part, vars>>

MCvars == <<part, vars, deadlines>>

\* The fairness of FairSpec in its part.
MCFairness ==
  /\ WF_MCvars(part = "notices" /\ HoursPass /\ UNCHANGED <<followed, part, deadlines>>)
  /\ WF_MCvars(part = "notices" /\ Sweep /\ UNCHANGED <<followed, part, deadlines>>)

MCSpec == MCInit /\ [][MCNext]_MCvars /\ MCFairness

MCTypeOK == TypeOK /\ D!TypeOK
AlarmsAreBounded     == D!AlarmsAreBounded
ResolvedWasAnnounced == D!ResolvedWasAnnounced
===============================================================================
