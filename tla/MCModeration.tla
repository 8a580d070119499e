----------------------------- MODULE MCModeration -----------------------------
(* Instances of the moderation gate for TLC.  Requests are interchangeable; *)
(* the symmetry is used by runs without liveness only.                      *)
EXTENDS ModerationClaims, ModerationInvariant, TLC

Symmetry == Permutations(Proc)
===============================================================================
