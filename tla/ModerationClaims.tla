--------------------------- MODULE ModerationClaims ---------------------------
(***************************************************************************)
(* Statements that comments and documents of the repository make about the *)
(* moderation gate and that its handlers do not keep.  Each is checked by  *)
(* a run that shows how it fails.                                          *)
(***************************************************************************)
EXTENDS ModerationQueue

\* schema.prisma: permanently_rejected is "Terminal: RoundRatingsService.update()
\* and its counterparts refuse any further edit".
PermanentRejectionIsTerminal ==
  [][\A e \in Ratings : status[e] = "permanently_rejected" =>
       status'[e] \in {"permanently_rejected", "deleted"}]_vars

\* round-ratings.service.ts: "A candidate may delete their own rating at any status".
OwnRatingCanBeDeleted ==
  [][\A p \in Proc : pc[p] = "remove_entries" /\ Exists(arg[p].entity) => pc'[p] # "idle"]_vars

\* DECISIONS.md D3: every review "is only publicly visible once approved".
PublicTextWasApproved ==
  \A e \in RoundRatings : publicIndex[e] # NoEntry => entry[publicIndex[e]].decision = "approved"

\* The moderation page: "rejecting and flagging keep it hidden".
RejectedIsHidden ==
  Quiet => \A e \in RoundRatings :
             status[e] \in {"rejected", "flagged", "permanently_rejected"} => publicIndex[e] = NoEntry
===============================================================================
