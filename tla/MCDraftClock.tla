------------------------------ MODULE MCDraftClock ------------------------------
(***************************************************************************)
(* One worker and one or two callers of ensureReady on a short draft.      *)
(***************************************************************************)
EXTENDS DraftClock, TLC

CONSTANTS c1, c2, w1

=================================================================================
