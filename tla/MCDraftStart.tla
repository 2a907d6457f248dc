------------------------------ MODULE MCDraftStart ------------------------------
(***************************************************************************)
(* One draft, rescheduled by two calls.                                    *)
(***************************************************************************)
EXTENDS DraftStart, TLC

CONSTANTS r1, r2

=================================================================================
