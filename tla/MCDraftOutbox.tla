----------------------------- MODULE MCDraftOutbox -----------------------------
(***************************************************************************)
(* Two processes: one with a command's flush and a drain loop, one with a  *)
(* drain loop.                                                             *)
(***************************************************************************)
EXTENDS DraftOutbox

CONSTANTS command, drainA, drainB, A, B

MCProcessOf == [f \in Flush |-> IF f = drainB THEN B ELSE A]
===============================================================================
