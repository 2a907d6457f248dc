------------------------------ MODULE DraftBoard ------------------------------
(***************************************************************************)
(* What the draft promises its members, with no database, clock, retry or  *)
(* request in it: players leave the pool one at a time, each to the member *)
(* whose slot is on the clock, and the draft ends with the last pick.      *)
(***************************************************************************)
EXTENDS Integers, Sequences

CONSTANTS
  Player,
  Total,      \* the number of picks in the draft
  Owner       \* Owner[k]: the member who makes overall pick k

VARIABLES
  board,      \* the picks made so far, in order
  phase       \* "SCHEDULED", "LIVE", "PAUSED" or "COMPLETED"

boardVars == <<board, phase>>

Taken == { board[k].player : k \in DOMAIN board }

BoardInit == board = <<>> /\ phase = "SCHEDULED"

Begin == phase = "SCHEDULED" /\ phase' = "LIVE" /\ UNCHANGED board

Suspend == phase = "LIVE" /\ phase' = "PAUSED" /\ UNCHANGED board

Continue == phase = "PAUSED" /\ phase' = "LIVE" /\ UNCHANGED board

Take(p) ==
  /\ phase = "LIVE"
  /\ p \notin Taken
  /\ LET k == Len(board) + 1
     IN /\ k <= Total
        /\ board' = Append(board, [member |-> Owner[k], player |-> p])
        /\ phase' = IF k = Total THEN "COMPLETED" ELSE "LIVE"

BoardNext == Begin \/ Suspend \/ Continue \/ \E p \in Player : Take(p)

BoardSpec == BoardInit /\ [][BoardNext]_boardVars
===============================================================================
