------------------------------ MODULE DraftOrder ------------------------------
(***************************************************************************)
(* The order arithmetic of a draft: which round, slot and direction an     *)
(* overall pick number stands for.  The server (draftRules.ts) and the     *)
(* browser share this one helper, getDraftPickCoordinate.                  *)
(***************************************************************************)
EXTENDS Integers, Sequences

DraftType == {"SNAKE", "LINEAR"}

\* Math.ceil(overall / teamCount), for positive integers.
Round(overall, teamCount) == (overall + teamCount - 1) \div teamCount

\* Slip: the even rounds of every draft run backwards.
IsReverse_any(type, overall, teamCount) == Round(overall, teamCount) % 2 = 0

\* Even rounds of a snake draft run backwards.
IsReverse(type, overall, teamCount) ==
  type = "SNAKE" /\ Round(overall, teamCount) % 2 = 0

Direction(type, overall, teamCount) ==
  IF IsReverse(type, overall, teamCount) THEN "REVERSE" ELSE "FORWARD"

PickIndex(overall, teamCount) == (overall - 1) % teamCount

Slot(type, overall, teamCount) ==
  IF IsReverse(type, overall, teamCount)
    THEN teamCount - PickIndex(overall, teamCount)
    ELSE PickIndex(overall, teamCount) + 1

-------------------------------------------------------------------------------
(* The board such an order is read from, written out round by round. *)

RoundOrder(type, teamCount, round) ==
  IF type = "SNAKE" /\ round % 2 = 0
    THEN [i \in 1..teamCount |-> teamCount + 1 - i]
    ELSE [i \in 1..teamCount |-> i]

BoardOrder(type, teamCount, rounds) ==
  LET order[r \in Nat] ==
        IF r = 0 THEN << >> ELSE order[r - 1] \o RoundOrder(type, teamCount, r)
  IN order[rounds]
===============================================================================
