----------------------------- MODULE LeagueRosters -----------------------------
(* The LeagueRosterPlayer rows of one league and the two commands a manager    *)
(* changes them with directly: POST .../roster/add signs a free agent and POST *)
(* .../actions/[userId] drops a player.  Neither takes a lock: each reads,     *)
(* decides and writes in separate statements, so both are two actions here and *)
(* anything may happen between them.  Waivers and trades write the same rows   *)
(* and extend this module.                                                     *)
EXTENDS Naturals, FiniteSets

CONSTANTS Member, Player, Null,
          Request           \* the requests of managers: kind, member and player

VARIABLES roster,           \* per player its row (unique by league and player), or Null
          holds,            \* the players of a PENDING DROP_PLAYER action that has not run out
          call              \* how far each request is: unmade, begun (it has read), done

rosterVars == <<roster, holds, call>>

RosterRow == [member : Member, acquiredBy : {"DRAFT", "FREE_AGENT", "WAIVER", "TRADE"}]
Owner(p) == IF roster[p] = Null THEN Null ELSE roster[p].member
RosterOf(m) == {p \in Player : Owner(p) = m}

ASSUME RosterAssumption ==
    /\ Request \subseteq [kind : {"add", "drop"}, member : Member, player : Player]
    /\ Null \notin Member /\ Null \notin RosterRow

RosterTypeOK ==
    /\ roster \in [Player -> RosterRow \cup {Null}]
    /\ holds \subseteq Player
    /\ call \in [Request -> {"unmade", "begun", "done"}]

--------------------------------------------------------------------------------
\* POST .../roster/add reads the ownership and the waiver hold ...
AddReads(q) ==
    /\ q.kind = "add" /\ call[q] = "unmade"
    /\ roster[q.player] = Null /\ q.player \notin holds
    /\ call' = [call EXCEPT ![q] = "begun"]
    /\ UNCHANGED <<roster, holds>>

\* ... and creates the row; the unique key refuses a player signed in between.
\* No roster size is checked.
AddCreates(q) ==
    /\ q.kind = "add" /\ call[q] = "begun"
    /\ roster' = IF roster[q.player] = Null
                 THEN [roster EXCEPT ![q.player] = [member |-> q.member, acquiredBy |-> "FREE_AGENT"]]
                 ELSE roster
    /\ call' = [call EXCEPT ![q] = "done"]
    /\ UNCHANGED holds

\* The drop validates that the member owns the player and creates the action,
\* which is the player's hold ...
DropReads(q) ==
    /\ q.kind = "drop" /\ call[q] = "unmade" /\ Owner(q.player) = q.member
    /\ call' = [call EXCEPT ![q] = "begun"]
    /\ holds' = holds \cup {q.player}
    /\ UNCHANGED roster

\* ... and deletes the row, if it still is that member's.
processDropPlayerAction(q) ==
    /\ q.kind = "drop" /\ call[q] = "begun"
    /\ roster' = IF Owner(q.player) = q.member THEN [roster EXCEPT ![q.player] = Null] ELSE roster
    /\ call' = [call EXCEPT ![q] = "done"]
    /\ UNCHANGED holds

\* The delete fails: the action is rejected, and with it the hold goes.
DropFails(q) ==
    /\ q.kind = "drop" /\ call[q] = "begun"
    /\ holds' = holds \ {q.player}
    /\ call' = [call EXCEPT ![q] = "done"]
    /\ UNCHANGED roster

\* The request's process ends between its two statements.
RequestDies(q) == call[q] = "begun" /\ call' = [call EXCEPT ![q] = "done"] /\ UNCHANGED <<roster, holds>>

\* The 24 hours of a hold are over: its processingAt is no longer in the future.
HoldEnds(p) == p \in holds /\ holds' = holds \ {p} /\ UNCHANGED <<roster, call>>

RosterInit(start) == roster = start /\ holds = {} /\ call = [q \in Request |-> "unmade"]

RosterStep ==
    \/ \E q \in Request : \/ AddReads(q) \/ AddCreates(q)
                          \/ DropReads(q) \/ processDropPlayerAction(q) \/ DropFails(q)
                          \/ RequestDies(q)
    \/ \E p \in Player : HoldEnds(p)
================================================================================
