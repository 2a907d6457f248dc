----------------------------- MODULE MCDraftAdmin -----------------------------
(***************************************************************************)
(* Small drafts, settings and legacy rows for TLC.                         *)
(***************************************************************************)
EXTENDS DraftAdmin, TLC

CONSTANTS m1, m2

MCSlotMember == <<m1, m2>>

Snake(rounds, seconds) ==
  [draftType |-> "SNAKE", rosterLimit |-> rounds, pickSeconds |-> seconds, allowAutoPick |-> TRUE]

Linear(rounds, seconds) == [Snake(rounds, seconds) EXCEPT !.draftType = "LINEAR"]

OneRound == Snake(1, 1)
OneLongerRound == { Snake(1, 1), Linear(2, 2) }

\* Old LIVE rows: the duration is missing, the start and the duration are, or the
\* deadline lies before the start.  The schedule route's DELETE adds the row with no clock at all.
LegacyRow(start, deadline, seconds) ==
  [ScheduledDraft("LIVE") EXCEPT !.status = "LIVE", !.pickStartedAt = start,
                                 !.pickDeadlineAt = deadline, !.clockDuration = seconds]

MalformedRows ==
  { LegacyRow(0, 1, Null), LegacyRow(Null, 1, Null), LegacyRow(1, 0, 1) }

PlayersAreAlike == Permutations(Player)
===============================================================================
