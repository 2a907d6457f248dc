---------------------------- MODULE MCLeagueFormation ----------------------------
(* Model values for the runs of LeagueFormation.                                *)
EXTENDS LeagueFormation, TLC

CONSTANTS o, a, b, c, s1, s2

\* The commands are alike for every server and every person but the creator.
Alike == Permutations(Person \ {Creator}) \cup Permutations(Server)
================================================================================
