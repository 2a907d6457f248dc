--------------------------- MODULE MCWaiverProcessing ---------------------------
(* Model values and starts of the runs of WaiverProcessing: a league after its  *)
(* draft, where both members have a player and the others are free, and one     *)
(* before it, where everybody is free.                                          *)
EXTENDS WaiverProcessing, TLC

CONSTANTS m1, m2, p1, p2, p3, p4, r1, r2

MCOrder == <<m1, m2>>
Undrafted == [p \in Player |-> Null]
Drafted == p1 :> [member |-> m1, acquiredBy |-> "DRAFT"] @@ p4 :> [member |-> m2, acquiredBy |-> "DRAFT"]
           @@ Undrafted
\* Two members after one player, one of them with a drop; the second wish of the
\* first, who will have moved to the end of the order if his first came true; and
\* the other's bid for the player dropped, which his balance does not cover with
\* the first.
Claim(m, p, drop, bid, own) ==
    [member |-> m, player |-> p, drop |-> drop, bid |-> bid, priority |-> own]
MCOffer == {Claim(m1, p2, p1, 1, 1), Claim(m1, p3, p1, 1, 2), Claim(m2, p2, Null, 1, 1),
            Claim(m2, p1, Null, 2, 2)}

\* The second member also signs the player of the claims as a free agent.
MCRequest == {[kind |-> "add", member |-> m2, player |-> p2]}
\* After the draft the projection has written the priorities; or it has died with
\* the first member's, and p4 has been dropped since; or the draft is still to come.
MCInit ==
    \/ WaiverInit(Drafted, 2)
    \/ WaiverInit([Drafted EXCEPT ![p4] = Null], 1)
    \/ WaiverInit(Undrafted, 0)
MCSpec == MCInit /\ [][WaiverNext]_waiverVars /\ WaiverFairness

\* Bound: where priorities are missing (nobody has p4) there are two claims at most,
\* submitted or under way, and no faults.
FewFirstClaims ==
    roster[p4] = Null =>
        Cardinality(Submitted \cup {o \in Offer : creating[o] # <<>>}) <= 2 /\ faults = 0
================================================================================
