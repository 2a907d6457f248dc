----------------------------- MODULE MCLeagueTrades -----------------------------
(* Model values and start of the runs of LeagueTrades.                          *)
EXTENDS LeagueTrades, TLC

CONSTANTS m1, m2, m3, m4, p1, p2, p3, p4, t1, t2, s1, s2

Drafted == [p \in Player |-> [member |-> CASE p \in {p1, p4} -> m1 [] p = p2 -> m2 [] p = p3 -> m3,
                              acquiredBy |-> "DRAFT"]]
Exchange(one, two) == [one |-> one, two |-> two]
MCSpec == TradeInit(Drafted) /\ [][TradeNext]_tradeVars /\ TradeFairness

\* Two threads over the first member's player: the first can be countered and is
\* reviewed by veto, the second by the commissioner.
MCOne == t1 :> m1 @@ t2 :> m1
MCTwo == t1 :> m2 @@ t2 :> m3
MCDeals == t1 :> {Exchange({p1}, {p2}), Exchange({p4}, {p2})} @@ t2 :> {Exchange({p1}, {p3})}
MCReview == t1 :> "VETO" @@ t2 :> "ADMIN"
\* The first member drops that player.
MCRequest == {[kind |-> "drop", member |-> m1, player |-> p1]}
================================================================================
