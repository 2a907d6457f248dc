---------------------------- MODULE WaiverProcessing ----------------------------
(* Waiver claims of one league (server/waivers/WaiverProcessingService.ts):    *)
(* managers submit and cancel claims, and one run at a time settles the claims *)
(* that are due, in bid and priority order.  A run reads the claims and the    *)
(* priorities once and keeps its own order in memory; each claim is settled by *)
(* a READ COMMITTED transaction that locks the claim's row and checks the       *)
(* roster, debits and moves the player, and then advances the priorities it    *)
(* reads: three actions, because what it has read is not locked; what it has   *)
(* written is, and shows when it commits.                                      *)
EXTENDS LeagueRosters, Sequences, FiniteSetsExt, Functions

CONSTANTS Budget,           \* the league's FAAB budget, or Null: claims go by priority alone
          Offer,            \* the claims managers may submit (id, member, player, drop, bid,
                            \* priority), each once: the bound on the claims
          RosterSize,
          Order,            \* the members from first to last initial waiver priority
          Run,              \* the processes that may run the league's waivers
          MaxFaults

VARIABLES claims,           \* the WAIVER_CLAIM actions, in creation order
          dueCount,         \* how many of them are past their processingAt: it is a fixed
                            \* period after the creation, so they fall due in that order
          priority,         \* WaiverPriority.priority per member; Null: no row
          faab,             \* WaiverPriority.remainingFAAB; Null: no claim has touched it
          reserved,         \* WaiverPriority.pendingBidTotal
          lease,            \* League.waiverRunStartedAt: its holder, and is it 15 minutes old
          run,              \* what each processing run holds in memory
          creating,         \* the priority rows a claim has found missing and is about to
                            \* create: numbers by member; none when it has found them all
          overran,          \* history: a run outlived its lease
          disagreed,        \* history: two claims at once found different rows missing
          faults            \* the failures so far

ledger == <<priority, faab, reserved>>
firstClaims == <<creating, disagreed>>
waiverVars ==
    <<rosterVars, claims, dueCount, priority, faab, reserved, lease, run, creating, overran, disagreed, faults>>

IsFAAB == Budget # Null
ASSUME WaiverAssumption ==
    /\ Null \notin Player /\ Null \notin Int /\ Null \notin [holder : Run, stale : BOOLEAN]
    /\ RosterSize \in Nat /\ MaxFaults \in Nat /\ IsFiniteSet(Offer)
    /\ \A o \in Offer : /\ o.member \in Member /\ o.player \in Player
                       /\ o.drop \in Player \cup {Null} /\ o.bid \in Nat /\ o.priority \in Nat
    /\ IsFAAB => Budget \in Nat /\ \A o \in Offer : o.bid > 0
    /\ Cardinality(Member) \in Nat \ {0} /\ Order \in [1 .. Cardinality(Member) -> Member]
    /\ \A m \in Member : \E i \in DOMAIN Order : Order[i] = m
    /\ \A i, j \in DOMAIN Order : Order[i] = Order[j] => i = j

Place(m) == CHOOSE i \in DOMAIN Order : Order[i] = m
Pending == {i \in DOMAIN claims : claims[i].status = "PENDING"}
NoRun == [phase |-> "idle", todo |-> {}, rank |-> <<>>, taken |-> Null, plan |-> "none",
          entries |-> <<>>]
Active(r) == run[r].phase # "idle"

\* Rows that a settling transaction has taken or written and not committed: the
\* claim, and, once the roster is changed, the players' and the claimant's rows.
Locked(i) == \E r \in Run : run[r].taken = i
Written(c) == {c.player, c.drop, c.member} \ {Null}
LockedRows == UNION {Written(claims[run[r].taken].offer) : r \in {o \in Run : run[o].phase = "advancing"}}

--------------------------------------------------------------------------------
\* The winner goes behind everyone; those behind the winner move up one place.
buildAdvancedWaiverPriorityUpdates_keep(rank, winner) ==  \* Slip: those behind keep their place.
    [m \in DOMAIN rank |-> IF m = winner THEN Max(Range(rank)) ELSE rank[m]]
buildAdvancedWaiverPriorityUpdates(rank, winner) ==
    [m \in DOMAIN rank |-> IF m = winner THEN Max(Range(rank))
                           ELSE IF rank[m] > rank[winner] THEN rank[m] - 1 ELSE rank[m]]

\* sortWaiverClaims: higher bid, then waiver priority, then the claim's own
\* priority, then age.
SortKey(i, rank) == << IF IsFAAB THEN Budget - claims[i].offer.bid ELSE 0,
                       rank[claims[i].offer.member], claims[i].offer.priority, i >>
SortsBefore(a, b) == \E k \in 1 .. 4 : a[k] < b[k] /\ \A j \in 1 .. k - 1 : a[j] = b[j]
First(todo, rank) == CHOOSE i \in todo : \A j \in todo \ {i} : SortsBefore(SortKey(i, rank), SortKey(j, rank))

--------------------------------------------------------------------------------
\* The members with a priority, and the last of the priorities there are.
Rowed == {m \in Member : priority[m] # Null}
LastPriority == Max({0} \cup {priority[m] : m \in Rowed})
Submitted == {claims[i].offer : i \in DOMAIN claims}

\* The league's first claim, and the first after a member has joined, reads who is
\* in the league and who has a priority, and numbers the missing ones from behind
\* the last.  Claims are open before and during the draft: who is there, and their
\* order (by slot, or by last pick once there are picks), change from one claim to
\* the next, so any of those without a priority may be found, in any order.
ensureLeaguePriorityRows(o, rows) ==
    LET missing == DOMAIN rows
    IN  /\ o \notin Submitted /\ creating[o] = <<>> /\ roster[o.player] = Null
        /\ missing # {} /\ missing \cap Rowed = {} /\ o.member \in Rowed \cup missing
        /\ rows \in Bijection(missing, LastPriority + 1 .. LastPriority + Cardinality(missing))
        /\ creating' = [creating EXCEPT ![o] = rows]
        /\ disagreed' = (disagreed \/ \E n \in Offer : DOMAIN creating[n] \ Rowed \notin {{}, missing})
        /\ UNCHANGED <<rosterVars, claims, dueCount, ledger, lease, run, overran, faults>>

Balance(m) == IF faab[m] = Null THEN Budget ELSE faab[m]

reservePendingBid_unchecked(m, bid) ==  \* Slip: checks the bid alone, not the total.
    bid <= Balance(m) /\ reserved' = [reserved EXCEPT ![m] = @ + bid]

\* Increment, then check the total against the balance, which is the budget in a
\* row that has none or is new; over it, nothing commits.
reservePendingBid(m, bid) ==
    reserved[m] + bid <= Balance(m) /\ reserved' = [reserved EXCEPT ![m] = @ + bid]

\* POST .../waivers/submit, which refuses an owned player, commits: it creates the
\* rows it has found missing, but for those another claim has created meanwhile.
\* When it has found none missing, nothing of what it read matters.
submitClaim(o) ==
    LET created == DOMAIN creating[o] \ Rowed
    IN  /\ o \notin Submitted
        /\ creating[o] = <<>> => roster[o.player] = Null /\ o.member \in Rowed
        /\ IF IsFAAB THEN reservePendingBid(o.member, o.bid) ELSE UNCHANGED reserved
        /\ priority' = [m \in Member |-> IF m \in created THEN creating[o][m] ELSE priority[m]]
        /\ faab' = [m \in Member |-> IF m \in created THEN Budget ELSE faab[m]]
        /\ claims' = Append(claims, [offer |-> o, status |-> "PENDING"])
        /\ creating' = [creating EXCEPT ![o] = <<>>]
        /\ UNCHANGED <<rosterVars, dueCount, lease, run, overran, disagreed, faults>>

\* The bid is refused or a statement fails, and with it the rows.
submitFails(o) ==
    /\ creating[o] # <<>> /\ creating' = [creating EXCEPT ![o] = <<>>]
    /\ UNCHANGED <<rosterVars, claims, dueCount, ledger, lease, run, overran, disagreed, faults>>

\* The waiver period of the next claim is over.
ClaimFallsDue ==
    /\ dueCount < Len(claims) /\ dueCount' = dueCount + 1
    /\ UNCHANGED <<rosterVars, claims, ledger, lease, run, overran, faults, firstClaims>>

\* Floored at zero.
releasePendingBid(i) ==
    IF IsFAAB
    THEN reserved' = [reserved EXCEPT ![claims[i].offer.member] =
                          IF @ >= claims[i].offer.bid THEN @ - claims[i].offer.bid ELSE 0]
    ELSE UNCHANGED reserved

\* The guarded write waits for a settling transaction that holds the row.
cancelPendingClaim(i) ==
    /\ i \in Pending /\ ~Locked(i)
    /\ claims' = [claims EXCEPT ![i].status = "CANCELLED"]
    /\ releasePendingBid(i)
    /\ UNCHANGED <<rosterVars, dueCount, priority, faab, lease, run, overran, faults, firstClaims>>

--------------------------------------------------------------------------------
\* What loadPendingClaims returns: the due claims, and the claimants' priorities.
loadPendingClaims ==
    LET todo == {i \in Pending : i <= dueCount}
    IN  [phase |-> "choosing", todo |-> todo,
         rank |-> Restrict(priority, {claims[i].offer.member : i \in todo}),
         taken |-> Null, plan |-> "none", entries |-> <<>>]

acquireProcessingLease_always(r) ==  \* Slip: does not look at the lease.
    /\ ~Active(r)
    /\ lease' = [holder |-> r, stale |-> FALSE]
    /\ run' = [run EXCEPT ![r] = loadPendingClaims]
    /\ overran' = overran
    /\ UNCHANGED <<rosterVars, claims, dueCount, ledger, faults, firstClaims>>

acquireProcessingLease_free(r) ==  \* Slip: never takes a stale lease over.
    /\ ~Active(r) /\ lease = Null
    /\ lease' = [holder |-> r, stale |-> FALSE]
    /\ run' = [run EXCEPT ![r] = loadPendingClaims]
    /\ UNCHANGED <<rosterVars, claims, dueCount, ledger, overran, faults, firstClaims>>

\* processLeague, from the daily cron or a commissioner: the lease is taken when
\* it is free or stale, then the claims are loaded.
acquireProcessingLease(r) ==
    /\ ~Active(r)
    /\ lease # Null => lease.stale
    /\ lease' = [holder |-> r, stale |-> FALSE]
    /\ run' = [run EXCEPT ![r] = loadPendingClaims]
    /\ overran' = (overran \/ \E o \in Run : Active(o))
    /\ UNCHANGED <<rosterVars, claims, dueCount, ledger, faults, firstClaims>>

\* The holder is gone: fifteen minutes after it was taken the lease is stale.
LeaseGoesStale ==
    /\ lease # Null /\ ~lease.stale /\ ~Active(lease.holder)
    /\ lease' = [lease EXCEPT !.stale = TRUE]
    /\ UNCHANGED <<rosterVars, claims, dueCount, ledger, run, overran, faults, firstClaims>>

\* The holder is still at work then; bounded like the other faults.
LeaseIsOutlived ==
    /\ lease # Null /\ ~lease.stale /\ Active(lease.holder) /\ faults < MaxFaults
    /\ lease' = [lease EXCEPT !.stale = TRUE] /\ faults' = faults + 1
    /\ UNCHANGED <<rosterVars, claims, dueCount, ledger, run, overran, firstClaims>>

\* Released only while it still holds this run's token.
releaseProcessingLease(r) == lease' = IF lease # Null /\ lease.holder = r THEN Null ELSE lease

\* Owned by anyone, a drop that is not on the roster, or a roster that would be
\* over its size: the claim is rejected.
buildCanonicalRosterPlan(i) ==
    LET c == claims[i].offer
        next == Cardinality(RosterOf(c.member)) + 1 - (IF c.drop = Null THEN 0 ELSE 1)
    IN  IF roster[c.player] = Null /\ (c.drop # Null => Owner(c.drop) = c.member) /\ next <= RosterSize
        THEN "READY" ELSE "FAILED"

claimPending_unlocked(r) ==  \* Slip: reads the status instead of taking the row.
    /\ run[r].phase = "choosing" /\ run[r].todo # {}
    /\ LET i == First(run[r].todo, run[r].rank)
       IN  run' = [run EXCEPT ![r] =
                  IF i \in Pending
                  THEN [@ EXCEPT !.phase = "settling", !.todo = run[r].todo \ {i}, !.taken = i,
                                 !.plan = buildCanonicalRosterPlan(i)]
                  ELSE [@ EXCEPT !.todo = run[r].todo \ {i}]]
    /\ UNCHANGED <<rosterVars, claims, dueCount, ledger, lease, overran, faults, firstClaims>>

\* settleClaim begins: the next claim in the run's order is taken by its row,
\* which another run's transaction may hold, and the roster is read.  A claim
\* that is no longer PENDING is skipped.
claimPending(r) ==
    /\ run[r].phase = "choosing" /\ run[r].todo # {}
    /\ LET i == First(run[r].todo, run[r].rank)
       IN  /\ ~Locked(i)
           /\ run' = [run EXCEPT ![r] =
                  IF i \in Pending
                  THEN [@ EXCEPT !.phase = "settling", !.todo = run[r].todo \ {i}, !.taken = i,
                                 !.plan = buildCanonicalRosterPlan(i)]
                  ELSE [@ EXCEPT !.todo = run[r].todo \ {i}]]
    /\ UNCHANGED <<rosterVars, claims, dueCount, ledger, lease, overran, faults, firstClaims>>

\* rejectClaim: the reservation goes, the run's order stays.
rejectClaim(r) ==
    /\ run[r].phase = "settling" /\ run[r].plan = "FAILED"
    /\ claims' = [claims EXCEPT ![run[r].taken].status = "REJECTED"]
    /\ releasePendingBid(run[r].taken)
    /\ run' = [run EXCEPT ![r].phase = "choosing", ![r].taken = Null, ![r].plan = "none"]
    /\ UNCHANGED <<rosterVars, dueCount, priority, faab, lease, overran, faults, firstClaims>>

\* The debit: a balance below the bid rejects the claim after all; otherwise the
\* roster rows are written, and the stored priorities are read.
debitFaabInTransaction(r) ==
    LET c == claims[run[r].taken].offer
    IN  /\ run[r].phase = "settling" /\ run[r].plan = "READY" /\ Written(c) \cap LockedRows = {}
        /\ run' = [run EXCEPT ![r] = IF IsFAAB /\ Balance(c.member) < c.bid
                                     THEN [@ EXCEPT !.plan = "FAILED"]
                                     ELSE [@ EXCEPT !.phase = "advancing", !.entries = Restrict(priority, Rowed)]]
        /\ UNCHANGED <<rosterVars, claims, dueCount, ledger, lease, overran, faults, firstClaims>>

\* The drop leaves the roster onto waivers; the claimed player's row is created
\* or, if somebody has one by now, taken over.
applyCanonicalRosterPlan(c) ==
    /\ roster' = [p \in Player |->
                     IF p = c.player THEN [member |-> c.member, acquiredBy |-> "WAIVER"]
                     ELSE IF p = c.drop /\ Owner(p) = c.member THEN Null ELSE roster[p]]
    /\ holds' = holds \cup ({c.drop} \ {Null})

\* Only the rows whose number changes are written.
advancePriorityRows(entries, winner) ==
    LET update == buildAdvancedWaiverPriorityUpdates(entries, winner)
    IN  priority' = [m \in Member |-> IF m \in DOMAIN entries /\ update[m] # entries[m]
                                       THEN update[m] ELSE priority[m]]

advanceInMemory_never(rank, winner) == rank  \* Slip: the run keeps the order it has loaded.
\* The run's own order, over the claimants alone.
advanceInMemory(rank, winner) == buildAdvancedWaiverPriorityUpdates(rank, winner)

\* The rest of settleClaim, and its commit: the debit, the roster, the
\* reservation, the stored priorities; the run advances its own order after it.
completeClaim(r) ==
    LET i == run[r].taken
        c == claims[i].offer
    IN  /\ run[r].phase = "advancing"
        /\ faab' = IF IsFAAB THEN [faab EXCEPT ![c.member] = Balance(c.member) - c.bid] ELSE faab
        /\ releasePendingBid(i)
        /\ claims' = [claims EXCEPT ![i].status = "PROCESSED"]
        /\ applyCanonicalRosterPlan(c)
        /\ advancePriorityRows(run[r].entries, c.member)
        /\ run' = [run EXCEPT ![r] = [@ EXCEPT !.phase = "choosing", !.taken = Null, !.plan = "none",
                       !.entries = <<>>, !.rank = advanceInMemory(run[r].rank, c.member)]]
        /\ UNCHANGED <<call, dueCount, lease, overran, faults, firstClaims>>

\* The last claim is done: the run returns and its lease is released.
RunFinishes(r) ==
    /\ run[r].phase = "choosing" /\ run[r].todo = {}
    /\ releaseProcessingLease(r)
    /\ run' = [run EXCEPT ![r] = NoRun]
    /\ UNCHANGED <<rosterVars, claims, dueCount, ledger, overran, faults, firstClaims>>

\* A statement throws: the claim's transaction rolls back, the claim stays
\* PENDING, and the run ends with its later claims unsettled.
RunFails(r) ==
    /\ Active(r) /\ faults < MaxFaults
    /\ releaseProcessingLease(r)
    /\ run' = [run EXCEPT ![r] = NoRun]
    /\ faults' = faults + 1
    /\ UNCHANGED <<rosterVars, claims, dueCount, ledger, overran, firstClaims>>

\* The process dies: as above, but nobody releases the lease.
RunDies(r) ==
    /\ Active(r) /\ faults < MaxFaults
    /\ run' = [run EXCEPT ![r] = NoRun]
    /\ faults' = faults + 1
    /\ UNCHANGED <<rosterVars, claims, dueCount, ledger, lease, overran, firstClaims>>

--------------------------------------------------------------------------------
\* A season after its draft: the roster projection has written the priorities of
\* the first projected members, without balances, and then perhaps died.
WaiverInit(start, projected) ==
    /\ RosterInit(start)
    /\ claims = <<>> /\ dueCount = 0
    /\ priority = [m \in Member |-> IF Place(m) <= projected THEN Place(m) ELSE Null]
    /\ faab = [m \in Member |-> Null] /\ reserved = [m \in Member |-> 0]
    /\ lease = Null /\ run = [r \in Run |-> NoRun]
    /\ creating = [o \in Offer |-> <<>>]
    /\ overran = FALSE /\ disagreed = FALSE /\ faults = 0

ManagerStep ==
    \/ \E o \in Offer, missing \in SUBSET Member :
          \E rows \in [missing -> DOMAIN Order] : ensureLeaguePriorityRows(o, rows)
    \/ \E o \in Offer : submitClaim(o) \/ submitFails(o)
    \/ \E i \in DOMAIN claims : cancelPendingClaim(i)
    \/ ClaimFallsDue

\* A signing of a player whose row a settling transaction has written waits for it.
RosterStepUnlocked ==
    /\ RosterStep /\ \A p \in Player \cap LockedRows : roster'[p] = roster[p]
    /\ UNCHANGED <<claims, dueCount, ledger, lease, run, overran, faults, firstClaims>>

Settle(r) ==
    claimPending(r) \/ rejectClaim(r) \/ debitFaabInTransaction(r) \/ completeClaim(r) \/ RunFinishes(r)

WaiverNext ==
    \/ RosterStepUnlocked
    \/ ManagerStep
    \/ \E r \in Run : acquireProcessingLease(r) \/ Settle(r) \/ RunFails(r) \/ RunDies(r)
    \/ LeaseGoesStale \/ LeaseIsOutlived

\* The cron comes every day, a running process goes on, time passes.
WaiverFairness ==
    /\ \A r \in Run : WF_waiverVars(acquireProcessingLease(r)) /\ WF_waiverVars(Settle(r))
    /\ WF_waiverVars(LeaseGoesStale)

WaiverSpec(start, projected) ==
    WaiverInit(start, projected) /\ [][WaiverNext]_waiverVars /\ WaiverFairness

--------------------------------------------------------------------------------
\* Priorities of some of the members.
Rank == UNION {[D -> DOMAIN Order] : D \in SUBSET Member}
ClaimRecord == [offer : Offer, status : {"PENDING", "PROCESSED", "REJECTED", "CANCELLED"}]
RunRecord == [phase : {"idle", "choosing", "settling", "advancing"}, todo : SUBSET DOMAIN claims,
              rank : Rank, taken : DOMAIN claims \cup {Null}, plan : {"none", "READY", "FAILED"},
              entries : Rank]

\* The state is well typed, every claimant of a run has a place in its order, and
\* no claim is taken by two runs at once: the row lock of claimPending.
WaiverTypeOK ==
    /\ RosterTypeOK
    /\ claims \in Seq(ClaimRecord) /\ dueCount \in 0 .. Len(claims)
    /\ priority \in [Member -> DOMAIN Order \cup {Null}] /\ faab \in [Member -> Nat \cup {Null}]
    /\ reserved \in [Member -> Nat]
    /\ lease \in [holder : Run, stale : BOOLEAN] \cup {Null}
    /\ run \in [Run -> RunRecord] /\ creating \in [Offer -> Rank]
    /\ overran \in BOOLEAN /\ disagreed \in BOOLEAN /\ faults \in 0 .. MaxFaults
    /\ \A r \in Run : /\ run[r].phase \in {"settling", "advancing"} <=> run[r].taken # Null
                      /\ \A i \in run[r].todo \cup ({run[r].taken} \ {Null}) :
                              claims[i].offer.member \in DOMAIN run[r].rank
    /\ \A r, o \in Run : r # o /\ run[r].taken # Null => run[r].taken # run[o].taken

\* bid[1] + ... + bid[n].
SumUpTo(n, bid) ==
    LET sum[i \in 0 .. n] == IF i = 0 THEN 0 ELSE sum[i - 1] + bid[i]
    IN  sum[n]

BidsOf(m, status) ==
    SumUpTo(Len(claims), [i \in DOMAIN claims |->
        IF claims[i].offer.member = m /\ claims[i].status = status THEN claims[i].offer.bid ELSE 0])

\* A bid is charged once and never more than there is: what is reserved is what
\* the pending claims bid, it is covered by the balance, and the balance and the
\* bids of the won claims make up the budget.  Submissions, cancellations and
\* the runs (two of them, after an overrun) write these three independently.
EveryPendingBidIsCovered ==
    IsFAAB => \A m \in Member :
        /\ reserved[m] = BidsOf(m, "PENDING") /\ reserved[m] <= Balance(m)
        /\ Balance(m) + BidsOf(m, "PROCESSED") = Budget

\* The members who have a waiver priority have 1 to their number, each once, though
\* first claims, a run of the projection that died and awards write them by what
\* they have read before.  Excepted are a run that has outlived its lease, and two
\* claims at once that found different members without a row: "the two members can
\* end up sharing a priority number" then, and "that is accepted"
\* (docs/domain/draft-and-waivers.md:165-167).  A shared number stays shared,
\* because advancing keeps equal numbers equal.
PrioritiesStayAPermutation ==
    ~overran /\ ~disagreed => {priority[m] : m \in Rowed} = 1 .. Cardinality(Rowed)

\* While no run has outlived its lease, and no number is shared as above, a claim is
\* awarded only when it comes before every other claim of the run by the bids and
\* the priorities stored at that moment, though the run sorts by an order it has
\* kept in memory since it loaded the claims.
BestClaimFirst ==
    [][\A r \in Run : run[r].taken # Null /\ ~overran /\ ~disagreed =>
          \A j \in run[r].todo :
              SortsBefore(SortKey(run[r].taken, priority), SortKey(j, priority))]_waiverVars

\* A player won on waivers leaves the winner only by the winner's own drop:
\* neither a later claim, a free-agent signing nor another member's late drop
\* takes the row (comment at WaiverProcessingService.ts:277).
AwardIsKept ==
    [][\A p \in Player : roster[p] # Null /\ roster[p].acquiredBy = "WAIVER" /\ ~overran
          /\ roster'[p] # roster[p] =>
             \/ \E q \in Request : call[q] = "begun" /\ q.player = p /\ q.member = Owner(p)
             \/ \E i \in DOMAIN claims : claims[i].offer.drop = p /\ claims[i].offer.member = Owner(p)
                                         /\ claims[i].status # claims'[i].status]_waiverVars

\* An award takes a player nobody has: the roster is checked in the transaction
\* that settles the claim.
AwardTakesFromNobody ==
    [][\A i \in DOMAIN claims : claims[i].status = "PENDING" /\ claims'[i].status = "PROCESSED" =>
          roster[claims[i].offer.player] = Null]_waiverVars

\* A claim that is due does not wait forever: again and again there is none (a
\* claim is never due again), though runs fail and die with the lease in hand.
EveryDueClaimIsSettled == []<>(\A i \in Pending : i > dueCount)
================================================================================
