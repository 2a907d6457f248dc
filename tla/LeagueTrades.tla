------------------------------ MODULE LeagueTrades ------------------------------
(* Trades between two teams (server/leagues/trades/tradeService.ts).  Every     *)
(* command and the cron's sweep is one READ COMMITTED transaction that loads    *)
(* the thread, decides by what it has loaded, and then claims the thread by its *)
(* version and status before anything else is written.  The load with its       *)
(* checks, the claim with the roster move, and the end of a completion are      *)
(* three actions: other transactions commit in between.  The rows a completing  *)
(* transaction has moved stay locked until it ends.                             *)
EXTENDS LeagueRosters

CONSTANTS Thread,           \* the proposals the managers may make
          One, Two,         \* per thread its two members; One proposes
          Deals,            \* per thread the exchanges that may be offered: what One and Two give
          ReviewMode,       \* per thread the review of the league when it was offered
          VetoThreshold, TradeLimit, Capacity, Commissioner,
          Server,           \* the processes that execute commands and sweeps
          Leaver,           \* the members who may leave
          MaxIncidents, MaxCounters,  \* a thread is countered below this version only
          MaxCommands       \* a resolved thread is commanded below this version only

VARIABLES thread,           \* the trade threads with their current offers
          active,           \* the league members who are active
          txn,              \* what each server's transaction has read and moved
          incidents         \* departures and aborted transactions so far

Deal == [one : SUBSET Player, two : SUBSET Player]
ASSUME TradeAssumption ==
    /\ One \in [Thread -> Member] /\ Two \in [Thread -> Member] /\ \A t \in Thread : One[t] # Two[t]
    /\ Deals \in [Thread -> SUBSET Deal] /\ ReviewMode \in [Thread -> {"NONE", "ADMIN", "VETO"}]
    /\ VetoThreshold \in Nat \ {0} /\ TradeLimit \in Nat /\ Capacity \in Nat
    /\ MaxIncidents \in Nat /\ MaxCounters \in Nat /\ MaxCommands \in Nat

tradeVars == <<rosterVars, thread, active, txn, incidents>>

ActiveStatus == {"OPEN", "PENDING_ADMIN_REVIEW", "PENDING_VETO_REVIEW"}
Resolved == {"DECLINED", "WITHDRAWN", "REJECTED", "VETOED", "EXPIRED", "INVALIDATED"}
Party(t) == {One[t], Two[t]}
Exchanged(deal) == deal.one \cup deal.two
NoTxn == [phase |-> "idle"]
NoThread == [status |-> "none"]

\* Rows and threads that a transaction has written and not committed.
LockedPlayer_none(p) == FALSE  \* Slip: nothing keeps a second transaction from a moved row.
LockedPlayer(p) == \E s \in Server : txn[s].phase = "moved" /\ p \in Exchanged(txn[s].deal)
LockedThread(t) == \E s \in Server : txn[s].phase = "moved" /\ txn[s].thread = t

--------------------------------------------------------------------------------
\* A member may have been over the capacity before: then only not more so.
evaluateRosterExchangeCapacity(m, out, in) ==
    LET now == Cardinality(RosterOf(m))
        next == now + Cardinality(in) - Cardinality(out)
    IN  next <= Capacity \/ (now > Capacity /\ next <= now)

OwnersAgree(t, deal) ==
    /\ \A p \in deal.one : Owner(p) = One[t]
    /\ \A p \in deal.two : Owner(p) = Two[t]

validateRosterExchange(t, deal) ==
    /\ OwnersAgree(t, deal)
    /\ evaluateRosterExchangeCapacity(One[t], deal.one, deal.two)
    /\ evaluateRosterExchangeCapacity(Two[t], deal.two, deal.one)

CompletedOf(m) == {t \in Thread : thread[t].status = "COMPLETED" /\ m \in Party(t)}
validateTradeLimits(t) ==
    TradeLimit > 0 => \A m \in Party(t) : Cardinality(CompletedOf(m) \ {t}) < TradeLimit

\* A counted command of one manager: creating a thread twice is a replay.
createTrade(t, deal) ==
    /\ thread[t] = NoThread /\ deal \in Deals[t] /\ Party(t) \subseteq active
    /\ validateTradeLimits(t) /\ validateRosterExchange(t, deal)
    /\ thread' = [thread EXCEPT ![t] = [status |-> "OPEN", version |-> 0, deal |-> deal,
                                        proposer |-> One[t], vetoes |-> {}, over |-> FALSE]]
    /\ UNCHANGED <<rosterVars, active, txn, incidents>>

\* The expiry of an open offer, or the end of the veto window, has passed.
TimeIsUp(t) ==
    /\ thread[t].status \in {"OPEN", "PENDING_VETO_REVIEW"} /\ ~thread[t].over
    /\ thread' = [thread EXCEPT ![t].over = TRUE]
    /\ UNCHANGED <<rosterVars, active, txn, incidents>>

MemberLeaves(m) ==
    /\ m \in active \cap Leaver /\ incidents < MaxIncidents
    /\ active' = active \ {m} /\ incidents' = incidents + 1
    /\ UNCHANGED <<rosterVars, thread, txn>>

--------------------------------------------------------------------------------
Recipient(t) == CHOOSE m \in Party(t) : m # thread[t].proposer

\* getAllowedTradeActions, with the checks of the actions themselves.
Allowed(t, action, m) ==
    CASE action = "withdraw" -> thread[t].status = "OPEN" /\ m = thread[t].proposer
      [] action \in {"accept", "decline", "counter"} -> thread[t].status = "OPEN" /\ m = Recipient(t)
      [] action \in {"approve", "reject"} -> thread[t].status = "PENDING_ADMIN_REVIEW" /\ m = Commissioner
      [] action = "veto" -> /\ thread[t].status = "PENDING_VETO_REVIEW" /\ ~thread[t].over
                            /\ m \notin Party(t) \cup thread[t].vetoes
      [] action = "sweep" -> thread[t].status = "PENDING_VETO_REVIEW" /\ thread[t].over

finalizeTrade(t) ==
    IF validateTradeLimits(t) /\ validateRosterExchange(t, thread[t].deal) THEN "COMPLETED" ELSE "INVALIDATED"

castVeto(t) == IF Cardinality(thread[t].vetoes) + 1 >= VetoThreshold THEN "VETOED" ELSE "VETO_CAST"

\* What the transaction is going to write.
Outcome(t, action) ==
    IF ~(Party(t) \subseteq active) THEN "INVALIDATED"
    ELSE IF thread[t].status = "OPEN" /\ thread[t].over THEN "EXPIRED"
    ELSE CASE action = "withdraw" -> "WITHDRAWN"
           [] action = "decline" -> "DECLINED"
           [] action = "reject" -> "REJECTED"
           [] action = "counter" -> "COUNTERED"
           [] action = "accept" -> IF ReviewMode[t] = "NONE" THEN finalizeTrade(t) ELSE "ACCEPTED"
           [] action \in {"approve", "sweep"} -> finalizeTrade(t)
           [] action = "veto" -> castVeto(t)

\* executeActionInTransaction and the sweep load the thread and decide: a thread
\* whose members have gone is invalidated, by any command of any active member and
\* in whatever state it is, completed or already invalidated; an expired offer
\* expires, whatever the command; otherwise the action must be allowed, which it
\* never is once the thread is resolved.  The sweep looks for overdue threads only.
Load(s, t, action, m, deal) ==
    /\ txn[s] = NoTxn /\ thread[t] # NoThread
    /\ IF action = "sweep" THEN thread[t].over
       ELSE m \in active /\ (thread[t].status \notin ActiveStatus => thread[t].version < MaxCommands)
    /\ \/ ~(Party(t) \subseteq active)
       \/ thread[t].status = "OPEN" /\ thread[t].over
       \/ Allowed(t, action, m) /\ (action = "counter" => /\ thread[t].version < MaxCounters
                                                     /\ deal # thread[t].deal /\ validateRosterExchange(t, deal))
    /\ txn' = [txn EXCEPT ![s] = [phase |-> "loaded", thread |-> t,
                                  version |-> thread[t].version, status |-> thread[t].status,
                                  write |-> Outcome(t, action),
                                  actor |-> IF Outcome(t, action) \in {"COUNTERED", "VETO_CAST", "VETOED"}
                                            THEN m ELSE Null,
                                  deal |-> IF Outcome(t, action) = "COUNTERED" THEN deal ELSE thread[t].deal,
                                  conflicts |-> {}]]
    /\ UNCHANGED <<rosterVars, thread, active, incidents>>

claimThreadVersion_status(s) ==  \* Slip: claims the thread by its status alone.
    thread[txn[s].thread].status = txn[s].status
claimThreadVersion_id(s) == TRUE  \* Slip: claims the thread by its id.
claimThreadVersion(s) ==
    /\ thread[txn[s].thread].version = txn[s].version
    /\ thread[txn[s].thread].status = txn[s].status

Written(s) ==
    LET old == [thread[txn[s].thread] EXCEPT !.version = @ + 1]
        w == txn[s].write
    IN  CASE w \in Resolved \ {"VETOED"} -> [old EXCEPT !.status = w, !.over = FALSE]
          [] w = "VETOED" -> [old EXCEPT !.status = w, !.over = FALSE, !.vetoes = @ \cup {txn[s].actor}]
          [] w = "VETO_CAST" -> [old EXCEPT !.vetoes = @ \cup {txn[s].actor}]
          [] w = "COUNTERED" -> [old EXCEPT !.deal = txn[s].deal, !.proposer = txn[s].actor, !.over = FALSE]
          [] w = "ACCEPTED" -> [old EXCEPT !.over = FALSE,
                                    !.status = IF ReviewMode[txn[s].thread] = "ADMIN"
                                               THEN "PENDING_ADMIN_REVIEW" ELSE "PENDING_VETO_REVIEW"]
          [] w = "COMPLETED" -> [old EXCEPT !.status = w, !.over = FALSE]

\* Every outcome but a completion claims the thread and commits.
Commit(s) ==
    /\ txn[s].phase = "loaded" /\ txn[s].write # "COMPLETED"
    /\ ~LockedThread(txn[s].thread) /\ claimThreadVersion(s)
    /\ thread' = [thread EXCEPT ![txn[s].thread] = Written(s)]
    /\ txn' = [txn EXCEPT ![s] = NoTxn]
    /\ UNCHANGED <<rosterVars, active, incidents>>

moveRosterPlayers_loaded(s) == TRUE  \* Slip: trusts the owners it has validated.
\* Both sides move by rows that still are the giver's, all of them or none.
moveRosterPlayers(s) == OwnersAgree(txn[s].thread, txn[s].deal)

\* A completion claims the thread and moves the players, then reads which other
\* active threads offer one of them.
Move(s) ==
    /\ txn[s].phase = "loaded" /\ txn[s].write = "COMPLETED"
    /\ ~LockedThread(txn[s].thread) /\ claimThreadVersion(s)
    /\ \A p \in Exchanged(txn[s].deal) : ~LockedPlayer(p)
    /\ moveRosterPlayers(s)
    /\ txn' = [txn EXCEPT ![s].phase = "moved",
           ![s].conflicts = {u \in Thread \ {txn[s].thread} :
                                /\ thread[u].status \in ActiveStatus
                                /\ Exchanged(thread[u].deal) \cap Exchanged(txn[s].deal) # {}}]
    /\ UNCHANGED <<rosterVars, thread, active, incidents>>

\* The end of the completion: the conflicting threads are invalidated by their
\* ids, whatever they are by now, and everything commits.
Complete(s) ==
    LET t == txn[s].thread
        deal == txn[s].deal
        row(p) == IF p \in deal.one THEN [member |-> Two[t], acquiredBy |-> "TRADE"]
                  ELSE IF p \in deal.two THEN [member |-> One[t], acquiredBy |-> "TRADE"]
                  ELSE roster[p]
    IN  /\ txn[s].phase = "moved" /\ \A u \in txn[s].conflicts : ~LockedThread(u)
        /\ roster' = [p \in Player |-> row(p)]
        /\ thread' = [u \in Thread |->
                         IF u = t THEN Written(s)
                         ELSE IF u \in txn[s].conflicts
                         THEN [thread[u] EXCEPT !.status = "INVALIDATED", !.version = @ + 1, !.over = FALSE]
                         ELSE thread[u]]
        /\ txn' = [txn EXCEPT ![s] = NoTxn]
        /\ UNCHANGED <<holds, call, active, incidents>>

\* The claim finds another version, or a player has gone: the command is refused
\* and its transaction rolled back.
Refused(s) ==
    /\ txn[s].phase = "loaded" /\ ~LockedThread(txn[s].thread)
    /\ \/ ~claimThreadVersion(s)
       \/ /\ txn[s].write = "COMPLETED" /\ ~moveRosterPlayers(s)
          /\ \A p \in Exchanged(txn[s].deal) : ~LockedPlayer(p)
    /\ txn' = [txn EXCEPT ![s] = NoTxn]
    /\ UNCHANGED <<rosterVars, thread, active, incidents>>

\* A statement fails, a deadlock is broken, the process dies.
Abort(s) ==
    /\ txn[s] # NoTxn /\ incidents < MaxIncidents
    /\ incidents' = incidents + 1 /\ txn' = [txn EXCEPT ![s] = NoTxn]
    /\ UNCHANGED <<rosterVars, thread, active>>

--------------------------------------------------------------------------------
TradeInit(start) ==
    /\ RosterInit(start)
    /\ thread = [t \in Thread |-> NoThread] /\ active = Member
    /\ txn = [s \in Server |-> NoTxn] /\ incidents = 0

\* A roster request waits for a row that a completing trade has moved.
RosterStepUnlocked ==
    /\ RosterStep /\ \A p \in Player : LockedPlayer(p) => roster'[p] = roster[p]
    /\ UNCHANGED <<thread, active, txn, incidents>>

ServerStep(s) == Commit(s) \/ Move(s) \/ Complete(s) \/ Refused(s)
Sweep_offers(s, t) ==  \* Slip: looks for offers past their expiry only.
    thread[t] # NoThread /\ thread[t].status = "OPEN" /\ Load(s, t, "sweep", Null, {})
Sweep(s, t) == Load(s, t, "sweep", Null, {})

TradeNext ==
    \/ RosterStepUnlocked
    \/ \E t \in Thread : TimeIsUp(t) \/ \E deal \in Deals[t] : createTrade(t, deal)
    \/ \E m \in Member : MemberLeaves(m)
    \/ \E s \in Server, t \in Thread : \/ Sweep(s, t)
                                       \/ \E m \in Member, action \in {"withdraw", "accept", "decline",
                                              "approve", "reject", "veto"} : Load(s, t, action, m, {})
                                       \/ \E m \in Member, deal \in Deals[t] : Load(s, t, "counter", m, deal)
    \/ \E s \in Server : ServerStep(s) \/ Abort(s)

TradeSpec(start) == TradeInit(start) /\ [][TradeNext]_tradeVars

\* A transaction goes on, and the cron sweeps again and again: commands do not
\* keep it from starting, though here it shares the servers with them.
TradeFairness ==
    /\ \A s \in Server : WF_tradeVars(ServerStep(s))
    /\ SF_tradeVars(\E s \in Server, t \in Thread : Sweep(s, t))

--------------------------------------------------------------------------------
ThreadRecord == [status : ActiveStatus \cup Resolved \cup {"COMPLETED"}, version : Nat,
                 deal : UNION {Deals[t] : t \in Thread}, proposer : Member,
                 vetoes : SUBSET Member, over : BOOLEAN]

\* The state is well typed, and no player's row is moved by two transactions.
TradeTypeOK ==
    /\ RosterTypeOK
    /\ thread \in [Thread -> ThreadRecord \cup {NoThread}]
    /\ active \subseteq Member /\ incidents \in 0 .. MaxIncidents
    /\ \A s \in Server : txn[s] # NoTxn => /\ txn[s].phase \in {"loaded", "moved"}
                                           /\ thread[txn[s].thread] # NoThread
    /\ \A s, o \in Server : s # o /\ txn[s].phase = "moved" /\ txn[o].phase = "moved" =>
           Exchanged(txn[s].deal) \cap Exchanged(txn[o].deal) = {}

\* A completed trade moves the exchange its thread shows at that moment, all of
\* it, between the two members who own the players at that moment; and in no
\* other way does a row go from one member to another.  The transaction moves
\* what it has loaded, so this relates its load, a counter offer and a drop.
OnlyTheStandingOfferMoves ==
    [][/\ \A t \in Thread : thread'[t].status = "COMPLETED" /\ thread[t].status # "COMPLETED" =>
              /\ OwnersAgree(t, thread[t].deal)
              /\ \A p \in thread[t].deal.one : roster'[p].member = Two[t]
              /\ \A p \in thread[t].deal.two : roster'[p].member = One[t]
       /\ \A p \in Player : roster[p] # Null /\ roster'[p] # Null /\ roster'[p] # roster[p] =>
              \E t \in Thread : /\ thread[t].status \in ActiveStatus /\ thread'[t].status = "COMPLETED"
                                /\ p \in Exchanged(thread[t].deal)]_tradeVars

\* A thread that is declined, withdrawn, rejected, vetoed, expired, invalidated
\* or completed keeps its offer and its votes, whatever was loaded before it was
\* resolved, and its status too, with one exception: it becomes INVALIDATED by a
\* command after a member of it has left, or by the conflict list of a completion
\* that was read while the thread was active.  Both take a COMPLETED trade as well.
ResolvedStaysResolved ==
    [][\A t \in Thread : thread[t] # NoThread /\ thread[t].status \notin ActiveStatus =>
          /\ thread'[t].deal = thread[t].deal /\ thread'[t].proposer = thread[t].proposer
          /\ thread'[t].vetoes = thread[t].vetoes
          /\ thread'[t].status # thread[t].status =>
                /\ thread'[t].status = "INVALIDATED"
                /\ \/ ~(Party(t) \subseteq active)
                   \/ \E s \in Server : txn[s].phase = "moved" /\ t \in txn[s].conflicts]_tradeVars

\* As many vetoes as the threshold stop a trade: none completes with them, and
\* none waits for more, though concurrent votes each count the votes they loaded.
EveryVetoCounts ==
    \A t \in Thread : thread[t] # NoThread =>
        /\ thread[t].status \in {"COMPLETED", "PENDING_VETO_REVIEW"} => Cardinality(thread[t].vetoes) < VetoThreshold
        /\ thread[t].status = "VETOED" => Cardinality(thread[t].vetoes) = VetoThreshold

\* An offer whose time is up, and a trade whose veto window is over, is resolved
\* in the end, though transactions fail and a player of it may be gone: again and
\* again no thread is overdue.
EveryDueTradeIsResolved == []<>(\A t \in Thread : thread[t] # NoThread => ~thread[t].over)
================================================================================
