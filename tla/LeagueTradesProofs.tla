-------------------------- MODULE LeagueTradesProofs --------------------------
(***************************************************************************)
(* What the trades of a league guarantee for every number of members,      *)
(* players, threads and servers.  The invariant says what a transaction    *)
(* may still believe: as long as its thread has the version it has loaded, *)
(* the thread is as loaded, and once it has moved players nobody else      *)
(* touches them or the thread.                                             *)
(***************************************************************************)
EXTENDS LeagueTrades, FiniteSetTheorems, TLAPS

USE RosterAssumption, TradeAssumption

Offered == UNION {Deals[t] : t \in Thread}
ThreadStatus == ActiveStatus \cup Resolved \cup {"COMPLETED"}
Outcomes == Resolved \cup {"COUNTERED", "ACCEPTED", "VETO_CAST", "COMPLETED"}

TxnRecord ==
    [phase : {"loaded", "moved"}, thread : Thread, version : Nat, status : ThreadStatus,
     write : Outcomes, actor : Member \cup {Null}, deal : Offered, conflicts : SUBSET Thread]

TypeInv == TradeTypeOK /\ txn \in [Server -> TxnRecord \cup {NoTxn}]

Moved(s) == txn[s].phase = "moved"

\* What the transaction of server s has loaded is still so if its thread has not
\* got another version meanwhile, and it has not if the players have been moved.
\* A resolved thread is loaded only to be invalidated for a member who has left.
Loaded(s) ==
    LET x == txn[s]
        th == thread[x.thread]
    IN  /\ th # NoThread /\ x.version <= th.version
        /\ \A u \in x.conflicts : u # x.thread /\ thread[u] # NoThread
        /\ x.write \in {"COUNTERED", "VETO_CAST", "VETOED"} => x.actor \in Member
        /\ x.status \notin ActiveStatus => x.write = "INVALIDATED" /\ ~(Party(x.thread) \subseteq active)
        /\ x.version = th.version =>
              /\ x.status = th.status
              /\ x.write = "COMPLETED" => x.deal = th.deal
              /\ x.write \in {"ACCEPTED", "COUNTERED"} => x.status = "OPEN"
              /\ x.write \in {"VETO_CAST", "VETOED"} =>
                    /\ x.status = "PENDING_VETO_REVIEW" /\ x.actor \notin th.vetoes
                    /\ x.write = "VETOED" <=> Cardinality(th.vetoes) + 1 >= VetoThreshold
        /\ Moved(s) => /\ x.version = th.version /\ x.write = "COMPLETED"
                       /\ OwnersAgree(x.thread, x.deal)

LocksExclude ==
    \A s, o \in Server : s # o /\ Moved(s) /\ Moved(o) =>
        /\ txn[s].thread # txn[o].thread
        /\ Exchanged(txn[s].deal) \cap Exchanged(txn[o].deal) = {}

\* Votes are cast under review only, one by one.
VotesCounted ==
    \A t \in Thread : thread[t] # NoThread =>
        /\ IsFiniteSet(thread[t].vetoes)
        /\ thread[t].status \in {"OPEN", "PENDING_ADMIN_REVIEW"} => thread[t].vetoes = {}

TradeInv ==
    /\ TypeInv
    /\ \A s \in Server : txn[s] # NoTxn => Loaded(s)
    /\ LocksExclude
    /\ VotesCounted /\ EveryVetoCounts

-------------------------------------------------------------------------------
(* The rosters *)

LEMMA DealsAreExchanges ==
  ASSUME NEW deal \in Offered
  PROVE  deal \in Deal /\ deal.one \subseteq Player /\ deal.two \subseteq Player
         /\ Exchanged(deal) \subseteq Player
BY DEF Offered, Deal, Exchanged

LEMMA RosterStepTypes ==
  ASSUME RosterTypeOK, RosterStep
  PROVE  RosterTypeOK'
PROOF
  <1>1. ASSUME NEW q \in Request, AddReads(q) \/ DropReads(q) \/ DropFails(q) \/ RequestDies(q)
        PROVE  RosterTypeOK'
    BY <1>1 DEF AddReads, DropReads, DropFails, RequestDies, RosterTypeOK
  <1>2. ASSUME NEW q \in Request, AddCreates(q)
        PROVE  RosterTypeOK'
    <2>1. [member |-> q.member, acquiredBy |-> "FREE_AGENT"] \in RosterRow
      BY DEF RosterRow
    <2> QED BY <1>2, <2>1 DEF AddCreates, RosterTypeOK
  <1>3. ASSUME NEW q \in Request, processDropPlayerAction(q)
        PROVE  RosterTypeOK'
    BY <1>3 DEF processDropPlayerAction, RosterTypeOK
  <1>4. ASSUME NEW p \in Player, HoldEnds(p)
        PROVE  RosterTypeOK'
    BY <1>4 DEF HoldEnds, RosterTypeOK
  <1> QED BY <1>1, <1>2, <1>3, <1>4 DEF RosterStep

\* A signing or a drop never hands a row to another member.
LEMMA RequestsTakeFromNobody ==
  ASSUME RosterTypeOK, RosterStep, NEW p \in Player, roster[p] # Null
  PROVE  roster'[p] \in {roster[p], Null}
PROOF
  <1>1. ASSUME NEW q \in Request, AddCreates(q)
        PROVE  roster'[p] = roster[p]
    BY <1>1 DEF AddCreates, RosterTypeOK
  <1>2. ASSUME NEW q \in Request, processDropPlayerAction(q)
        PROVE  roster'[p] \in {roster[p], Null}
    BY <1>2 DEF processDropPlayerAction, RosterTypeOK
  <1> QED BY <1>1, <1>2 DEF RosterStep, AddReads, DropReads, DropFails, RequestDies, HoldEnds

LEMMA OwnersStay ==
  ASSUME NEW t \in Thread, NEW deal \in Offered, OwnersAgree(t, deal),
         \A p \in Exchanged(deal) : roster'[p] = roster[p]
  PROVE  OwnersAgree(t, deal)'
BY DEF OwnersAgree, Owner, Exchanged

-------------------------------------------------------------------------------
(* Transactions and threads *)

\* The state of a transaction that stays where it is.
LEMMA LoadedStays ==
  ASSUME TypeInv, NEW s \in Server, txn[s] # NoTxn, Loaded(s), txn'[s] = txn[s], active' \subseteq active,
         \A u \in Thread : thread[u] # NoThread => thread'[u] # NoThread,
         \/ /\ thread'[txn[s].thread].version = thread[txn[s].thread].version
            /\ thread'[txn[s].thread].status = thread[txn[s].thread].status
            /\ thread'[txn[s].thread].deal = thread[txn[s].thread].deal
            /\ thread'[txn[s].thread].vetoes = thread[txn[s].thread].vetoes
         \/ /\ ~Moved(s)
            /\ thread'[txn[s].thread].version = thread[txn[s].thread].version + 1,
         Moved(s) => \A p \in Exchanged(txn[s].deal) : roster'[p] = roster[p]
  PROVE  Loaded(s)'
PROOF
  <1> DEFINE x == txn[s]
             th == thread[x.thread]
  <1>1. x \in TxnRecord
    BY DEF TypeInv
  <1>2. x.thread \in Thread /\ x.deal \in Offered /\ x.version \in Nat /\ x.conflicts \subseteq Thread
    BY <1>1 DEF TxnRecord
  <1>3. th \in ThreadRecord
    BY <1>2 DEF TypeInv, TradeTypeOK, Loaded
  <1>4. th.version \in Nat
    BY <1>3 DEF ThreadRecord
  <1>5. Moved(s)' <=> Moved(s)
    BY DEF Moved
  <1>6. Moved(s) => OwnersAgree(x.thread, x.deal)'
    BY <1>2, OwnersStay DEF Loaded
  <1> QED BY <1>2, <1>4, <1>5, <1>6 DEF Loaded

LEMMA TxnFields ==
  ASSUME TypeInv, NEW s \in Server, txn[s] # NoTxn
  PROVE  /\ txn[s] \in TxnRecord /\ txn[s].thread \in Thread /\ txn[s].deal \in Offered
         /\ txn[s].version \in Nat /\ txn[s].write \in Outcomes /\ txn[s].status \in ThreadStatus
         /\ txn[s].conflicts \subseteq Thread /\ txn[s].actor \in Member \cup {Null}
BY DEF TypeInv, TxnRecord

LEMMA ThreadFields ==
  ASSUME TypeInv, NEW t \in Thread, thread[t] # NoThread
  PROVE  /\ thread[t] \in ThreadRecord /\ thread[t].version \in Nat /\ thread[t].deal \in Offered
         /\ thread[t].vetoes \subseteq Member /\ thread[t].status \in ThreadStatus
BY DEF TypeInv, TradeTypeOK, ThreadRecord, Offered, ThreadStatus

LEMMA TypedAgain ==
  ASSUME RosterTypeOK', thread' \in [Thread -> ThreadRecord \cup {NoThread}], active' \subseteq Member,
         incidents' \in 0 .. MaxIncidents, txn' \in [Server -> TxnRecord \cup {NoTxn}],
         \A s \in Server : txn'[s] # NoTxn => thread'[txn'[s].thread] # NoThread,
         LocksExclude'
  PROVE  TypeInv'
PROOF
  <1>1. \A s \in Server : txn'[s] # NoTxn => txn'[s].phase \in {"loaded", "moved"}
    BY DEF TxnRecord
  <1> QED BY <1>1 DEF TypeInv, TradeTypeOK, LocksExclude, Moved

LEMMA RosterTypesStay ==
  ASSUME RosterTypeOK, UNCHANGED rosterVars
  PROVE  RosterTypeOK'
BY DEF RosterTypeOK, rosterVars

LEMMA IdleHasNotMoved ==
  ASSUME NEW s \in Server, txn[s] = NoTxn
  PROVE  ~Moved(s)
BY DEF Moved, NoTxn

-------------------------------------------------------------------------------
(* Steps that no transaction takes *)

LEMMA RosterStepKeeps ==
  ASSUME TradeInv, RosterStepUnlocked
  PROVE  TradeInv'
PROOF
  <1>1. RosterTypeOK'
    BY RosterStepTypes DEF TradeInv, TypeInv, TradeTypeOK, RosterStepUnlocked
  <1>2. ASSUME NEW s \in Server, txn[s] # NoTxn
        PROVE  Loaded(s)'
    <2>1. ASSUME Moved(s), NEW p \in Exchanged(txn[s].deal)
          PROVE  roster'[p] = roster[p]
      BY <1>2, <2>1, TxnFields, DealsAreExchanges DEF TradeInv, RosterStepUnlocked, LockedPlayer, Moved
    <2> QED BY <1>2, <2>1, LoadedStays DEF TradeInv, RosterStepUnlocked, Loaded
  <1> QED
    BY <1>1, <1>2 DEF TradeInv, TypeInv, TradeTypeOK, RosterStepUnlocked, LocksExclude, Moved,
                      VotesCounted, EveryVetoCounts

LEMMA CreateKeeps ==
  ASSUME TradeInv, NEW t \in Thread, NEW deal \in Deals[t], createTrade(t, deal)
  PROVE  TradeInv'
PROOF
  <1> DEFINE new == [status |-> "OPEN", version |-> 0, deal |-> deal,
                     proposer |-> One[t], vetoes |-> {}, over |-> FALSE]
  <1>1. new \in ThreadRecord /\ new # NoThread
    BY DEF ThreadRecord, ActiveStatus, NoThread
  <1>2. thread' = [thread EXCEPT ![t] = new] /\ thread[t] = NoThread
        /\ UNCHANGED <<rosterVars, active, txn, incidents>>
    BY DEF createTrade
  <1>3. \A u \in Thread : thread'[u] = IF u = t THEN new ELSE thread[u]
    BY <1>2 DEF TradeInv, TypeInv, TradeTypeOK
  <1>4. ASSUME NEW s \in Server, txn[s] # NoTxn
        PROVE  Loaded(s)' /\ thread'[txn[s].thread] = thread[txn[s].thread]
    <2>1. txn[s].thread \in Thread /\ txn[s].thread # t
      BY <1>2, <1>4, TxnFields DEF TradeInv, Loaded
    <2> QED BY <1>2, <1>3, <1>4, <2>1, LoadedStays DEF TradeInv, Loaded, rosterVars
  <1>5. LocksExclude'
    BY <1>2 DEF TradeInv, LocksExclude, Moved
  <1>6. TypeInv'
    <2>1. thread' \in [Thread -> ThreadRecord \cup {NoThread}]
      BY <1>1, <1>2 DEF TradeInv, TypeInv, TradeTypeOK
    <2>2. RosterTypeOK'
      BY <1>2, RosterTypesStay DEF TradeInv, TypeInv, TradeTypeOK
    <2>3. \A s \in Server : txn'[s] # NoTxn => thread'[txn'[s].thread] # NoThread
      BY <1>2, <1>4 DEF TradeInv, Loaded
    <2> QED BY <1>2, <1>5, <2>1, <2>2, <2>3, TypedAgain DEF TradeInv, TypeInv, TradeTypeOK
  <1>7. IsFiniteSet({}) /\ Cardinality({}) = 0
    BY FS_EmptySet
  <1>8. (VotesCounted /\ EveryVetoCounts)'
    <2>1. \A u \in Thread : u # t => thread'[u] = thread[u]
      BY <1>3
    <2>2. thread'[t].status = "OPEN" /\ thread'[t].vetoes = {}
      BY <1>3
    <2> QED BY <1>7, <2>1, <2>2 DEF TradeInv, VotesCounted, EveryVetoCounts
  <1> QED BY <1>2, <1>4, <1>5, <1>6, <1>8 DEF TradeInv

LEMMA TimeIsUpKeeps ==
  ASSUME TradeInv, NEW t \in Thread, TimeIsUp(t)
  PROVE  TradeInv'
PROOF
  <1>1. thread' = [thread EXCEPT ![t].over = TRUE] /\ UNCHANGED <<rosterVars, active, txn, incidents>>
    BY DEF TimeIsUp
  <1>2. thread[t] # NoThread /\ thread[t] \in ThreadRecord
    BY ThreadFields DEF TimeIsUp, NoThread, TradeInv
  <1>3. \A u \in Thread : thread'[u] = IF u = t THEN [thread[t] EXCEPT !.over = TRUE] ELSE thread[u]
    BY <1>1 DEF TradeInv, TypeInv, TradeTypeOK
  <1>4. [thread[t] EXCEPT !.over = TRUE] \in ThreadRecord
    BY <1>2 DEF ThreadRecord
  <1>5. [thread[t] EXCEPT !.over = TRUE] # NoThread
    BY <1>4 DEF ThreadRecord, NoThread, ActiveStatus, Resolved
  <1>6. ASSUME NEW u \in Thread
        PROVE  /\ thread[u] = NoThread => thread'[u] = NoThread
               /\ thread[u] # NoThread => /\ thread'[u] # NoThread
                                          /\ thread'[u].status = thread[u].status
                                          /\ thread'[u].version = thread[u].version
                                          /\ thread'[u].deal = thread[u].deal
                                          /\ thread'[u].vetoes = thread[u].vetoes
    BY <1>2, <1>3, <1>5 DEF ThreadRecord
  <1>7. ASSUME NEW s \in Server, txn[s] # NoTxn
        PROVE  Loaded(s)' /\ thread'[txn[s].thread] # NoThread
    <2>1. txn[s].thread \in Thread /\ thread[txn[s].thread] # NoThread
      BY <1>7, TxnFields DEF TradeInv, Loaded
    <2>2. UNCHANGED <<roster, active>> /\ txn'[s] = txn[s]
      BY <1>1 DEF rosterVars
    <2>3. TypeInv /\ Loaded(s)
      BY <1>7 DEF TradeInv
    <2>4. /\ thread'[txn[s].thread] # NoThread
          /\ thread'[txn[s].thread].version = thread[txn[s].thread].version
          /\ thread'[txn[s].thread].status = thread[txn[s].thread].status
          /\ thread'[txn[s].thread].deal = thread[txn[s].thread].deal
          /\ thread'[txn[s].thread].vetoes = thread[txn[s].thread].vetoes
      BY <1>6, <2>1
    <2>5. Loaded(s)'
      BY <1>6, <1>7, <2>2, <2>3, <2>4, LoadedStays
    <2> QED BY <2>4, <2>5
  <1>8. LocksExclude'
    BY <1>1 DEF TradeInv, LocksExclude, Moved
  <1>9. TypeInv'
    <2>1. thread' \in [Thread -> ThreadRecord \cup {NoThread}]
      BY <1>1, <1>4 DEF TradeInv, TypeInv, TradeTypeOK
    <2>2. RosterTypeOK'
      BY <1>1, RosterTypesStay DEF TradeInv, TypeInv, TradeTypeOK
    <2> QED BY <1>1, <1>7, <1>8, <2>1, <2>2, TypedAgain DEF TradeInv, TypeInv, TradeTypeOK
  <1>10. ASSUME NEW u \in Thread, thread'[u] # NoThread
         PROVE  /\ thread[u] # NoThread /\ thread'[u].status = thread[u].status
                /\ thread'[u].vetoes = thread[u].vetoes
    BY <1>6, <1>10
  <1>11. (VotesCounted /\ EveryVetoCounts)'
    BY <1>10 DEF TradeInv, VotesCounted, EveryVetoCounts
  <1> QED BY <1>1, <1>7, <1>8, <1>9, <1>11 DEF TradeInv

LEMMA LeavingKeeps ==
  ASSUME TradeInv, NEW m \in Member, MemberLeaves(m)
  PROVE  TradeInv'
PROOF
  <1>1. /\ UNCHANGED <<rosterVars, thread, txn>> /\ active' \subseteq Member /\ active' \subseteq active
        /\ incidents' \in 0 .. MaxIncidents
    BY DEF MemberLeaves, TradeInv, TypeInv, TradeTypeOK
  <1>2. ASSUME NEW s \in Server, txn[s] # NoTxn
        PROVE  Loaded(s)'
    BY <1>1, <1>2, LoadedStays DEF TradeInv, Loaded, rosterVars
  <1> QED
    BY <1>1, <1>2 DEF TradeInv, TypeInv, TradeTypeOK, RosterTypeOK, rosterVars, LocksExclude, Moved,
                      VotesCounted, EveryVetoCounts

-------------------------------------------------------------------------------
(* The steps of a transaction *)

Commands == {"withdraw", "accept", "decline", "approve", "reject", "veto", "counter"}

\* What a command or the sweep may decide to write, and in which state of the offer.
LEMMA OutcomeFits ==
  ASSUME NEW t \in Thread, NEW action \in Commands \cup {"sweep"}, NEW m,
         \/ ~(Party(t) \subseteq active)
         \/ thread[t].status = "OPEN" /\ thread[t].over
         \/ Allowed(t, action, m)
  PROVE  /\ Outcome(t, action) \in Outcomes
         /\ Outcome(t, action) \in {"COUNTERED", "VETO_CAST", "VETOED"} => action # "sweep"
         /\ Outcome(t, action) = "COUNTERED" => action = "counter"
         /\ thread[t].status \notin ActiveStatus =>
               Outcome(t, action) = "INVALIDATED" /\ ~(Party(t) \subseteq active)
         /\ Outcome(t, action) \in {"ACCEPTED", "COUNTERED"} => thread[t].status = "OPEN"
         /\ Outcome(t, action) \in {"VETO_CAST", "VETOED"} =>
               /\ thread[t].status = "PENDING_VETO_REVIEW" /\ m \notin thread[t].vetoes
               /\ Outcome(t, action) = "VETOED" <=> Cardinality(thread[t].vetoes) + 1 >= VetoThreshold
PROOF
  <1>1. /\ finalizeTrade(t) \in {"COMPLETED", "INVALIDATED"}
        /\ castVeto(t) \in {"VETOED", "VETO_CAST"}
        /\ castVeto(t) = "VETOED" <=> Cardinality(thread[t].vetoes) + 1 >= VetoThreshold
    BY DEF finalizeTrade, castVeto
  <1>2. CASE ~(Party(t) \subseteq active)
    BY <1>2 DEF Outcome, Outcomes, Resolved
  <1>3. CASE Party(t) \subseteq active /\ thread[t].status = "OPEN" /\ thread[t].over
    BY <1>3 DEF Outcome, Outcomes, Resolved, ActiveStatus
  <1>4. CASE /\ Party(t) \subseteq active /\ ~(thread[t].status = "OPEN" /\ thread[t].over)
             /\ Allowed(t, action, m)
    <2>1. CASE action \in {"withdraw", "decline", "reject", "counter"}
      BY <1>4, <2>1 DEF Outcome, Outcomes, Resolved, Allowed, ActiveStatus
    <2>2. CASE action \in {"accept", "approve", "sweep"}
      BY <1>1, <1>4, <2>2 DEF Outcome, Outcomes, Resolved, Allowed, ActiveStatus
    <2>3. CASE action = "veto"
      BY <1>1, <1>4, <2>3 DEF Outcome, Outcomes, Resolved, Allowed, ActiveStatus
    <2> QED BY <2>1, <2>2, <2>3 DEF Commands
  <1> QED BY <1>2, <1>3, <1>4

LEMMA LoadKeeps ==
  ASSUME TradeInv, NEW s \in Server, NEW t \in Thread, NEW action \in Commands \cup {"sweep"},
         NEW m, NEW deal, Load(s, t, action, m, deal),
         action # "sweep" => m \in Member,
         action = "counter" => deal \in Deals[t]
  PROVE  TradeInv'
PROOF
  <1> DEFINE w == Outcome(t, action)
             x == [phase |-> "loaded", thread |-> t, version |-> thread[t].version,
                   status |-> thread[t].status, write |-> w,
                   actor |-> IF w \in {"COUNTERED", "VETO_CAST", "VETOED"} THEN m ELSE Null,
                   deal |-> IF w = "COUNTERED" THEN deal ELSE thread[t].deal,
                   conflicts |-> {}]
  <1>1. /\ txn[s] = NoTxn /\ thread[t] # NoThread
        /\ txn' = [txn EXCEPT ![s] = x] /\ UNCHANGED <<rosterVars, thread, active, incidents>>
    BY DEF Load
  <1>2. /\ thread[t].version \in Nat /\ thread[t].deal \in Offered /\ thread[t].status \in ThreadStatus
    BY <1>1, ThreadFields DEF TradeInv
  <1>3. /\ w \in Outcomes
        /\ w \in {"COUNTERED", "VETO_CAST", "VETOED"} => m \in Member
        /\ w = "COUNTERED" => action = "counter"
        /\ thread[t].status \notin ActiveStatus => w = "INVALIDATED" /\ ~(Party(t) \subseteq active)
        /\ w \in {"ACCEPTED", "COUNTERED"} => thread[t].status = "OPEN"
        /\ w \in {"VETO_CAST", "VETOED"} =>
              /\ thread[t].status = "PENDING_VETO_REVIEW" /\ m \notin thread[t].vetoes
              /\ w = "VETOED" <=> Cardinality(thread[t].vetoes) + 1 >= VetoThreshold
    BY OutcomeFits DEF Load
  <1> HIDE DEF w
  <1>4. x \in TxnRecord
    BY <1>1, <1>2, <1>3 DEF TxnRecord, Offered
  <1>5. /\ txn' \in [Server -> TxnRecord \cup {NoTxn}] /\ txn'[s] = x
        /\ \A o \in Server : o # s => txn'[o] = txn[o]
    BY <1>1, <1>4 DEF TradeInv, TypeInv
  <1>6. ~Moved(s)' /\ \A o \in Server : o # s => (Moved(o)' <=> Moved(o))
    BY <1>5 DEF Moved
  <1>7. Loaded(s)'
    BY <1>1, <1>2, <1>3, <1>5, <1>6 DEF Loaded
  <1>8. ASSUME NEW o \in Server, o # s, txn[o] # NoTxn
        PROVE  Loaded(o)'
    BY <1>1, <1>5, <1>8, LoadedStays DEF TradeInv, Loaded, rosterVars
  <1>9. \A o \in Server : txn'[o] # NoTxn => Loaded(o)'
    BY <1>5, <1>7, <1>8
  <1>10. LocksExclude'
    BY <1>5, <1>6 DEF TradeInv, LocksExclude
  <1>11. TypeInv'
    <2>1. RosterTypeOK'
      BY <1>1, RosterTypesStay DEF TradeInv, TypeInv, TradeTypeOK
    <2> QED BY <1>1, <1>5, <1>9, <1>10, <2>1, TypedAgain DEF TradeInv, TypeInv, TradeTypeOK, Loaded
  <1> QED BY <1>1, <1>9, <1>10, <1>11 DEF TradeInv, VotesCounted, EveryVetoCounts

\* A transaction that ends without a trace: its claim fails, or the whole of it.
LEMMA EndKeeps ==
  ASSUME TradeInv, NEW s \in Server, txn' = [txn EXCEPT ![s] = NoTxn],
         UNCHANGED <<rosterVars, thread, active>>, incidents' \in 0 .. MaxIncidents
  PROVE  TradeInv'
PROOF
  <1>1. /\ txn' \in [Server -> TxnRecord \cup {NoTxn}] /\ txn'[s] = NoTxn
        /\ \A o \in Server : o # s => txn'[o] = txn[o]
    BY DEF TradeInv, TypeInv
  <1>2. ~Moved(s)' /\ \A o \in Server : o # s => (Moved(o)' <=> Moved(o))
    BY <1>1 DEF Moved, NoTxn
  <1>3. ASSUME NEW o \in Server, txn'[o] # NoTxn
        PROVE  Loaded(o)'
    BY <1>1, <1>3, LoadedStays DEF TradeInv, Loaded, rosterVars
  <1>4. LocksExclude'
    BY <1>1, <1>2 DEF TradeInv, LocksExclude
  <1>5. TypeInv'
    <2>1. RosterTypeOK'
      BY RosterTypesStay DEF TradeInv, TypeInv, TradeTypeOK
    <2> QED BY <1>1, <1>3, <1>4, <2>1, TypedAgain DEF TradeInv, TypeInv, TradeTypeOK, Loaded
  <1> QED BY <1>3, <1>4, <1>5 DEF TradeInv, VotesCounted, EveryVetoCounts

LEMMA OneMoreVote ==
  ASSUME NEW votes, NEW m, IsFiniteSet(votes), m \notin votes
  PROVE  /\ IsFiniteSet(votes \cup {m}) /\ Cardinality(votes) \in Nat
         /\ Cardinality(votes \cup {m}) = Cardinality(votes) + 1
BY FS_AddElement, FS_CardinalityType

\* What a claimed thread becomes: one version on, well typed, its votes still counted.
LEMMA WrittenFits ==
  ASSUME TradeInv, NEW s \in Server, txn[s] # NoTxn, claimThreadVersion(s)
  PROVE  LET th == thread[txn[s].thread]
         IN  /\ Written(s) \in ThreadRecord /\ Written(s) # NoThread
             /\ th.status \in ActiveStatus
                \/ /\ txn[s].write = "INVALIDATED" /\ ~(Party(txn[s].thread) \subseteq active)
                   /\ Written(s).status = "INVALIDATED" /\ Written(s).deal = th.deal
                   /\ Written(s).proposer = th.proposer /\ Written(s).vetoes = th.vetoes
             /\ Written(s).status = "COMPLETED" <=> txn[s].write = "COMPLETED"
             /\ Written(s).version = th.version + 1
             /\ IsFiniteSet(Written(s).vetoes)
             /\ Written(s).status \in {"OPEN", "PENDING_ADMIN_REVIEW"} => Written(s).vetoes = {}
             /\ Written(s).status \in {"COMPLETED", "PENDING_VETO_REVIEW"} =>
                   Cardinality(Written(s).vetoes) < VetoThreshold
             /\ Written(s).status = "VETOED" => Cardinality(Written(s).vetoes) = VetoThreshold
PROOF
  <1> DEFINE x == txn[s]
             t == x.thread
             th == thread[t]
             w == x.write
             old == [th EXCEPT !.version = @ + 1]
  <1>1. /\ t \in Thread /\ w \in Outcomes /\ x.deal \in Offered
        /\ x.status \notin ActiveStatus => w = "INVALIDATED" /\ ~(Party(t) \subseteq active)
    BY TxnFields DEF TradeInv, Loaded
  <1>2. /\ th # NoThread /\ th \in ThreadRecord /\ th.version \in Nat
    BY <1>1, ThreadFields DEF TradeInv, Loaded
  <1>3. /\ old \in ThreadRecord /\ old.version = th.version + 1 /\ old.vetoes = th.vetoes
        /\ old.deal = th.deal /\ old.proposer = th.proposer
        /\ old.status = x.status /\ th.status = x.status
    BY <1>2 DEF ThreadRecord, claimThreadVersion
  <1>4. /\ w \in {"ACCEPTED", "COUNTERED"} => x.status = "OPEN"
        /\ w \in {"COUNTERED", "VETO_CAST", "VETOED"} => x.actor \in Member
        /\ w \in {"VETO_CAST", "VETOED"} =>
              /\ x.status = "PENDING_VETO_REVIEW" /\ x.actor \notin th.vetoes
              /\ w = "VETOED" <=> Cardinality(th.vetoes) + 1 >= VetoThreshold
    BY DEF TradeInv, Loaded, claimThreadVersion
  <1>5. /\ IsFiniteSet(th.vetoes)
        /\ x.status \in {"OPEN", "PENDING_ADMIN_REVIEW"} => th.vetoes = {}
        /\ x.status = "PENDING_VETO_REVIEW" => Cardinality(th.vetoes) < VetoThreshold
    BY <1>1, <1>2 DEF TradeInv, VotesCounted, EveryVetoCounts, claimThreadVersion
  <1>6. ASSUME w \in {"VETO_CAST", "VETOED"}
        PROVE  /\ IsFiniteSet(th.vetoes \cup {x.actor}) /\ th.vetoes \cup {x.actor} \subseteq Member
               /\ Cardinality(th.vetoes \cup {x.actor}) = Cardinality(th.vetoes) + 1
               /\ Cardinality(th.vetoes) \in Nat
    <2>1. x.actor \notin th.vetoes /\ x.actor \in Member /\ IsFiniteSet(th.vetoes) /\ th.vetoes \subseteq Member
      BY <1>2, <1>4, <1>5, <1>6 DEF ThreadRecord
    <2> QED BY <2>1, OneMoreVote
  <1>7. x.status \in ActiveStatus => Cardinality(th.vetoes) < VetoThreshold
    BY <1>1, <1>5, FS_EmptySet DEF ActiveStatus
  <1>8. CASE w \in Resolved \ {"VETOED"}
    <2>1. Written(s) = [old EXCEPT !.status = w, !.over = FALSE]
      BY <1>8 DEF Written, Resolved
    <2> QED BY <1>1, <1>3, <1>5, <1>8, <2>1 DEF ThreadRecord, NoThread, Resolved
  <1>9. CASE w = "VETOED"
    <2>1. Written(s) = [old EXCEPT !.status = w, !.over = FALSE, !.vetoes = @ \cup {x.actor}]
      BY <1>9 DEF Written, Resolved
    <2>2. /\ Written(s) \in ThreadRecord /\ Written(s) # NoThread /\ Written(s).status = "VETOED"
          /\ Written(s).version = th.version + 1 /\ Written(s).vetoes = th.vetoes \cup {x.actor}
      BY <1>3, <1>6, <1>9, <2>1 DEF ThreadRecord, NoThread, Resolved
    <2>3. Cardinality(Written(s).vetoes) = VetoThreshold /\ IsFiniteSet(Written(s).vetoes)
      BY <1>1, <1>4, <1>6, <1>7, <1>9, <2>2
    <2> QED BY <1>1, <1>3, <1>9, <2>2, <2>3
  <1>10. CASE w = "VETO_CAST"
    <2>1. Written(s) = [old EXCEPT !.vetoes = @ \cup {x.actor}]
      BY <1>10 DEF Written, Resolved
    <2>2. /\ Written(s) \in ThreadRecord /\ Written(s) # NoThread
          /\ Written(s).status = "PENDING_VETO_REVIEW"
          /\ Written(s).version = th.version + 1 /\ Written(s).vetoes = th.vetoes \cup {x.actor}
      BY <1>3, <1>4, <1>6, <1>10, <2>1 DEF ThreadRecord, NoThread
    <2>3. Cardinality(Written(s).vetoes) < VetoThreshold /\ IsFiniteSet(Written(s).vetoes)
      BY <1>1, <1>4, <1>6, <1>7, <1>10, <2>2
    <2> QED BY <1>1, <1>3, <1>10, <2>2, <2>3
  <1>11. CASE w = "COUNTERED"
    <2>1. Written(s) = [old EXCEPT !.deal = x.deal, !.proposer = x.actor, !.over = FALSE]
      BY <1>11 DEF Written, Resolved
    <2> QED BY <1>1, <1>3, <1>4, <1>5, <1>11, <2>1 DEF ThreadRecord, NoThread, Offered
  <1>12. CASE w = "ACCEPTED"
    <2>1. Written(s) = [old EXCEPT !.over = FALSE,
                              !.status = IF ReviewMode[t] = "ADMIN"
                                         THEN "PENDING_ADMIN_REVIEW" ELSE "PENDING_VETO_REVIEW"]
      BY <1>12 DEF Written, Resolved
    <2> QED BY <1>1, <1>3, <1>4, <1>5, <1>7, <1>12, <2>1 DEF ThreadRecord, NoThread, ActiveStatus
  <1>13. CASE w = "COMPLETED"
    <2>1. Written(s) = [old EXCEPT !.status = w, !.over = FALSE]
      BY <1>13 DEF Written, Resolved
    <2> QED BY <1>3, <1>5, <1>7, <1>1, <1>13, <2>1 DEF ThreadRecord, NoThread
  <1> QED BY <1>1, <1>8, <1>9, <1>10, <1>11, <1>12, <1>13 DEF Outcomes

LEMMA CommitKeeps ==
  ASSUME TradeInv, NEW s \in Server, Commit(s)
  PROVE  TradeInv'
PROOF
  <1> DEFINE t == txn[s].thread
  <1>1. /\ txn[s] # NoTxn /\ t \in Thread
    BY TxnFields DEF TradeInv, Commit, NoTxn
  <1>2. /\ thread' = [thread EXCEPT ![t] = Written(s)] /\ txn' = [txn EXCEPT ![s] = NoTxn]
        /\ UNCHANGED <<rosterVars, active, incidents>> /\ ~LockedThread(t)
    BY DEF Commit
  <1>3. /\ Written(s) \in ThreadRecord /\ Written(s) # NoThread
        /\ Written(s).version = thread[t].version + 1
        /\ IsFiniteSet(Written(s).vetoes)
        /\ Written(s).status \in {"OPEN", "PENDING_ADMIN_REVIEW"} => Written(s).vetoes = {}
        /\ Written(s).status \in {"COMPLETED", "PENDING_VETO_REVIEW"} =>
              Cardinality(Written(s).vetoes) < VetoThreshold
        /\ Written(s).status = "VETOED" => Cardinality(Written(s).vetoes) = VetoThreshold
    BY <1>1, WrittenFits DEF Commit
  <1>4. /\ thread' \in [Thread -> ThreadRecord \cup {NoThread}] /\ thread'[t] = Written(s)
        /\ \A u \in Thread : u # t => thread'[u] = thread[u]
    BY <1>1, <1>2, <1>3 DEF TradeInv, TypeInv, TradeTypeOK
  <1>0. \A u \in Thread : thread[u] # NoThread => thread'[u] # NoThread
    BY <1>3, <1>4
  <1>5. /\ txn' \in [Server -> TxnRecord \cup {NoTxn}] /\ txn'[s] = NoTxn
        /\ \A o \in Server : o # s => txn'[o] = txn[o]
    BY <1>2 DEF TradeInv, TypeInv
  <1>6. ~Moved(s)' /\ \A o \in Server : o # s => (Moved(o)' <=> Moved(o))
    BY <1>5 DEF Moved, NoTxn
  <1>7. ASSUME NEW o \in Server, txn'[o] # NoTxn
        PROVE  Loaded(o)'
    <2>1. o # s /\ txn[o] # NoTxn /\ txn'[o] = txn[o] /\ txn[o].thread \in Thread
      BY <1>5, <1>7, TxnFields DEF TradeInv
    <2>2. CASE txn[o].thread = t
      <3>1. ~Moved(o)
        BY <1>2, <2>2 DEF LockedThread, Moved
      <3> QED BY <1>0, <1>2, <1>3, <1>4, <2>1, <2>2, <3>1, LoadedStays DEF TradeInv
    <2>3. CASE txn[o].thread # t
      BY <1>0, <1>2, <1>4, <2>1, <2>3, LoadedStays DEF TradeInv, rosterVars
    <2> QED BY <2>2, <2>3
  <1>8. LocksExclude'
    BY <1>5, <1>6 DEF TradeInv, LocksExclude
  <1>9. TypeInv'
    <2>1. RosterTypeOK'
      BY <1>2, RosterTypesStay DEF TradeInv, TypeInv, TradeTypeOK
    <2> QED BY <1>2, <1>4, <1>5, <1>7, <1>8, <2>1, TypedAgain DEF TradeInv, TypeInv, TradeTypeOK, Loaded
  <1>10. (VotesCounted /\ EveryVetoCounts)'
    BY <1>3, <1>4 DEF TradeInv, VotesCounted, EveryVetoCounts
  <1> QED BY <1>7, <1>8, <1>9, <1>10 DEF TradeInv

LEMMA MoveKeeps ==
  ASSUME TradeInv, NEW s \in Server, Move(s)
  PROVE  TradeInv'
PROOF
  <1> DEFINE t == txn[s].thread
             deal == txn[s].deal
             conflicts == {u \in Thread \ {t} : /\ thread[u].status \in ActiveStatus
                                               /\ Exchanged(thread[u].deal) \cap Exchanged(deal) # {}}
             x == [txn[s] EXCEPT !.phase = "moved", !.conflicts = conflicts]
  <1>1. /\ txn[s] # NoTxn /\ txn[s] \in TxnRecord /\ t \in Thread /\ deal \in Offered
    BY TxnFields DEF TradeInv, Move, NoTxn
  <1>2. /\ txn[s].write = "COMPLETED" /\ ~LockedThread(t) /\ claimThreadVersion(s)
        /\ \A p \in Exchanged(deal) : ~LockedPlayer(p)
        /\ OwnersAgree(t, deal)
        /\ UNCHANGED <<rosterVars, thread, active, incidents>>
    BY DEF Move, moveRosterPlayers
  <1>3. txn' = [txn EXCEPT ![s] = x]
    BY DEF Move
  <1>4. conflicts \subseteq Thread
    OBVIOUS
  <1> HIDE DEF conflicts
  <1>5. /\ x \in TxnRecord /\ x # NoTxn /\ x.phase = "moved" /\ x.thread = t /\ x.deal = deal
        /\ x.version = txn[s].version /\ x.status = txn[s].status
        /\ x.write = txn[s].write /\ x.actor = txn[s].actor /\ x.conflicts = conflicts
    BY <1>1, <1>4 DEF TxnRecord, NoTxn
  <1>6. /\ txn' \in [Server -> TxnRecord \cup {NoTxn}] /\ txn'[s] = x
        /\ \A o \in Server : o # s => txn'[o] = txn[o]
    BY <1>3, <1>5 DEF TradeInv, TypeInv
  <1>7. \A o \in Server : o # s => (Moved(o)' <=> Moved(o))
    BY <1>6 DEF Moved
  <1>8. Loaded(s)'
    <2>1. OwnersAgree(t, deal)'
      BY <1>1, <1>2, <1>5, <1>6 DEF rosterVars, OwnersAgree, Owner
    <2>2. \A u \in conflicts : u # t /\ thread[u] # NoThread
      BY DEF conflicts, ActiveStatus, NoThread
    <2> QED BY <1>1, <1>2, <1>5, <1>6, <2>1, <2>2 DEF TradeInv, Loaded, claimThreadVersion
  <1>9. ASSUME NEW o \in Server, o # s, txn[o] # NoTxn
        PROVE  Loaded(o)'
    BY <1>2, <1>6, <1>9, LoadedStays DEF TradeInv, Loaded, rosterVars
  <1>10. \A o \in Server : txn'[o] # NoTxn => Loaded(o)'
    BY <1>6, <1>8, <1>9
  <1>11. ASSUME NEW o \in Server, o # s, Moved(o)
         PROVE  txn[o].thread # t /\ Exchanged(txn[o].deal) \cap Exchanged(deal) = {}
    BY <1>2, <1>11 DEF LockedThread, LockedPlayer, Moved
  <1>12. LocksExclude'
    <2>1. ASSUME NEW a \in Server, NEW o \in Server, a # o, Moved(a)', Moved(o)'
          PROVE  /\ txn'[a].thread # txn'[o].thread
                 /\ Exchanged(txn'[a].deal) \cap Exchanged(txn'[o].deal) = {}
      <3>1. CASE a = s
        BY <1>5, <1>6, <1>7, <1>11, <2>1, <3>1
      <3>2. CASE o = s
        BY <1>5, <1>6, <1>7, <1>11, <2>1, <3>2
      <3>3. CASE a # s /\ o # s
        BY <1>6, <1>7, <2>1, <3>3 DEF TradeInv, LocksExclude
      <3> QED BY <3>1, <3>2, <3>3
    <2> QED BY <2>1 DEF LocksExclude, Exchanged
  <1>13. TypeInv'
    <2>1. RosterTypeOK'
      BY <1>2, RosterTypesStay DEF TradeInv, TypeInv, TradeTypeOK
    <2> QED BY <1>2, <1>6, <1>10, <1>12, <2>1, TypedAgain DEF TradeInv, TypeInv, TradeTypeOK, Loaded
  <1> QED BY <1>2, <1>10, <1>12, <1>13 DEF TradeInv, VotesCounted, EveryVetoCounts

LEMMA CompletionHasMoved ==
  ASSUME NEW s \in Server, Complete(s)
  PROVE  Moved(s) /\ txn[s] # NoTxn
PROOF
  <1>1. txn[s].phase = "moved"
    BY Zenon DEF Complete
  <1> QED BY <1>1 DEF Moved, NoTxn

\* The rows after a completed exchange: both sides have gone over, the others stay.
LEMMA ExchangeMoves ==
  ASSUME TradeInv, NEW s \in Server, Complete(s)
  PROVE  LET t == txn[s].thread
             deal == txn[s].deal
         IN  /\ RosterTypeOK'
             /\ deal = thread[t].deal /\ thread[t].status \in ActiveStatus
             /\ OwnersAgree(t, deal)
             /\ \A p \in deal.one : roster'[p].member = Two[t]
             /\ \A p \in deal.two : roster'[p].member = One[t]
             /\ \A p \in Player \ Exchanged(deal) : roster'[p] = roster[p]
PROOF
  <1> DEFINE t == txn[s].thread
             deal == txn[s].deal
             row(p) == IF p \in deal.one THEN [member |-> Two[t], acquiredBy |-> "TRADE"]
                       ELSE IF p \in deal.two THEN [member |-> One[t], acquiredBy |-> "TRADE"]
                       ELSE roster[p]
  <1>0. Moved(s) /\ txn[s] # NoTxn
    BY CompletionHasMoved
  <1>1. /\ t \in Thread /\ deal \in Offered /\ txn[s].status \in ActiveStatus
    BY <1>0, TxnFields DEF TradeInv, Loaded
  <1>2. deal = thread[t].deal /\ thread[t].status \in ActiveStatus /\ OwnersAgree(t, deal)
    BY <1>0, <1>1 DEF TradeInv, Loaded
  <1>3. roster' = [p \in Player |-> row(p)] /\ UNCHANGED <<holds, call>>
    BY DEF Complete
  <1>4. /\ [member |-> Two[t], acquiredBy |-> "TRADE"] \in RosterRow
        /\ [member |-> One[t], acquiredBy |-> "TRADE"] \in RosterRow
    BY <1>1 DEF RosterRow
  <1>5. roster' \in [Player -> RosterRow \cup {Null}]
    BY <1>3, <1>4 DEF TradeInv, TypeInv, TradeTypeOK, RosterTypeOK
  <1>6. deal.one \subseteq Player /\ deal.two \subseteq Player
    BY <1>1, DealsAreExchanges
  <1>7. \A p \in deal.two : p \notin deal.one
    BY <1>1, <1>2 DEF OwnersAgree
  <1>8. /\ \A p \in deal.one : roster'[p].member = Two[t]
        /\ \A p \in deal.two : roster'[p].member = One[t]
        /\ \A p \in Player \ Exchanged(deal) : roster'[p] = roster[p]
    BY <1>3, <1>6, <1>7 DEF Exchanged
  <1>9. RosterTypeOK'
    BY <1>3, <1>5 DEF TradeInv, TypeInv, TradeTypeOK, RosterTypeOK
  <1> QED BY <1>2, <1>8, <1>9

LEMMA InvalidatedFits ==
  ASSUME NEW th \in ThreadRecord
  PROVE  LET dead == [th EXCEPT !.status = "INVALIDATED", !.version = @ + 1, !.over = FALSE]
         IN  /\ dead \in ThreadRecord /\ dead # NoThread /\ dead.status = "INVALIDATED"
             /\ dead.version = th.version + 1 /\ dead.vetoes = th.vetoes
             /\ dead.deal = th.deal /\ dead.proposer = th.proposer
PROOF
  <1> DEFINE dead == [th EXCEPT !.status = "INVALIDATED", !.version = @ + 1, !.over = FALSE]
  <1>1. th.version \in Nat
    BY DEF ThreadRecord
  <1>2. dead \in ThreadRecord
    <2>1. [th EXCEPT !.version = @ + 1] \in ThreadRecord
      BY <1>1 DEF ThreadRecord
    <2>2. dead = [[th EXCEPT !.version = @ + 1] EXCEPT !.status = "INVALIDATED", !.over = FALSE]
      BY DEF ThreadRecord
    <2> QED BY <2>1, <2>2 DEF ThreadRecord, Resolved
  <1>3. /\ dead.status = "INVALIDATED" /\ dead.version = th.version + 1 /\ dead.vetoes = th.vetoes
        /\ dead.deal = th.deal /\ dead.proposer = th.proposer
    BY DEF ThreadRecord
  <1> QED BY <1>2, <1>3 DEF NoThread

LEMMA CompleteKeeps ==
  ASSUME TradeInv, NEW s \in Server, Complete(s)
  PROVE  TradeInv'
PROOF
  <1> DEFINE t == txn[s].thread
             deal == txn[s].deal
             hit == txn[s].conflicts
             dead(u) == [thread[u] EXCEPT !.status = "INVALIDATED", !.version = @ + 1, !.over = FALSE]
  <1>0. Moved(s) /\ txn[s] # NoTxn
    BY CompletionHasMoved
  <1>1. /\ t \in Thread /\ deal \in Offered /\ hit \subseteq Thread /\ Loaded(s)
        /\ \A u \in hit : u # t /\ thread[u] # NoThread
    BY <1>0, TxnFields DEF TradeInv, Loaded
  <1>2. /\ txn' = [txn EXCEPT ![s] = NoTxn] /\ UNCHANGED <<active, incidents>>
        /\ \A u \in hit : ~LockedThread(u)
        /\ thread' = [u \in Thread |-> IF u = t THEN Written(s) ELSE IF u \in hit THEN dead(u) ELSE thread[u]]
    BY DEF Complete
  <1>3. claimThreadVersion(s)
    BY <1>0, <1>1 DEF Loaded, claimThreadVersion
  <1>4. /\ Written(s) \in ThreadRecord /\ Written(s) # NoThread
        /\ Written(s).version = thread[t].version + 1
        /\ IsFiniteSet(Written(s).vetoes)
        /\ Written(s).status \in {"OPEN", "PENDING_ADMIN_REVIEW"} => Written(s).vetoes = {}
        /\ Written(s).status \in {"COMPLETED", "PENDING_VETO_REVIEW"} =>
              Cardinality(Written(s).vetoes) < VetoThreshold
        /\ Written(s).status = "VETOED" => Cardinality(Written(s).vetoes) = VetoThreshold
    BY <1>0, <1>3, WrittenFits
  <1>5. ASSUME NEW u \in hit
        PROVE  /\ dead(u) \in ThreadRecord /\ dead(u).version = thread[u].version + 1
               /\ dead(u).status = "INVALIDATED" /\ dead(u).vetoes = thread[u].vetoes
               /\ dead(u) # NoThread
    <2>1. thread[u] \in ThreadRecord /\ thread[u].version \in Nat
      BY <1>1, ThreadFields DEF TradeInv
    <2> QED BY <2>1, InvalidatedFits
  <1> HIDE DEF dead
  <1>6. /\ thread' \in [Thread -> ThreadRecord \cup {NoThread}]
        /\ thread'[t] = Written(s)
        /\ \A u \in hit : thread'[u] = dead(u)
        /\ \A u \in Thread : u # t /\ u \notin hit => thread'[u] = thread[u]
    BY <1>1, <1>2, <1>4, <1>5 DEF TradeInv, TypeInv, TradeTypeOK
  <1>7. \A u \in Thread : thread[u] # NoThread => thread'[u] # NoThread
    BY <1>4, <1>5, <1>6
  <1>8. /\ txn' \in [Server -> TxnRecord \cup {NoTxn}] /\ txn'[s] = NoTxn
        /\ \A o \in Server : o # s => txn'[o] = txn[o]
    BY <1>2 DEF TradeInv, TypeInv
  <1>9. ~Moved(s)' /\ \A o \in Server : o # s => (Moved(o)' <=> Moved(o))
    BY <1>8 DEF Moved, NoTxn
  <1>10. ASSUME NEW o \in Server, txn'[o] # NoTxn
         PROVE  Loaded(o)'
    <2>1. o # s /\ txn[o] # NoTxn /\ txn'[o] = txn[o]
          /\ txn[o].thread \in Thread /\ txn[o].deal \in Offered
      BY <1>8, <1>10, TxnFields DEF TradeInv
    <2>2. ASSUME Moved(o)
          PROVE  /\ txn[o].thread # t /\ txn[o].thread \notin hit
                 /\ \A p \in Exchanged(txn[o].deal) : roster'[p] = roster[p]
      <3>1. txn[o].thread # t /\ txn[o].thread \notin hit
        BY <1>0, <1>2, <2>1, <2>2 DEF TradeInv, LocksExclude, LockedThread, Moved
      <3>2. Exchanged(txn[o].deal) \subseteq Player \ Exchanged(deal)
        BY <1>0, <2>1, <2>2, DealsAreExchanges DEF TradeInv, LocksExclude
      <3> QED BY <3>1, <3>2, ExchangeMoves
    <2>3. CASE txn[o].thread \in {t} \cup hit
      <3>1. thread'[txn[o].thread].version = thread[txn[o].thread].version + 1
        BY <1>4, <1>5, <1>6, <2>3
      <3> QED BY <1>2, <1>7, <2>1, <2>2, <2>3, <3>1, LoadedStays DEF TradeInv
    <2>4. CASE txn[o].thread \notin {t} \cup hit
      BY <1>2, <1>6, <1>7, <2>1, <2>2, <2>4, LoadedStays DEF TradeInv
    <2> QED BY <2>3, <2>4
  <1>11. LocksExclude'
    BY <1>8, <1>9 DEF TradeInv, LocksExclude
  <1>12. TypeInv'
    BY <1>2, <1>6, <1>8, <1>10, <1>11, ExchangeMoves, TypedAgain
       DEF TradeInv, TypeInv, TradeTypeOK, Loaded
  <1>13. (VotesCounted /\ EveryVetoCounts)'
    <2>1. ASSUME NEW u \in Thread, thread'[u] # NoThread
          PROVE  /\ IsFiniteSet(thread'[u].vetoes)
                 /\ thread'[u].status \in {"OPEN", "PENDING_ADMIN_REVIEW"} => thread'[u].vetoes = {}
                 /\ thread'[u].status \in {"COMPLETED", "PENDING_VETO_REVIEW"} =>
                       Cardinality(thread'[u].vetoes) < VetoThreshold
                 /\ thread'[u].status = "VETOED" => Cardinality(thread'[u].vetoes) = VetoThreshold
      <3>1. CASE u = t
        BY <1>4, <1>6, <3>1
      <3>2. CASE u \in hit
        BY <1>1, <1>5, <1>6, <3>2 DEF TradeInv, VotesCounted
      <3>3. CASE u # t /\ u \notin hit
        BY <1>6, <2>1, <3>3 DEF TradeInv, VotesCounted, EveryVetoCounts
      <3> QED BY <3>1, <3>2, <3>3
    <2> QED BY <2>1 DEF VotesCounted, EveryVetoCounts
  <1> QED BY <1>10, <1>11, <1>12, <1>13 DEF TradeInv

-------------------------------------------------------------------------------
(* Every step *)

LEMMA InitHolds ==
  ASSUME NEW start \in [Player -> RosterRow \cup {Null}], TradeInit(start)
  PROVE  TradeInv
PROOF
  <1>1. \A t \in Thread : thread[t] = NoThread
    BY DEF TradeInit
  <1>2. \A s \in Server : txn[s] = NoTxn
    BY DEF TradeInit
  <1>3. RosterTypeOK
    BY DEF TradeInit, RosterInit, RosterTypeOK
  <1>4. TypeInv
    BY <1>2, <1>3 DEF TradeInit, TypeInv, TradeTypeOK, NoTxn
  <1> QED
    BY <1>1, <1>2, <1>4, IdleHasNotMoved DEF TradeInv, LocksExclude, VotesCounted, EveryVetoCounts

LEMMA NextKeeps ==
  ASSUME TradeInv, [TradeNext]_tradeVars
  PROVE  TradeInv'
PROOF
  <1>1. CASE RosterStepUnlocked
    BY <1>1, RosterStepKeeps
  <1>2. ASSUME NEW t \in Thread, TimeIsUp(t)
        PROVE  TradeInv'
    BY <1>2, TimeIsUpKeeps
  <1>3. ASSUME NEW t \in Thread, NEW deal \in Deals[t], createTrade(t, deal)
        PROVE  TradeInv'
    BY <1>3, CreateKeeps
  <1>4. ASSUME NEW m \in Member, MemberLeaves(m)
        PROVE  TradeInv'
    BY <1>4, LeavingKeeps
  <1>5. ASSUME NEW s \in Server, NEW t \in Thread, Sweep(s, t)
        PROVE  TradeInv'
    <2>1. Load(s, t, "sweep", Null, {})
      BY <1>5 DEF Sweep
    <2> QED BY <2>1, LoadKeeps
  <1>6. ASSUME NEW s \in Server, NEW t \in Thread, NEW m \in Member,
               NEW action \in {"withdraw", "accept", "decline", "approve", "reject", "veto"},
               Load(s, t, action, m, {})
        PROVE  TradeInv'
    <2>1. action \in Commands /\ action # "counter" /\ action # "sweep"
      BY DEF Commands
    <2> QED BY <1>6, <2>1, LoadKeeps
  <1>7. ASSUME NEW s \in Server, NEW t \in Thread, NEW m \in Member, NEW deal \in Deals[t],
               Load(s, t, "counter", m, deal)
        PROVE  TradeInv'
    <2>1. "counter" \in Commands
      BY DEF Commands
    <2> QED BY <1>7, <2>1, LoadKeeps
  <1>8. ASSUME NEW s \in Server, Refused(s) \/ Abort(s)
        PROVE  TradeInv'
    <2>1. txn' = [txn EXCEPT ![s] = NoTxn] /\ UNCHANGED <<rosterVars, thread, active>>
      BY <1>8 DEF Refused, Abort
    <2>2. incidents' \in 0 .. MaxIncidents
      BY <1>8 DEF Refused, Abort, TradeInv, TypeInv, TradeTypeOK
    <2> QED BY <2>1, <2>2, EndKeeps
  <1>9. ASSUME NEW s \in Server, Commit(s) \/ Move(s) \/ Complete(s)
        PROVE  TradeInv'
    BY <1>9, CommitKeeps, MoveKeeps, CompleteKeeps
  <1>10. CASE UNCHANGED tradeVars
    <2>1. UNCHANGED <<roster, holds, call, thread, active, txn, incidents>>
      BY <1>10 DEF tradeVars, rosterVars
    <2>2. TypeInv' /\ LocksExclude' /\ (VotesCounted /\ EveryVetoCounts)'
      BY <2>1 DEF TradeInv, TypeInv, TradeTypeOK, RosterTypeOK, LocksExclude, Moved, VotesCounted, EveryVetoCounts
    <2>3. ASSUME NEW s \in Server, txn'[s] # NoTxn
          PROVE  Loaded(s)'
      BY <2>1, <2>3, LoadedStays DEF TradeInv, Loaded
    <2> QED BY <2>2, <2>3 DEF TradeInv
  <1> QED
    BY <1>1, <1>2, <1>3, <1>4, <1>5, <1>6, <1>7, <1>8, <1>9, <1>10 DEF TradeNext, ServerStep

KeepsOffer(t) == /\ thread'[t].deal = thread[t].deal /\ thread'[t].proposer = thread[t].proposer
                 /\ thread'[t].vetoes = thread[t].vetoes

\* Only a claim or a completion gives an existing thread another status, and
\* only a completion takes a row from one member to another.
LEMMA WhatAStepChanges ==
  ASSUME TradeInv, [TradeNext]_tradeVars
  PROVE  \/ /\ \A t \in Thread : IF thread[t] = NoThread THEN thread'[t].status # "COMPLETED"
                                 ELSE thread'[t].status = thread[t].status /\ KeepsOffer(t)
            /\ \A p \in Player : roster[p] # Null => roster'[p] \in {roster[p], Null}
         \/ \E s \in Server : Commit(s) \/ Complete(s)
PROOF
  <1> DEFINE Quiet == /\ \A t \in Thread : IF thread[t] = NoThread THEN thread'[t].status # "COMPLETED"
                                          ELSE thread'[t].status = thread[t].status /\ KeepsOffer(t)
                      /\ \A p \in Player : roster[p] # Null => roster'[p] \in {roster[p], Null}
  <1>1. CASE RosterStepUnlocked
    BY <1>1, RequestsTakeFromNobody DEF RosterStepUnlocked, TradeInv, TypeInv, TradeTypeOK, NoThread, KeepsOffer
  <1>2. CASE UNCHANGED <<roster, thread>>
    BY <1>2 DEF NoThread, KeepsOffer
  <1>3. ASSUME NEW t \in Thread, TimeIsUp(t)
        PROVE  Quiet
    <2>1. thread[t] # NoThread /\ thread[t] \in ThreadRecord
      BY <1>3, ThreadFields DEF TimeIsUp, NoThread, TradeInv
    <2>2. thread' = [thread EXCEPT ![t].over = TRUE] /\ UNCHANGED roster
      BY <1>3 DEF TimeIsUp, rosterVars
    <2>3. /\ thread'[t].status = thread[t].status /\ KeepsOffer(t)
          /\ \A u \in Thread : u # t => thread'[u] = thread[u]
      BY <2>1, <2>2 DEF TradeInv, TypeInv, TradeTypeOK, ThreadRecord, KeepsOffer
    <2> QED BY <2>1, <2>2, <2>3 DEF NoThread, KeepsOffer
  <1>4. ASSUME NEW t \in Thread, NEW deal \in Deals[t], createTrade(t, deal)
        PROVE  Quiet
    <2>1. /\ thread[t] = NoThread /\ UNCHANGED roster
          /\ thread'[t].status = "OPEN" /\ \A u \in Thread : u # t => thread'[u] = thread[u]
      BY <1>4 DEF createTrade, rosterVars, TradeInv, TypeInv, TradeTypeOK
    <2> QED BY <2>1 DEF NoThread, KeepsOffer
  <1>5. CASE \/ \E m \in Member : MemberLeaves(m)
             \/ \E s \in Server : Move(s) \/ Refused(s) \/ Abort(s)
    BY <1>2, <1>5 DEF MemberLeaves, Move, Refused, Abort, rosterVars
  <1>6. CASE \E s \in Server, t \in Thread :
                \/ Sweep(s, t)
                \/ \E m \in Member, action \in {"withdraw", "accept", "decline",
                                               "approve", "reject", "veto"} : Load(s, t, action, m, {})
                \/ \E m \in Member, deal \in Deals[t] : Load(s, t, "counter", m, deal)
    BY <1>2, <1>6 DEF Sweep, Load, rosterVars
  <1>7. CASE UNCHANGED tradeVars
    BY <1>2, <1>7 DEF tradeVars, rosterVars
  <1> QED BY <1>1, <1>3, <1>4, <1>5, <1>6, <1>7 DEF TradeNext, ServerStep

LEMMA WhatACommitChanges ==
  ASSUME TradeInv, NEW s \in Server, Commit(s)
  PROVE  /\ thread[txn[s].thread].status \notin ActiveStatus =>
               /\ ~(Party(txn[s].thread) \subseteq active)
               /\ KeepsOffer(txn[s].thread) /\ thread'[txn[s].thread].status = "INVALIDATED"
         /\ thread'[txn[s].thread].status # "COMPLETED"
         /\ \A t \in Thread : t # txn[s].thread => thread'[t] = thread[t]
         /\ UNCHANGED roster
PROOF
  <1>1. txn[s] # NoTxn /\ txn[s].write # "COMPLETED" /\ claimThreadVersion(s) /\ UNCHANGED roster
        /\ thread' = [thread EXCEPT ![txn[s].thread] = Written(s)]
    BY DEF Commit, NoTxn, rosterVars
  <1>2. txn[s].thread \in Thread
    BY <1>1, TxnFields DEF TradeInv
  <1>3. thread'[txn[s].thread] = Written(s)
        /\ \A t \in Thread : t # txn[s].thread => thread'[t] = thread[t]
    BY <1>1, <1>2 DEF TradeInv, TypeInv, TradeTypeOK
  <1> QED BY <1>1, <1>3, WrittenFits DEF KeepsOffer

LEMMA WhatACompletionChanges ==
  ASSUME TradeInv, NEW s \in Server, Complete(s)
  PROVE  /\ txn[s].thread \in Thread /\ thread'[txn[s].thread].status = "COMPLETED"
         /\ \A t \in Thread \ {txn[s].thread} :
               thread[t] # NoThread =>
                  IF t \in txn[s].conflicts THEN thread'[t].status = "INVALIDATED" /\ KeepsOffer(t)
                  ELSE thread'[t] = thread[t]
         /\ \A t \in Thread \ {txn[s].thread} :
               thread'[t].status = "COMPLETED" => thread[t].status = "COMPLETED"
PROOF
  <1> DEFINE t == txn[s].thread
             dead(u) == [thread[u] EXCEPT !.status = "INVALIDATED", !.version = @ + 1, !.over = FALSE]
  <1>1. Moved(s) /\ txn[s] # NoTxn
    BY CompletionHasMoved
  <1>2. /\ t \in Thread /\ txn[s].conflicts \subseteq Thread /\ txn[s].write = "COMPLETED"
        /\ claimThreadVersion(s)
        /\ \A u \in txn[s].conflicts : thread[u] # NoThread
    BY <1>1, TxnFields DEF TradeInv, Loaded, claimThreadVersion
  <1>3. thread' = [u \in Thread |-> IF u = t THEN Written(s)
                                    ELSE IF u \in txn[s].conflicts THEN dead(u) ELSE thread[u]]
    BY DEF Complete
  <1>4. ASSUME NEW u \in txn[s].conflicts
        PROVE  /\ dead(u).status = "INVALIDATED" /\ dead(u).deal = thread[u].deal
               /\ dead(u).proposer = thread[u].proposer /\ dead(u).vetoes = thread[u].vetoes
    <2>1. thread[u] \in ThreadRecord
      BY <1>2, ThreadFields DEF TradeInv
    <2> QED BY <2>1, InvalidatedFits
  <1> HIDE DEF dead
  <1>5. Written(s).status = "COMPLETED"
    BY <1>1, <1>2, WrittenFits
  <1> QED BY <1>2, <1>3, <1>4, <1>5 DEF KeepsOffer

LEMMA StandingOfferStep ==
  ASSUME TradeInv, [TradeNext]_tradeVars
  PROVE  /\ \A t \in Thread : thread'[t].status = "COMPLETED" /\ thread[t].status # "COMPLETED" =>
               /\ OwnersAgree(t, thread[t].deal)
               /\ \A p \in thread[t].deal.one : roster'[p].member = Two[t]
               /\ \A p \in thread[t].deal.two : roster'[p].member = One[t]
         /\ \A p \in Player : roster[p] # Null /\ roster'[p] # Null /\ roster'[p] # roster[p] =>
               \E t \in Thread : /\ thread[t].status \in ActiveStatus /\ thread'[t].status = "COMPLETED"
                                 /\ p \in Exchanged(thread[t].deal)
PROOF
  <1>1. CASE /\ \A t \in Thread : IF thread[t] = NoThread THEN thread'[t].status # "COMPLETED"
                                  ELSE thread'[t].status = thread[t].status /\ KeepsOffer(t)
             /\ \A p \in Player : roster[p] # Null => roster'[p] \in {roster[p], Null}
    BY <1>1
  <1>2. ASSUME NEW s \in Server, Commit(s)
        PROVE  /\ \A t \in Thread : thread'[t].status = "COMPLETED" => thread[t].status = "COMPLETED"
               /\ UNCHANGED roster
    BY <1>2, WhatACommitChanges
  <1>3. ASSUME NEW s \in Server, Complete(s), NEW t \in Thread,
               thread'[t].status = "COMPLETED", thread[t].status # "COMPLETED"
        PROVE  /\ OwnersAgree(t, thread[t].deal)
               /\ \A p \in thread[t].deal.one : roster'[p].member = Two[t]
               /\ \A p \in thread[t].deal.two : roster'[p].member = One[t]
    <2>1. t = txn[s].thread
      BY <1>3, WhatACompletionChanges
    <2> QED BY <1>3, <2>1, ExchangeMoves
  <1>4. ASSUME NEW s \in Server, Complete(s), NEW p \in Player, roster'[p] # roster[p]
        PROVE  \E t \in Thread : /\ thread[t].status \in ActiveStatus /\ thread'[t].status = "COMPLETED"
                                 /\ p \in Exchanged(thread[t].deal)
    <2>1. p \in Exchanged(txn[s].deal) /\ txn[s].deal = thread[txn[s].thread].deal
          /\ thread[txn[s].thread].status \in ActiveStatus
      BY <1>4, ExchangeMoves
    <2> QED BY <1>4, <2>1, WhatACompletionChanges
  <1> QED BY <1>1, <1>2, <1>3, <1>4, WhatAStepChanges

\* A resolved thread is written by a claim that has found a member gone, or by its
\* id on a conflict list; neither touches the offer or its votes.
LEMMA ResolvedStep ==
  ASSUME TradeInv, [TradeNext]_tradeVars, NEW t \in Thread,
         thread[t] # NoThread, thread[t].status \notin ActiveStatus
  PROVE  /\ KeepsOffer(t)
         /\ thread'[t].status # thread[t].status =>
               /\ thread'[t].status = "INVALIDATED"
               /\ \/ ~(Party(t) \subseteq active)
                  \/ \E s \in Server : txn[s].phase = "moved" /\ t \in txn[s].conflicts
PROOF
  <1>1. ASSUME NEW s \in Server, Commit(s)
        PROVE  /\ KeepsOffer(t)
               /\ thread'[t].status # thread[t].status =>
                     thread'[t].status = "INVALIDATED" /\ ~(Party(t) \subseteq active)
    <2>1. CASE t = txn[s].thread
      BY <1>1, <2>1, WhatACommitChanges
    <2>2. CASE t # txn[s].thread
      BY <1>1, <2>2, WhatACommitChanges DEF KeepsOffer
    <2> QED BY <2>1, <2>2
  <1>2. ASSUME NEW s \in Server, Complete(s)
        PROVE  /\ KeepsOffer(t)
               /\ thread'[t].status # thread[t].status =>
                     /\ thread'[t].status = "INVALIDATED"
                     /\ txn[s].phase = "moved" /\ t \in txn[s].conflicts
    <2>1. t # txn[s].thread /\ txn[s].phase = "moved"
      BY <1>2, ExchangeMoves, CompletionHasMoved DEF Moved
    <2> QED BY <1>2, <2>1, WhatACompletionChanges DEF KeepsOffer
  <1> QED BY <1>1, <1>2, WhatAStepChanges

-------------------------------------------------------------------------------
(* Theorems, from every roster a league can have *)

THEOREM TradesInvariant ==
  ASSUME NEW start \in [Player -> RosterRow \cup {Null}]
  PROVE  TradeSpec(start) => []TradeInv
PROOF
  <1>1. TradeInit(start) => TradeInv
    BY InitHolds
  <1>2. TradeInv /\ [TradeNext]_tradeVars => TradeInv'
    BY NextKeeps
  <1> QED BY <1>1, <1>2, PTL DEF TradeSpec

\* The state is well typed, and no player's row is moved by two transactions
\* (the row locks of moveRosterPlayers).
THEOREM TradesTyped ==
  ASSUME NEW start \in [Player -> RosterRow \cup {Null}]
  PROVE  TradeSpec(start) => []TradeTypeOK
PROOF
  <1>1. TradeInv => TradeTypeOK
    BY DEF TradeInv, TypeInv
  <1> QED BY <1>1, TradesInvariant, PTL

\* Concurrent votes each count what they have loaded; the claim of the version
\* makes them count one by one, so the threshold stops the trade exactly.
THEOREM VetoesCount ==
  ASSUME NEW start \in [Player -> RosterRow \cup {Null}]
  PROVE  TradeSpec(start) => []EveryVetoCounts
PROOF
  <1>1. TradeInv => EveryVetoCounts
    BY DEF TradeInv
  <1> QED BY <1>1, TradesInvariant, PTL

\* What a completed trade moves is the offer that stands, whole, between its
\* owners, and nothing else moves a row from one member to another.
THEOREM StandingOfferMoves ==
  ASSUME NEW start \in [Player -> RosterRow \cup {Null}]
  PROVE  TradeSpec(start) => OnlyTheStandingOfferMoves
PROOF
  <1>1. TradeInv /\ [TradeNext]_tradeVars =>
          [/\ \A t \in Thread : thread'[t].status = "COMPLETED" /\ thread[t].status # "COMPLETED" =>
                 /\ OwnersAgree(t, thread[t].deal)
                 /\ \A p \in thread[t].deal.one : roster'[p].member = Two[t]
                 /\ \A p \in thread[t].deal.two : roster'[p].member = One[t]
           /\ \A p \in Player : roster[p] # Null /\ roster'[p] # Null /\ roster'[p] # roster[p] =>
                 \E t \in Thread : /\ thread[t].status \in ActiveStatus /\ thread'[t].status = "COMPLETED"
                                   /\ p \in Exchanged(thread[t].deal)]_tradeVars
    BY StandingOfferStep
  <1> QED BY <1>1, TradesInvariant, PTL DEF TradeSpec, OnlyTheStandingOfferMoves

\* A resolved trade keeps its offer, its votes and its status, whatever was loaded
\* before it was resolved: only a departed member, or a conflict list read while it
\* was active, makes it INVALIDATED (executeActionInTransaction, updateMany by ids).
THEOREM ResolvedIsFinal ==
  ASSUME NEW start \in [Player -> RosterRow \cup {Null}]
  PROVE  TradeSpec(start) => ResolvedStaysResolved
PROOF
  <1>1. TradeInv /\ [TradeNext]_tradeVars =>
          [\A t \in Thread : thread[t] # NoThread /\ thread[t].status \notin ActiveStatus =>
              /\ thread'[t].deal = thread[t].deal /\ thread'[t].proposer = thread[t].proposer
              /\ thread'[t].vetoes = thread[t].vetoes
              /\ thread'[t].status # thread[t].status =>
                    /\ thread'[t].status = "INVALIDATED"
                    /\ \/ ~(Party(t) \subseteq active)
                       \/ \E s \in Server : txn[s].phase = "moved" /\ t \in txn[s].conflicts]_tradeVars
    BY ResolvedStep DEF KeepsOffer
  <1> QED BY <1>1, TradesInvariant, PTL DEF TradeSpec, ResolvedStaysResolved
===============================================================================
