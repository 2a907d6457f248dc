----------------------------- MODULE LeagueFormation -----------------------------
(* A league before its draft: managers join and leave (memberCommands.ts), the   *)
(* draft is created (POST /api/drafts, or a save of the settings) and its order  *)
(* rewritten to the members there are.  Each command is one READ COMMITTED       *)
(* transaction that reads the league, decides, and writes by what it has read:   *)
(* two actions.  A join locks the league's row, which only other joins wait for. *)
EXTENDS Naturals, FiniteSets, Sequences, SequencesExt, Functions

CONSTANTS Person, Creator,  \* the creator owns the league and never leaves
          MaxTeams, Server, Null

VARIABLES active,           \* the persons whose membership is active
          draftSlot,        \* LeagueMember.draftSlot, or Null
          draft,            \* "none", "SCHEDULED", "opened" (SCHEDULED, with a startedAt), "LIVE"
          order,            \* the DraftOrder rows: slot to member, slots unique
          txn,              \* what the transaction of each server has read
          raced             \* history: a command has written after another that it did not
                            \* see, and none has put the membership in order since

formationVars == <<active, draftSlot, draft, order, txn, raced>>

ASSUME FormationAssumption ==
    Creator \in Person /\ Null \notin Person \cup Nat /\ MaxTeams \in Nat \ {0}

NoTxn == [kind |-> "none"]
None == <<>>                \* no order rows
Running(kind) == \E s \in Server : txn[s].kind = kind

--------------------------------------------------------------------------------
\* The active members by draftSlot, those without one last; equal slots either way.
SortKey(p) == IF draftSlot[p] = Null THEN Cardinality(Person) + 1 ELSE draftSlot[p]
ActiveMembers == {list \in SetToSeqs(active) :
                     \A i, j \in DOMAIN list : i < j => SortKey(list[i]) <= SortKey(list[j])}

hasDraftStarted_opened == draft = "opened"  \* Slip: looks at startedAt in the place of the status.
hasDraftStarted == draft \in {"opened", "LIVE"}

\* An explicit slot is kept if nobody before in the list has it.
KeepsSlot(list, i) ==
    /\ draftSlot[list[i]] # Null
    /\ \A j \in 1 .. i - 1 : draftSlot[list[j]] # draftSlot[list[i]]
Spare(list) == {i \in DOMAIN list : ~KeepsSlot(list, i)}
FreeSlots(list) == (1 .. 2 * Len(list)) \ {draftSlot[list[i]] : i \in DOMAIN list \ Spare(list)}

assignDraftSlots_place(list) ==  \* Slip: a member without a slot takes its place in the list.
    [i \in DOMAIN list |-> IF draftSlot[list[i]] = Null THEN i ELSE draftSlot[list[i]]]

\* Of those who keep none the first takes the lowest free slot, the second the next.
Rank(S, n) == Cardinality({m \in S : m <= n})
assignDraftSlots(list) ==
    [i \in DOMAIN list |->
        IF i \in Spare(list)
        THEN CHOOSE n \in FreeSlots(list) : Rank(FreeSlots(list), n) = Rank(Spare(list), i)
        ELSE draftSlot[list[i]]]

\* The rows of an order in which list[i] has slots[i].
Rows(list, slots) == [n \in Range(slots) |-> list[CHOOSE i \in DOMAIN list : slots[i] = n]]
InOrder(list) == Rows(list, [i \in DOMAIN list |-> i])

\* The slots of the listed members become their places in the list.
Renumbered(list) ==
    [p \in Person |-> IF p \in Range(list) THEN CHOOSE i \in DOMAIN list : list[i] = p ELSE draftSlot[p]]

Begin(s, read) ==
    /\ txn[s] = NoTxn /\ txn' = [txn EXCEPT ![s] = read]
    /\ UNCHANGED <<active, draftSlot, draft, order, raced>>

\* Every other transaction now has read a league that is no more.  A command that
\* has missed nothing and renumbers the members, or writes the order, mends it.
Commit(s, mends) ==
    /\ txn' = [o \in Server |-> IF o = s THEN NoTxn
                                ELSE IF txn[o] = NoTxn THEN NoTxn ELSE [txn[o] EXCEPT !.fresh = FALSE]]
    /\ raced' = (~txn[s].fresh \/ (raced /\ ~mends))

LeagueRowFree_always == TRUE  \* Slip: the members are read before the row is locked.
LeagueRowFree == ~Running("join")

--------------------------------------------------------------------------------
\* joinLeague: the lock, the checks, and then the membership and the order.
JoinReads(s, p) ==
    /\ LeagueRowFree /\ ~hasDraftStarted
    /\ p \notin active /\ Cardinality(active) < MaxTeams
    /\ \E list \in ActiveMembers :
          Begin(s, [kind |-> "join", person |-> p, list |-> list, draft |-> draft, fresh |-> TRUE])

JoinWrites(s) ==
    LET list == txn[s].list
    IN  /\ txn[s].kind = "join"
        /\ active' = active \cup {txn[s].person}
        /\ draftSlot' = [draftSlot EXCEPT ![txn[s].person] = Len(list) + 1]
        /\ order' = IF txn[s].draft = "none" THEN order ELSE InOrder(Append(list, txn[s].person))
        /\ Commit(s, txn[s].draft # "none") /\ UNCHANGED draft

\* removeLeagueMember: the owner removes a member, or one leaves; no lock.
RemoveReads(s, p) ==
    /\ ~hasDraftStarted /\ p \in active \ {Creator}
    /\ \E list \in ActiveMembers :
          Begin(s, [kind |-> "remove", person |-> p, list |-> list, draft |-> draft, fresh |-> TRUE])

RemoveWrites(s) ==
    LET list == txn[s].list
        remaining == RemoveAt(list, CHOOSE i \in DOMAIN list : list[i] = txn[s].person)
    IN  /\ txn[s].kind = "remove"
        /\ active' = active \ {txn[s].person}
        /\ draftSlot' = [Renumbered(remaining) EXCEPT ![txn[s].person] = Null]
        /\ order' = IF txn[s].draft = "none" THEN order ELSE InOrder(remaining)
        /\ Commit(s, TRUE) /\ UNCHANGED draft

\* ensureDraftRoomExists, at the end of a save of the settings: there is no draft
\* yet, or its order has another length than the league.
ConvergeReads(s) ==
    /\ IF draft = "none" THEN Cardinality(active) >= 2
       ELSE draft # "LIVE" /\ Cardinality(DOMAIN order) # Cardinality(active)
    /\ \E list \in ActiveMembers :
          Begin(s, [kind |-> "converge", rows |-> Rows(list, assignDraftSlots(list)),
                    draft |-> draft, fresh |-> TRUE])

\* A league has one draft: a second one fails on its unique key.
ConvergeWrites(s) ==
    /\ txn[s].kind = "converge" /\ (txn[s].draft = "none" => draft = "none")
    /\ order' = txn[s].rows
    /\ draft' = IF draft = "none" THEN "SCHEDULED" ELSE draft
    /\ Commit(s, FALSE) /\ UNCHANGED <<active, draftSlot>>

\* POST /api/drafts for this league: any order, by rank, by chance or as it is.
CreateReads(s) ==
    \E list \in SetToSeqs(active) : Begin(s, [kind |-> "create", list |-> list, fresh |-> TRUE])

\* Without a scheduled time the draft has a startedAt from the beginning.
CreateWrites(s) ==
    /\ txn[s].kind = "create" /\ draft = "none"
    /\ draftSlot' = Renumbered(txn[s].list)
    /\ order' = InOrder(txn[s].list)
    /\ draft' \in {"SCHEDULED", "opened"}
    /\ Commit(s, TRUE) /\ UNCHANGED active

\* A unique key, a deadlock, a lost connection: nothing of it is written.
Fails(s) ==
    /\ txn[s] # NoTxn /\ txn' = [txn EXCEPT ![s] = NoTxn]
    /\ UNCHANGED <<active, draftSlot, draft, order, raced>>

\* startDraft touches neither the members nor the order, so no command conflicts
\* with it.
startDraft ==
    /\ draft \in {"SCHEDULED", "opened"} /\ order # None /\ draft' = "LIVE"
    /\ txn' = [o \in Server |-> IF txn[o] = NoTxn THEN NoTxn ELSE [txn[o] EXCEPT !.fresh = FALSE]]
    /\ UNCHANGED <<active, draftSlot, order, raced>>

\* createLeague leaves the creator's slot open.
FormationInit ==
    /\ active = {Creator} /\ draftSlot = [p \in Person |-> Null]
    /\ draft = "none" /\ order = None
    /\ txn = [s \in Server |-> NoTxn] /\ raced = FALSE

FormationNext ==
    \/ \E s \in Server : \/ \E p \in Person : JoinReads(s, p) \/ RemoveReads(s, p)
                         \/ JoinWrites(s) \/ RemoveWrites(s)
                         \/ ConvergeReads(s) \/ ConvergeWrites(s)
                         \/ CreateReads(s) \/ CreateWrites(s)
                         \/ Fails(s)
    \/ startDraft

FormationSpec == FormationInit /\ [][FormationNext]_formationVars

--------------------------------------------------------------------------------
\* The state is well typed and no slot is above the league's size; and the league
\* is never larger than it may be, however joins and removals overlap (comment at
\* memberCommands.ts:322).
FormationTypeOK ==
    /\ active \subseteq Person /\ Creator \in active /\ Cardinality(active) <= MaxTeams
    /\ draftSlot \in [Person -> 1 .. MaxTeams \cup {Null}]
    /\ draft \in {"none", "SCHEDULED", "opened", "LIVE"} /\ (draft = "none" => order = None)
    /\ DOMAIN order \subseteq 1 .. 2 * MaxTeams /\ Range(order) \subseteq Person
    /\ \A s \in Server : txn[s].kind \in {"none", "join", "remove", "converge", "create"}
    /\ raced \in BOOLEAN

\* Once a draft has started its order is rewritten only by a command that had made
\* its checks before the start and writes after it, never by a later one (comments
\* at DraftSetupConvergenceService.ts:87 and memberCommands.ts:69).
StartedOrderStays ==
    [][draft = "LIVE" /\ order' # order =>
          \E s \in Server : txn[s] # NoTxn /\ ~txn[s].fresh /\ txn'[s] = NoTxn]_formationVars

\* The draft order is the league: its slots are 1 to the number of members and each
\* active member has one, whatever sequence of joins, departures, rejoins, saves
\* and creations came before, and it stays so once the draft is LIVE.  Only two
\* commands that overlap can break it (a turn whose slot nobody holds cannot be
\* played: draftRules.ts:20), and a later removal or join mends it.
OrderIsTheLeague ==
    ~raced /\ draft # "none" => /\ DOMAIN order = 1 .. Cardinality(active)
                               /\ Range(order) = active
================================================================================
