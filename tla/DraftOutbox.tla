------------------------------ MODULE DraftOutbox ------------------------------
(***************************************************************************)
(* Publication of the outbox of one draft by DraftRealtimePublisher.       *)
(*                                                                         *)
(* Rows are appended by the commands' transactions.  Any number of flushes *)
(* run at once: one after each command, one in the socket server's drain   *)
(* loop, in several processes.  A flush claims the pending rows in one     *)
(* transaction, publishes them one by one outside of any, and marks them   *)
(* in a last transaction.  A claim older than the claim TTL is released by *)
(* the next flush, although its holder may only be slow.                   *)
(***************************************************************************)
EXTENDS Integers, FiniteSets, FiniteSetsExt

CONSTANTS
  Flush,         \* flushes that may run at once
  Process,       \* processes of the application; each has one lockerId
  ProcessOf,     \* ProcessOf[f]: the process a flush runs in
  Drainer,       \* the flushes of the drain loop, which take Limit rows at most
  Limit,         \* DRAFT_OUTBOX_DRAIN_BATCH_SIZE
  Null,
  MaxRows,       \* bound: rows appended
  MaxFaults      \* bound: failed, dead and overtaken flushes

ASSUME FlushAssumption ==
  ProcessOf \in [Flush -> Process] /\ Drainer \subseteq Flush /\ Limit \in Nat \ {0}
ASSUME RowAssumption == Null \notin Int /\ Null \notin Process
ASSUME BoundAssumption == MaxRows \in Nat /\ MaxFaults \in Nat

VARIABLES
  version,       \* the draft's schedulingVersion
  rows,          \* rows[sequence]: the DraftEvent rows
  flush,         \* what each flush is doing
  delivered,     \* history: how often a row's envelope went out, two meaning more
  disturbed,     \* history: rows whose claim failed, was dropped or was overtaken
  shown,         \* history: the newest revision whose state was broadcast
  faults

outboxVars == <<version, rows, flush, delivered, disturbed, shown, faults>>

Sequence == DOMAIN rows

IdleFlush == [phase |-> "idle", claimed |-> {}, todo |-> {}, state |-> Null]

-------------------------------------------------------------------------------
(* Rows *)

Row(revision) == [revision |-> revision, published |-> FALSE, lockedBy |-> Null, stale |-> FALSE]

\* A transition appends its events, the last of them authoritative.
AppendEvents(n) ==
  /\ Cardinality(Sequence) + n <= MaxRows
  /\ version' = version + 1
  /\ LET last == Cardinality(Sequence) + n
     IN /\ rows' = [k \in 1..last |-> IF k \in Sequence THEN rows[k]
                                      ELSE Row(IF k = last THEN version + 1 ELSE Null)]
        /\ delivered' = [k \in 1..last |-> IF k \in Sequence THEN delivered[k] ELSE 0]
  /\ UNCHANGED <<flush, disturbed, shown, faults>>

Unlocked(row) == [row EXCEPT !.lockedBy = Null, !.stale = FALSE]

\* Slip: a claim is held until its holder gives it up.
releaseStaleDraftEventClaims_never == rows

releaseStaleDraftEventClaims ==
  [k \in Sequence |-> IF ~rows[k].published /\ rows[k].stale THEN Unlocked(rows[k]) ELSE rows[k]]

\* Slip: rows are pending even while earlier rows are being published.
listPendingDraftEvents_unblocked(table) ==
  { k \in Sequence : ~table[k].published /\ table[k].lockedBy = Null }

\* One claim at a time: while any row is claimed none is pending.
listPendingDraftEvents(table) ==
  LET unpublished == { k \in Sequence : ~table[k].published }
  IN IF \E k \in unpublished : table[k].lockedBy # Null THEN {} ELSE unpublished

Lowest(S, n) == { k \in S : Cardinality({ j \in S : j < k }) < n }

\* Slip: everything this process has locked is this flush's to publish.
listClaimedDraftEvents_process(table, f, eventIds) ==
  { k \in Sequence : ~table[k].published /\ table[k].lockedBy = ProcessOf[f] }

listClaimedDraftEvents(table, f, eventIds) ==
  { k \in eventIds : ~table[k].published /\ table[k].lockedBy = ProcessOf[f] }

-------------------------------------------------------------------------------
(* Flushes *)

\* One transaction: release what is stale, list what is pending, lock it, read it back.
Claim(f) ==
  /\ flush[f].phase = "idle"
  /\ LET released == releaseStaleDraftEventClaims
         pending == listPendingDraftEvents(released)
         eventIds == IF f \in Drainer THEN Lowest(pending, Limit) ELSE pending
         locked == [k \in Sequence |-> IF k \in eventIds
                      THEN [released[k] EXCEPT !.lockedBy = ProcessOf[f]] ELSE released[k]]
         mine == listClaimedDraftEvents(locked, f, eventIds)
     IN /\ mine # {}
        /\ rows' = locked
        /\ flush' = [flush EXCEPT ![f] = [phase |-> "next", claimed |-> mine, todo |-> mine, state |-> Null]]
        /\ disturbed' = disturbed \cup { k \in Sequence : rows[k].lockedBy # Null /\ released[k].lockedBy = Null }
  /\ UNCHANGED <<version, delivered, shown, faults>>

Current(f) == Min(flush[f].todo)

\* Slip: a row that went out before needs no state again.
PrepareState_once(f) ==
  /\ flush[f].phase = "next"
  /\ flush[f].todo # {}
  /\ flush' = [flush EXCEPT ![f].phase = "emit",
                 ![f].state = IF rows[Current(f)].revision = version /\ delivered[Current(f)] = 0
                                THEN version ELSE Null]
  /\ UNCHANGED <<version, rows, delivered, disturbed, shown, faults>>

\* An authoritative row needs the state: the clock is made ready and the projection
\* read.  A row of an older revision goes out without it.
PrepareState(f) ==
  /\ flush[f].phase = "next"
  /\ flush[f].todo # {}
  /\ flush' = [flush EXCEPT ![f].phase = "emit",
                 ![f].state = IF rows[Current(f)].revision = version THEN version ELSE Null]
  /\ UNCHANGED <<version, rows, delivered, disturbed, shown, faults>>

\* The v1 event and the v2 envelope of the row, with the state if there is one.
EmitEvent(f) ==
  /\ flush[f].phase = "emit"
  /\ delivered' = [delivered EXCEPT ![Current(f)] = IF @ = 0 THEN 1 ELSE 2]
  /\ flush' = [flush EXCEPT ![f].phase = IF flush[f].state = Null THEN "next" ELSE "state",
                            ![f].todo = @ \ {Current(f)}]
  /\ UNCHANGED <<version, rows, disturbed, shown, faults>>

PublishState(f) ==
  /\ flush[f].phase = "state"
  /\ shown' = IF flush[f].state > shown THEN flush[f].state ELSE shown
  /\ flush' = [flush EXCEPT ![f].phase = "next", ![f].state = Null]
  /\ UNCHANGED <<version, rows, delivered, disturbed, faults>>

\* Slip: the lock stays on a published row.
markDraftEventsPublished_locked(f) ==
  [k \in Sequence |-> IF k \in flush[f].claimed THEN [rows[k] EXCEPT !.published = TRUE] ELSE rows[k]]

\* Slip: every row the process has locked is marked.
markDraftEventsPublished_process(f) ==
  [k \in Sequence |-> IF rows[k].lockedBy = ProcessOf[f]
                        THEN [Unlocked(rows[k]) EXCEPT !.published = TRUE] ELSE rows[k]]

markDraftEventsPublished(f) ==
  [k \in Sequence |-> IF k \in flush[f].claimed /\ ~rows[k].published
                        THEN [Unlocked(rows[k]) EXCEPT !.published = TRUE] ELSE rows[k]]

MarkPublished(f) ==
  /\ flush[f].phase = "next"
  /\ flush[f].todo = {}
  /\ rows' = markDraftEventsPublished(f)
  /\ flush' = [flush EXCEPT ![f] = IdleFlush]
  /\ UNCHANGED <<version, delivered, disturbed, shown, faults>>

Fault == faults < MaxFaults /\ faults' = faults + 1

\* Preparing, emitting, broadcasting or marking throws: the rows of the flush are
\* unlocked, whoever holds them by now.
MarkFailed(f) ==
  /\ flush[f].phase # "idle"
  /\ Fault
  /\ rows' = [k \in Sequence |-> IF k \in flush[f].claimed THEN Unlocked(rows[k]) ELSE rows[k]]
  /\ disturbed' = disturbed \cup flush[f].claimed
  /\ flush' = [flush EXCEPT ![f] = IdleFlush]
  /\ UNCHANGED <<version, delivered, shown>>

\* The process dies: its rows stay locked.
Die(p) ==
  /\ \E f \in Flush : ProcessOf[f] = p /\ flush[f].phase # "idle"
  /\ Fault
  /\ disturbed' = disturbed \cup UNION { flush[f].claimed : f \in { g \in Flush : ProcessOf[g] = p } }
  /\ flush' = [f \in Flush |-> IF ProcessOf[f] = p THEN IdleFlush ELSE flush[f]]
  /\ UNCHANGED <<version, rows, delivered, shown>>

Held(k) == \E f \in Flush : k \in flush[f].claimed

\* The claim TTL of a claim runs out: its rows carry the same lockedAt.
Outlived(S) ==
  /\ \E k \in S : rows[k].lockedBy # Null /\ ~rows[k].stale
  /\ rows' = [k \in Sequence |-> IF k \in S /\ rows[k].lockedBy # Null
                                   THEN [rows[k] EXCEPT !.stale = TRUE] ELSE rows[k]]
  /\ UNCHANGED <<version, flush, delivered, disturbed, shown>>

ClaimOutlivesFlush == UNCHANGED faults /\ Outlived({ k \in Sequence : ~Held(k) })

ClaimOutlasts(f) == Fault /\ Outlived(flush[f].claimed)

-------------------------------------------------------------------------------
OutboxInit ==
  /\ version = 0
  /\ rows = [k \in 1..0 |-> Row(Null)]
  /\ flush = [f \in Flush |-> IdleFlush]
  /\ delivered = [k \in 1..0 |-> 0]
  /\ disturbed = {}
  /\ shown = 0
  /\ faults = 0

FlushStep(f) ==
  Claim(f) \/ PrepareState(f) \/ EmitEvent(f) \/ PublishState(f) \/ MarkPublished(f)

OutboxNext ==
  \/ \E n \in 1..2 : AppendEvents(n)
  \/ \E f \in Flush : FlushStep(f) \/ MarkFailed(f) \/ ClaimOutlasts(f)
  \/ \E p \in Process : Die(p)
  \/ ClaimOutlivesFlush

\* The drain loop runs on a timer in every socket server, a flush that has begun goes on
\* unless it fails or dies, and time passes.  A command's flush need never come.
OutboxFairness ==
  /\ \A f \in Drainer : WF_outboxVars(Claim(f))
  /\ \A f \in Flush :
       /\ WF_outboxVars(PrepareState(f)) /\ WF_outboxVars(EmitEvent(f))
       /\ WF_outboxVars(PublishState(f)) /\ WF_outboxVars(MarkPublished(f))
  /\ WF_outboxVars(ClaimOutlivesFlush)

OutboxSpec == OutboxInit /\ [][OutboxNext]_outboxVars /\ OutboxFairness

-------------------------------------------------------------------------------
(* Properties *)

\* Rows, flushes and histories have their shape, and only unpublished rows are claimed.
OutboxTypeOK ==
  /\ version \in 0..MaxRows
  /\ \A k \in Sequence : rows[k] \in [revision : 0..MaxRows \cup {Null}, published : BOOLEAN,
                                      lockedBy : Process \cup {Null}, stale : BOOLEAN]
  /\ flush \in [Flush -> [phase : {"idle", "next", "emit", "state"}, claimed : SUBSET Sequence,
                          todo : SUBSET Sequence, state : 0..MaxRows \cup {Null}]]
  /\ delivered \in [Sequence -> 0..2]
  /\ \A k \in Sequence : (rows[k].published \/ rows[k].stale) => (rows[k].published # (rows[k].lockedBy # Null))

\* A row goes out for the first time only after every earlier row has gone out,
\* whatever flushes fail, die or are overtaken: one claim at a time per draft, taken
\* from the lowest sequence (listPendingDraftEvents).
FirstDeliveryInOrder ==
  [][\A k \in Sequence : (delivered[k] = 0 /\ delivered'[k] > 0) =>
       \A j \in 1..(k - 1) : delivered[j] > 0]_outboxVars

\* No row is marked published that did not go out, although a slow flush marks rows
\* that another one holds by then.
PublishedMeansDelivered ==
  \A k \in Sequence : rows[k].published => delivered[k] > 0

\* A row goes out twice only if a claim on it failed, was dropped or was overtaken:
\* concurrent flushes of one process, too, never share a row.
TwiceOnlyIfDisturbed ==
  \A k \in Sequence : delivered[k] = 2 => k \in disturbed

\* Every committed event goes out and is marked in the end.
NoEventIsLost ==
  \A k \in 1..MaxRows : (k \in Sequence) ~> (k \in Sequence /\ rows[k].published)

\* The state of every revision, or of a newer one, is broadcast in the end.
EveryRevisionIsShown ==
  \A v \in 1..MaxRows : (version = v) ~> (shown >= v)
===============================================================================
