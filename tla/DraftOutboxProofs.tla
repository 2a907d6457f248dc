--------------------------- MODULE DraftOutboxProofs ---------------------------
(***************************************************************************)
(* What the publication of the outbox guarantees for every number of       *)
(* flushes, processes and rows.  A flush publishes from what it has        *)
(* claimed, in three transactions and with none in between; the invariant  *)
(* says what it may still believe of those rows, and that only a disturbed *)
(* row can be in the hands of two flushes.                                 *)
(***************************************************************************)
EXTENDS DraftOutbox, FiniteSetTheorems, TLAPS

USE FlushAssumption, RowAssumption, BoundAssumption

RowRecord == [revision : 0..MaxRows \cup {Null}, published : BOOLEAN,
              lockedBy : Process \cup {Null}, stale : BOOLEAN]

FlushRecord == [phase : {"idle", "next", "emit", "state"}, claimed : SUBSET Sequence,
                todo : SUBSET Sequence, state : 0..MaxRows \cup {Null}]

\* The rows are 1 to their number, and there are at least as many as revisions.
Numbered == \E n \in 0..MaxRows : Sequence = 1..n /\ version \in 0..n

Shape ==
  /\ Numbered
  /\ rows \in [Sequence -> RowRecord]
  /\ flush \in [Flush -> FlushRecord]
  /\ delivered \in [Sequence -> 0..2]
  /\ disturbed \subseteq Sequence

\* Only unpublished rows are claimed, and only claims are stale.
RowsFit ==
  \A k \in Sequence : (rows[k].published \/ rows[k].stale) => (rows[k].published # (rows[k].lockedBy # Null))

\* What flush f believes of its rows: those it is through with are out; all before
\* one of them are out or its own; and those undisturbed are locked for its process,
\* unpublished, and out only if it is through with them.
Believes(f) ==
  LET x == flush[f]
  IN /\ x.phase = "idle" => x.claimed = {}
     /\ x.phase = "emit" => x.todo # {}
     /\ x.todo \subseteq x.claimed
     /\ \A k \in x.claimed \ x.todo : delivered[k] > 0
     /\ \A k \in x.claimed : \A j \in 1..(k - 1) : j \in x.todo \/ delivered[j] > 0
     /\ \A k \in x.todo \ disturbed : delivered[k] = 0
     /\ \A k \in x.claimed \ disturbed : ~rows[k].published /\ rows[k].lockedBy = ProcessOf[f]

OneHolder == \A f, g \in Flush : f # g => flush[f].claimed \cap flush[g].claimed \subseteq disturbed

\* An undisturbed row that is out and not marked is in the hands of a flush.
OutIsHeld ==
  \A k \in Sequence \ disturbed : delivered[k] > 0 /\ ~rows[k].published => Held(k)

OutboxInv ==
  /\ Shape /\ RowsFit
  /\ \A f \in Flush : Believes(f)
  /\ OneHolder /\ OutIsHeld
  /\ PublishedMeansDelivered /\ TwiceOnlyIfDisturbed

-------------------------------------------------------------------------------
(* Rows *)

LEMMA RowsAreNumbers ==
  ASSUME Numbered
  PROVE  /\ Sequence \subseteq Nat /\ IsFiniteSet(Sequence)
         /\ \A k \in Sequence : \A j \in 1..(k - 1) : j \in Sequence
         /\ Cardinality(Sequence) \in 0..MaxRows
         /\ Sequence = 1..Cardinality(Sequence) /\ version \in 0..Cardinality(Sequence)
PROOF
  <1>1. PICK n \in 0..MaxRows : Sequence = 1..n /\ version \in 0..n
    BY DEF Numbered
  <1>2. Cardinality(1..n) = n /\ IsFiniteSet(1..n)
    BY FS_Interval
  <1> QED BY <1>1, <1>2

\* The lowest rows of a set are followed by none that they leave out.
LEMMA LowestIsAPrefix ==
  ASSUME NEW S \in SUBSET Nat, IsFiniteSet(S), NEW n \in Nat, NEW k \in Lowest(S, n)
  PROVE  k \in S /\ \A j \in S : j < k => j \in Lowest(S, n)
PROOF
  <1>1. k \in S /\ Cardinality({ j \in S : j < k }) < n
    BY DEF Lowest
  <1>2. ASSUME NEW i \in S, i < k
        PROVE  i \in Lowest(S, n)
    <2> DEFINE below(x) == { j \in S : j < x }
    <2>0. i \in Nat /\ k \in Nat /\ \A j \in S : j \in Nat
      BY <1>1, <1>2
    <2>a. ASSUME NEW j \in below(i)
          PROVE  j \in below(k)
      <3>1. j \in S /\ j \in Nat /\ j < i
        BY <2>0
      <3> QED BY <1>2, <2>0, <3>1
    <2>1. below(i) \subseteq below(k) /\ below(k) \subseteq S
      BY <2>a
    <2>2. IsFiniteSet(below(k)) /\ IsFiniteSet(below(i))
      BY <2>1, FS_Subset
    <2>3. Cardinality(below(i)) <= Cardinality(below(k))
      BY <2>1, <2>2, FS_Subset
    <2>4. Cardinality(below(i)) \in Nat /\ Cardinality(below(k)) \in Nat
      BY <2>2, FS_CardinalityType
    <2>5. Cardinality(below(i)) < n
      BY <1>1, <2>3, <2>4
    <2> QED BY <1>2, <2>5 DEF Lowest
  <1> QED BY <1>1, <1>2

LEMMA StaleIsLocked ==
  ASSUME Shape, RowsFit, NEW k \in Sequence
  PROVE  /\ rows[k].published => rows[k].lockedBy = Null
         /\ ~rows[k].published /\ rows[k].stale => rows[k].lockedBy # Null
PROOF
  <1>1. rows[k].published \in BOOLEAN /\ rows[k].stale \in BOOLEAN
    BY DEF Shape, RowRecord
  <1> QED BY <1>1, Zenon DEF RowsFit

\* A claim takes unpublished rows that nobody has locked, or whose lock was stale,
\* and of the unpublished rows the first; what was stale is disturbed from now on.
LEMMA ClaimTakes ==
  ASSUME OutboxInv, NEW f \in Flush, Claim(f)
  PROVE  \E mine \in SUBSET Sequence :
           /\ \A k \in mine : ~rows[k].published /\ (rows[k].lockedBy = Null \/ rows[k].stale)
           /\ \A k \in mine : \A j \in 1..(k - 1) : j \in mine \/ rows[j].published
           /\ rows' = [k \in Sequence |->
                         IF k \in mine THEN [Unlocked(rows[k]) EXCEPT !.lockedBy = ProcessOf[f]]
                         ELSE IF ~rows[k].published /\ rows[k].stale THEN Unlocked(rows[k]) ELSE rows[k]]
           /\ flush' = [flush EXCEPT ![f] = [phase |-> "next", claimed |-> mine, todo |-> mine,
                                             state |-> Null]]
           /\ disturbed \subseteq disturbed' /\ disturbed' \subseteq Sequence
           /\ \A k \in Sequence : ~rows[k].published /\ rows[k].stale => k \in disturbed'
PROOF
  <1> DEFINE released == releaseStaleDraftEventClaims
             pending == listPendingDraftEvents(released)
             eventIds == IF f \in Drainer THEN Lowest(pending, Limit) ELSE pending
             locked == [k \in Sequence |-> IF k \in eventIds
                          THEN [released[k] EXCEPT !.lockedBy = ProcessOf[f]] ELSE released[k]]
             mine == listClaimedDraftEvents(locked, f, eventIds)
  <1>1. /\ rows' = locked
        /\ flush' = [flush EXCEPT ![f] = [phase |-> "next", claimed |-> mine, todo |-> mine, state |-> Null]]
        /\ disturbed' = disturbed \cup { k \in Sequence : rows[k].lockedBy # Null /\ released[k].lockedBy = Null }
    BY DEF Claim
  <1>2. /\ \A k \in Sequence : rows[k] \in RowRecord
        /\ Sequence \subseteq Nat /\ IsFiniteSet(Sequence)
        /\ \A k \in Sequence : \A j \in 1..(k - 1) : j \in Sequence
    BY RowsAreNumbers DEF OutboxInv, Shape
  <1>3. \A k \in Sequence : released[k] = IF ~rows[k].published /\ rows[k].stale
                                           THEN Unlocked(rows[k]) ELSE rows[k]
    BY DEF releaseStaleDraftEventClaims
  <1>4. ASSUME NEW k \in Sequence
        PROVE  /\ released[k] \in RowRecord
               /\ released[k].published = rows[k].published
               /\ released[k].lockedBy = Null => rows[k].lockedBy = Null \/ rows[k].stale
               /\ ~rows[k].published /\ rows[k].stale => released[k].lockedBy = Null
    BY <1>2, <1>3 DEF Unlocked, RowRecord
  <1> HIDE DEF released
  <1>5. pending = {} \/ (/\ pending = { k \in Sequence : ~rows[k].published }
                         /\ \A k \in pending : released[k].lockedBy = Null)
    <2>1. { k \in Sequence : ~released[k].published } = { k \in Sequence : ~rows[k].published }
      BY <1>4
    <2> QED BY <2>1 DEF listPendingDraftEvents
  <1> HIDE DEF pending
  <1>6. /\ pending \subseteq Sequence /\ IsFiniteSet(pending) /\ pending \subseteq Nat
    BY <1>2, <1>5, FS_Subset, FS_EmptySet
  <1>7. eventIds \subseteq pending /\ \A k \in eventIds : \A j \in pending : j < k => j \in eventIds
    <2>1. CASE f \in Drainer
      BY <1>6, <2>1, LowestIsAPrefix
    <2>2. CASE f \notin Drainer
      BY <2>2
    <2> QED BY <2>1, <2>2
  <1> HIDE DEF eventIds
  <1>8. ASSUME NEW k \in eventIds
        PROVE  /\ k \in Sequence /\ ~rows[k].published /\ released[k].lockedBy = Null
               /\ locked[k] = [released[k] EXCEPT !.lockedBy = ProcessOf[f]]
    BY <1>5, <1>7
  <1>9. mine = eventIds
    <2>1. ASSUME NEW k \in eventIds
          PROVE  ~locked[k].published /\ locked[k].lockedBy = ProcessOf[f]
      <3>1. k \in Sequence /\ released[k] \in RowRecord /\ ~released[k].published
        BY <1>4, <1>8
      <3> QED BY <1>8, <3>1 DEF RowRecord
    <2> QED BY <2>1 DEF listClaimedDraftEvents
  <1> HIDE DEF mine
  <1>10. ASSUME NEW k \in mine, NEW j \in 1..(k - 1), ~rows[j].published
         PROVE  j \in mine
    <2>0. k \in Sequence
      BY <1>8, <1>9
    <2>1. k \in Sequence /\ j \in Sequence /\ j \in Nat /\ k \in Nat /\ j < k
      BY <1>2, <2>0
    <2>2. j \in pending
      BY <1>5, <1>7, <1>9, <1>10, <2>1
    <2> QED BY <1>7, <1>9, <2>1, <2>2
  <1>11. ASSUME NEW k \in Sequence
         PROVE  rows'[k] = IF k \in mine THEN [Unlocked(rows[k]) EXCEPT !.lockedBy = ProcessOf[f]]
                           ELSE IF ~rows[k].published /\ rows[k].stale THEN Unlocked(rows[k]) ELSE rows[k]
    <2>0. /\ k \notin mine => rows'[k] = released[k]
          /\ k \in mine => rows'[k] = [released[k] EXCEPT !.lockedBy = ProcessOf[f]]
      BY <1>1, <1>9
    <2>1. CASE k \notin mine
      BY <1>3, <2>0, <2>1
    <2>2. CASE k \in mine /\ rows[k].stale
      BY <1>3, <1>8, <1>9, <2>0, <2>2
    <2>3. CASE k \in mine /\ ~rows[k].stale
      <3>1. rows[k].lockedBy = Null /\ rows[k].stale = FALSE /\ rows[k] \in RowRecord
        BY <1>2, <1>4, <1>8, <1>9, <2>3 DEF RowRecord
      <3>2. Unlocked(rows[k]) = rows[k]
        BY <3>1 DEF Unlocked, RowRecord
      <3> QED BY <1>3, <2>0, <2>3, <3>2
    <2> QED BY <2>1, <2>2, <2>3
  <1>12. ASSUME NEW k \in Sequence, ~rows[k].published, rows[k].stale
         PROVE  k \in disturbed'
    <2>1. released[k].lockedBy = Null
      BY <1>4, <1>12
    <2>2. rows[k].lockedBy # Null
      BY <1>12, StaleIsLocked DEF OutboxInv
    <2> QED BY <1>1, <2>1, <2>2
  <1>13. /\ \A k \in mine : ~rows[k].published /\ (rows[k].lockedBy = Null \/ rows[k].stale)
         /\ mine \subseteq Sequence
    BY <1>4, <1>8, <1>9
  <1>14. disturbed \subseteq disturbed' /\ disturbed' \subseteq Sequence
    BY <1>1 DEF OutboxInv, Shape
  <1>15. rows' = [k \in Sequence |->
                    IF k \in mine THEN [Unlocked(rows[k]) EXCEPT !.lockedBy = ProcessOf[f]]
                    ELSE IF ~rows[k].published /\ rows[k].stale THEN Unlocked(rows[k]) ELSE rows[k]]
    BY <1>1, <1>11
  <1> QED BY <1>1, <1>10, <1>12, <1>13, <1>14, <1>15

-------------------------------------------------------------------------------
(* Flushes *)

\* The rows stay the same rows.
LEMMA ShapeAgain ==
  ASSUME Numbered, Sequence' = Sequence, version' = version,
         rows' \in [Sequence -> RowRecord], flush' \in [Flush -> FlushRecord],
         delivered' \in [Sequence -> 0..2], disturbed' \subseteq Sequence
  PROVE  Shape'
BY DEF Shape, Numbered, FlushRecord, RowRecord

\* What a flush believes stays true when its rows are left alone or are disturbed,
\* and rows go out.
LEMMA BelievesStill ==
  ASSUME Shape, Sequence \subseteq Sequence', NEW f \in Flush, Believes(f), flush'[f] = flush[f],
         disturbed \subseteq disturbed',
         \A k \in Sequence : delivered[k] > 0 => delivered'[k] > 0,
         \A k \in flush[f].todo \ disturbed' : delivered'[k] = delivered[k],
         \A k \in flush[f].claimed \ disturbed' :
            rows'[k].published = rows[k].published /\ rows'[k].lockedBy = rows[k].lockedBy
  PROVE  Believes(f)'
PROOF
  <1> DEFINE x == flush[f]
  <1>1. /\ x.claimed \subseteq Sequence /\ x.todo \subseteq Sequence
        /\ \A k \in Sequence : \A j \in 1..(k - 1) : j \in Sequence
    BY RowsAreNumbers DEF Shape, FlushRecord
  <1>2. ASSUME NEW k \in x.claimed \ x.todo
        PROVE  delivered'[k] > 0
    BY <1>1, <1>2 DEF Believes
  <1>3. ASSUME NEW k \in x.claimed, NEW j \in 1..(k - 1)
        PROVE  j \in x.todo \/ delivered'[j] > 0
    BY <1>1, <1>3 DEF Believes
  <1>4. ASSUME NEW k \in x.todo \ disturbed'
        PROVE  delivered'[k] = 0
    BY <1>4 DEF Believes
  <1>5. ASSUME NEW k \in x.claimed \ disturbed'
        PROVE  ~rows'[k].published /\ rows'[k].lockedBy = ProcessOf[f]
    BY <1>5 DEF Believes
  <1> QED BY <1>2, <1>3, <1>4, <1>5 DEF Believes

\* The histories after a step that delivers nothing and marks nothing.
LEMMA HistoriesStay ==
  ASSUME PublishedMeansDelivered, TwiceOnlyIfDisturbed,
         Sequence' = Sequence, delivered' = delivered, disturbed \subseteq disturbed',
         \A k \in Sequence : rows'[k].published => rows[k].published
  PROVE  (PublishedMeansDelivered /\ TwiceOnlyIfDisturbed)'
BY DEF PublishedMeansDelivered, TwiceOnlyIfDisturbed

LEMMA AppendKeeps ==
  ASSUME OutboxInv, NEW n \in 1..2, AppendEvents(n)
  PROVE  OutboxInv'
PROOF
  <1> DEFINE len == Cardinality(Sequence)
             last == len + n
  <1>1. /\ len \in 0..MaxRows /\ Sequence = 1..len /\ version \in 0..len /\ last \in 0..MaxRows
        /\ version' = version + 1 /\ version' \in 0..last
    BY RowsAreNumbers DEF OutboxInv, Shape, AppendEvents
  <1>2. /\ rows' = [k \in 1..last |-> IF k \in Sequence THEN rows[k]
                                      ELSE Row(IF k = last THEN version + 1 ELSE Null)]
        /\ delivered' = [k \in 1..last |-> IF k \in Sequence THEN delivered[k] ELSE 0]
        /\ UNCHANGED <<flush, disturbed>>
    BY DEF AppendEvents
  <1> HIDE DEF len
  <1>3. Sequence' = 1..last /\ Sequence \subseteq Sequence'
    <2>1. Sequence' = 1..last
      BY <1>2 DEF Sequence
    <2>2. 1..len \subseteq 1..last
      BY <1>1
    <2> QED BY <1>1, <2>1, <2>2
  <1>4. ASSUME NEW k \in Sequence
        PROVE  rows'[k] = rows[k] /\ delivered'[k] = delivered[k]
    BY <1>1, <1>2, <1>3
  <1>5. ASSUME NEW k \in Sequence', k \notin Sequence
        PROVE  /\ rows'[k] \in RowRecord /\ delivered'[k] = 0
               /\ ~rows'[k].published /\ ~rows'[k].stale
    <2>1. rows'[k] = Row(IF k = last THEN version + 1 ELSE Null) /\ delivered'[k] = 0
      BY <1>2, <1>3, <1>5
    <2>2. (IF k = last THEN version + 1 ELSE Null) \in 0..MaxRows \cup {Null}
      BY <1>1
    <2> QED BY <2>1, <2>2 DEF Row, RowRecord
  <1>6. Shape'
    <2>1. \A k \in Sequence' : rows'[k] \in RowRecord /\ delivered'[k] \in 0..2
      BY <1>4, <1>5 DEF OutboxInv, Shape
    <2>2. rows' \in [Sequence' -> RowRecord] /\ delivered' \in [Sequence' -> 0..2]
      BY <1>2, <1>3, <2>1
    <2>3. flush' \in [Flush -> FlushRecord'] /\ disturbed' \subseteq Sequence'
      BY <1>2, <1>3 DEF OutboxInv, Shape, FlushRecord
    <2> QED BY <1>1, <1>3, <2>2, <2>3 DEF Shape, Numbered, RowRecord
  <1>7. ASSUME NEW f \in Flush
        PROVE  Believes(f)'
    <2>1. flush[f].claimed \subseteq Sequence /\ flush[f].todo \subseteq Sequence
      BY DEF OutboxInv, Shape, FlushRecord
    <2> QED BY <1>2, <1>3, <1>4, <2>1, BelievesStill DEF OutboxInv
  <1>8. RowsFit'
    BY <1>4, <1>5 DEF OutboxInv, RowsFit
  <1>9. OneHolder'
    BY <1>2 DEF OutboxInv, OneHolder
  <1>10. OutIsHeld'
    BY <1>2, <1>4, <1>5 DEF OutboxInv, OutIsHeld, Held
  <1>11. PublishedMeansDelivered' /\ TwiceOnlyIfDisturbed'
    <2>1. ASSUME NEW k \in Sequence'
          PROVE  /\ rows'[k].published => delivered'[k] > 0
                 /\ delivered'[k] = 2 => k \in disturbed'
      <3>1. CASE k \in Sequence
        BY <1>2, <1>4, <3>1 DEF OutboxInv, PublishedMeansDelivered, TwiceOnlyIfDisturbed
      <3>2. CASE k \notin Sequence
        BY <1>5, <2>1, <3>2
      <3> QED BY <3>1, <3>2
    <2> QED BY <2>1 DEF PublishedMeansDelivered, TwiceOnlyIfDisturbed
  <1> QED BY <1>6, <1>7, <1>8, <1>9, <1>10, <1>11 DEF OutboxInv

LEMMA ClaimKeeps ==
  ASSUME OutboxInv, NEW f \in Flush, Claim(f)
  PROVE  OutboxInv'
PROOF
  <1>1. PICK mine \in SUBSET Sequence :
           /\ \A k \in mine : ~rows[k].published /\ (rows[k].lockedBy = Null \/ rows[k].stale)
           /\ \A k \in mine : \A j \in 1..(k - 1) : j \in mine \/ rows[j].published
           /\ rows' = [k \in Sequence |->
                         IF k \in mine THEN [Unlocked(rows[k]) EXCEPT !.lockedBy = ProcessOf[f]]
                         ELSE IF ~rows[k].published /\ rows[k].stale THEN Unlocked(rows[k]) ELSE rows[k]]
           /\ flush' = [flush EXCEPT ![f] = [phase |-> "next", claimed |-> mine, todo |-> mine,
                                             state |-> Null]]
           /\ disturbed \subseteq disturbed' /\ disturbed' \subseteq Sequence
           /\ \A k \in Sequence : ~rows[k].published /\ rows[k].stale => k \in disturbed'
    BY ClaimTakes
  <1>2. UNCHANGED <<version, delivered>> /\ flush[f].phase = "idle"
    BY DEF Claim
  <1>3. Sequence' = Sequence
    BY <1>1 DEF Sequence
  <1>4. ASSUME NEW k \in Sequence
        PROVE  /\ rows[k] \in RowRecord /\ rows'[k] \in RowRecord
               /\ rows'[k].published = rows[k].published
               /\ k \in mine => rows'[k].lockedBy = ProcessOf[f] /\ rows'[k].stale = FALSE
               /\ k \notin mine /\ ~rows[k].published /\ rows[k].stale => rows'[k].stale = FALSE
               /\ k \notin mine /\ ~(~rows[k].published /\ rows[k].stale) => rows'[k] = rows[k]
    BY <1>1 DEF OutboxInv, Shape, Unlocked, RowRecord
  <1>5. /\ flush'[f].claimed = mine /\ flush'[f].todo = mine /\ flush'[f].phase = "next"
        /\ flush' \in [Flush -> FlushRecord] /\ \A g \in Flush : g # f => flush'[g] = flush[g]
    BY <1>1 DEF OutboxInv, Shape, FlushRecord
  <1>6. \A g \in Flush : flush[g].claimed \subseteq Sequence /\ flush[g].todo \subseteq flush[g].claimed
    BY DEF OutboxInv, Shape, FlushRecord, Believes
  <1>7. Shape'
    BY <1>1, <1>2, <1>3, <1>4, <1>5, ShapeAgain DEF OutboxInv, Shape
  \* A row that is not stale and in another flush's hands, undisturbed, is locked.
  <1>8. ASSUME NEW g \in Flush, g # f, NEW k \in flush[g].claimed \ disturbed'
        PROVE  k \in Sequence /\ k \notin mine /\ rows'[k] = rows[k]
    <2>1. k \in Sequence /\ k \notin disturbed
      BY <1>1, <1>6, <1>8
    <2>2. ~rows[k].published /\ rows[k].lockedBy = ProcessOf[g] /\ ProcessOf[g] # Null
      BY <1>8, <2>1 DEF OutboxInv, Believes
    <2>3. ~rows[k].stale
      BY <1>1, <1>8, <2>1, <2>2
    <2>4. k \notin mine
      BY <1>1, <2>2, <2>3
    <2> QED BY <1>4, <2>1, <2>3, <2>4
  <1>9. ASSUME NEW g \in Flush, g # f
        PROVE  Believes(g)'
    BY <1>1, <1>2, <1>3, <1>5, <1>6, <1>8, <1>9, BelievesStill DEF OutboxInv
  <1>10. ASSUME NEW k \in mine \ disturbed'
         PROVE  delivered[k] = 0
    <2>1. /\ k \in Sequence \ disturbed /\ ~rows[k].published /\ ~rows[k].stale /\ rows[k].lockedBy = Null
      BY <1>1, <1>10
    <2>2. \A g \in Flush : k \notin flush[g].claimed
      BY <2>1 DEF OutboxInv, Believes
    <2>3. ~(delivered[k] > 0) /\ delivered[k] \in 0..2
      BY <2>1, <2>2 DEF OutboxInv, OutIsHeld, Held, Shape
    <2> QED BY <2>3
  <1>11. Believes(f)'
    <2>1. ASSUME NEW k \in mine, NEW j \in 1..(k - 1)
          PROVE  j \in mine \/ delivered'[j] > 0
      <3>1. j \in Sequence
        BY <1>1, RowsAreNumbers DEF OutboxInv, Shape
      <3> QED BY <1>1, <1>2, <2>1, <3>1 DEF OutboxInv, PublishedMeansDelivered
    <2>2. ASSUME NEW k \in mine
          PROVE  ~rows'[k].published /\ rows'[k].lockedBy = ProcessOf[f]
      BY <1>1, <1>4
    <2> QED BY <1>2, <1>5, <1>10, <2>1, <2>2 DEF Believes
  <1>12. RowsFit'
    <2>1. ASSUME NEW k \in Sequence
          PROVE  (rows'[k].published \/ rows'[k].stale) => (rows'[k].published # (rows'[k].lockedBy # Null))
      <3>1. CASE k \in mine
        BY <1>1, <1>4, <3>1 DEF RowRecord
      <3>2. CASE k \notin mine /\ ~rows[k].published /\ rows[k].stale
        BY <1>4, <3>2 DEF RowRecord
      <3>3. CASE k \notin mine /\ ~(~rows[k].published /\ rows[k].stale)
        BY <1>4, <3>3 DEF OutboxInv, RowsFit
      <3> QED BY <3>1, <3>2, <3>3
    <2> QED BY <1>3, <2>1 DEF RowsFit
  <1>13. OneHolder'
    <2>1. ASSUME NEW g \in Flush, g # f
          PROVE  mine \cap flush[g].claimed \subseteq disturbed'
      BY <1>8, <2>1
    <2> QED BY <1>1, <1>5, <2>1 DEF OutboxInv, OneHolder
  <1>14. OutIsHeld'
    <2>1. ASSUME NEW k \in Sequence \ disturbed', delivered'[k] > 0, ~rows'[k].published
          PROVE  \E g \in Flush : k \in flush'[g].claimed
      <3>1. PICK g \in Flush : k \in flush[g].claimed
        BY <1>1, <1>2, <1>4, <2>1 DEF OutboxInv, OutIsHeld, Held
      <3>2. g # f
        BY <1>2, <3>1 DEF OutboxInv, Believes
      <3> QED BY <1>5, <3>1, <3>2
    <2> QED BY <1>3, <2>1 DEF OutIsHeld, Held
  <1>15. (PublishedMeansDelivered /\ TwiceOnlyIfDisturbed)'
    BY <1>1, <1>2, <1>3, <1>4, HistoriesStay DEF OutboxInv
  <1> QED BY <1>7, <1>9, <1>11, <1>12, <1>13, <1>14, <1>15 DEF OutboxInv

\* A flush that only looks at the draft or shows its state keeps its rows.
LEMMA LookingKeeps ==
  ASSUME OutboxInv, NEW f \in Flush, flush[f].phase # "idle",
         NEW next \in FlushRecord, flush' = [flush EXCEPT ![f] = next],
         next.claimed = flush[f].claimed, next.todo = flush[f].todo, next.phase # "idle",
         next.phase = "emit" => next.todo # {},
         UNCHANGED <<version, rows, delivered, disturbed>>
  PROVE  OutboxInv'
PROOF
  <1>1. /\ flush'[f] = next /\ flush' \in [Flush -> FlushRecord]
        /\ \A g \in Flush : g # f => flush'[g] = flush[g]
    BY DEF OutboxInv, Shape
  <1>2. Sequence' = Sequence
    BY DEF Sequence
  <1>3. \A g \in Flush : flush'[g].claimed = flush[g].claimed
    BY <1>1
  <1>4. Shape'
    BY <1>1, <1>2, ShapeAgain DEF OutboxInv, Shape
  <1>5. Believes(f)'
    BY <1>1 DEF OutboxInv, Believes
  <1>6. ASSUME NEW g \in Flush, g # f
        PROVE  Believes(g)'
    BY <1>1, <1>6 DEF OutboxInv, Believes
  <1>7. RowsFit' /\ OneHolder' /\ OutIsHeld'
    BY <1>2, <1>3 DEF OutboxInv, RowsFit, OneHolder, OutIsHeld, Held
  <1>8. (PublishedMeansDelivered /\ TwiceOnlyIfDisturbed)'
    BY <1>2, HistoriesStay DEF OutboxInv
  <1> QED BY <1>4, <1>5, <1>6, <1>7, <1>8 DEF OutboxInv

LEMMA PrepareKeeps ==
  ASSUME OutboxInv, NEW f \in Flush, PrepareState(f)
  PROVE  OutboxInv'
PROOF
  <1> DEFINE seen == IF rows[Current(f)].revision = version THEN version ELSE Null
             next == [flush[f] EXCEPT !.phase = "emit", !.state = seen]
  <1>1. /\ flush[f].phase = "next" /\ flush[f].todo # {} /\ flush' = [flush EXCEPT ![f] = next]
        /\ UNCHANGED <<version, rows, delivered, disturbed>>
    BY DEF PrepareState
  <1>2. version \in 0..MaxRows /\ flush[f] \in FlushRecord
    BY DEF OutboxInv, Shape, Numbered
  <1>3. seen \in 0..MaxRows \cup {Null}
    BY <1>2
  <1> HIDE DEF seen
  <1>4. next \in FlushRecord /\ next.claimed = flush[f].claimed /\ next.todo = flush[f].todo
        /\ next.phase = "emit"
    BY <1>2, <1>3 DEF FlushRecord
  <1> QED BY <1>1, <1>4, LookingKeeps

LEMMA ShowKeeps ==
  ASSUME OutboxInv, NEW f \in Flush, PublishState(f)
  PROVE  OutboxInv'
PROOF
  <1> DEFINE next == [flush[f] EXCEPT !.phase = "next", !.state = Null]
  <1>1. /\ flush[f].phase = "state" /\ flush' = [flush EXCEPT ![f] = next]
        /\ UNCHANGED <<version, rows, delivered, disturbed>>
    BY DEF PublishState
  <1>2. flush[f] \in FlushRecord
    BY DEF OutboxInv, Shape
  <1>3. next \in FlushRecord /\ next.claimed = flush[f].claimed /\ next.todo = flush[f].todo
        /\ next.phase = "next"
    BY <1>2 DEF FlushRecord
  <1> QED BY <1>1, <1>3, LookingKeeps

LEMMA LeastExists ==
  ASSUME NEW S \in SUBSET Nat, S # {}
  PROVE  Min(S) \in S /\ \A j \in S : Min(S) <= j
PROOF
  <1> DEFINE Less == { pair \in Nat \X Nat : pair[1] < pair[2] }
  <1>1. IsWellFoundedOn(Less, Nat)
    BY NatLessThanWellFounded DEF OpToRel
  <1>2. PICK least \in S : \A n \in S : <<n, least>> \notin Less
    <2> HIDE DEF Less
    <2> QED BY <1>1, WFMin
  <1>3. ASSUME NEW n \in S
        PROVE  least <= n
    <2>1. n \in Nat /\ least \in Nat /\ <<n, least>> \in Nat \X Nat
      OBVIOUS
    <2>2. <<n, least>>[1] = n /\ <<n, least>>[2] = least
      OBVIOUS
    <2>3. ~(n < least)
      BY <1>2, <2>1, <2>2, Zenon
    <2> QED BY <2>1, <2>3
  <1> QED BY <1>3 DEF Min

\* The row that goes out next: all rows before it are out.
LEMMA NextIsFirst ==
  ASSUME OutboxInv, NEW f \in Flush, flush[f].todo # {}
  PROVE  /\ Current(f) \in flush[f].todo /\ Current(f) \in Sequence
         /\ \A j \in 1..(Current(f) - 1) : j \in Sequence /\ delivered[j] > 0
PROOF
  <1> DEFINE k == Current(f)
  <1>1. flush[f].todo \subseteq Sequence /\ Sequence \subseteq Nat
    BY RowsAreNumbers DEF OutboxInv, Shape, FlushRecord
  <1>2. k \in flush[f].todo /\ \A j \in flush[f].todo : k <= j
    BY <1>1, LeastExists DEF Current
  <1> HIDE DEF k
  <1>3. k \in Sequence /\ k \in Nat /\ k \in flush[f].claimed
    BY <1>1, <1>2 DEF OutboxInv, Believes
  <1>4. ASSUME NEW j \in 1..(k - 1)
        PROVE  j \in Sequence /\ delivered[j] > 0
    <2>1. j \in Sequence
      BY <1>3, RowsAreNumbers DEF OutboxInv, Shape
    <2>2. j \notin flush[f].todo
      BY <1>2, <1>3
    <2> QED BY <1>3, <2>1, <2>2 DEF OutboxInv, Believes
  <1> QED BY <1>2, <1>3, <1>4 DEF k

LEMMA EmitKeeps ==
  ASSUME OutboxInv, NEW f \in Flush, EmitEvent(f)
  PROVE  OutboxInv'
PROOF
  <1> DEFINE k == Current(f)
             next == [flush[f] EXCEPT !.phase = IF flush[f].state = Null THEN "next" ELSE "state",
                                      !.todo = @ \ {k}]
  <1>1. /\ flush[f].phase = "emit" /\ flush' = [flush EXCEPT ![f] = next]
        /\ delivered' = [delivered EXCEPT ![k] = IF @ = 0 THEN 1 ELSE 2]
        /\ UNCHANGED <<version, rows, disturbed>>
    BY DEF EmitEvent
  <1>2. flush[f].todo # {} /\ flush[f].todo \subseteq flush[f].claimed
    BY <1>1 DEF OutboxInv, Believes
  <1>3. k \in flush[f].todo /\ k \in Sequence /\ \A j \in 1..(k - 1) : delivered[j] > 0
    BY <1>2, NextIsFirst
  <1> HIDE DEF k
  <1>4. flush[f] \in FlushRecord
    BY DEF OutboxInv, Shape
  <1>5. /\ next \in FlushRecord /\ next.claimed = flush[f].claimed /\ next.todo = flush[f].todo \ {k}
        /\ next.phase \in {"next", "state"}
    BY <1>4 DEF FlushRecord
  <1> HIDE DEF next
  <1>6. /\ flush'[f] = next /\ flush' \in [Flush -> FlushRecord]
        /\ \A g \in Flush : g # f => flush'[g] = flush[g]
    BY <1>1, <1>5 DEF OutboxInv, Shape
  <1>7. Sequence' = Sequence
    BY <1>1 DEF Sequence
  <1>8. \A g \in Flush : flush'[g].claimed = flush[g].claimed
    BY <1>5, <1>6
  <1>9. /\ delivered' \in [Sequence -> 0..2] /\ delivered'[k] > 0
        /\ \A j \in Sequence : j # k => delivered'[j] = delivered[j]
        /\ \A j \in Sequence : delivered[j] > 0 => delivered'[j] > 0
        /\ delivered'[k] = 2 => delivered[k] > 0
    BY <1>1, <1>3 DEF OutboxInv, Shape
  <1>10. Shape'
    BY <1>1, <1>6, <1>7, <1>9, ShapeAgain DEF OutboxInv, Shape
  <1>11. Believes(f)'
    <2>1. flush[f].claimed \subseteq Sequence
      BY <1>4 DEF FlushRecord
    <2>2. ASSUME NEW j \in next.claimed \ next.todo
          PROVE  delivered'[j] > 0
      BY <1>5, <1>9, <2>1, <2>2 DEF OutboxInv, Believes
    <2>3. ASSUME NEW i \in next.claimed, NEW j \in 1..(i - 1)
          PROVE  j \in next.todo \/ delivered'[j] > 0
      <3>1. j \in Sequence
        BY <1>5, <2>1, RowsAreNumbers DEF OutboxInv, Shape
      <3> QED BY <1>5, <1>9, <2>3, <3>1 DEF OutboxInv, Believes
    <2>4. ASSUME NEW j \in next.todo \ disturbed
          PROVE  delivered'[j] = 0
      BY <1>2, <1>5, <1>9, <2>1, <2>4 DEF OutboxInv, Believes
    <2>5. ASSUME NEW j \in next.claimed \ disturbed
          PROVE  ~rows'[j].published /\ rows'[j].lockedBy = ProcessOf[f]
      BY <1>1, <1>5, <2>5 DEF OutboxInv, Believes
    <2> QED BY <1>1, <1>2, <1>5, <1>6, <2>2, <2>3, <2>4, <2>5 DEF Believes
  <1>12. ASSUME NEW g \in Flush, g # f
         PROVE  Believes(g)'
    <2>1. flush[g].todo \subseteq Sequence /\ flush[g].todo \subseteq flush[g].claimed
      BY DEF OutboxInv, Shape, FlushRecord, Believes
    <2>2. k \notin flush[g].todo \ disturbed
      BY <1>2, <1>3, <1>12, <2>1 DEF OutboxInv, OneHolder
    <2>3. \A j \in flush[g].todo \ disturbed' : delivered'[j] = delivered[j]
      BY <1>1, <1>9, <2>1, <2>2
    <2> QED BY <1>1, <1>6, <1>7, <1>9, <1>12, <2>3, BelievesStill DEF OutboxInv
  <1>13. RowsFit' /\ OneHolder'
    BY <1>1, <1>7, <1>8 DEF OutboxInv, RowsFit, OneHolder
  <1>14. OutIsHeld'
    <2>1. ASSUME NEW j \in Sequence \ disturbed, delivered'[j] > 0, ~rows[j].published
          PROVE  \E g \in Flush : j \in flush[g].claimed
      <3>1. CASE j = k
        BY <1>2, <1>3, <3>1
      <3>2. CASE j # k
        BY <1>9, <2>1, <3>2 DEF OutboxInv, OutIsHeld, Held
      <3> QED BY <3>1, <3>2
    <2> QED BY <1>1, <1>7, <1>8, <2>1 DEF OutIsHeld, Held
  <1>15. PublishedMeansDelivered'
    BY <1>1, <1>7, <1>9 DEF OutboxInv, PublishedMeansDelivered
  <1>16. TwiceOnlyIfDisturbed'
    <2>1. ASSUME delivered'[k] = 2
          PROVE  k \in disturbed
      <3>1. delivered[k] > 0
        BY <1>9, <2>1
      <3> QED BY <1>3, <3>1 DEF OutboxInv, Believes
    <2> QED BY <1>1, <1>7, <1>9, <2>1 DEF OutboxInv, TwiceOnlyIfDisturbed
  <1> QED BY <1>6, <1>10, <1>11, <1>12, <1>13, <1>14, <1>15, <1>16 DEF OutboxInv

LEMMA MarkKeeps ==
  ASSUME OutboxInv, NEW f \in Flush, MarkPublished(f)
  PROVE  OutboxInv'
PROOF
  <1> DEFINE mine == flush[f].claimed
  <1>1. /\ flush[f].todo = {} /\ flush' = [flush EXCEPT ![f] = IdleFlush]
        /\ rows' = [k \in Sequence |-> IF k \in mine /\ ~rows[k].published
                                        THEN [Unlocked(rows[k]) EXCEPT !.published = TRUE] ELSE rows[k]]
        /\ UNCHANGED <<version, delivered, disturbed>>
    BY DEF MarkPublished, markDraftEventsPublished
  <1>2. /\ IdleFlush \in FlushRecord /\ IdleFlush.claimed = {} /\ IdleFlush.todo = {}
        /\ IdleFlush.phase = "idle"
    BY DEF IdleFlush, FlushRecord
  <1>3. /\ flush'[f] = IdleFlush /\ flush' \in [Flush -> FlushRecord]
        /\ \A g \in Flush : g # f => flush'[g] = flush[g]
    BY <1>1, <1>2 DEF OutboxInv, Shape
  <1>4. Sequence' = Sequence
    BY <1>1 DEF Sequence
  <1>5. ASSUME NEW k \in Sequence
        PROVE  /\ rows[k] \in RowRecord /\ rows'[k] \in RowRecord
               /\ k \in mine => rows'[k].published
               /\ k \in mine /\ ~rows[k].published => rows'[k].lockedBy = Null /\ rows'[k].published = TRUE
               /\ ~(k \in mine /\ ~rows[k].published) => rows'[k] = rows[k]
    BY <1>1 DEF OutboxInv, Shape, Unlocked, RowRecord
  <1>6. \A g \in Flush : flush[g].claimed \subseteq Sequence
    BY DEF OutboxInv, Shape, FlushRecord
  <1>7. Shape'
    BY <1>1, <1>3, <1>4, <1>5, ShapeAgain DEF OutboxInv, Shape
  <1>8. Believes(f)'
    BY <1>2, <1>3 DEF Believes
  <1>9. ASSUME NEW g \in Flush, g # f
        PROVE  Believes(g)'
    <2>1. ASSUME NEW k \in flush[g].claimed \ disturbed
          PROVE  rows'[k] = rows[k]
      <3>1. k \in Sequence /\ k \notin mine
        BY <1>6, <1>9, <2>1 DEF OutboxInv, OneHolder
      <3> QED BY <1>5, <3>1
    <2> QED BY <1>1, <1>3, <1>4, <1>9, <2>1, BelievesStill DEF OutboxInv
  <1>10. RowsFit'
    <2>1. ASSUME NEW k \in Sequence
          PROVE  (rows'[k].published \/ rows'[k].stale) => (rows'[k].published # (rows'[k].lockedBy # Null))
      <3>1. CASE k \in mine /\ ~rows[k].published
        BY <1>5, <3>1
      <3>2. CASE ~(k \in mine /\ ~rows[k].published)
        BY <1>5, <3>2 DEF OutboxInv, RowsFit
      <3> QED BY <3>1, <3>2
    <2> QED BY <1>4, <2>1 DEF RowsFit
  <1>11. OneHolder'
    BY <1>1, <1>2, <1>3 DEF OutboxInv, OneHolder
  <1>12. OutIsHeld'
    <2>1. ASSUME NEW k \in Sequence \ disturbed, delivered[k] > 0, ~rows'[k].published
          PROVE  \E g \in Flush : k \in flush'[g].claimed
      <3>1. k \notin mine /\ ~rows[k].published
        BY <1>5, <2>1
      <3>2. PICK g \in Flush : k \in flush[g].claimed
        BY <2>1, <3>1 DEF OutboxInv, OutIsHeld, Held
      <3> QED BY <1>3, <3>1, <3>2
    <2> QED BY <1>1, <1>4, <2>1 DEF OutIsHeld, Held
  <1>13. PublishedMeansDelivered'
    <2>1. ASSUME NEW k \in Sequence, rows'[k].published
          PROVE  delivered[k] > 0
      <3>1. CASE k \in mine
        BY <1>1, <3>1 DEF OutboxInv, Believes
      <3>2. CASE k \notin mine
        BY <1>5, <2>1, <3>2 DEF OutboxInv, PublishedMeansDelivered
      <3> QED BY <3>1, <3>2
    <2> QED BY <1>1, <1>4, <2>1 DEF PublishedMeansDelivered
  <1>14. TwiceOnlyIfDisturbed'
    BY <1>1, <1>4 DEF OutboxInv, TwiceOnlyIfDisturbed
  <1> QED BY <1>7, <1>8, <1>9, <1>10, <1>11, <1>12, <1>13, <1>14 DEF OutboxInv

\* Flushes may give up their rows, and rows may lose their claims, as long as these
\* rows count as disturbed.
LEMMA LettingGoKeeps ==
  ASSUME OutboxInv, NEW gone \in SUBSET Flush,
         flush' = [f \in Flush |-> IF f \in gone THEN IdleFlush ELSE flush[f]],
         disturbed' = disturbed \cup UNION { flush[f].claimed : f \in gone },
         Sequence' = Sequence, rows' \in [Sequence -> RowRecord], RowsFit',
         \A k \in Sequence : rows'[k].published = rows[k].published,
         \A k \in Sequence \ disturbed' : rows'[k].lockedBy = rows[k].lockedBy,
         UNCHANGED <<version, delivered>>
  PROVE  OutboxInv'
PROOF
  <1>1. /\ IdleFlush \in FlushRecord /\ IdleFlush.claimed = {} /\ IdleFlush.todo = {}
        /\ IdleFlush.phase = "idle"
    BY DEF IdleFlush, FlushRecord
  <1>2. /\ flush' \in [Flush -> FlushRecord]
        /\ \A f \in gone : flush'[f] = IdleFlush
        /\ \A f \in Flush \ gone : flush'[f] = flush[f]
    BY <1>1 DEF OutboxInv, Shape
  <1>3. \A f \in Flush : flush[f].claimed \subseteq Sequence /\ flush[f].todo \subseteq Sequence
    BY DEF OutboxInv, Shape, FlushRecord
  <1>4. disturbed \subseteq disturbed' /\ disturbed' \subseteq Sequence
        /\ \A f \in gone : flush[f].claimed \subseteq disturbed'
    BY <1>3 DEF OutboxInv, Shape
  <1>5. Shape'
    BY <1>2, <1>4, ShapeAgain DEF OutboxInv, Shape
  <1>6. ASSUME NEW f \in Flush
        PROVE  Believes(f)'
    <2>1. CASE f \in gone
      BY <1>1, <1>2, <2>1 DEF Believes
    <2>2. CASE f \notin gone
      BY <1>2, <1>3, <1>4, <2>2, BelievesStill DEF OutboxInv
    <2> QED BY <2>1, <2>2
  <1>7. OneHolder'
    <2>1. ASSUME NEW f \in Flush, NEW g \in Flush, f # g
          PROVE  flush'[f].claimed \cap flush'[g].claimed \subseteq disturbed'
      BY <1>1, <1>2, <1>4, <2>1 DEF OutboxInv, OneHolder
    <2> QED BY <2>1 DEF OneHolder
  <1>8. OutIsHeld'
    <2>1. ASSUME NEW k \in Sequence \ disturbed', delivered[k] > 0, ~rows'[k].published
          PROVE  \E g \in Flush : k \in flush'[g].claimed
      <3>1. PICK g \in Flush : k \in flush[g].claimed
        BY <1>4, <2>1 DEF OutboxInv, OutIsHeld, Held
      <3> QED BY <1>2, <1>4, <2>1, <3>1
    <2> QED BY <2>1 DEF OutIsHeld, Held
  <1>9. (PublishedMeansDelivered /\ TwiceOnlyIfDisturbed)'
    BY <1>4, HistoriesStay DEF OutboxInv
  <1> QED BY <1>5, <1>6, <1>7, <1>8, <1>9 DEF OutboxInv

LEMMA FailKeeps ==
  ASSUME OutboxInv, NEW f \in Flush, MarkFailed(f)
  PROVE  OutboxInv'
PROOF
  <1> DEFINE mine == flush[f].claimed
  <1>1. /\ rows' = [k \in Sequence |-> IF k \in mine THEN Unlocked(rows[k]) ELSE rows[k]]
        /\ disturbed' = disturbed \cup mine /\ flush' = [flush EXCEPT ![f] = IdleFlush]
        /\ UNCHANGED <<version, delivered>>
    BY DEF MarkFailed
  <1>2. ASSUME NEW k \in Sequence
        PROVE  /\ rows'[k] \in RowRecord /\ rows'[k].published = rows[k].published
               /\ k \notin mine => rows'[k] = rows[k]
               /\ k \in mine => rows'[k].lockedBy = Null /\ rows'[k].stale = FALSE
    BY <1>1 DEF OutboxInv, Shape, Unlocked, RowRecord
  <1>3. RowsFit'
    <2>1. ASSUME NEW k \in Sequence
          PROVE  (rows'[k].published \/ rows'[k].stale) => (rows'[k].published # (rows'[k].lockedBy # Null))
      <3>1. CASE k \in mine
        <4>1. rows'[k].published \in BOOLEAN
          BY <1>2 DEF RowRecord
        <4> QED BY <1>2, <3>1, <4>1
      <3>2. CASE k \notin mine
        BY <1>2, <3>2 DEF OutboxInv, RowsFit
      <3> QED BY <3>1, <3>2
    <2> QED BY <1>1, <2>1 DEF RowsFit, Sequence
  <1>4. flush' = [g \in Flush |-> IF g \in {f} THEN IdleFlush ELSE flush[g]]
    BY <1>1 DEF OutboxInv, Shape
  <1>5. disturbed' = disturbed \cup UNION { flush[g].claimed : g \in {f} }
    BY <1>1
  <1>6. Sequence' = Sequence /\ rows' \in [Sequence -> RowRecord]
    BY <1>1, <1>2 DEF Sequence
  <1>7. {f} \in SUBSET Flush /\ \A k \in Sequence \ disturbed' : rows'[k].lockedBy = rows[k].lockedBy
    BY <1>1, <1>2
  <1> HIDE DEF mine
  <1> QED BY <1>1, <1>2, <1>3, <1>4, <1>5, <1>6, <1>7, LettingGoKeeps

LEMMA DieKeeps ==
  ASSUME OutboxInv, NEW p \in Process, Die(p)
  PROVE  OutboxInv'
PROOF
  <1> DEFINE gone == { f \in Flush : ProcessOf[f] = p }
  <1>1. /\ disturbed' = disturbed \cup UNION { flush[f].claimed : f \in gone }
        /\ flush' = [f \in Flush |-> IF f \in gone THEN IdleFlush ELSE flush[f]]
        /\ UNCHANGED <<version, rows, delivered>>
    BY DEF Die
  <1>2. gone \in SUBSET Flush
    OBVIOUS
  <1> HIDE DEF gone
  <1>3. Sequence' = Sequence /\ rows' \in [Sequence -> RowRecord] /\ RowsFit'
    BY <1>1 DEF Sequence, RowsFit, OutboxInv, Shape
  <1> QED BY <1>1, <1>2, <1>3, LettingGoKeeps

LEMMA OutliveKeeps ==
  ASSUME OutboxInv, NEW S, S \subseteq Sequence, Outlived(S)
  PROVE  OutboxInv'
PROOF
  <1>1. /\ rows' = [k \in Sequence |-> IF k \in S /\ rows[k].lockedBy # Null
                                        THEN [rows[k] EXCEPT !.stale = TRUE] ELSE rows[k]]
        /\ UNCHANGED <<version, flush, delivered, disturbed>>
    BY DEF Outlived
  <1>2. ASSUME NEW k \in Sequence
        PROVE  /\ rows[k] \in RowRecord /\ rows'[k] \in RowRecord
               /\ rows'[k].published = rows[k].published /\ rows'[k].lockedBy = rows[k].lockedBy
               /\ rows[k].lockedBy = Null => rows'[k] = rows[k]
    BY <1>1 DEF OutboxInv, Shape, RowRecord
  <1>3. RowsFit'
    <2>1. ASSUME NEW k \in Sequence
          PROVE  (rows'[k].published \/ rows'[k].stale) => (rows'[k].published # (rows'[k].lockedBy # Null))
      <3>1. CASE rows[k].lockedBy = Null
        BY <1>2, <3>1 DEF OutboxInv, RowsFit
      <3>2. CASE rows[k].lockedBy # Null
        <4>1. ~rows[k].published
          BY <3>2, StaleIsLocked DEF OutboxInv
        <4>2. rows'[k].published = FALSE /\ rows'[k].lockedBy # Null
          BY <1>2, <3>2, <4>1 DEF RowRecord
        <4> QED BY <4>2
      <3> QED BY <3>1, <3>2
    <2> QED BY <1>1, <2>1 DEF RowsFit, Sequence
  <1>4. Sequence' = Sequence /\ rows' \in [Sequence -> RowRecord]
    BY <1>1, <1>2 DEF Sequence
  <1> DEFINE gone == { f \in Flush : FALSE }
  <1>5. /\ flush' = [f \in Flush |-> IF f \in gone THEN IdleFlush ELSE flush[f]]
        /\ disturbed' = disturbed \cup UNION { flush[f].claimed : f \in gone }
        /\ gone \in SUBSET Flush
    BY <1>1 DEF OutboxInv, Shape
  <1>6. \A k \in Sequence : /\ rows'[k].published = rows[k].published
                           /\ rows'[k].lockedBy = rows[k].lockedBy
    BY <1>2
  <1> HIDE DEF gone
  <1> QED BY <1>1, <1>3, <1>4, <1>5, <1>6, LettingGoKeeps

-------------------------------------------------------------------------------
(* Every step *)

LEMMA InitFits == OutboxInit => OutboxInv
PROOF
  <1> SUFFICES ASSUME OutboxInit PROVE OutboxInv
    OBVIOUS
  <1>1. Sequence = {} /\ version = 0 /\ disturbed = {}
    BY DEF OutboxInit, Sequence
  <1>2. Sequence = 1..0 /\ 0 \in 0..MaxRows
    BY <1>1
  <1>3. \A f \in Flush : flush[f] = IdleFlush
    BY DEF OutboxInit
  <1>4. /\ IdleFlush \in FlushRecord /\ IdleFlush.claimed = {} /\ IdleFlush.todo = {}
        /\ IdleFlush.phase = "idle"
    BY DEF IdleFlush, FlushRecord
  <1>5. Shape
    BY <1>1, <1>2, <1>3, <1>4 DEF OutboxInit, Shape, Numbered
  <1>6. \A f \in Flush : Believes(f)
    BY <1>3, <1>4 DEF Believes
  <1> QED
    BY <1>1, <1>3, <1>4, <1>5, <1>6
       DEF OutboxInv, RowsFit, OneHolder, OutIsHeld, PublishedMeansDelivered, TwiceOnlyIfDisturbed

LEMMA NextFits ==
  ASSUME OutboxInv, [OutboxNext]_outboxVars
  PROVE  OutboxInv'
PROOF
  <1>1. ASSUME NEW f \in Flush, FlushStep(f)
        PROVE  OutboxInv'
    BY <1>1, ClaimKeeps, PrepareKeeps, EmitKeeps, ShowKeeps, MarkKeeps DEF FlushStep
  <1>2. ASSUME NEW f \in Flush, ClaimOutlasts(f)
        PROVE  OutboxInv'
    <2>1. flush[f].claimed \subseteq Sequence
      BY DEF OutboxInv, Shape, FlushRecord
    <2> QED BY <1>2, <2>1, OutliveKeeps DEF ClaimOutlasts
  <1>3. CASE ClaimOutlivesFlush
    <2>1. { k \in Sequence : ~Held(k) } \subseteq Sequence
      OBVIOUS
    <2> QED BY <1>3, <2>1, OutliveKeeps DEF ClaimOutlivesFlush
  <1>4. CASE UNCHANGED outboxVars
    BY <1>4 DEF outboxVars, OutboxInv, Shape, Numbered, Sequence, FlushRecord, RowRecord, RowsFit, Believes,
                OneHolder, OutIsHeld, Held, PublishedMeansDelivered, TwiceOnlyIfDisturbed
  <1> QED BY <1>1, <1>2, <1>3, <1>4, AppendKeeps, FailKeeps, DieKeeps DEF OutboxNext

LEMMA InvFits == OutboxInv => OutboxTypeOK
PROOF
  <1> SUFFICES ASSUME OutboxInv PROVE OutboxTypeOK
    OBVIOUS
  <1>1. version \in 0..MaxRows
    <2>1. Cardinality(Sequence) \in 0..MaxRows /\ version \in 0..Cardinality(Sequence)
      BY RowsAreNumbers DEF OutboxInv, Shape
    <2> QED BY <2>1
  <1> QED BY <1>1 DEF OutboxInv, Shape, RowsFit, RowRecord, FlushRecord, OutboxTypeOK

\* A row goes out for the first time in a step of the flush whose next row it is.
LEMMA StepInOrder ==
  ASSUME OutboxInv, [OutboxNext]_outboxVars, NEW k \in Sequence, delivered[k] = 0, delivered'[k] > 0,
         NEW j \in 1..(k - 1)
  PROVE  delivered[j] > 0
PROOF
  <1>1. CASE \E n \in 1..2 : AppendEvents(n)
    <2>1. PICK n \in 1..2 : AppendEvents(n)
      BY <1>1
    <2> DEFINE last == Cardinality(Sequence) + n
    <2>2. delivered' = [i \in 1..last |-> IF i \in Sequence THEN delivered[i] ELSE 0]
      BY <2>1 DEF AppendEvents
    <2>3. k \in 1..last
      BY <2>1, RowsAreNumbers DEF OutboxInv, Shape
    <2>4. delivered'[k] = delivered[k]
      BY <2>2, <2>3
    <2> QED BY <2>4
  <1>2. CASE \E f \in Flush : EmitEvent(f)
    <2>1. PICK f \in Flush : EmitEvent(f)
      BY <1>2
    <2>2. flush[f].todo # {}
      BY <2>1 DEF EmitEvent, OutboxInv, Believes
    <2>3. Current(f) = k
      BY <2>1 DEF EmitEvent, OutboxInv, Shape
    <2> QED BY <2>2, <2>3, NextIsFirst
  <1>3. CASE delivered' = delivered
    BY <1>3
  <1> QED
    BY <1>1, <1>2, <1>3
       DEF OutboxNext, FlushStep, Claim, PrepareState, PublishState, MarkPublished, MarkFailed, Die,
           ClaimOutlivesFlush, ClaimOutlasts, Outlived, outboxVars

-------------------------------------------------------------------------------
(* Theorems *)

\* What flushes, rows and histories keep to, whatever is claimed, lost or overtaken.
THEOREM OutboxInvariant == OutboxSpec => []OutboxInv
PROOF
  <1>1. OutboxInv /\ [OutboxNext]_outboxVars => OutboxInv'
    BY NextFits
  <1> QED BY <1>1, InitFits, PTL DEF OutboxSpec

\* Rows, flushes and histories have their shape, and only unpublished rows are claimed.
THEOREM OutboxTyped == OutboxSpec => []OutboxTypeOK
BY OutboxInvariant, InvFits, PTL

\* markDraftEventsPublished marks no row that did not go out, although it asks neither
\* who holds the row nor whether its claim was released meanwhile.
THEOREM NothingIsMarkedUnsent == OutboxSpec => []PublishedMeansDelivered
PROOF
  <1>1. OutboxInv => PublishedMeansDelivered
    BY DEF OutboxInv
  <1> QED BY <1>1, OutboxInvariant, PTL

\* Two flushes, of one process too, never share a row of which no claim failed, was
\* dropped or was overtaken: an event goes out twice only after such a fault.
THEOREM NothingIsSentTwiceInPeace == OutboxSpec => []TwiceOnlyIfDisturbed
PROOF
  <1>1. OutboxInv => TwiceOnlyIfDisturbed
    BY DEF OutboxInv
  <1> QED BY <1>1, OutboxInvariant, PTL

\* A row goes out for the first time only after every earlier row, however many
\* flushes run and whichever of them fail, die or are overtaken.
THEOREM EventsGoOutInOrder == OutboxSpec => FirstDeliveryInOrder
PROOF
  <1> DEFINE Ordered == \A k \in Sequence : (delivered[k] = 0 /\ delivered'[k] > 0) =>
                           \A j \in 1..(k - 1) : delivered[j] > 0
  <1>1. OutboxInv /\ [OutboxNext]_outboxVars => [Ordered]_outboxVars
    BY StepInOrder
  <1> QED BY <1>1, OutboxInvariant, PTL DEF OutboxSpec, FirstDeliveryInOrder
===============================================================================
