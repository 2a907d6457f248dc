------------------------------ MODULE WaiverProofs ------------------------------
(* What the settling of waiver claims guarantees for every number of members,   *)
(* players, claims and runs.  A run sorts by priorities it has kept in memory   *)
(* and writes by rows it has read a statement earlier; the invariant says when  *)
(* it is alone, and what its copies then have to do with the rows.              *)
EXTENDS WaiverProcessing, FiniteSetTheorems, SequenceTheorems, WellFoundedInduction, TLAPS

\* What run r holds: a claim it has taken is PENDING and out of its list, its claimants
\* have a rank, and what it is about to write fits the rows it is written to.
RunFits(r) ==
    LET x == run[r]
        c == claims[x.taken].offer
    IN  /\ x.taken # Null <=> x.phase \in {"settling", "advancing"}
        /\ x.taken # Null => claims[x.taken].status = "PENDING" /\ x.taken \notin x.todo
        /\ \A i \in x.todo \cup ({x.taken} \ {Null}) : claims[i].offer.member \in DOMAIN x.rank
        /\ DOMAIN x.rank \subseteq Rowed
        /\ x.phase = "advancing" =>
              /\ x.plan = "READY" /\ (IsFAAB => Balance(c.member) >= c.bid)
              /\ DOMAIN x.rank \subseteq DOMAIN x.entries /\ DOMAIN x.entries \subseteq Rowed
              /\ \A m \in DOMAIN x.entries : x.entries[m] <= Cardinality(DOMAIN x.entries)

\* Two runs never hold one claim, nor write the rows of one member.
RunsApart ==
    \A r, o \in Run : r # o /\ run[r].taken # Null =>
        /\ run[r].taken # run[o].taken
        /\ run[r].phase = "advancing" /\ run[o].phase = "advancing" =>
              Written(claims[run[r].taken].offer) \cap Written(claims[run[o].taken].offer) = {}

\* Whoever has claimed has a row, and no number exceeds the rows there are, or will be
\* when the rows that a claim is about to create are there.
RowsFit ==
    /\ \A i \in DOMAIN claims : claims[i].offer.member \in Rowed
    /\ \A m \in Rowed : priority[m] <= Cardinality(Rowed)
    /\ \A o \in Offer :
          /\ DOMAIN creating[o] # {} => o.member \in Rowed \cup DOMAIN creating[o]
          /\ \A m \in DOMAIN creating[o] : creating[o][m] <= Cardinality(Rowed \cup DOMAIN creating[o])

OneEach == \A m, n \in Rowed : priority[m] = priority[n] => m = n

\* The rows a claim is about to create are all there by now, from another claim, or none
\* is, and then they go behind those there are; and two such claims create the same.
NewRowsFit ==
    /\ \A o \in Offer :
          \/ DOMAIN creating[o] \subseteq Rowed
          \/ /\ DOMAIN creating[o] \cap Rowed = {}
             /\ \A m \in DOMAIN creating[o] : creating[o][m] > Cardinality(Rowed)
             /\ \A m, n \in DOMAIN creating[o] : creating[o][m] = creating[o][n] => m = n
    /\ \A o, n \in Offer : \/ DOMAIN creating[o] \subseteq Rowed \/ DOMAIN creating[n] \subseteq Rowed
                           \/ DOMAIN creating[o] = DOMAIN creating[n]

\* The run that is at work holds the lease, and nobody else awards its claim's player.
Alone(r) ==
    LET x == run[r]
        p == claims[x.taken].offer.player
    IN  /\ lease # Null /\ lease.holder = r
        /\ x.taken # Null /\ x.plan = "READY" /\ roster[p] # Null => roster[p].acquiredBy # "WAIVER"

\* What it remembers agrees with the rows, and the rows that have been created since are
\* behind those it has read.
InStep(r) ==
    LET x == run[r]
    IN  /\ \A m, n \in DOMAIN x.rank : x.rank[m] < x.rank[n] <=> priority[m] < priority[n]
        /\ \A m, n \in DOMAIN x.rank : x.rank[m] = x.rank[n] => m = n
        /\ x.phase = "advancing" =>
              /\ \A m \in DOMAIN x.entries : x.entries[m] = priority[m]
              /\ \A m \in Rowed \ DOMAIN x.entries : priority[m] > Cardinality(DOMAIN x.entries)
        /\ x.taken # Null =>
              \A j \in x.todo : SortsBefore(SortKey(x.taken, priority), SortKey(j, priority))

\* While no run has outlived its lease.
Undisturbed == ~overran => \A r \in Run : Active(r) => Alone(r)

\* And while no two claims have found different rows missing.
Orderly == ~overran /\ ~disagreed => OneEach /\ NewRowsFit /\ \A r \in Run : Active(r) => InStep(r)

WaiverInv ==
    WaiverTypeOK /\ (\A r \in Run : RunFits(r)) /\ RunsApart /\ RowsFit /\ Undisturbed /\ Orderly
--------------------------------------------------------------------------------
(* Orders *)

LEMMA PlacesAreOrder ==
    /\ DOMAIN Order = 1 .. Cardinality(Member) /\ Cardinality(Member) \in Nat \ {0}
    /\ \A m \in Member : Place(m) \in DOMAIN Order /\ Order[Place(m)] = m
    /\ \A i \in DOMAIN Order : Order[i] \in Member /\ Place(Order[i]) = i
    /\ Null \notin DOMAIN Order
PROOF
  <1>1. DOMAIN Order = 1 .. Cardinality(Member) /\ Cardinality(Member) \in Nat \ {0}
    BY WaiverAssumption
  <1>2. ASSUME NEW m \in Member
        PROVE  Place(m) \in DOMAIN Order /\ Order[Place(m)] = m
    BY WaiverAssumption DEF Place
  <1>3. ASSUME NEW i \in DOMAIN Order
        PROVE  Order[i] \in Member /\ Place(Order[i]) = i
    BY <1>2, WaiverAssumption
  <1> QED BY <1>1, <1>2, <1>3, WaiverAssumption

LEMMA LeastExists ==
    ASSUME NEW S \in SUBSET Nat, S # {}
    PROVE  \E least \in S : \A j \in S : least <= j
PROOF
  <1> DEFINE Less == { pair \in Nat \X Nat : pair[1] < pair[2] }
  <1>1. IsWellFoundedOn(Less, Nat)
    BY NatLessThanWellFounded DEF OpToRel
  <1>2. PICK least \in S : \A n \in S : <<n, least>> \notin Less
    <2> HIDE DEF Less
    <2> QED BY <1>1, WFMin
  <1>3. ASSUME NEW n \in S
        PROVE  least <= n
    <2>1. n \in Nat /\ least \in Nat /\ <<n, least>> \in Nat \X Nat
      OBVIOUS
    <2>2. <<n, least>>[1] = n /\ <<n, least>>[2] = least
      OBVIOUS
    <2>3. ~(n < least)
      BY <1>2, <2>1, <2>2, Zenon
    <2> QED BY <2>1, <2>3
  <1> QED BY <1>3

\* Members can be counted.
LEMMA MembersCounted ==
    ASSUME NEW D \in SUBSET Member
    PROVE  /\ IsFiniteSet(D) /\ Cardinality(D) \in Nat
           /\ \A S \in SUBSET D : Cardinality(S) \in Nat /\ Cardinality(S) <= Cardinality(D)
PROOF
  <1>1. IsFiniteSet(Member)
    <2>1. Order \in Surjection(DOMAIN Order, Member)
      BY WaiverAssumption DEF Surjection
    <2>2. IsFiniteSet(DOMAIN Order)
      BY PlacesAreOrder, FS_Interval
    <2> QED BY <2>1, <2>2, FS_Surjection
  <1>2. IsFiniteSet(D)
    BY <1>1, FS_Subset
  <1>3. ASSUME NEW S \in SUBSET D
        PROVE  Cardinality(S) \in Nat /\ Cardinality(S) <= Cardinality(D)
    BY <1>2, FS_Subset, FS_CardinalityType
  <1> QED BY <1>2, <1>3, FS_CardinalityType

\* As many different numbers as members, none of them above the count: all of them.
LEMMA AllNumbersTaken ==
    ASSUME NEW D \in SUBSET Member, NEW rank \in [D -> 1 .. Cardinality(D)],
           \A m, n \in D : rank[m] = rank[n] => m = n
    PROVE  \A i \in 1 .. Cardinality(D) : \E m \in D : rank[m] = i
PROOF
  <1> DEFINE k == Cardinality(D)
  <1>1. k \in Nat
    BY MembersCounted
  <1> HIDE DEF k
  <1>2. IsFiniteSet(1 .. k) /\ Cardinality(1 .. k) = k
    BY <1>1, FS_Interval
  <1>3. rank \in Injection(D, 1 .. k)
    BY DEF Injection, IsInjective, k
  <1>4. Cardinality(D) = Cardinality(1 .. k)
    BY <1>2 DEF k
  <1>5. rank \in Surjection(D, 1 .. k)
    BY <1>2, <1>3, <1>4, FS_Injection
  <1> QED BY <1>5 DEF Surjection, k

LEMMA LastOfNumbers ==
    ASSUME NEW n \in Nat, NEW R \in SUBSET (0 .. n), R # {}
    PROVE  Max(R) \in R /\ \A k \in R : k <= Max(R)
PROOF
  <1> DEFINE Above == {n - i : i \in R}
  <1>1. Above \in SUBSET Nat /\ Above # {}
    <2>1. \A i \in R : i \in 0 .. n
      OBVIOUS
    <2>2. \A i \in R : n - i \in Nat
      BY <2>1
    <2> QED BY <2>2
  <1>2. PICK least \in Above : \A j \in Above : least <= j
    <2> HIDE DEF Above
    <2> QED BY <1>1, LeastExists
  <1>3. PICK i \in R : least = n - i
    OBVIOUS
  <1>4. ASSUME NEW k \in R
        PROVE  i >= k
    <2>1. n - k \in Above
      OBVIOUS
    <2>2. n - i <= n - k /\ k \in Int /\ i \in Int /\ n \in Int
      BY <1>2, <1>3, <2>1
    <2> QED BY <2>2
  <1>5. Max(R) \in R /\ \A k \in R : Max(R) >= k
    BY <1>4 DEF Max
  <1>6. \A k \in R : k \in Int
    OBVIOUS
  <1> QED BY <1>5, <1>6

\* rank gives the members of D numbers up to n.
Numbers(rank, D, n) == n \in Nat /\ rank \in [D -> 1 .. n]

\* The last place among the ranked is one of theirs.
LEMMA LastRank ==
    ASSUME NEW D, NEW n, NEW rank, Numbers(rank, D, n), D # {}
    PROVE  /\ \E m \in D : rank[m] = Max(Range(rank))
           /\ \A m \in D : rank[m] <= Max(Range(rank))
           /\ Max(Range(rank)) \in 1 .. n
PROOF
  <1> DEFINE R == Range(rank)
  <1>0. n \in Nat /\ rank \in [D -> 1 .. n]
    BY DEF Numbers
  <1>1. R \subseteq 1 .. n /\ R # {}
    BY <1>0 DEF Range
  <1>2. R \in SUBSET (0 .. n)
    BY <1>0, <1>1
  <1>3. (\A k \in R : \E m \in D : rank[m] = k) /\ \A m \in D : rank[m] \in R
    BY <1>0 DEF Range
  <1> HIDE DEF R
  <1>4. Max(R) \in R /\ \A k \in R : k <= Max(R)
    BY <1>0, <1>1, <1>2, LastOfNumbers
  <1> QED BY <1>1, <1>3, <1>4 DEF R

\* The order after a win: the winner is last, and the others keep their order.
LEMMA AdvanceFits ==
    ASSUME NEW D, NEW n, NEW rank, Numbers(rank, D, n), NEW w \in D,
           NEW next, next = buildAdvancedWaiverPriorityUpdates(rank, w)
    PROVE  /\ Numbers(next, D, n)
           /\ next[w] = Max(Range(rank))
           /\ \A m \in D \ {w} : next[m] = IF rank[m] > rank[w] THEN rank[m] - 1 ELSE rank[m]
PROOF
  <1> DEFINE last == Max(Range(rank))
  <1>1. last \in 1 .. n
    BY LastRank
  <1>2. n \in Nat /\ rank \in [D -> 1 .. n]
    BY DEF Numbers
  <1> HIDE DEF last
  <1>3. next = [m \in D |-> IF m = w THEN last ELSE IF rank[m] > rank[w] THEN rank[m] - 1 ELSE rank[m]]
    BY <1>2 DEF buildAdvancedWaiverPriorityUpdates, last
  <1>4. \A m \in D : next[m] \in 1 .. n
    <2>1. ASSUME NEW m \in D \ {w}
          PROVE  next[m] \in 1 .. n
      <3>1. rank[m] \in 1 .. n /\ rank[w] \in 1 .. n
        BY <1>2
      <3> QED BY <1>2, <1>3, <3>1
    <2> QED BY <1>1, <1>3, <2>1
  <1> QED BY <1>2, <1>3, <1>4 DEF last, Numbers

LEMMA AdvanceOrders ==
    ASSUME NEW D, NEW n, NEW rank, Numbers(rank, D, n), NEW w \in D, NEW next, Numbers(next, D, n),
           next[w] = Max(Range(rank)),
           \A m \in D \ {w} : next[m] = IF rank[m] > rank[w] THEN rank[m] - 1 ELSE rank[m],
           \A m, k \in D : rank[m] = rank[k] => m = k
    PROVE  /\ \A m, k \in D : next[m] = next[k] => m = k
           /\ \A m \in D \ {w} : next[m] < next[w]
           /\ \A m, k \in D \ {w} : next[m] < next[k] <=> rank[m] < rank[k]
PROOF
  <1> DEFINE last == Max(Range(rank))
  <1>2. /\ last \in Int /\ \A m \in D : rank[m] <= last /\ rank[m] \in Int
    BY LastRank DEF Numbers
  <1>1. next[w] = last
    OBVIOUS
  <1> HIDE DEF last
  <1>3. ASSUME NEW m \in D \ {w}
        PROVE  next[m] < next[w]
    <2>1. rank[m] # rank[w]
      OBVIOUS
    <2> QED BY <1>1, <1>2, <2>1
  <1>4. ASSUME NEW m \in D \ {w}, NEW k \in D \ {w}
        PROVE  next[m] < next[k] <=> rank[m] < rank[k]
    <2>1. rank[m] # rank[w] /\ rank[k] # rank[w]
      OBVIOUS
    <2> QED BY <1>1, <1>2, <2>1
  <1>5. ASSUME NEW m \in D, NEW k \in D, m # k
        PROVE  next[m] # next[k]
    <2>1. \A j \in D \ {w} : next[j] \in Int
      BY <1>1, <1>2
    <2>2. CASE m = w \/ k = w
      BY <1>1, <1>2, <1>3, <1>5, <2>1, <2>2
    <2>3. CASE m # w /\ k # w
      <3>1. rank[m] < rank[k] \/ rank[k] < rank[m]
        BY <1>2, <1>5
      <3> QED BY <1>4, <2>1, <2>3, <3>1
    <2> QED BY <2>2, <2>3
  <1> QED BY <1>3, <1>4, <1>5

Key == Int \X Int \X Int \X Int

LEMMA SortsBeforeStepwise ==
    ASSUME NEW a \in Key, NEW b \in Key
    PROVE  SortsBefore(a, b) <=> \/ a[1] < b[1]
                                 \/ a[1] = b[1] /\ a[2] < b[2]
                                 \/ a[1] = b[1] /\ a[2] = b[2] /\ a[3] < b[3]
                                 \/ a[1] = b[1] /\ a[2] = b[2] /\ a[3] = b[3] /\ a[4] < b[4]
PROOF
  <1>1. 1 .. 4 = {1, 2, 3, 4} /\ 1 .. 1 - 1 = {} /\ 1 .. 2 - 1 = {1} /\ 1 .. 3 - 1 = {1, 2}
        /\ 1 .. 4 - 1 = {1, 2, 3}
    OBVIOUS
  <1>2. ASSUME SortsBefore(a, b)
        PROVE  \/ a[1] < b[1]
               \/ a[1] = b[1] /\ a[2] < b[2]
               \/ a[1] = b[1] /\ a[2] = b[2] /\ a[3] < b[3]
               \/ a[1] = b[1] /\ a[2] = b[2] /\ a[3] = b[3] /\ a[4] < b[4]
    <2>1. PICK k \in 1 .. 4 : a[k] < b[k] /\ \A j \in 1 .. k - 1 : a[j] = b[j]
      BY <1>2 DEF SortsBefore
    <2>2. CASE k = 1
      BY <2>1, <2>2
    <2>3. CASE k = 2
      BY <2>1, <2>3
    <2>4. CASE k = 3
      BY <2>1, <2>4
    <2>5. CASE k = 4
      BY <2>1, <2>5
    <2> QED BY <1>1, <2>2, <2>3, <2>4, <2>5
  <1>3. ASSUME a[1] < b[1]
        PROVE  SortsBefore(a, b)
    BY <1>1, <1>3 DEF SortsBefore
  <1>4. ASSUME a[1] = b[1], a[2] < b[2]
        PROVE  SortsBefore(a, b)
    BY <1>1, <1>4 DEF SortsBefore
  <1>5. ASSUME a[1] = b[1], a[2] = b[2], a[3] < b[3]
        PROVE  SortsBefore(a, b)
    BY <1>1, <1>5 DEF SortsBefore
  <1>6. ASSUME a[1] = b[1], a[2] = b[2], a[3] = b[3], a[4] < b[4]
        PROVE  SortsBefore(a, b)
    BY <1>1, <1>6 DEF SortsBefore
  <1> QED BY <1>2, <1>3, <1>4, <1>5, <1>6

LEMMA SortsBeforeOrders ==
    ASSUME NEW a \in Key, NEW b \in Key, NEW c \in Key, SortsBefore(a, b), SortsBefore(b, c)
    PROVE  SortsBefore(a, c)
PROOF
  <1>1. /\ a[1] \in Int /\ a[2] \in Int /\ a[3] \in Int /\ a[4] \in Int
        /\ b[1] \in Int /\ b[2] \in Int /\ b[3] \in Int /\ b[4] \in Int
        /\ c[1] \in Int /\ c[2] \in Int /\ c[3] \in Int /\ c[4] \in Int
    BY DEF Key
  <1>2. \/ a[1] < b[1]
        \/ a[1] = b[1] /\ a[2] < b[2]
        \/ a[1] = b[1] /\ a[2] = b[2] /\ a[3] < b[3]
        \/ a[1] = b[1] /\ a[2] = b[2] /\ a[3] = b[3] /\ a[4] < b[4]
    BY SortsBeforeStepwise
  <1>3. \/ b[1] < c[1]
        \/ b[1] = c[1] /\ b[2] < c[2]
        \/ b[1] = c[1] /\ b[2] = c[2] /\ b[3] < c[3]
        \/ b[1] = c[1] /\ b[2] = c[2] /\ b[3] = c[3] /\ b[4] < c[4]
    BY SortsBeforeStepwise
  <1>4. \/ a[1] < c[1]
        \/ a[1] = c[1] /\ a[2] < c[2]
        \/ a[1] = c[1] /\ a[2] = c[2] /\ a[3] < c[3]
        \/ a[1] = c[1] /\ a[2] = c[2] /\ a[3] = c[3] /\ a[4] < c[4]
    BY <1>1, <1>2, <1>3
  <1> QED BY <1>4, SortsBeforeStepwise

\* Claims have keys, and no two the same.
LEMMA KeysDiffer ==
    ASSUME claims \in Seq(ClaimRecord), NEW i \in DOMAIN claims, NEW rank,
           rank[claims[i].offer.member] \in Int
    PROVE  SortKey(i, rank) \in Key /\ SortKey(i, rank)[4] = i /\ i \in Nat
PROOF
  <1>1. i \in Nat /\ claims[i] \in ClaimRecord
    BY LenProperties, ElementOfSeq
  <1>2. claims[i].offer \in Offer
    BY <1>1 DEF ClaimRecord
  <1>3. (IF IsFAAB THEN Budget - claims[i].offer.bid ELSE 0) \in Int /\ claims[i].offer.priority \in Int
    BY <1>2, WaiverAssumption
  <1> QED BY <1>1, <1>3 DEF SortKey, Key

\* Of finitely many claims one comes first.
LEMMA FirstIsFirst ==
    ASSUME claims \in Seq(ClaimRecord), NEW todo \in SUBSET DOMAIN claims, todo # {}, NEW rank \in Rank,
           \A i \in todo : claims[i].offer.member \in DOMAIN rank
    PROVE  /\ First(todo, rank) \in todo
           /\ \A j \in todo \ {First(todo, rank)} :
                 SortsBefore(SortKey(First(todo, rank), rank), SortKey(j, rank))
PROOF
  <1> DEFINE key(i) == SortKey(i, rank)
             Before(i) == {j \in todo : SortsBefore(key(j), key(i))}
             Counts == {Cardinality(Before(i)) : i \in todo}
  <1>1. ASSUME NEW i \in todo
        PROVE  key(i) \in Key /\ key(i)[4] = i /\ i \in Nat
    <2>1. \A m \in DOMAIN rank : rank[m] \in Int
      BY PlacesAreOrder DEF Rank
    <2> QED BY <2>1, KeysDiffer
  <1>2. IsFiniteSet(todo)
    <2>1. DOMAIN claims = 1 .. Len(claims) /\ Len(claims) \in Nat
      BY LenProperties
    <2>2. IsFiniteSet(1 .. Len(claims))
      BY <2>1, FS_Interval
    <2> QED BY <2>1, <2>2, FS_Subset
  <1>3. ASSUME NEW i \in todo
        PROVE  IsFiniteSet(Before(i)) /\ Cardinality(Before(i)) \in Nat
    BY <1>2, FS_Subset, FS_CardinalityType
  <1>4. PICK least \in Counts : \A n \in Counts : least <= n
    <2>1. Counts \in SUBSET Nat /\ Counts # {}
      BY <1>3
    <2> HIDE DEF Counts
    <2> QED BY <2>1, LeastExists
  <1>5. PICK f \in todo : least = Cardinality(Before(f))
    OBVIOUS
  <1>6. ASSUME NEW j \in todo
        PROVE  ~SortsBefore(key(j), key(f))
    <2>1. SUFFICES ASSUME SortsBefore(key(j), key(f)) PROVE FALSE
      OBVIOUS
    <2>2. ASSUME NEW k \in Before(j)
          PROVE  k \in Before(f)
      <3>1. key(k) \in Key /\ key(j) \in Key /\ key(f) \in Key
        BY <1>1
      <3>2. SortsBefore(key(k), key(j))
        OBVIOUS
      <3> HIDE DEF key
      <3>3. SortsBefore(key(k), key(f))
        BY <2>1, <3>1, <3>2, SortsBeforeOrders
      <3> QED BY <3>3
    <2>3. j \in Before(f) /\ j \notin Before(j)
      <3>1. key(j) \in Key /\ \A n \in 1 .. 4 : key(j)[n] \in Int
        BY <1>1 DEF Key
      <3> HIDE DEF key
      <3>2. ~SortsBefore(key(j), key(j))
        BY <3>1, SortsBeforeStepwise
      <3> QED BY <2>1, <3>2
    <2>4. Before(j) \subseteq Before(f) /\ Before(j) # Before(f)
      BY <2>2, <2>3
    <2>5. /\ Cardinality(Before(j)) \in Nat /\ Cardinality(Before(f)) \in Nat
          /\ IsFiniteSet(Before(f))
      BY <1>3
    <2>6. Cardinality(Before(f)) <= Cardinality(Before(j))
      BY <1>4, <1>5
    <2> HIDE DEF Before
    <2>7. Cardinality(Before(j)) <= Cardinality(Before(f)) /\ Cardinality(Before(j)) # Cardinality(Before(f))
      BY <2>4, <2>5, FS_Subset
    <2> QED BY <2>5, <2>6, <2>7
  <1>7. ASSUME NEW j \in todo \ {f}
        PROVE  SortsBefore(key(f), key(j))
    <2>1. /\ key(j) \in Key /\ key(f) \in Key /\ key(f)[4] # key(j)[4]
          /\ ~SortsBefore(key(j), key(f))
      BY <1>1, <1>6
    <2> HIDE DEF key
    <2>2. /\ key(j)[1] \in Int /\ key(j)[2] \in Int /\ key(j)[3] \in Int /\ key(j)[4] \in Int
          /\ key(f)[1] \in Int /\ key(f)[2] \in Int /\ key(f)[3] \in Int /\ key(f)[4] \in Int
      BY <2>1 DEF Key
    <2> QED BY <2>1, <2>2, SortsBeforeStepwise
  <1> DEFINE Leads(i) == \A j \in todo \ {i} : SortsBefore(SortKey(i, rank), SortKey(j, rank))
  <1>8. \E i \in todo : Leads(i)
    BY <1>7
  <1>9. First(todo, rank) = CHOOSE i \in todo : Leads(i)
    BY DEF First
  <1> HIDE DEF Leads
  <1>10. First(todo, rank) \in todo /\ Leads(First(todo, rank))
    BY <1>8, <1>9
  <1> QED BY <1>10 DEF Leads

--------------------------------------------------------------------------------
(* What an action leaves alone *)

Shape ==
    /\ RosterTypeOK
    /\ claims \in Seq(ClaimRecord) /\ dueCount \in 0 .. Len(claims)
    /\ priority \in [Member -> DOMAIN Order \cup {Null}] /\ faab \in [Member -> Nat \cup {Null}]
    /\ reserved \in [Member -> Nat]
    /\ lease \in [holder : Run, stale : BOOLEAN] \cup {Null}
    /\ run \in [Run -> RunRecord] /\ creating \in [Offer -> Rank]
    /\ overran \in BOOLEAN /\ disagreed \in BOOLEAN /\ faults \in 0 .. MaxFaults

LEMMA ShapeFollows ==
    ASSUME WaiverInv
    PROVE  Shape
PROOF BY DEF WaiverInv, WaiverTypeOK, Shape

LEMMA InvFromParts ==
    ASSUME Shape', \A r \in Run : RunFits(r)', RunsApart', RowsFit', Undisturbed', Orderly'
    PROVE  WaiverInv'
PROOF
  <1>1. \A r \in Run : /\ run'[r].phase \in {"settling", "advancing"} <=> run'[r].taken # Null
                       /\ \A i \in run'[r].todo \cup ({run'[r].taken} \ {Null}) :
                              claims'[i].offer.member \in DOMAIN run'[r].rank
    BY DEF RunFits
  <1>2. \A r, o \in Run : r # o /\ run'[r].taken # Null => run'[r].taken # run'[o].taken
    BY DEF RunsApart
  <1>3. WaiverTypeOK'
    BY <1>1, <1>2 DEF Shape, WaiverTypeOK, RunRecord, ClaimRecord, RosterTypeOK, RosterRow, Rank
  <1> QED BY <1>3 DEF WaiverInv

LEMMA ClaimsTyped ==
    ASSUME Shape
    PROVE  /\ DOMAIN claims = 1 .. Len(claims) /\ Len(claims) \in Nat /\ Null \notin DOMAIN claims
           /\ \A i \in DOMAIN claims :
                 /\ i \in Nat /\ claims[i] \in ClaimRecord /\ claims[i].offer \in Offer
                 /\ claims[i].offer.member \in Member /\ claims[i].offer.player \in Player
                 /\ claims[i].offer.drop \in Player \cup {Null} /\ claims[i].offer.bid \in Nat
PROOF
  <1>1. /\ claims \in Seq(ClaimRecord) /\ DOMAIN claims = 1 .. Len(claims) /\ Len(claims) \in Nat
        /\ \A i \in DOMAIN claims : i \in Nat /\ claims[i] \in ClaimRecord
    BY LenProperties, ElementOfSeq DEF Shape
  <1>2. \A i \in DOMAIN claims : claims[i].offer \in Offer
    BY <1>1 DEF ClaimRecord
  <1> QED BY <1>1, <1>2, WaiverAssumption

LEMMA RunTyped ==
    ASSUME Shape, NEW r \in Run
    PROVE  /\ run[r] \in RunRecord
           /\ run[r].phase \in {"idle", "choosing", "settling", "advancing"}
           /\ run[r].todo \subseteq DOMAIN claims /\ run[r].taken \in DOMAIN claims \cup {Null}
           /\ run[r].rank \in Rank /\ DOMAIN run[r].rank \subseteq Member
           /\ run[r].rank \in [DOMAIN run[r].rank -> DOMAIN Order]
           /\ run[r].plan \in {"none", "READY", "FAILED"}
           /\ run[r].entries \in Rank /\ DOMAIN run[r].entries \subseteq Member
           /\ run[r].entries \in [DOMAIN run[r].entries -> DOMAIN Order]
PROOF
  <1>1. run[r] \in RunRecord
    BY DEF Shape
  <1>2. \A rank \in Rank : DOMAIN rank \subseteq Member /\ rank \in [DOMAIN rank -> DOMAIN Order]
    BY DEF Rank
  <1>3. run[r].rank \in Rank /\ run[r].entries \in Rank
    BY <1>1 DEF RunRecord
  <1> QED BY <1>1, <1>2, <1>3 DEF RunRecord

LEMMA RowsTyped ==
    ASSUME Shape
    PROVE  /\ Rowed \in SUBSET Member /\ Cardinality(Rowed) \in Nat
           /\ \A m \in Rowed : priority[m] \in DOMAIN Order /\ priority[m] \in Nat \ {0}
           /\ \A o \in Offer : /\ DOMAIN creating[o] \in SUBSET Member
                               /\ \A m \in DOMAIN creating[o] : creating[o][m] \in DOMAIN Order
                                                                /\ creating[o][m] \in Nat \ {0}
PROOF
  <1>1. Rowed \in SUBSET Member /\ \A m \in Rowed : priority[m] \in DOMAIN Order
    BY DEF Rowed, Shape
  <1>2. ASSUME NEW o \in Offer
        PROVE  DOMAIN creating[o] \in SUBSET Member /\ \A m \in DOMAIN creating[o] : creating[o][m] \in DOMAIN Order
    <2>1. creating[o] \in Rank
      BY DEF Shape
    <2> QED BY <2>1 DEF Rank
  <1>3. DOMAIN Order \subseteq Nat \ {0}
    BY PlacesAreOrder
  <1> QED BY <1>1, <1>2, <1>3, MembersCounted

\* A run that an action does not touch, nor its claims nor its balance, goes on fitting.
LEMMA FitsKept ==
    ASSUME Shape, NEW r \in Run, RunFits(r), run'[r] = run[r], Rowed \subseteq Rowed',
           \A i \in DOMAIN claims : claims'[i].offer = claims[i].offer,
           run[r].taken # Null => claims'[run[r].taken].status = "PENDING",
           run[r].phase = "advancing" =>
              faab'[claims[run[r].taken].offer.member] = faab[claims[run[r].taken].offer.member]
    PROVE  RunFits(r)'
PROOF
  <1>1. run[r].todo \subseteq DOMAIN claims /\ run[r].taken \in DOMAIN claims \cup {Null}
    BY RunTyped
  <1>2. run[r].phase = "advancing" => run[r].taken \in DOMAIN claims
    BY <1>1 DEF RunFits
  <1>3. run[r].phase = "advancing" => claims'[run[r].taken].offer = claims[run[r].taken].offer
    BY <1>2
  <1> QED BY <1>1, <1>2, <1>3 DEF RunFits, Balance

\* A run that is alone stays so while its lease and its claim's player stay.
LEMMA AloneKept ==
    ASSUME Shape, NEW r \in Run, RunFits(r), Alone(r), run'[r] = run[r],
           lease' # Null, lease'.holder = lease.holder,
           \A i \in DOMAIN claims : claims'[i].offer = claims[i].offer,
           \A p \in Player : \/ roster'[p] = roster[p] \/ roster'[p] = Null
                             \/ roster'[p].acquiredBy # "WAIVER"
    PROVE  Alone(r)'
PROOF
  <1>1. run[r].taken \in DOMAIN claims \cup {Null}
    BY RunTyped
  <1>2. ASSUME run'[r].taken # Null, run'[r].plan = "READY",
               roster'[claims'[run[r].taken].offer.player] # Null
        PROVE  roster'[claims'[run[r].taken].offer.player].acquiredBy # "WAIVER"
    <2>1. run[r].taken \in DOMAIN claims
      BY <1>1, <1>2
    <2>2. claims[run[r].taken].offer.player \in Player
      BY <2>1, ClaimsTyped
    <2> QED BY <1>2, <2>1, <2>2 DEF Alone
  <1> QED BY <1>2 DEF Alone

\* A run stays in step while the rows there are stay and new ones go behind them.
LEMMA InStepKept ==
    ASSUME Shape, Shape', NEW r \in Run, RunFits(r), InStep(r), run'[r] = run[r],
           \A i \in DOMAIN claims : claims'[i].offer = claims[i].offer,
           \A m \in Rowed : priority'[m] = priority[m],
           \A m \in Rowed' \ Rowed : priority'[m] > Cardinality(Rowed)
    PROVE  InStep(r)'
PROOF
  <1>1. run[r].todo \subseteq DOMAIN claims /\ run[r].taken \in DOMAIN claims \cup {Null}
    BY RunTyped
  <1>2. DOMAIN run[r].rank \subseteq Rowed
    BY DEF RunFits
  <1>3. ASSUME NEW i \in DOMAIN claims, claims[i].offer.member \in Rowed
        PROVE  SortKey(i, priority)' = SortKey(i, priority)
    BY <1>3 DEF SortKey
  <1>4. ASSUME run'[r].taken # Null
        PROVE  \A j \in run'[r].todo : SortsBefore(SortKey(run[r].taken, priority)', SortKey(j, priority)')
    <2>1. run[r].taken \in DOMAIN claims
      BY <1>1, <1>4
    <2>2. \A i \in run[r].todo \cup {run[r].taken} : claims[i].offer.member \in Rowed
      BY <1>2, <1>4 DEF RunFits
    <2>3. \A i \in run[r].todo \cup {run[r].taken} : SortKey(i, priority)' = SortKey(i, priority)
      BY <1>1, <1>3, <2>1, <2>2
    <2> QED BY <1>4, <2>3 DEF InStep
  <1>5. ASSUME run[r].phase = "advancing"
        PROVE  /\ \A m \in DOMAIN run[r].entries : run[r].entries[m] = priority'[m]
               /\ \A m \in Rowed' \ DOMAIN run[r].entries : priority'[m] > Cardinality(DOMAIN run[r].entries)
    <2>1. DOMAIN run[r].entries \subseteq Rowed
      BY <1>5 DEF RunFits
    <2>2. Cardinality(DOMAIN run[r].entries) \in Nat /\ Cardinality(DOMAIN run[r].entries) <= Cardinality(Rowed)
      BY <2>1, RowsTyped, MembersCounted
    <2>3. ASSUME NEW m \in Rowed' \ DOMAIN run[r].entries
          PROVE  priority'[m] > Cardinality(DOMAIN run[r].entries)
      <3>1. CASE m \in Rowed
        BY <1>5, <2>3, <3>1 DEF InStep
      <3>2. CASE m \notin Rowed
        <4>1. priority'[m] \in DOMAIN Order
          BY <2>3 DEF Shape, Rowed
        <4>2. priority'[m] \in Nat /\ Cardinality(Rowed) \in Nat
          BY <4>1, PlacesAreOrder, RowsTyped
        <4> QED BY <2>2, <2>3, <3>2, <4>2
      <3> QED BY <3>1, <3>2
    <2> QED BY <1>5, <2>1, <2>3 DEF InStep
  <1>6. \A m, n \in DOMAIN run[r].rank : run[r].rank[m] < run[r].rank[n] <=> priority'[m] < priority'[n]
    BY <1>2 DEF InStep
  <1> QED BY <1>4, <1>5, <1>6 DEF InStep

\* Runs stay apart when none takes a claim or begins to write.
LEMMA ApartKept ==
    ASSUME Shape, RunsApart, \A r \in Run : RunFits(r),
           \A i \in DOMAIN claims : claims'[i].offer = claims[i].offer,
           \A r \in Run : run'[r].taken \in {run[r].taken, Null},
           \A r \in Run : run'[r].phase = "advancing" => run'[r] = run[r]
    PROVE  RunsApart'
PROOF
  <1> SUFFICES ASSUME NEW r \in Run, NEW o \in Run, r # o, run'[r].taken # Null
               PROVE  /\ run'[r].taken # run'[o].taken
                      /\ run'[r].phase = "advancing" /\ run'[o].phase = "advancing" =>
                          Written(claims'[run'[r].taken].offer) \cap Written(claims'[run'[o].taken].offer) = {}
    BY DEF RunsApart, Written
  <1>1. run'[r].taken = run[r].taken /\ run[r].taken # run[o].taken
    BY DEF RunsApart
  <1>2. ASSUME run'[r].phase = "advancing", run'[o].phase = "advancing"
        PROVE  Written(claims'[run'[r].taken].offer) \cap Written(claims'[run'[o].taken].offer) = {}
    <2>1. run'[r] = run[r] /\ run'[o] = run[o]
      BY <1>2
    <2>2. run[r].taken \in DOMAIN claims /\ run[o].taken \in DOMAIN claims
      BY <1>2, <2>1, RunTyped DEF RunFits
    <2>3. /\ claims'[run'[r].taken].offer = claims[run[r].taken].offer
          /\ claims'[run'[o].taken].offer = claims[run[o].taken].offer
      BY <2>1, <2>2
    <2>4. run[r].phase = "advancing" /\ run[o].phase = "advancing" /\ run[r].taken # Null
      BY <1>1, <1>2, <2>1
    <2> QED BY <2>3, <2>4 DEF RunsApart
  <1> QED BY <1>1, <1>2

\* Signings and drops create free agents' rows and delete rows.
LEMMA RosterStepTypes ==
    ASSUME RosterTypeOK, RosterStep
    PROVE  /\ RosterTypeOK'
           /\ \A p \in Player : \/ roster'[p] = roster[p] \/ roster'[p] = Null
                                \/ roster'[p].acquiredBy = "FREE_AGENT" /\ roster[p] = Null
PROOF
  <1> DEFINE Kept == \A p \in Player : \/ roster'[p] = roster[p] \/ roster'[p] = Null
                                       \/ roster'[p].acquiredBy = "FREE_AGENT" /\ roster[p] = Null
  <1>1. ASSUME NEW q \in Request, AddReads(q) \/ DropReads(q) \/ DropFails(q) \/ RequestDies(q)
        PROVE  RosterTypeOK' /\ Kept
    BY <1>1, RosterAssumption DEF AddReads, DropReads, DropFails, RequestDies, RosterTypeOK
  <1>2. ASSUME NEW q \in Request, AddCreates(q)
        PROVE  RosterTypeOK' /\ Kept
    <2>1. [member |-> q.member, acquiredBy |-> "FREE_AGENT"] \in RosterRow
      BY RosterAssumption DEF RosterRow
    <2> QED BY <1>2, <2>1 DEF AddCreates, RosterTypeOK
  <1>3. ASSUME NEW q \in Request, processDropPlayerAction(q)
        PROVE  RosterTypeOK' /\ Kept
    BY <1>3 DEF processDropPlayerAction, RosterTypeOK
  <1>4. ASSUME NEW p \in Player, HoldEnds(p)
        PROVE  RosterTypeOK' /\ Kept
    BY <1>4 DEF HoldEnds, RosterTypeOK
  <1> QED BY <1>1, <1>2, <1>3, <1>4 DEF RosterStep

LEMMA RosterTypesStay ==
    ASSUME RosterTypeOK, UNCHANGED rosterVars
    PROVE  RosterTypeOK'
PROOF BY DEF RosterTypeOK, rosterVars, RosterRow

LEMMA RecordsStay ==
    ASSUME DOMAIN claims \subseteq DOMAIN claims'
    PROVE  RunRecord \subseteq RunRecord'
PROOF BY DEF RunRecord

\* Rows fit as long as neither they nor the claims change.
LEMMA RowsFitKept ==
    ASSUME RowsFit, priority' = priority, creating' = creating, DOMAIN claims' = DOMAIN claims,
           \A i \in DOMAIN claims : claims'[i].offer = claims[i].offer
    PROVE  RowsFit'
PROOF
  <1>1. Rowed' = Rowed
    BY DEF Rowed
  <1> QED BY <1>1 DEF RowsFit

LEMMA NewRowsFitKept ==
    ASSUME NewRowsFit, priority' = priority, creating' = creating
    PROVE  NewRowsFit'
PROOF
  <1>1. Rowed' = Rowed
    BY DEF Rowed
  <1> QED BY <1>1 DEF NewRowsFit

\* Whatever leaves the runs, the priorities and the balances, does not settle a
\* claim that is taken, and finds rows missing as the others do, disturbs nobody.
LEMMA QuietKeeps ==
    ASSUME WaiverInv, Shape', run' = run, priority' = priority, faab' = faab, overran' = overran,
           ~disagreed' => ~disagreed, RowsFit', ~overran /\ ~disagreed' => NewRowsFit',
           \A i \in DOMAIN claims : claims'[i].offer = claims[i].offer,
           \A r \in Run : run[r].taken # Null => claims'[run[r].taken].status = "PENDING",
           lease # Null => lease' # Null /\ lease'.holder = lease.holder,
           \A p \in Player : \/ roster'[p] = roster[p] \/ roster'[p] = Null
                             \/ roster'[p].acquiredBy # "WAIVER"
    PROVE  WaiverInv'
PROOF
  <1>1. Shape /\ (\A r \in Run : RunFits(r)) /\ RunsApart
    BY ShapeFollows DEF WaiverInv
  <1>2. Rowed' = Rowed
    BY DEF Rowed
  <1>3. \A r \in Run : RunFits(r)'
    BY <1>1, <1>2, FitsKept
  <1>4. RunsApart'
    BY <1>1, ApartKept
  <1>5. Undisturbed'
    <2>1. ASSUME ~overran', NEW r \in Run, Active(r)'
          PROVE  Alone(r)'
      <3>1. Alone(r)
        BY <2>1 DEF WaiverInv, Undisturbed, Active
      <3>2. lease' # Null /\ lease'.holder = lease.holder
        BY <3>1 DEF Alone
      <3> QED BY <1>1, <3>1, <3>2, AloneKept
    <2> QED BY <2>1 DEF Undisturbed
  <1>6. Orderly'
    <2>1. SUFFICES ASSUME ~overran', ~disagreed'
                   PROVE  OneEach' /\ \A r \in Run : Active(r)' => InStep(r)'
      BY DEF Orderly
    <2>2. OneEach /\ \A r \in Run : Active(r) => InStep(r)
      BY <2>1 DEF WaiverInv, Orderly
    <2>3. OneEach'
      BY <1>2, <2>2 DEF OneEach
    <2>4. ASSUME NEW r \in Run, Active(r)'
          PROVE  InStep(r)'
      <3>1. InStep(r) /\ \A m \in Rowed : priority'[m] = priority[m]
        BY <2>2, <2>4 DEF Active
      <3> QED BY <1>1, <1>2, <3>1, InStepKept
    <2> QED BY <2>3, <2>4
  <1> QED BY <1>1, <1>3, <1>4, <1>5, <1>6, InvFromParts

LEMMA RosterStepKeeps ==
    ASSUME WaiverInv, RosterStepUnlocked
    PROVE  WaiverInv'
PROOF
  <1>1. Shape
    BY ShapeFollows
  <1>2. /\ RosterStep /\ claims' = claims /\ dueCount' = dueCount /\ priority' = priority /\ faab' = faab
        /\ reserved' = reserved /\ lease' = lease /\ run' = run /\ overran' = overran /\ faults' = faults
        /\ creating' = creating /\ disagreed' = disagreed
    BY DEF RosterStepUnlocked, ledger, firstClaims
  <1>3. RosterTypeOK' /\ \A p \in Player : \/ roster'[p] = roster[p] \/ roster'[p] = Null
                                           \/ roster'[p].acquiredBy # "WAIVER"
    BY <1>1, <1>2, RosterStepTypes DEF Shape
  <1>4. Shape'
    BY <1>1, <1>2, <1>3 DEF Shape, RunRecord, ClaimRecord
  <1>5. \A r \in Run : run[r].taken # Null => claims'[run[r].taken].status = "PENDING"
    BY <1>2 DEF WaiverInv, RunFits
  <1>6. RowsFit' /\ (~overran /\ ~disagreed => NewRowsFit')
    <2>1. RowsFit /\ (~overran /\ ~disagreed => NewRowsFit)
      BY DEF WaiverInv, Orderly
    <2> QED BY <1>2, <2>1, RowsFitKept, NewRowsFitKept
  <1> QED BY <1>2, <1>3, <1>4, <1>5, <1>6, QuietKeeps

LEMMA DueKeeps ==
    ASSUME WaiverInv, ClaimFallsDue
    PROVE  WaiverInv'
PROOF
  <1>1. Shape
    BY ShapeFollows
  <1>2. /\ UNCHANGED rosterVars /\ claims' = claims /\ priority' = priority /\ faab' = faab
        /\ reserved' = reserved /\ lease' = lease /\ run' = run /\ overran' = overran /\ faults' = faults
        /\ dueCount < Len(claims) /\ dueCount' = dueCount + 1
        /\ creating' = creating /\ disagreed' = disagreed
    BY DEF ClaimFallsDue, ledger, firstClaims
  <1>3. RosterTypeOK' /\ dueCount' \in 0 .. Len(claims')
    BY <1>1, <1>2, RosterTypesStay, ClaimsTyped DEF Shape
  <1>4. Shape'
    BY <1>1, <1>2, <1>3 DEF Shape, RunRecord, ClaimRecord
  <1>5. \A r \in Run : run[r].taken # Null => claims'[run[r].taken].status = "PENDING"
    BY <1>2 DEF WaiverInv, RunFits
  <1>6. RowsFit' /\ (~overran /\ ~disagreed => NewRowsFit')
    <2>1. RowsFit /\ (~overran /\ ~disagreed => NewRowsFit)
      BY DEF WaiverInv, Orderly
    <2> QED BY <1>2, <2>1, RowsFitKept, NewRowsFitKept
  <1> QED BY <1>2, <1>4, <1>5, <1>6, QuietKeeps DEF rosterVars

LEMMA LeaseAgesKeeps ==
    ASSUME WaiverInv, LeaseGoesStale \/ LeaseIsOutlived
    PROVE  WaiverInv'
PROOF
  <1>1. Shape
    BY ShapeFollows
  <1>2. /\ UNCHANGED rosterVars /\ claims' = claims /\ priority' = priority /\ faab' = faab
        /\ reserved' = reserved /\ run' = run /\ overran' = overran /\ dueCount' = dueCount
        /\ lease # Null /\ lease' = [lease EXCEPT !.stale = TRUE]
        /\ creating' = creating /\ disagreed' = disagreed
    BY DEF LeaseGoesStale, LeaseIsOutlived, ledger, firstClaims
  <1>3. lease' \in [holder : Run, stale : BOOLEAN] /\ lease'.holder = lease.holder
    BY <1>1, <1>2 DEF Shape
  <1>4. faults' \in 0 .. MaxFaults
    BY <1>1, WaiverAssumption DEF Shape, LeaseGoesStale, LeaseIsOutlived
  <1>5. RosterTypeOK'
    BY <1>1, <1>2, RosterTypesStay DEF Shape
  <1>6. Shape'
    BY <1>1, <1>2, <1>3, <1>4, <1>5 DEF Shape, RunRecord, ClaimRecord
  <1>7. \A r \in Run : run[r].taken # Null => claims'[run[r].taken].status = "PENDING"
    BY <1>2 DEF WaiverInv, RunFits
  <1>8. lease' # Null
    BY <1>3, WaiverAssumption
  <1>9. RowsFit' /\ (~overran /\ ~disagreed => NewRowsFit')
    <2>1. RowsFit /\ (~overran /\ ~disagreed => NewRowsFit)
      BY DEF WaiverInv, Orderly
    <2> QED BY <1>2, <2>1, RowsFitKept, NewRowsFitKept
  <1> QED BY <1>2, <1>3, <1>6, <1>7, <1>8, <1>9, QuietKeeps DEF rosterVars

\* A settled claim changes its status alone.
LEMMA StatusSet ==
    ASSUME Shape, NEW i \in DOMAIN claims, NEW status \in {"PENDING", "PROCESSED", "REJECTED", "CANCELLED"},
           claims' = [claims EXCEPT ![i].status = status]
    PROVE  /\ claims' \in Seq(ClaimRecord) /\ DOMAIN claims' = DOMAIN claims /\ Len(claims') = Len(claims)
           /\ \A j \in DOMAIN claims : claims'[j].offer = claims[j].offer
           /\ \A j \in DOMAIN claims \ {i} : claims'[j] = claims[j]
           /\ claims'[i].status = status
PROOF
  <1>1. /\ DOMAIN claims = 1 .. Len(claims) /\ Len(claims) \in Nat
        /\ \A j \in DOMAIN claims : claims[j] \in ClaimRecord
    BY ClaimsTyped
  <1>2. claims' \in [DOMAIN claims -> ClaimRecord]
    BY <1>1 DEF ClaimRecord
  <1>3. claims' \in Seq(ClaimRecord) /\ Len(claims') = Len(claims) /\ DOMAIN claims' = DOMAIN claims
    BY <1>1, <1>2, SeqDef, LenProperties
  <1>4. /\ \A j \in DOMAIN claims : claims'[j].offer = claims[j].offer
        /\ \A j \in DOMAIN claims \ {i} : claims'[j] = claims[j]
        /\ claims'[i].status = status
    BY <1>1 DEF ClaimRecord
  <1> QED BY <1>3, <1>4

LEMMA ReleaseTypes ==
    ASSUME Shape, NEW i \in DOMAIN claims, releasePendingBid(i)
    PROVE  reserved' \in [Member -> Nat]
PROOF
  <1>1. claims[i].offer.member \in Member /\ claims[i].offer.bid \in Nat /\ reserved \in [Member -> Nat]
    BY ClaimsTyped DEF Shape
  <1> QED BY <1>1 DEF releasePendingBid

LEMMA CancelKeeps ==
    ASSUME WaiverInv, NEW i \in DOMAIN claims, cancelPendingClaim(i)
    PROVE  WaiverInv'
PROOF
  <1>1. Shape
    BY ShapeFollows
  <1>2. /\ UNCHANGED rosterVars /\ dueCount' = dueCount /\ priority' = priority /\ faab' = faab
        /\ lease' = lease /\ run' = run /\ overran' = overran /\ faults' = faults
        /\ ~Locked(i) /\ claims' = [claims EXCEPT ![i].status = "CANCELLED"] /\ releasePendingBid(i)
        /\ creating' = creating /\ disagreed' = disagreed
    BY DEF cancelPendingClaim, firstClaims
  <1>3. /\ claims' \in Seq(ClaimRecord) /\ DOMAIN claims' = DOMAIN claims /\ Len(claims') = Len(claims)
        /\ \A j \in DOMAIN claims : claims'[j].offer = claims[j].offer
        /\ \A j \in DOMAIN claims \ {i} : claims'[j] = claims[j]
    BY <1>1, <1>2, StatusSet
  <1>4. reserved' \in [Member -> Nat] /\ RosterTypeOK'
    BY <1>1, <1>2, ReleaseTypes, RosterTypesStay DEF Shape
  <1>5. Shape'
    BY <1>1, <1>2, <1>3, <1>4 DEF Shape, RunRecord, ClaimRecord
  <1>6. ASSUME NEW r \in Run, run[r].taken # Null
        PROVE  claims'[run[r].taken].status = "PENDING"
    <2>1. run[r].taken \in DOMAIN claims \ {i}
      BY <1>1, <1>2, <1>6, RunTyped DEF Locked
    <2> QED BY <1>3, <1>6, <2>1 DEF WaiverInv, RunFits
  <1>7. RowsFit' /\ (~overran /\ ~disagreed => NewRowsFit')
    <2>1. RowsFit /\ (~overran /\ ~disagreed => NewRowsFit)
      BY DEF WaiverInv, Orderly
    <2> QED BY <1>2, <1>3, <2>1, RowsFitKept, NewRowsFitKept
  <1> QED BY <1>2, <1>3, <1>5, <1>6, <1>7, QuietKeeps DEF rosterVars

\* A step of one run that moves no player and no priority disturbs no other run.
LEMMA OneRunKeeps ==
    ASSUME WaiverInv, Shape', NEW r \in Run, \A o \in Run \ {r} : run'[o] = run[o], UNCHANGED rosterVars,
           priority' = priority, faab' = faab, overran' = overran, UNCHANGED firstClaims,
           DOMAIN claims' = DOMAIN claims,
           \A i \in DOMAIN claims : claims'[i].offer = claims[i].offer,
           \A o \in Run \ {r} : run[o].taken # Null => claims'[run[o].taken].status = "PENDING",
           \/ lease' = lease
           \/ ~overran => lease # Null /\ lease.holder = r,
           RunFits(r)', RunsApart', ~overran /\ Active(r)' => Alone(r)',
           ~overran /\ ~disagreed /\ Active(r)' => InStep(r)'
    PROVE  WaiverInv'
PROOF
  <1>1. Shape /\ (\A o \in Run : RunFits(o)) /\ RunsApart
    BY ShapeFollows DEF WaiverInv
  <1>2. Rowed' = Rowed /\ creating' = creating /\ disagreed' = disagreed
    BY DEF Rowed, firstClaims
  <1>3. \A o \in Run : RunFits(o)'
    <2>1. ASSUME NEW o \in Run \ {r}
          PROVE  RunFits(o)'
      BY <1>1, <1>2, FitsKept
    <2> QED BY <2>1
  <1>4. RowsFit'
    BY <1>2, RowsFitKept DEF WaiverInv
  <1>5. Undisturbed'
    <2>1. ASSUME ~overran', NEW o \in Run \ {r}, Active(o)'
          PROVE  Alone(o)'
      <3>1. Alone(o)
        BY <2>1 DEF WaiverInv, Undisturbed, Active
      <3>2. lease' # Null /\ lease'.holder = lease.holder
        BY <2>1, <3>1 DEF Alone
      <3> QED BY <1>1, <2>1, <3>1, <3>2, AloneKept DEF rosterVars
    <2> QED BY <2>1 DEF Undisturbed
  <1>6. Orderly'
    <2>1. SUFFICES ASSUME ~overran', ~disagreed'
                   PROVE  OneEach' /\ NewRowsFit' /\ \A o \in Run : Active(o)' => InStep(o)'
      BY DEF Orderly
    <2>2. OneEach /\ NewRowsFit /\ \A o \in Run : Active(o) => InStep(o)
      BY <1>2, <2>1 DEF WaiverInv, Orderly
    <2>3. OneEach' /\ NewRowsFit'
      BY <1>2, <2>2, NewRowsFitKept DEF OneEach
    <2>4. ASSUME NEW o \in Run \ {r}, Active(o)'
          PROVE  InStep(o)'
      <3>1. InStep(o) /\ \A m \in Rowed : priority'[m] = priority[m]
        BY <2>2, <2>4 DEF Active
      <3> QED BY <1>1, <1>2, <3>1, InStepKept
    <2> QED BY <1>2, <2>1, <2>3, <2>4
  <1> QED BY <1>1, <1>3, <1>4, <1>5, <1>6, InvFromParts

LEMMA NoRunTyped ==
    /\ NoRun \in RunRecord /\ NoRun.taken = Null /\ NoRun.phase = "idle" /\ NoRun.todo = {}
    /\ DOMAIN NoRun.rank = {}
PROOF
  <1>1. <<>> \in [{} -> DOMAIN Order] /\ DOMAIN <<>> = {}
    OBVIOUS
  <1>2. <<>> \in UNION {[D -> DOMAIN Order] : D \in SUBSET Member}
    BY <1>1
  <1> QED BY <1>1, <1>2 DEF NoRun, RunRecord, Rank

\* A run that ends leaves nothing behind but, perhaps, its lease.
LEMMA EndsKeeps ==
    ASSUME WaiverInv, NEW r \in Run, RunFinishes(r) \/ RunFails(r) \/ RunDies(r)
    PROVE  WaiverInv'
PROOF
  <1>1. Shape /\ RunsApart /\ \A o \in Run : RunFits(o)
    BY ShapeFollows DEF WaiverInv
  <1>2. /\ UNCHANGED rosterVars /\ dueCount' = dueCount /\ priority' = priority /\ faab' = faab
        /\ reserved' = reserved /\ claims' = claims /\ overran' = overran /\ Active(r)
        /\ run' = [run EXCEPT ![r] = NoRun] /\ UNCHANGED firstClaims
    BY DEF RunFinishes, RunFails, RunDies, ledger, Active
  <1>3. lease' \in [holder : Run, stale : BOOLEAN] \cup {Null}
    BY <1>1, <1>2 DEF Shape, RunFinishes, RunFails, RunDies, releaseProcessingLease
  <1>4. faults' \in 0 .. MaxFaults
    BY <1>1, WaiverAssumption DEF Shape, RunFinishes, RunFails, RunDies
  <1>5. run'[r] = NoRun /\ (\A o \in Run \ {r} : run'[o] = run[o]) /\ run' \in [Run -> RunRecord]
    BY <1>1, <1>2, NoRunTyped DEF Shape
  <1>6. Shape'
    BY <1>1, <1>2, <1>3, <1>4, <1>5, RosterTypesStay DEF Shape, RunRecord, ClaimRecord, firstClaims
  <1>7. RunFits(r)'
    BY <1>5, NoRunTyped DEF RunFits
  <1>8. RunsApart'
    BY <1>1, <1>2, <1>5, NoRunTyped, ApartKept
  <1>9. ~overran => lease # Null /\ lease.holder = r
    BY <1>2 DEF WaiverInv, Undisturbed, Alone
  <1>10. ~Active(r)'
    BY <1>5, NoRunTyped DEF Active
  <1>11. \A o \in Run : run[o].taken # Null => claims'[run[o].taken].status = "PENDING"
    BY <1>1, <1>2 DEF RunFits
  <1> QED BY <1>2, <1>5, <1>6, <1>7, <1>8, <1>9, <1>10, <1>11, OneRunKeeps

LEMMA RejectKeeps ==
    ASSUME WaiverInv, NEW r \in Run, rejectClaim(r)
    PROVE  WaiverInv'
PROOF
  <1> DEFINE i == run[r].taken
             next == [run[r] EXCEPT !.phase = "choosing", !.taken = Null, !.plan = "none"]
  <1>1. Shape /\ RunsApart /\ \A o \in Run : RunFits(o)
    BY ShapeFollows DEF WaiverInv
  <1>2. /\ UNCHANGED rosterVars /\ dueCount' = dueCount /\ priority' = priority /\ faab' = faab
        /\ lease' = lease /\ overran' = overran /\ faults' = faults
        /\ claims' = [claims EXCEPT ![i].status = "REJECTED"] /\ releasePendingBid(i)
        /\ run[r].phase = "settling" /\ UNCHANGED firstClaims
    BY DEF rejectClaim
  <1>3. run' = [run EXCEPT ![r] = next]
    BY <1>1, RunTyped DEF rejectClaim, Shape, RunRecord
  <1>4. i \in DOMAIN claims
    BY <1>1, <1>2, RunTyped DEF RunFits
  <1>5. /\ claims' \in Seq(ClaimRecord) /\ DOMAIN claims' = DOMAIN claims /\ Len(claims') = Len(claims)
        /\ \A j \in DOMAIN claims : claims'[j].offer = claims[j].offer
        /\ \A j \in DOMAIN claims \ {i} : claims'[j] = claims[j]
    BY <1>1, <1>2, <1>4, StatusSet
  <1>6. /\ next \in RunRecord /\ next.taken = Null /\ next.phase = "choosing" /\ next.todo = run[r].todo
        /\ next.rank = run[r].rank
    BY <1>1, RunTyped DEF RunRecord
  <1>7. run'[r] = next /\ (\A o \in Run \ {r} : run'[o] = run[o]) /\ run' \in [Run -> RunRecord]
    BY <1>1, <1>3, <1>6 DEF Shape
  <1>8. reserved' \in [Member -> Nat] /\ RosterTypeOK'
    BY <1>1, <1>2, <1>4, ReleaseTypes, RosterTypesStay DEF Shape
  <1> HIDE DEF next
  <1>9. Shape'
    BY <1>1, <1>2, <1>5, <1>7, <1>8 DEF Shape, RunRecord, ClaimRecord, firstClaims
  <1>10. RunFits(r)'
    BY <1>1, <1>2, <1>5, <1>6, <1>7, RunTyped DEF RunFits, Rowed
  <1>11. RunsApart'
    BY <1>1, <1>5, <1>6, <1>7, ApartKept
  <1>12. \A o \in Run \ {r} : run[o].taken # Null => claims'[run[o].taken].status = "PENDING"
    BY <1>1, <1>4, <1>5, RunTyped DEF RunFits, RunsApart
  <1>13. ASSUME ~overran
         PROVE  Alone(r)' /\ (~disagreed => InStep(r)')
    BY <1>2, <1>6, <1>7, <1>13 DEF WaiverInv, Undisturbed, Alone, Orderly, InStep, Active
  <1> QED BY <1>2, <1>5, <1>7, <1>9, <1>10, <1>11, <1>12, <1>13, OneRunKeeps

\* Two orders that agree on the claimants sort the claims alike.
LEMMA AgreeingOrders ==
    ASSUME Shape, NEW i \in DOMAIN claims, NEW j \in DOMAIN claims, NEW rank, NEW other,
           NEW m, NEW n, m = claims[i].offer.member, n = claims[j].offer.member,
           rank[m] \in Int, rank[n] \in Int, other[m] \in Int, other[n] \in Int,
           rank[m] < rank[n] => other[m] < other[n], rank[m] = rank[n] => m = n,
           SortsBefore(SortKey(i, rank), SortKey(j, rank))
    PROVE  SortsBefore(SortKey(i, other), SortKey(j, other))
PROOF
  <1> DEFINE a == SortKey(i, rank)
             b == SortKey(j, rank)
             c == SortKey(i, other)
             d == SortKey(j, other)
  <1>1. a \in Key /\ b \in Key /\ c \in Key /\ d \in Key
    BY KeysDiffer DEF Shape
  <1>2. /\ a[1] = c[1] /\ a[3] = c[3] /\ a[4] = c[4] /\ a[2] = rank[m] /\ c[2] = other[m]
        /\ b[1] = d[1] /\ b[3] = d[3] /\ b[4] = d[4] /\ b[2] = rank[n] /\ d[2] = other[n]
    BY DEF SortKey
  <1>3. SortsBefore(a, b)
    OBVIOUS
  <1> HIDE DEF a, b, c, d
  <1>4. \/ a[1] < b[1]
        \/ a[1] = b[1] /\ a[2] < b[2]
        \/ a[1] = b[1] /\ a[2] = b[2] /\ a[3] < b[3]
        \/ a[1] = b[1] /\ a[2] = b[2] /\ a[3] = b[3] /\ a[4] < b[4]
    BY <1>1, <1>3, SortsBeforeStepwise
  <1>5. a[2] = b[2] => c[2] = d[2]
    BY <1>2
  <1>6. a[2] < b[2] => c[2] < d[2]
    BY <1>2
  <1>7. \/ c[1] < d[1]
        \/ c[1] = d[1] /\ c[2] < d[2]
        \/ c[1] = d[1] /\ c[2] = d[2] /\ c[3] < d[3]
        \/ c[1] = d[1] /\ c[2] = d[2] /\ c[3] = d[3] /\ c[4] < d[4]
    BY <1>2, <1>4, <1>5, <1>6
  <1>8. SortsBefore(c, d)
    BY <1>1, <1>7, SortsBeforeStepwise
  <1> QED BY <1>8 DEF c, d

\* A run that begins copies what the rows say.
LEMMA AcquireKeeps ==
    ASSUME WaiverInv, NEW r \in Run, acquireProcessingLease(r)
    PROVE  WaiverInv'
PROOF
  <1> DEFINE todo == {i \in Pending : i <= dueCount}
             D == {claims[i].offer.member : i \in todo}
             rank == Restrict(priority, D)
             next == loadPendingClaims
  <1>1. Shape /\ RunsApart /\ \A o \in Run : RunFits(o)
    BY ShapeFollows DEF WaiverInv
  <1>2. /\ UNCHANGED rosterVars /\ dueCount' = dueCount /\ priority' = priority /\ faab' = faab
        /\ reserved' = reserved /\ claims' = claims /\ faults' = faults
        /\ run' = [run EXCEPT ![r] = next] /\ lease' = [holder |-> r, stale |-> FALSE]
        /\ overran' = (overran \/ \E o \in Run : Active(o)) /\ ~Active(r)
        /\ UNCHANGED firstClaims
    BY DEF acquireProcessingLease, ledger
  <1>3. todo \subseteq DOMAIN claims /\ D \subseteq Rowed /\ D \subseteq Member
    BY DEF Pending, WaiverInv, RowsFit, Rowed
  <1>4. DOMAIN rank = D /\ \A m \in D : rank[m] = priority[m]
    BY <1>1, <1>3 DEF Restrict, Shape
  <1>5. priority' = priority /\ Rowed' = Rowed /\ creating' = creating /\ disagreed' = disagreed
    BY <1>2 DEF Rowed, firstClaims
  <1>6. rank \in [D -> DOMAIN Order]
    <2>1. \A m \in D : priority[m] \in DOMAIN Order
      BY <1>1, <1>3, RowsTyped
    <2>2. rank = [m \in D |-> rank[m]]
      BY <1>1, <1>3 DEF Restrict, Shape
    <2> QED BY <1>4, <2>1, <2>2
  <1>7. /\ next.phase = "choosing" /\ next.todo = todo /\ next.rank = rank /\ next.taken = Null
        /\ next.plan = "none" /\ next.entries = <<>>
    BY DEF loadPendingClaims
  <1>8. next \in RunRecord
    <2>1. rank \in UNION {[S -> DOMAIN Order] : S \in SUBSET Member}
      BY <1>3, <1>6
    <2> HIDE DEF rank
    <2>2. next = [phase |-> "choosing", todo |-> todo, rank |-> rank, taken |-> Null, plan |-> "none",
                  entries |-> <<>>]
      BY DEF loadPendingClaims, rank
    <2>3. <<>> \in UNION {[S -> DOMAIN Order] : S \in SUBSET Member}
      <3>1. <<>> \in [{} -> DOMAIN Order]
        OBVIOUS
      <3> QED BY <3>1
    <2> HIDE DEF next, todo
    <2> QED BY <1>3, <2>1, <2>2, <2>3 DEF RunRecord, Rank
  <1>9. \A i \in todo : claims[i].offer.member \in D
    OBVIOUS
  <1> HIDE DEF next, rank, D, todo
  <1>10. run'[r] = next /\ (\A o \in Run \ {r} : run'[o] = run[o]) /\ run' \in [Run -> RunRecord]
    BY <1>1, <1>2, <1>8 DEF Shape
  <1>11. Shape'
    <2>1. lease' \in [holder : Run, stale : BOOLEAN] /\ overran' \in BOOLEAN /\ RosterTypeOK'
      BY <1>1, <1>2, RosterTypesStay DEF Shape
    <2> QED BY <1>1, <1>2, <1>5, <1>10, <2>1 DEF Shape, RunRecord, ClaimRecord
  <1>12. \A o \in Run : RunFits(o)'
    <2>1. RunFits(r)'
      BY <1>2, <1>3, <1>4, <1>5, <1>7, <1>9, <1>10 DEF RunFits
    <2>2. ASSUME NEW o \in Run \ {r}
          PROVE  RunFits(o)'
      <3>1. run[o].taken # Null => claims'[run[o].taken].status = "PENDING"
        BY <1>1, <1>2 DEF RunFits
      <3> QED BY <1>1, <1>2, <1>5, <1>10, <3>1, FitsKept
    <2> QED BY <2>1, <2>2
  <1>13. RunsApart'
    BY <1>1, <1>2, <1>7, <1>10, ApartKept
  <1>14. RowsFit'
    BY <1>2, <1>5, RowsFitKept DEF WaiverInv
  <1>15. ASSUME ~overran'
         PROVE  ~overran /\ \A o \in Run \ {r} : ~Active(o)'
    BY <1>2, <1>10, <1>15 DEF Active
  <1>16. Undisturbed'
    <2>1. lease' # Null /\ lease'.holder = r
      <3>1. lease' \in [holder : Run, stale : BOOLEAN]
        BY <1>2
      <3> QED BY <1>2, <3>1, WaiverAssumption
    <2>2. Alone(r)'
      BY <1>7, <1>10, <2>1 DEF Alone
    <2> QED BY <1>15, <2>2 DEF Undisturbed
  <1>17. Orderly'
    <2>1. SUFFICES ASSUME ~overran', ~disagreed'
                   PROVE  OneEach' /\ NewRowsFit' /\ \A o \in Run : Active(o)' => InStep(o)'
      BY DEF Orderly
    <2>2. OneEach /\ NewRowsFit
      BY <1>5, <1>15, <2>1 DEF WaiverInv, Orderly
    <2>3. OneEach' /\ NewRowsFit'
      BY <1>5, <2>2, NewRowsFitKept DEF OneEach
    <2>4. \A m, n \in D : rank[m] = rank[n] => m = n
      BY <1>3, <1>4, <2>2 DEF OneEach
    <2>5. InStep(r)'
      BY <1>4, <1>5, <1>7, <1>10, <2>4 DEF InStep
    <2> QED BY <1>15, <2>1, <2>3, <2>5
  <1> QED BY <1>11, <1>12, <1>13, <1>14, <1>16, <1>17, InvFromParts

LEMMA BalanceTyped ==
    ASSUME Shape, IsFAAB, NEW m \in Member
    PROVE  Balance(m) \in Nat /\ Budget \in Nat
PROOF BY WaiverAssumption DEF Balance, Shape

\* The claim a run takes is nobody else's, and the first by the stored priorities as
\* well if the run is alone.
LEMMA TakeKeeps ==
    ASSUME WaiverInv, NEW r \in Run, claimPending(r)
    PROVE  WaiverInv'
PROOF
  <1>0. PICK i, plan, next :
          /\ i = First(run[r].todo, run[r].rank) /\ plan = buildCanonicalRosterPlan(i)
          /\ next = IF i \in Pending
                    THEN [run[r] EXCEPT !.phase = "settling", !.todo = run[r].todo \ {i}, !.taken = i,
                                         !.plan = plan]
                    ELSE [run[r] EXCEPT !.todo = run[r].todo \ {i}]
    OBVIOUS
  <1>1. Shape /\ RunsApart /\ \A o \in Run : RunFits(o)
    BY ShapeFollows DEF WaiverInv
  <1>2. /\ UNCHANGED rosterVars /\ dueCount' = dueCount /\ priority' = priority /\ faab' = faab
        /\ reserved' = reserved /\ claims' = claims /\ lease' = lease /\ overran' = overran
        /\ faults' = faults /\ run' = [run EXCEPT ![r] = next]
        /\ ~Locked(i) /\ run[r].phase = "choosing" /\ run[r].todo # {} /\ UNCHANGED firstClaims
    <2>1. ~Locked(i) /\ run[r].phase = "choosing" /\ run[r].todo # {}
      BY <1>0 DEF claimPending
    <2>2. run' = [run EXCEPT ![r] = next]
      BY <1>0 DEF claimPending
    <2> QED BY <2>1, <2>2 DEF claimPending, ledger
  <1>3. /\ run[r].todo \subseteq DOMAIN claims /\ run[r].rank \in Rank /\ run[r].taken = Null
        /\ \A j \in run[r].todo : claims[j].offer.member \in DOMAIN run[r].rank
    BY <1>1, <1>2, RunTyped DEF RunFits
  <1>4. /\ i \in run[r].todo
        /\ \A j \in run[r].todo \ {i} : SortsBefore(SortKey(i, run[r].rank), SortKey(j, run[r].rank))
    BY <1>0, <1>1, <1>2, <1>3, FirstIsFirst DEF Shape
  <1>5. plan \in {"READY", "FAILED"} /\ (plan = "READY" => roster[claims[i].offer.player] = Null)
    BY <1>0 DEF buildCanonicalRosterPlan
  <1>6. i \in DOMAIN claims /\ i # Null
    BY <1>1, <1>3, <1>4, ClaimsTyped
  <1>7. ASSUME i \in Pending
        PROVE  /\ next \in RunRecord /\ next.phase = "settling" /\ next.todo = run[r].todo \ {i}
               /\ next.taken = i /\ next.rank = run[r].rank /\ next.plan = plan
    BY <1>0, <1>1, <1>5, <1>6, <1>7, RunTyped DEF RunRecord
  <1>8. ASSUME i \notin Pending
        PROVE  /\ next \in RunRecord /\ next.phase = "choosing" /\ next.todo = run[r].todo \ {i}
               /\ next.taken = Null /\ next.rank = run[r].rank
    BY <1>0, <1>1, <1>2, <1>3, <1>8, RunTyped DEF RunRecord
  <1>9. run'[r] = next /\ (\A o \in Run \ {r} : run'[o] = run[o]) /\ run' \in [Run -> RunRecord]
    BY <1>1, <1>2, <1>7, <1>8 DEF Shape
  <1>10. Shape' /\ Rowed' = Rowed
    <2>1. Shape'
      BY <1>1, <1>2, <1>9, RosterTypesStay DEF Shape, RunRecord, ClaimRecord, firstClaims
    <2> QED BY <1>2, <2>1 DEF Rowed
  <1>11. RunFits(r)'
    <2>1. CASE i \in Pending
      BY <1>1, <1>2, <1>3, <1>4, <1>6, <1>7, <1>9, <1>10, <2>1 DEF RunFits, Pending
    <2>2. CASE i \notin Pending
      BY <1>1, <1>2, <1>3, <1>8, <1>9, <1>10, <2>2 DEF RunFits
    <2> QED BY <2>1, <2>2
  <1>12. RunsApart'
    <2>1. CASE i \in Pending
      <3>1. next.phase # "advancing" /\ next.taken = i /\ \A o \in Run : run[o].taken # i
        BY <1>2, <1>7, <2>1 DEF Locked
      <3> QED BY <1>1, <1>2, <1>9, <3>1 DEF RunsApart, Written
    <2>2. CASE i \notin Pending
      BY <1>1, <1>2, <1>8, <1>9, <2>2, ApartKept
    <2> QED BY <2>1, <2>2
  <1>13. ASSUME ~overran
         PROVE  Alone(r)'
    <2>1. Alone(r)
      BY <1>2, <1>13 DEF WaiverInv, Undisturbed, Active
    <2>2. CASE i \in Pending
      BY <1>2, <1>5, <1>7, <1>9, <2>1, <2>2 DEF Alone, rosterVars
    <2>3. CASE i \notin Pending
      BY <1>2, <1>8, <1>9, <2>1, <2>3 DEF Alone
    <2> QED BY <2>2, <2>3
  <1>14. ASSUME ~overran, ~disagreed
         PROVE  InStep(r)'
    <2>1. InStep(r)
      BY <1>2, <1>14 DEF WaiverInv, Orderly, Active
    <2>2. CASE i \in Pending
      <3>1. ASSUME NEW j \in run[r].todo \ {i}
            PROVE  SortsBefore(SortKey(i, priority), SortKey(j, priority))
        <4>1. PICK m, n : m = claims[i].offer.member /\ n = claims[j].offer.member
          OBVIOUS
        <4>2. m \in DOMAIN run[r].rank /\ n \in DOMAIN run[r].rank /\ j \in DOMAIN claims
          BY <1>3, <1>4, <4>1
        <4>3. m \in Rowed /\ n \in Rowed
          BY <1>1, <4>2 DEF RunFits
        <4>4. priority[m] \in Int /\ priority[n] \in Int
          BY <1>1, <4>3, RowsTyped
        <4>5. run[r].rank[m] \in Int /\ run[r].rank[n] \in Int
          BY <1>1, <4>2, RunTyped, PlacesAreOrder
        <4>6. SortsBefore(SortKey(i, run[r].rank), SortKey(j, run[r].rank))
          BY <1>4
        <4>7. /\ run[r].rank[m] < run[r].rank[n] => priority[m] < priority[n]
              /\ run[r].rank[m] = run[r].rank[n] => m = n
          BY <2>1, <4>2 DEF InStep
        <4> QED BY <1>1, <1>6, <4>1, <4>2, <4>4, <4>5, <4>6, <4>7, AgreeingOrders
      <3>2. \A j \in run[r].todo : SortKey(j, priority)' = SortKey(j, priority)
        BY <1>2 DEF SortKey
      <3>3. SortKey(i, priority)' = SortKey(i, priority)
        BY <1>2 DEF SortKey
      <3>4. \A j \in next.todo : SortsBefore(SortKey(next.taken, priority)', SortKey(j, priority)')
        BY <1>7, <2>2, <3>1, <3>2, <3>3
      <3> QED BY <1>2, <1>7, <1>9, <2>1, <2>2, <3>4 DEF InStep
    <2>3. CASE i \notin Pending
      BY <1>2, <1>8, <1>9, <2>1, <2>3 DEF InStep
    <2> QED BY <2>2, <2>3
  <1>15. \A o \in Run : run[o].taken # Null => claims'[run[o].taken].status = "PENDING"
    BY <1>1, <1>2 DEF RunFits
  <1> QED BY <1>2, <1>9, <1>10, <1>11, <1>12, <1>13, <1>14, <1>15, OneRunKeeps

\* The rows a settling run is about to write are no other run's.
LEMMA DebitKeeps ==
    ASSUME WaiverInv, NEW r \in Run, debitFaabInTransaction(r)
    PROVE  WaiverInv'
PROOF
  <1>0. PICK i, c, poor, entries, next :
          /\ i = run[r].taken /\ c = claims[i].offer
          /\ poor \in BOOLEAN /\ (poor <=> IsFAAB /\ Balance(c.member) < c.bid)
          /\ next = IF poor THEN [run[r] EXCEPT !.plan = "FAILED"]
                    ELSE [run[r] EXCEPT !.phase = "advancing", !.entries = entries]
          /\ entries = Restrict(priority, Rowed)
    OBVIOUS
  <1>1. Shape /\ RunsApart /\ \A o \in Run : RunFits(o)
    BY ShapeFollows DEF WaiverInv
  <1>2. /\ UNCHANGED rosterVars /\ dueCount' = dueCount /\ priority' = priority /\ faab' = faab
        /\ reserved' = reserved /\ claims' = claims /\ lease' = lease /\ overran' = overran
        /\ faults' = faults /\ run' = [run EXCEPT ![r] = next]
        /\ run[r].phase = "settling" /\ run[r].plan = "READY" /\ Written(c) \cap LockedRows = {}
        /\ UNCHANGED firstClaims
    BY <1>0 DEF debitFaabInTransaction, ledger
  <1>3. i \in DOMAIN claims /\ i # Null
    BY <1>0, <1>1, <1>2, RunTyped, ClaimsTyped DEF RunFits
  <1>4. /\ entries \in Rank /\ DOMAIN entries = Rowed /\ \A m \in Rowed : entries[m] = priority[m]
    <2>1. entries = [m \in Rowed |-> priority[m]] /\ Rowed \in SUBSET Member
      BY <1>0, <1>1, RowsTyped DEF Restrict, Shape, Rowed
    <2>2. entries \in [Rowed -> DOMAIN Order]
      BY <1>1, <2>1, RowsTyped
    <2> QED BY <2>1, <2>2 DEF Rank
  <1>5. IsFAAB /\ ~poor => Balance(c.member) >= c.bid
    <2>1. c.member \in Member /\ c.bid \in Nat
      BY <1>0, <1>1, <1>3, ClaimsTyped
    <2>2. IsFAAB => Balance(c.member) \in Nat
      BY <1>1, <2>1, BalanceTyped
    <2> QED BY <1>0, <2>1, <2>2
  <1>6. /\ next \in RunRecord /\ next.todo = run[r].todo /\ next.taken = i /\ next.rank = run[r].rank
        /\ next.phase \in {"settling", "advancing"}
        /\ next.phase = "advancing" => next.plan = "READY" /\ next.entries = entries /\ ~poor
    BY <1>0, <1>1, <1>2, <1>4, RunTyped DEF RunRecord
  <1>7. run'[r] = next /\ (\A o \in Run \ {r} : run'[o] = run[o]) /\ run' \in [Run -> RunRecord]
    BY <1>1, <1>2, <1>6 DEF Shape
  <1>8. Shape' /\ Rowed' = Rowed
    <2>1. Shape'
      BY <1>1, <1>2, <1>7, RosterTypesStay DEF Shape, RunRecord, ClaimRecord, firstClaims
    <2> QED BY <1>2, <2>1 DEF Rowed
  <1>9. RunFits(r)'
    <2>1. Balance(c.member)' = Balance(c.member)
      BY <1>2 DEF Balance
    <2>2. next.phase = "advancing" /\ IsFAAB => Balance(c.member)' >= c.bid
      BY <1>5, <1>6, <2>1
    <2>3. \A m \in Rowed : entries[m] <= Cardinality(DOMAIN entries)
      BY <1>4 DEF WaiverInv, RowsFit
    <2>4. DOMAIN run[r].rank \subseteq DOMAIN entries
      BY <1>1, <1>4 DEF RunFits
    <2>5. next.phase = "advancing" =>
             /\ next.plan = "READY" /\ (IsFAAB => Balance(c.member)' >= c.bid)
             /\ DOMAIN next.rank \subseteq DOMAIN next.entries /\ DOMAIN next.entries \subseteq Rowed
             /\ \A m \in DOMAIN next.entries : next.entries[m] <= Cardinality(DOMAIN next.entries)
      BY <1>4, <1>6, <2>2, <2>3, <2>4
    <2>6. /\ claims[i].status = "PENDING" /\ i \notin run[r].todo /\ DOMAIN run[r].rank \subseteq Rowed
          /\ \A j \in run[r].todo \cup {i} : claims[j].offer.member \in DOMAIN run[r].rank
      BY <1>0, <1>1, <1>3 DEF RunFits
    <2>7. claims' = claims /\ run'[r] = next /\ claims'[next.taken].offer = c /\ next.taken = i
          /\ next.todo = run[r].todo /\ next.rank = run[r].rank /\ next.phase \in {"settling", "advancing"}
      BY <1>0, <1>2, <1>6, <1>7
    <2> HIDE <1>0
    <2> QED BY <1>3, <1>8, <2>5, <2>6, <2>7 DEF RunFits, Balance
  <1>10. RunsApart'
    <2>1. \A o \in Run : run'[o].taken = run[o].taken
      BY <1>0, <1>6, <1>7
    <2>2. ASSUME NEW o \in Run \ {r}, run[o].phase = "advancing"
          PROVE  Written(c) \cap Written(claims[run[o].taken].offer) = {}
      <3>1. Written(claims[run[o].taken].offer) \subseteq LockedRows
        BY <2>2 DEF LockedRows
      <3> QED BY <1>2, <3>1
    <2>3. ASSUME NEW a \in Run, NEW o \in Run, a # o, run'[a].phase = "advancing", run'[o].phase = "advancing",
                 run[a].taken # Null
          PROVE  Written(claims[run[a].taken].offer) \cap Written(claims[run[o].taken].offer) = {}
      <3>1. CASE a = r
        BY <1>0, <1>7, <2>2, <2>3, <3>1
      <3>2. CASE o = r
        BY <1>0, <1>7, <2>2, <2>3, <3>2
      <3>3. CASE a # r /\ o # r
        BY <1>1, <1>7, <2>3, <3>3 DEF RunsApart
      <3> QED BY <3>1, <3>2, <3>3
    <2>4. \A a, o \in Run : a # o /\ run'[a].taken # Null => run'[a].taken # run'[o].taken
      BY <1>1, <2>1 DEF RunsApart
    <2>5. \A a, o \in Run : a # o /\ run'[a].taken # Null =>
             (run'[a].phase = "advancing" /\ run'[o].phase = "advancing" =>
                Written(claims'[run'[a].taken].offer) \cap Written(claims'[run'[o].taken].offer) = {})
      BY <1>2, <2>1, <2>3
    <2> QED BY <2>4, <2>5 DEF RunsApart, Written
  <1>11. ASSUME ~overran
         PROVE  Alone(r)'
    BY <1>0, <1>2, <1>6, <1>7, <1>11 DEF WaiverInv, Undisturbed, Active, Alone, rosterVars
  <1>12. ASSUME ~overran, ~disagreed
         PROVE  InStep(r)'
    <2>1. InStep(r)
      BY <1>2, <1>12 DEF WaiverInv, Orderly, Active
    <2>2. \A j \in DOMAIN claims : SortKey(j, priority)' = SortKey(j, priority)
      BY <1>2 DEF SortKey
    <2>3. \A j \in next.todo : SortsBefore(SortKey(next.taken, priority)', SortKey(j, priority)')
      BY <1>0, <1>1, <1>3, <1>6, <2>1, <2>2, RunTyped DEF InStep
    <2>4. next.phase = "advancing" => /\ \A m \in DOMAIN next.entries : next.entries[m] = priority[m]
                                      /\ Rowed \ DOMAIN next.entries = {}
      BY <1>4, <1>6
    <2> QED BY <1>2, <1>6, <1>7, <1>8, <2>1, <2>3, <2>4 DEF InStep
  <1>13. \A o \in Run : run[o].taken # Null => claims'[run[o].taken].status = "PENDING"
    BY <1>1, <1>2 DEF RunFits
  <1> QED BY <1>2, <1>7, <1>8, <1>9, <1>10, <1>11, <1>12, <1>13, OneRunKeeps

\* The last priority is the number of the rows there are, if no two are equal.
LEMMA LastIsTheCount ==
    ASSUME Shape, RowsFit
    PROVE  /\ LastPriority \in Nat /\ LastPriority <= Cardinality(Rowed)
           /\ OneEach => LastPriority = Cardinality(Rowed)
PROOF
  <1> DEFINE k == Cardinality(Rowed)
             R == {0} \cup {priority[m] : m \in Rowed}
  <1>1. k \in Nat /\ Rowed \in SUBSET Member /\ \A m \in Rowed : priority[m] \in 1 .. k
    BY RowsTyped DEF RowsFit
  <1>2. R \in SUBSET (0 .. k) /\ R # {}
    BY <1>1
  <1>3. 0 \in R /\ (\A m \in Rowed : priority[m] \in R) /\ LastPriority = Max(R)
    BY DEF LastPriority
  <1> HIDE DEF k, R
  <1>4. Max(R) \in R /\ \A n \in R : n <= Max(R)
    BY <1>1, <1>2, LastOfNumbers
  <1>5. ASSUME OneEach
        PROVE  k <= Max(R)
    <2>1. CASE k = 0
      BY <1>3, <1>4, <2>1
    <2>2. CASE k # 0
      <3>1. PICK rank : rank = [m \in Rowed |-> priority[m]]
        OBVIOUS
      <3>2. rank \in [Rowed -> 1 .. Cardinality(Rowed)]
        BY <1>1, <3>1 DEF k
      <3>3. \A m, n \in Rowed : rank[m] = rank[n] => m = n
        BY <1>5, <3>1 DEF OneEach
      <3>4. k \in 1 .. Cardinality(Rowed)
        BY <1>1, <2>2 DEF k
      <3>5. \E m \in Rowed : rank[m] = k
        BY <1>1, <3>2, <3>3, <3>4, AllNumbersTaken
      <3>6. PICK m \in Rowed : priority[m] = k
        BY <3>1, <3>5
      <3> QED BY <1>3, <1>4, <3>6
    <2> QED BY <2>1, <2>2
  <1>6. Max(R) \in 0 .. k
    BY <1>2, <1>4
  <1>7. Max(R) \in Nat /\ Max(R) <= k /\ (OneEach => Max(R) = k)
    BY <1>1, <1>5, <1>6
  <1> QED BY <1>3, <1>7 DEF k

\* A claim finds rows missing: what it is about to create goes behind those there are.
LEMMA BeginKeeps ==
    ASSUME WaiverInv, NEW o \in Offer, NEW missing \in SUBSET Member, NEW rows \in [missing -> DOMAIN Order],
           ensureLeaguePriorityRows(o, rows)
    PROVE  WaiverInv'
PROOF
  <1> DEFINE k == Cardinality(Rowed)
             n == Cardinality(missing)
  <1>1. Shape /\ DOMAIN rows = missing
    BY ShapeFollows
  <1>2. /\ UNCHANGED rosterVars /\ claims' = claims /\ dueCount' = dueCount /\ priority' = priority
        /\ faab' = faab /\ reserved' = reserved /\ lease' = lease /\ run' = run /\ overran' = overran
        /\ faults' = faults /\ creating' = [creating EXCEPT ![o] = rows]
        /\ disagreed' = (disagreed \/ \E c \in Offer : DOMAIN creating[c] \ Rowed \notin {{}, missing})
    BY <1>1 DEF ensureLeaguePriorityRows, ledger
  <1>3. /\ missing # {} /\ missing \cap Rowed = {} /\ o.member \in Rowed \cup missing
        /\ rows \in Bijection(missing, LastPriority + 1 .. LastPriority + Cardinality(missing))
    BY <1>1 DEF ensureLeaguePriorityRows
  <1>4. /\ \A m \in missing : rows[m] \in LastPriority + 1 .. LastPriority + Cardinality(missing)
        /\ \A m, c \in missing : rows[m] = rows[c] => m = c
    BY <1>1, <1>3 DEF Bijection, Injection, Surjection, IsInjective
  <1>5. k \in Nat /\ n \in Nat /\ Rowed \in SUBSET Member /\ Cardinality(Rowed \cup missing) = k + n
    <2>1. IsFiniteSet(Rowed) /\ IsFiniteSet(missing) /\ k \in Nat /\ n \in Nat /\ Rowed \in SUBSET Member
      BY <1>1, RowsTyped, MembersCounted
    <2>2. Cardinality(Rowed \cup missing) = k + n - Cardinality(Rowed \cap missing)
      BY <2>1, FS_Union
    <2>3. Cardinality(Rowed \cap missing) = 0
      <3>1. Rowed \cap missing = {}
        BY <1>3
      <3> QED BY <3>1, FS_EmptySet
    <2> HIDE DEF k, n
    <2> QED BY <2>1, <2>2, <2>3
  <1>6. /\ LastPriority \in Nat /\ LastPriority <= k
        /\ OneEach => LastPriority = k
    BY <1>1, LastIsTheCount DEF WaiverInv
  <1>7. rows \in Rank /\ creating' \in [Offer -> Rank]
    <2>1. rows \in Rank
      BY DEF Rank
    <2> QED BY <1>1, <1>2, <2>1 DEF Shape
  <1>8. Rowed' = Rowed /\ creating'[o] = rows /\ \A c \in Offer \ {o} : creating'[c] = creating[c]
    BY <1>1, <1>2 DEF Rowed, Shape
  <1>9. Shape'
    BY <1>1, <1>2, <1>7, RosterTypesStay DEF Shape, RunRecord, ClaimRecord
  <1> HIDE DEF k, n
  <1>10. RowsFit'
    <2>1. \A m \in missing : rows[m] <= Cardinality(Rowed \cup missing)
      BY <1>4, <1>5, <1>6 DEF n
    <2>2. \A c \in Offer :
             /\ DOMAIN creating'[c] # {} => c.member \in Rowed \cup DOMAIN creating'[c]
             /\ \A m \in DOMAIN creating'[c] : creating'[c][m] <= Cardinality(Rowed \cup DOMAIN creating'[c])
      BY <1>1, <1>3, <1>8, <2>1 DEF WaiverInv, RowsFit
    <2> QED BY <1>2, <1>8, <2>2 DEF WaiverInv, RowsFit
  <1>11. ASSUME ~overran, ~disagreed'
         PROVE  NewRowsFit'
    <2>1. OneEach /\ NewRowsFit /\ \A c \in Offer : DOMAIN creating[c] \ Rowed \in {{}, missing}
      BY <1>2, <1>11 DEF WaiverInv, Orderly
    <2>2. \A m \in missing : rows[m] > k
      BY <1>4, <1>5, <1>6, <2>1
    <2>3. ASSUME NEW c \in Offer \ {o}
          PROVE  DOMAIN creating[c] \subseteq Rowed \/ DOMAIN creating[c] = missing
      BY <1>3, <2>1 DEF NewRowsFit
    <2>4. ASSUME NEW c \in Offer
          PROVE  \/ DOMAIN creating'[c] \subseteq Rowed
                 \/ /\ DOMAIN creating'[c] \cap Rowed = {}
                    /\ \A m \in DOMAIN creating'[c] : creating'[c][m] > Cardinality(Rowed)
                    /\ \A m, d \in DOMAIN creating'[c] : creating'[c][m] = creating'[c][d] => m = d
      <3>1. CASE c = o
        BY <1>1, <1>3, <1>4, <1>8, <2>2, <3>1 DEF k
      <3>2. CASE c # o
        <4>1. creating'[c] = creating[c]
          BY <1>8, <3>2
        <4> QED BY <2>1, <4>1 DEF NewRowsFit
      <3> QED BY <3>1, <3>2
    <2>5. \A c \in Offer : DOMAIN creating'[c] \subseteq Rowed \/ DOMAIN creating'[c] = missing
      BY <1>1, <1>8, <2>3
    <2> QED BY <1>8, <2>4, <2>5 DEF NewRowsFit
  <1>12. \A r \in Run : run[r].taken # Null => claims'[run[r].taken].status = "PENDING"
    BY <1>2 DEF WaiverInv, RunFits
  <1> QED BY <1>2, <1>9, <1>10, <1>11, <1>12, QuietKeeps DEF rosterVars

LEMMA NoRows ==
    /\ <<>> \in Rank /\ DOMAIN <<>> = {}
    /\ \A rank \in Rank : DOMAIN rank = {} => rank = <<>>
PROOF
  <1>1. <<>> \in [{} -> DOMAIN Order] /\ DOMAIN <<>> = {}
    OBVIOUS
  <1>2. ASSUME NEW rank \in Rank, DOMAIN rank = {}
        PROVE  rank = <<>>
    <2>1. rank \in [{} -> DOMAIN Order]
      BY <1>2 DEF Rank
    <2> QED BY <1>1, <2>1
  <1> QED BY <1>1, <1>2 DEF Rank

LEMMA FailKeeps ==
    ASSUME WaiverInv, NEW o \in Offer, submitFails(o)
    PROVE  WaiverInv'
PROOF
  <1>1. Shape
    BY ShapeFollows
  <1>2. /\ UNCHANGED rosterVars /\ claims' = claims /\ dueCount' = dueCount /\ priority' = priority
        /\ faab' = faab /\ reserved' = reserved /\ lease' = lease /\ run' = run /\ overran' = overran
        /\ faults' = faults /\ creating' = [creating EXCEPT ![o] = <<>>] /\ disagreed' = disagreed
    BY DEF submitFails, ledger
  <1>3. /\ creating' \in [Offer -> Rank] /\ DOMAIN creating'[o] = {} /\ Rowed' = Rowed
        /\ \A c \in Offer \ {o} : creating'[c] = creating[c]
    BY <1>1, <1>2, NoRows DEF Shape, Rowed
  <1>4. Shape'
    BY <1>1, <1>2, <1>3, RosterTypesStay DEF Shape, RunRecord, ClaimRecord
  <1>5. RowsFit'
    <2>1. \A c \in Offer :
             /\ DOMAIN creating'[c] # {} => c.member \in Rowed \cup DOMAIN creating'[c]
             /\ \A m \in DOMAIN creating'[c] : creating'[c][m] <= Cardinality(Rowed \cup DOMAIN creating'[c])
      BY <1>3 DEF WaiverInv, RowsFit
    <2> QED BY <1>2, <1>3, <2>1 DEF WaiverInv, RowsFit
  <1>6. ASSUME ~overran, ~disagreed
        PROVE  NewRowsFit'
    <2>1. NewRowsFit
      BY <1>6 DEF WaiverInv, Orderly
    <2>2. ASSUME NEW c \in Offer, ~(DOMAIN creating'[c] \subseteq Rowed)
          PROVE  creating'[c] = creating[c]
      BY <1>3, <2>2
    <2> QED BY <1>3, <2>1, <2>2 DEF NewRowsFit
  <1>7. \A r \in Run : run[r].taken # Null => claims'[run[r].taken].status = "PENDING"
    BY <1>2 DEF WaiverInv, RunFits
  <1> QED BY <1>2, <1>4, <1>5, <1>6, <1>7, QuietKeeps DEF rosterVars

\* What a submission that commits does to the rows: it creates those it has found missing
\* and that nobody has created meanwhile.
LEMMA SubmittedRows ==
    ASSUME WaiverInv, NEW o \in Offer, submitClaim(o)
    PROVE  /\ Rowed' = Rowed \cup DOMAIN creating[o] /\ o.member \in Rowed' /\ Rowed' \in SUBSET Member
           /\ \A m \in Rowed : priority'[m] = priority[m] /\ faab'[m] = faab[m]
           /\ \A m \in Rowed' \ Rowed : priority'[m] = creating[o][m] /\ faab'[m] = Budget
           /\ \A m \in Member \ Rowed' : priority'[m] = Null /\ faab'[m] = faab[m]
           /\ priority' \in [Member -> DOMAIN Order \cup {Null}] /\ faab' \in [Member -> Nat \cup {Null}]
           /\ creating' \in [Offer -> Rank] /\ DOMAIN creating'[o] = {}
           /\ \A c \in Offer \ {o} : creating'[c] = creating[c]
PROOF
  <1> DEFINE created == DOMAIN creating[o] \ Rowed
  <1>1. Shape
    BY ShapeFollows
  <1>2. /\ priority' = [m \in Member |-> IF m \in created THEN creating[o][m] ELSE priority[m]]
        /\ faab' = [m \in Member |-> IF m \in created THEN Budget ELSE faab[m]]
        /\ creating' = [creating EXCEPT ![o] = <<>>]
        /\ creating[o] = <<>> => o.member \in Rowed
    BY DEF submitClaim
  <1>3. /\ DOMAIN creating[o] \in SUBSET Member /\ Rowed \in SUBSET Member
        /\ \A m \in DOMAIN creating[o] : creating[o][m] \in DOMAIN Order
        /\ creating \in [Offer -> Rank] /\ creating[o] \in Rank
    BY <1>1, RowsTyped DEF Shape
  <1>4. Null \notin DOMAIN Order /\ Budget \in Nat \cup {Null}
    BY PlacesAreOrder, WaiverAssumption DEF IsFAAB
  <1>5. Rowed' = {m \in Member : priority'[m] # Null} /\ Rowed = {m \in Member : priority[m] # Null}
    BY DEF Rowed
  <1>6. \A m \in Member : /\ m \in created => priority'[m] = creating[o][m] /\ faab'[m] = Budget
                          /\ m \notin created => priority'[m] = priority[m] /\ faab'[m] = faab[m]
    BY <1>2
  <1>7. Rowed' = Rowed \cup DOMAIN creating[o]
    BY <1>3, <1>4, <1>5, <1>6
  <1>8. o.member \in Rowed'
    <2>1. creating[o] # <<>> => DOMAIN creating[o] # {}
      BY <1>3, NoRows
    <2> QED BY <1>2, <1>7, <2>1 DEF WaiverInv, RowsFit
  <1>9. priority' \in [Member -> DOMAIN Order \cup {Null}] /\ faab' \in [Member -> Nat \cup {Null}]
    BY <1>1, <1>2, <1>3, <1>4 DEF Shape
  <1>10. /\ creating' \in [Offer -> Rank] /\ DOMAIN creating'[o] = {}
         /\ \A c \in Offer \ {o} : creating'[c] = creating[c]
    BY <1>2, <1>3, NoRows
  <1> QED BY <1>3, <1>5, <1>6, <1>7, <1>8, <1>9, <1>10

\* A claim more, and the rows it has found missing.
LEMMA SubmitKeeps ==
    ASSUME WaiverInv, NEW o \in Offer, submitClaim(o)
    PROVE  WaiverInv'
PROOF
  <1>1. Shape /\ RunsApart /\ \A r \in Run : RunFits(r)
    BY ShapeFollows DEF WaiverInv
  <1>2. /\ UNCHANGED rosterVars /\ dueCount' = dueCount /\ lease' = lease /\ run' = run
        /\ overran' = overran /\ faults' = faults /\ disagreed' = disagreed
        /\ claims' = Append(claims, [offer |-> o, status |-> "PENDING"])
    BY DEF submitClaim
  <1>3. /\ claims' \in Seq(ClaimRecord) /\ Len(claims') = Len(claims) + 1
        /\ DOMAIN claims' = DOMAIN claims \cup {Len(claims) + 1} /\ claims'[Len(claims) + 1].offer = o
        /\ \A j \in DOMAIN claims : claims'[j] = claims[j]
    <2>1. [offer |-> o, status |-> "PENDING"] \in ClaimRecord
      BY DEF ClaimRecord
    <2>2. claims \in Seq(ClaimRecord) /\ DOMAIN claims = 1 .. Len(claims) /\ Len(claims) \in Nat
      BY <1>1, ClaimsTyped DEF Shape
    <2>3. /\ claims' \in Seq(ClaimRecord) /\ Len(claims') = Len(claims) + 1
          /\ \A j \in 1 .. Len(claims) : claims'[j] = claims[j]
          /\ claims'[Len(claims) + 1] = [offer |-> o, status |-> "PENDING"]
      BY <1>2, <2>1, <2>2, AppendProperties
    <2>4. DOMAIN claims' = 1 .. Len(claims')
      BY <2>3, LenProperties
    <2> QED BY <2>2, <2>3, <2>4
  <1>4. /\ Rowed' = Rowed \cup DOMAIN creating[o] /\ o.member \in Rowed' /\ Rowed' \in SUBSET Member
        /\ \A m \in Rowed : priority'[m] = priority[m] /\ faab'[m] = faab[m]
        /\ \A m \in Rowed' \ Rowed : priority'[m] = creating[o][m]
        /\ priority' \in [Member -> DOMAIN Order \cup {Null}] /\ faab' \in [Member -> Nat \cup {Null}]
        /\ creating' \in [Offer -> Rank] /\ DOMAIN creating'[o] = {}
        /\ \A c \in Offer \ {o} : creating'[c] = creating[c]
    BY SubmittedRows
  <1>5. Shape'
    <2>1. reserved' \in [Member -> Nat]
      <3>1. o.member \in Member /\ o.bid \in Nat
        BY WaiverAssumption
      <3>2. reserved' = [reserved EXCEPT ![o.member] = @ + o.bid] \/ reserved' = reserved
        BY DEF submitClaim, reservePendingBid
      <3> QED BY <1>1, <3>1, <3>2 DEF Shape
    <2>2. dueCount' \in 0 .. Len(claims')
      BY <1>1, <1>2, <1>3, ClaimsTyped DEF Shape
    <2>3. run' \in [Run -> RunRecord'] /\ RosterTypeOK'
      BY <1>1, <1>2, <1>3, RecordsStay, RosterTypesStay DEF Shape
    <2> QED BY <1>1, <1>2, <1>3, <1>4, <2>1, <2>2, <2>3 DEF Shape, ClaimRecord
  <1>6. ASSUME NEW r \in Run
        PROVE  RunFits(r)'
    <2>1. run[r].taken # Null => claims'[run[r].taken].status = "PENDING"
      BY <1>1, <1>3, RunTyped DEF RunFits
    <2>2. run[r].phase = "advancing" =>
             faab'[claims[run[r].taken].offer.member] = faab[claims[run[r].taken].offer.member]
      BY <1>1, <1>4 DEF RunFits
    <2> QED BY <1>1, <1>2, <1>3, <1>4, <2>1, <2>2, FitsKept
  <1>7. RunsApart'
    BY <1>1, <1>2, <1>3, ApartKept
  <1>8. /\ Cardinality(Rowed) \in Nat /\ Cardinality(Rowed') \in Nat
        /\ Cardinality(Rowed) <= Cardinality(Rowed')
        /\ \A c \in Offer : /\ Cardinality(Rowed \cup DOMAIN creating[c]) \in Nat
                            /\ Cardinality(Rowed' \cup DOMAIN creating[c]) \in Nat
                            /\ Cardinality(Rowed \cup DOMAIN creating[c]) <=
                                  Cardinality(Rowed' \cup DOMAIN creating[c])
    <2>1. Rowed \subseteq Rowed' /\ \A c \in Offer : DOMAIN creating[c] \in SUBSET Member
      BY <1>1, <1>4, RowsTyped
    <2> QED BY <1>4, <2>1, MembersCounted
  <1>9. RowsFit'
    <2>1. \A i \in DOMAIN claims' : claims'[i].offer.member \in Rowed'
      BY <1>3, <1>4 DEF WaiverInv, RowsFit
    <2>2. ASSUME NEW m \in Rowed'
          PROVE  priority'[m] <= Cardinality(Rowed')
      <3>1. CASE m \in Rowed
        <4>1. priority[m] <= Cardinality(Rowed) /\ priority[m] \in Nat
          BY <1>1, <3>1, RowsTyped DEF WaiverInv, RowsFit
        <4> QED BY <1>4, <1>8, <3>1, <4>1
      <3>2. CASE m \notin Rowed
        <4>1. creating[o][m] <= Cardinality(Rowed \cup DOMAIN creating[o])
          BY <1>4, <3>2 DEF WaiverInv, RowsFit
        <4> QED BY <1>4, <3>2, <4>1
      <3> QED BY <3>1, <3>2
    <2>3. ASSUME NEW c \in Offer
          PROVE  /\ DOMAIN creating'[c] # {} => c.member \in Rowed' \cup DOMAIN creating'[c]
                 /\ \A m \in DOMAIN creating'[c] : creating'[c][m] <= Cardinality(Rowed' \cup DOMAIN creating'[c])
      <3>1. CASE c = o
        BY <1>4, <3>1
      <3>2. CASE c # o
        <4>1. creating'[c] = creating[c]
          BY <1>4, <3>2
        <4>2. DOMAIN creating[c] # {} => c.member \in Rowed \cup DOMAIN creating[c]
          BY DEF WaiverInv, RowsFit
        <4>3. ASSUME NEW m \in DOMAIN creating[c]
              PROVE  creating[c][m] <= Cardinality(Rowed' \cup DOMAIN creating[c])
          <5>1. creating[c][m] <= Cardinality(Rowed \cup DOMAIN creating[c]) /\ creating[c][m] \in Nat
            BY <1>1, RowsTyped DEF WaiverInv, RowsFit
          <5> QED BY <1>8, <5>1
        <4> QED BY <1>4, <4>1, <4>2, <4>3
      <3> QED BY <3>1, <3>2
    <2> QED BY <2>1, <2>2, <2>3 DEF RowsFit
  <1>10. Undisturbed'
    <2>1. ASSUME ~overran, NEW r \in Run, Active(r)'
          PROVE  Alone(r)'
      <3>1. Alone(r)
        BY <1>2, <2>1 DEF WaiverInv, Undisturbed, Active
      <3>2. lease' # Null /\ lease'.holder = lease.holder
        BY <1>2, <3>1 DEF Alone
      <3> QED BY <1>1, <1>2, <1>3, <3>1, <3>2, AloneKept DEF rosterVars
    <2> QED BY <1>2, <2>1 DEF Undisturbed
  <1>11. ASSUME ~overran, ~disagreed
         PROVE  OneEach' /\ NewRowsFit' /\ \A r \in Run : Active(r)' => InStep(r)'
    <2>1. OneEach /\ NewRowsFit /\ \A r \in Run : Active(r) => InStep(r)
      BY <1>11 DEF WaiverInv, Orderly
    <2>2. \A m \in Rowed' \ Rowed : priority'[m] > Cardinality(Rowed)
      BY <1>4, <2>1 DEF NewRowsFit
    <2>3. \A m, n \in Rowed' \ Rowed : priority'[m] = priority'[n] => m = n
      BY <1>4, <2>1 DEF NewRowsFit
    <2>4. \A m \in Rowed : priority[m] <= Cardinality(Rowed) /\ priority[m] \in Nat
      BY <1>1, RowsTyped DEF WaiverInv, RowsFit
    <2>5. OneEach'
      <3>1. ASSUME NEW m \in Rowed, NEW n \in Rowed' \ Rowed
            PROVE  priority'[m] # priority'[n]
        <4>1. priority'[m] = priority[m] /\ priority'[n] > Cardinality(Rowed)
          BY <1>4, <2>2
        <4>2. priority'[n] \in Nat
          <5>1. priority'[n] \in DOMAIN Order
            BY <1>5 DEF Shape, Rowed
          <5> QED BY <5>1, PlacesAreOrder
        <4> QED BY <1>8, <2>4, <4>1, <4>2
      <3>2. \A m, n \in Rowed : priority'[m] = priority'[n] => m = n
        BY <1>4, <2>1 DEF OneEach
      <3> QED BY <1>4, <2>3, <3>1, <3>2 DEF OneEach
    <2>6. NewRowsFit'
      <3>1. CASE DOMAIN creating[o] \subseteq Rowed
        <4>1. Rowed' = Rowed /\ \A m \in Rowed : priority'[m] = priority[m]
          BY <1>4, <3>1
        <4>2. ASSUME NEW c \in Offer, ~(DOMAIN creating'[c] \subseteq Rowed)
              PROVE  creating'[c] = creating[c]
          BY <1>4, <4>2
        <4> QED BY <1>4, <2>1, <4>1, <4>2 DEF NewRowsFit
      <3>2. CASE ~(DOMAIN creating[o] \subseteq Rowed)
        <4>1. ASSUME NEW c \in Offer \ {o}
              PROVE  DOMAIN creating[c] \subseteq Rowed'
          BY <1>4, <2>1, <3>2 DEF NewRowsFit
        <4>2. \A c \in Offer : DOMAIN creating'[c] \subseteq Rowed'
          BY <1>4, <4>1
        <4> QED BY <4>2 DEF NewRowsFit
      <3> QED BY <3>1, <3>2
    <2>7. ASSUME NEW r \in Run, Active(r)'
          PROVE  InStep(r)'
      <3>1. InStep(r) /\ run'[r] = run[r] /\ \A i \in DOMAIN claims : claims'[i].offer = claims[i].offer
        BY <1>2, <1>3, <2>1, <2>7 DEF Active
      <3>2. \A m \in Rowed : priority'[m] = priority[m]
        BY <1>4
      <3> QED BY <1>1, <1>5, <2>2, <3>1, <3>2, InStepKept
    <2> QED BY <2>5, <2>6, <2>7
  <1>12. Orderly'
    BY <1>2, <1>11 DEF Orderly
  <1> QED BY <1>5, <1>6, <1>7, <1>9, <1>10, <1>12, InvFromParts

\* The same win moves the run's order and the stored one alike.
Agree(D, f, g) == \A m, n \in D : f[m] < f[n] <=> g[m] < g[n]
Differ(D, f) == \A m, n \in D : f[m] = f[n] => m = n

LEMMA AdvanceTogether ==
    ASSUME NEW E, NEW D \in SUBSET E, NEW p, NEW rank, Numbers(rank, D, p),
           NEW q, NEW stored, Numbers(stored, E, q),
           NEW w \in D, Agree(D, rank, stored), Differ(D, rank), Differ(E, stored)
    PROVE  LET next == buildAdvancedWaiverPriorityUpdates(rank, w)
               after == buildAdvancedWaiverPriorityUpdates(stored, w)
           IN  Agree(D, next, after) /\ Differ(D, next)
PROOF
  <1>0. PICK next, after : /\ next = buildAdvancedWaiverPriorityUpdates(rank, w)
                             /\ after = buildAdvancedWaiverPriorityUpdates(stored, w)
    OBVIOUS
  <1>1. /\ Numbers(next, D, p) /\ next[w] = Max(Range(rank))
        /\ \A m \in D \ {w} : next[m] = IF rank[m] > rank[w] THEN rank[m] - 1 ELSE rank[m]
    BY <1>0, AdvanceFits
  <1>2. /\ Numbers(after, E, q) /\ after[w] = Max(Range(stored))
        /\ \A m \in E \ {w} : after[m] = IF stored[m] > stored[w] THEN stored[m] - 1 ELSE stored[m]
    BY <1>0, AdvanceFits
  <1>3. /\ \A m, n \in D : next[m] = next[n] => m = n
        /\ \A m \in D \ {w} : next[m] < next[w]
        /\ \A m, n \in D \ {w} : next[m] < next[n] <=> rank[m] < rank[n]
    BY <1>1, AdvanceOrders DEF Differ
  <1>4. /\ \A m \in E \ {w} : after[m] < after[w]
        /\ \A m, n \in E \ {w} : after[m] < after[n] <=> stored[m] < stored[n]
    BY <1>2, AdvanceOrders DEF Differ
  <1>5. \A m \in D : next[m] \in Int /\ after[m] \in Int
    BY <1>1, <1>2 DEF Numbers
  <1>6. ASSUME NEW m \in D, NEW n \in D
        PROVE  next[m] < next[n] <=> after[m] < after[n]
    <2>1. CASE m # w /\ n # w
      BY <1>3, <1>4, <2>1 DEF Agree
    <2>2. CASE m = w /\ n # w
      BY <1>3, <1>4, <1>5, <2>2
    <2>3. CASE m # w /\ n = w
      BY <1>3, <1>4, <2>3
    <2>4. CASE m = w /\ n = w
      BY <1>5, <2>4
    <2> QED BY <2>1, <2>2, <2>3, <2>4
  <1>7. Agree(D, next, after) /\ Differ(D, next)
    BY <1>3, <1>6 DEF Agree, Differ
  <1> QED BY <1>0, <1>7

\* The settling itself: what was checked a statement earlier still holds of the rows
\* that are written, and a run that is alone moves its order as it moves theirs.
LEMMA CompleteKeeps ==
    ASSUME WaiverInv, NEW r \in Run, completeClaim(r)
    PROVE  WaiverInv'
PROOF
  <1>0. PICK i, c, w, entries, rank, update, moved, next :
          /\ i = run[r].taken /\ c = claims[i].offer /\ w = c.member
          /\ entries = run[r].entries /\ rank = run[r].rank
          /\ update = buildAdvancedWaiverPriorityUpdates(entries, w)
          /\ moved = buildAdvancedWaiverPriorityUpdates(rank, w)
          /\ next = [run[r] EXCEPT !.phase = "choosing", !.taken = Null, !.plan = "none",
                                  !.entries = <<>>, !.rank = moved]
    OBVIOUS
  <1>1. Shape /\ RunsApart /\ \A o \in Run : RunFits(o)
    BY ShapeFollows DEF WaiverInv
  <1>2. /\ call' = call /\ dueCount' = dueCount /\ lease' = lease /\ overran' = overran /\ faults' = faults
        /\ creating' = creating /\ disagreed' = disagreed
        /\ run[r].phase = "advancing" /\ releasePendingBid(i)
        /\ claims' = [claims EXCEPT ![i].status = "PROCESSED"]
    BY <1>0 DEF completeClaim, firstClaims
  <1>3. /\ faab' = IF IsFAAB THEN [faab EXCEPT ![w] = Balance(w) - c.bid] ELSE faab
        /\ priority' = [m \in Member |-> IF m \in DOMAIN entries /\ update[m] # entries[m]
                                         THEN update[m] ELSE priority[m]]
        /\ run' = [run EXCEPT ![r] = next]
    BY <1>0 DEF completeClaim, advancePriorityRows, advanceInMemory
  <1>4. /\ roster' = [p \in Player |->
                        IF p = c.player THEN [member |-> w, acquiredBy |-> "WAIVER"]
                        ELSE IF p = c.drop /\ Owner(p) = w THEN Null ELSE roster[p]]
        /\ holds' = holds \cup ({c.drop} \ {Null})
    BY <1>0 DEF completeClaim, applyCanonicalRosterPlan
  <1>5. i \in DOMAIN claims /\ i # Null
    BY <1>0, <1>1, <1>2, RunTyped, ClaimsTyped DEF RunFits
  <1>6. /\ w \in Member /\ c.player \in Player /\ c.drop \in Player \cup {Null} /\ c.bid \in Nat
        /\ w \in DOMAIN rank
    BY <1>0, <1>1, <1>5, ClaimsTyped DEF RunFits
  <1>7. PICK E, k : E = DOMAIN entries /\ k = Cardinality(E)
    OBVIOUS
  <1>8. /\ E \subseteq Rowed /\ E \in SUBSET Member /\ k \in Nat /\ Cardinality(Rowed) \in Nat
        /\ k <= Cardinality(Rowed) /\ k <= Cardinality(Member) /\ Cardinality(Member) \in Nat
        /\ DOMAIN rank \in SUBSET E /\ run[r].todo \subseteq DOMAIN claims
        /\ \A m \in E : entries[m] \in 1 .. k
        /\ Numbers(entries, E, k) /\ Numbers(rank, DOMAIN rank, Cardinality(Member))
    <2>1. /\ E \subseteq Rowed /\ DOMAIN rank \subseteq E /\ \A m \in E : entries[m] <= k
      BY <1>0, <1>1, <1>2, <1>7 DEF RunFits
    <2>2. /\ entries \in [E -> DOMAIN Order] /\ rank \in [DOMAIN rank -> DOMAIN Order]
          /\ run[r].todo \subseteq DOMAIN claims
      BY <1>0, <1>1, <1>7, RunTyped
    <2>3. /\ Rowed \in SUBSET Member /\ DOMAIN Order = 1 .. Cardinality(Member)
      BY <1>1, RowsTyped, PlacesAreOrder
    <2>4. E \in SUBSET Rowed /\ E \in SUBSET Member /\ Member \in SUBSET Member
      BY <2>1, <2>3
    <2>5. k \in Nat /\ Cardinality(Rowed) \in Nat /\ k <= Cardinality(Rowed) /\ k <= Cardinality(Member)
          /\ Cardinality(Member) \in Nat
      BY <1>7, <2>3, <2>4, MembersCounted
    <2>6. \A m \in E : entries[m] \in 1 .. k
      BY <2>1, <2>2, <2>3, <2>5
    <2> QED BY <2>1, <2>2, <2>3, <2>4, <2>5, <2>6 DEF Numbers
  <1>9. /\ Numbers(update, E, k) /\ update \in [E -> 1 .. k] /\ update[w] = Max(Range(entries))
        /\ \A m \in E \ {w} : update[m] = IF entries[m] > entries[w] THEN entries[m] - 1 ELSE entries[m]
        /\ moved \in [DOMAIN rank -> DOMAIN Order]
    <2>1. w \in E
      BY <1>6, <1>8
    <2>2. Numbers(moved, DOMAIN rank, Cardinality(Member))
      BY <1>0, <1>6, <1>8, AdvanceFits
    <2>3. /\ Numbers(update, E, k) /\ update[w] = Max(Range(entries))
          /\ \A m \in E \ {w} : update[m] = IF entries[m] > entries[w] THEN entries[m] - 1 ELSE entries[m]
      BY <1>0, <1>8, <2>1, AdvanceFits
    <2> QED BY <2>2, <2>3, PlacesAreOrder DEF Numbers
  <1>10. /\ priority' \in [Member -> DOMAIN Order \cup {Null}] /\ Rowed' = Rowed
         /\ \A m \in Member \ E : priority'[m] = priority[m]
         /\ \A m \in E : priority'[m] \in {update[m], priority[m]}
    <2>1. \A m \in E : update[m] \in DOMAIN Order
      BY <1>8, <1>9, PlacesAreOrder
    <2>2. \A m \in Member : /\ m \notin E => priority'[m] = priority[m]
                            /\ m \in E => priority'[m] \in {update[m], priority[m]}
      BY <1>3, <1>7
    <2>3. priority' \in [Member -> DOMAIN Order \cup {Null}]
      BY <1>1, <1>3, <1>7, <2>1 DEF Shape
    <2>4. Rowed' = Rowed
      <3>1. \A m \in E : priority'[m] # Null /\ priority[m] # Null
        BY <1>8, <2>1, <2>2, PlacesAreOrder DEF Rowed
      <3> QED BY <2>2, <3>1 DEF Rowed
    <2> QED BY <1>8, <2>2, <2>3, <2>4
  <1>11. /\ claims' \in Seq(ClaimRecord) /\ DOMAIN claims' = DOMAIN claims /\ Len(claims') = Len(claims)
         /\ \A j \in DOMAIN claims : claims'[j].offer = claims[j].offer
         /\ \A j \in DOMAIN claims \ {i} : claims'[j] = claims[j]
    BY <1>1, <1>2, <1>5, StatusSet
  <1>12. /\ next \in RunRecord /\ next.taken = Null /\ next.phase = "choosing" /\ next.todo = run[r].todo
         /\ next.rank = moved /\ DOMAIN moved = DOMAIN rank
    <2>1. moved \in Rank /\ DOMAIN moved = DOMAIN rank
      <3>1. DOMAIN rank \in SUBSET Member
        BY <1>8
      <3> QED BY <1>9, <3>1 DEF Rank
    <2> QED BY <1>0, <1>1, <2>1, NoRows, RunTyped DEF RunRecord
  <1>13. run'[r] = next /\ (\A o \in Run \ {r} : run'[o] = run[o]) /\ run' \in [Run -> RunRecord]
    BY <1>1, <1>3, <1>12 DEF Shape
  <1>14. faab' \in [Member -> Nat \cup {Null}]
    <2>1. IsFAAB => Balance(w) - c.bid \in Nat
      <3>1. IsFAAB => Balance(w) >= c.bid /\ Balance(w) \in Nat
        BY <1>0, <1>1, <1>2, <1>6, BalanceTyped DEF RunFits
      <3> QED BY <1>6, <3>1
    <2> QED BY <1>1, <1>3, <2>1 DEF Shape
  <1>15. RosterTypeOK'
    <2>1. [member |-> w, acquiredBy |-> "WAIVER"] \in RosterRow
      BY <1>6 DEF RosterRow
    <2> QED BY <1>1, <1>2, <1>4, <1>6, <2>1 DEF Shape, RosterTypeOK
  <1>16. Shape'
    <2>1. reserved' \in [Member -> Nat]
      BY <1>1, <1>2, <1>5, ReleaseTypes
    <2>2. RunRecord' = RunRecord
      BY <1>11 DEF RunRecord
    <2> QED BY <1>1, <1>2, <1>10, <1>11, <1>13, <1>14, <1>15, <2>1, <2>2 DEF Shape, ClaimRecord
  <1>17. RunFits(r)'
    <2>1. /\ \A j \in run[r].todo : claims'[j].offer.member \in DOMAIN rank
          /\ DOMAIN rank \subseteq Rowed
      BY <1>0, <1>1, <1>8, <1>11 DEF RunFits
    <2>2. /\ run'[r].taken = Null /\ run'[r].phase = "choosing" /\ run'[r].todo = run[r].todo
          /\ DOMAIN run'[r].rank = DOMAIN rank
      BY <1>12, <1>13
    <2> QED BY <1>10, <2>1, <2>2 DEF RunFits
  <1>18. ASSUME NEW o \in Run \ {r}
         PROVE  RunFits(o)'
    <2>1. run[o].taken # Null => claims'[run[o].taken].status = "PENDING"
      BY <1>0, <1>1, <1>5, <1>11, RunTyped DEF RunFits, RunsApart
    <2>2. ASSUME run[o].phase = "advancing"
          PROVE  faab'[claims[run[o].taken].offer.member] = faab[claims[run[o].taken].offer.member]
      <3>1. run[o].taken \in DOMAIN claims
        BY <1>1, <2>2, RunTyped DEF RunFits
      <3>2. Written(c) \cap Written(claims[run[o].taken].offer) = {}
        BY <1>0, <1>1, <1>2, <1>5, <2>2 DEF RunsApart
      <3>3. claims[run[o].taken].offer.member # w
        BY <1>0, <1>6, <3>2, RosterAssumption DEF Written
      <3>4. claims[run[o].taken].offer.member \in Member
        BY <1>1, <3>1, ClaimsTyped
      <3> QED BY <1>1, <1>3, <3>3, <3>4 DEF Shape
    <2> QED BY <1>1, <1>10, <1>11, <1>13, <2>1, <2>2, FitsKept
  <1>19. RunsApart'
    BY <1>1, <1>11, <1>12, <1>13, ApartKept
  <1>20. RowsFit'
    <2>1. ASSUME NEW m \in Rowed
          PROVE  priority'[m] <= Cardinality(Rowed)
      <3>1. priority[m] <= Cardinality(Rowed)
        BY DEF WaiverInv, RowsFit
      <3>2. m \in E => update[m] <= Cardinality(Rowed)
        BY <1>8, <1>9
      <3>3. m \in Member
        BY <1>1, RowsTyped
      <3> QED BY <1>10, <3>1, <3>2, <3>3
    <2>2. \A j \in DOMAIN claims' : claims'[j].offer.member \in Rowed
      BY <1>11 DEF WaiverInv, RowsFit
    <2> QED BY <1>2, <1>10, <2>1, <2>2 DEF WaiverInv, RowsFit
  <1>21. ASSUME ~overran
         PROVE  Alone(r) /\ \A o \in Run \ {r} : ~Active(o)'
    <2>1. Alone(r)
      BY <1>2, <1>21 DEF WaiverInv, Undisturbed, Active
    <2>2. ASSUME NEW o \in Run \ {r}, Active(o)'
          PROVE  FALSE
      <3>1. Alone(o)
        BY <1>13, <1>21, <2>2 DEF WaiverInv, Undisturbed, Active
      <3> QED BY <2>1, <3>1 DEF Alone
    <2> QED BY <2>1, <2>2
  <1>22. Undisturbed'
    <2>1. ASSUME ~overran
          PROVE  Alone(r)'
      BY <1>2, <1>12, <1>13, <1>21, <2>1 DEF Alone
    <2> QED BY <1>2, <1>21, <2>1 DEF Undisturbed
  <1>23. ASSUME ~overran, ~disagreed
         PROVE  OneEach' /\ NewRowsFit' /\ InStep(r)'
    <2>1. OneEach /\ NewRowsFit /\ InStep(r)
      BY <1>2, <1>23 DEF WaiverInv, Orderly, Active
    <2>2. /\ \A m \in E : entries[m] = priority[m]
          /\ \A m \in Rowed \ E : priority[m] > k
          /\ \A m, n \in DOMAIN rank : rank[m] < rank[n] <=> priority[m] < priority[n]
          /\ \A m, n \in DOMAIN rank : rank[m] = rank[n] => m = n
      BY <1>0, <1>2, <1>7, <2>1 DEF InStep
    <2>3. \A m \in E : priority'[m] = update[m]
      BY <1>3, <1>7, <1>8, <2>2
    <2>4. \A m, n \in E : entries[m] = entries[n] => m = n
      BY <1>8, <2>1, <2>2 DEF OneEach
    <2>5. w \in E
      BY <1>6, <1>8
    <2>6. \A m, n \in E : update[m] = update[n] => m = n
      BY <1>8, <1>9, <2>4, <2>5, AdvanceOrders
    <2>7. OneEach'
      <3>1. ASSUME NEW m \in E, NEW n \in Rowed \ E
            PROVE  priority'[m] # priority'[n]
        <4>1. priority'[m] \in 1 .. k /\ priority'[n] = priority[n] /\ priority[n] > k /\ priority[n] \in Nat
          BY <1>1, <1>9, <1>10, <2>2, <2>3, RowsTyped
        <4> QED BY <1>8, <4>1
      <3>2. \A m, n \in Rowed \ E : priority'[m] = priority'[n] => m = n
        <4>1. \A m \in Rowed \ E : priority'[m] = priority[m]
          BY <1>1, <1>10, RowsTyped
        <4> QED BY <2>1, <4>1 DEF OneEach
      <3>3. \A m, n \in E : priority'[m] = priority'[n] => m = n
        BY <2>3, <2>6
      <3> QED BY <1>8, <1>10, <3>1, <3>2, <3>3 DEF OneEach
    <2>8. NewRowsFit'
      BY <1>2, <1>10, <2>1 DEF NewRowsFit
    <2>9. InStep(r)'
      <3>1. PICK D, after, p : D = DOMAIN rank /\ after = update /\ p = Cardinality(Member)
        OBVIOUS
      <3>2. D \in SUBSET E /\ Numbers(rank, D, p) /\ w \in D
        BY <1>6, <1>8, <3>1
      <3>3. Agree(D, rank, entries) /\ Differ(D, rank) /\ Differ(E, entries)
        BY <2>2, <2>4, <3>1, <3>2 DEF Agree, Differ
      <3>4. /\ Agree(D, buildAdvancedWaiverPriorityUpdates(rank, w), buildAdvancedWaiverPriorityUpdates(entries, w))
            /\ Differ(D, buildAdvancedWaiverPriorityUpdates(rank, w))
        BY <1>8, <3>2, <3>3, AdvanceTogether
      <3>5. Agree(D, moved, after) /\ Differ(D, moved)
        BY <1>0, <3>1, <3>4
      <3>6. /\ \A m, n \in DOMAIN moved : moved[m] < moved[n] <=> priority'[m] < priority'[n]
            /\ \A m, n \in DOMAIN moved : moved[m] = moved[n] => m = n
        BY <1>12, <2>3, <3>1, <3>2, <3>5 DEF Agree, Differ
      <3> QED BY <1>12, <1>13, <3>6 DEF InStep
    <2> QED BY <2>7, <2>8, <2>9
  <1>24. Orderly'
    BY <1>2, <1>21, <1>23 DEF Orderly
  <1> QED BY <1>16, <1>17, <1>18, <1>19, <1>20, <1>22, <1>24, InvFromParts
--------------------------------------------------------------------------------
(* The theorems *)

\* The projection writes the first places, or all of them.
LEMMA ProjectedRows ==
    ASSUME NEW projected \in Nat,
           priority = [m \in Member |-> IF Place(m) <= projected THEN Place(m) ELSE Null]
    PROVE  /\ \A m \in Rowed : priority[m] <= Cardinality(Rowed)
           /\ OneEach
           /\ priority \in [Member -> DOMAIN Order \cup {Null}]
PROOF
  <1> DEFINE n == Cardinality(Member)
             k == IF projected <= n THEN projected ELSE n
             f == [i \in 1 .. k |-> Order[i]]
  <1>1. /\ DOMAIN Order = 1 .. n /\ n \in Nat /\ Null \notin DOMAIN Order
        /\ \A m \in Member : Place(m) \in DOMAIN Order /\ Order[Place(m)] = m
        /\ \A i \in DOMAIN Order : Order[i] \in Member /\ Place(Order[i]) = i
    BY PlacesAreOrder
  <1>2. k \in Nat /\ k <= n /\ k <= projected
    BY <1>1
  <1>3. /\ Rowed \in SUBSET Member
        /\ \A m \in Rowed : priority[m] = Place(m) /\ Place(m) <= projected
        /\ \A m \in Member : Place(m) <= projected => m \in Rowed
    BY <1>1 DEF Rowed
  <1> HIDE DEF n
  <1>4. \A i \in 1 .. k : Order[i] \in Rowed /\ Place(Order[i]) = i
    BY <1>1, <1>2, <1>3
  <1>5. \A m \in Rowed : Place(m) \in 1 .. k
    BY <1>1, <1>3
  <1> HIDE DEF k
  <1>6. f \in Injection(1 .. k, Rowed)
    <2>1. f \in [1 .. k -> Rowed] /\ \A a, b \in 1 .. k : f[a] = f[b] => a = b
      BY <1>4
    <2> HIDE DEF f
    <2> QED BY <2>1 DEF Injection, IsInjective
  <1>7. IsFiniteSet(Rowed) /\ Cardinality(Rowed) \in Nat
    BY <1>3, MembersCounted
  <1>8. Cardinality(1 .. k) = k /\ Cardinality(1 .. k) <= Cardinality(Rowed)
    <2> HIDE DEF f
    <2> QED BY <1>2, <1>6, <1>7, FS_Interval, FS_Injection
  <1>9. \A m \in Rowed : priority[m] <= Cardinality(Rowed)
    BY <1>2, <1>3, <1>5, <1>7, <1>8
  <1>10. OneEach
    BY <1>1, <1>3 DEF OneEach
  <1> QED BY <1>1, <1>9, <1>10

LEMMA InitFits ==
    ASSUME NEW start \in [Player -> RosterRow \cup {Null}], NEW projected \in Nat, WaiverInit(start, projected)
    PROVE  WaiverInv
PROOF
  <1>1. RosterTypeOK
    BY DEF WaiverInit, RosterInit, RosterTypeOK
  <1>2. claims = <<>> /\ claims \in Seq(ClaimRecord) /\ Len(claims) = 0 /\ DOMAIN claims = {}
    BY EmptySeq DEF WaiverInit
  <1>3. /\ dueCount = 0 /\ faab = [m \in Member |-> Null] /\ reserved = [m \in Member |-> 0]
        /\ lease = Null /\ run = [r \in Run |-> NoRun] /\ overran = FALSE /\ faults = 0
        /\ priority = [m \in Member |-> IF Place(m) <= projected THEN Place(m) ELSE Null]
        /\ creating = [o \in Offer |-> <<>>] /\ disagreed = FALSE
    BY DEF WaiverInit
  <1>4. /\ priority \in [Member -> DOMAIN Order \cup {Null}] /\ OneEach
        /\ \A m \in Rowed : priority[m] <= Cardinality(Rowed)
    BY <1>3, ProjectedRows
  <1>5. creating \in [Offer -> Rank] /\ \A o \in Offer : DOMAIN creating[o] = {}
    BY <1>3, NoRows
  <1>6. run \in [Run -> RunRecord] /\ \A r \in Run : run[r] = NoRun
    BY <1>3, NoRunTyped
  <1>7. \A r \in Run : RunFits(r) /\ ~Active(r)
    BY <1>6, NoRunTyped DEF RunFits, Active
  <1>8. RunsApart
    BY <1>6, NoRunTyped DEF RunsApart
  <1>9. WaiverTypeOK
    <2>1. 0 \in 0 .. MaxFaults /\ 0 \in 0 .. Len(claims)
      BY <1>2, WaiverAssumption
    <2>2. \A r \in Run : run[r].todo = {} /\ run[r].taken = Null /\ run[r].phase = "idle"
      BY <1>6, NoRunTyped
    <2> QED BY <1>1, <1>2, <1>3, <1>4, <1>5, <1>6, <2>1, <2>2 DEF WaiverTypeOK
  <1>10. RowsFit /\ NewRowsFit
    BY <1>2, <1>4, <1>5 DEF RowsFit, NewRowsFit
  <1> QED BY <1>4, <1>7, <1>8, <1>9, <1>10 DEF WaiverInv, Undisturbed, Orderly

LEMMA NextFits ==
    ASSUME WaiverInv, [WaiverNext]_waiverVars
    PROVE  WaiverInv'
PROOF
  <1>1. CASE RosterStepUnlocked
    BY <1>1, RosterStepKeeps
  <1>2. ASSUME NEW o \in Offer, submitClaim(o) \/ submitFails(o)
        PROVE  WaiverInv'
    BY <1>2, SubmitKeeps, FailKeeps
  <1>8. ASSUME NEW o \in Offer, NEW missing \in SUBSET Member, NEW rows \in [missing -> DOMAIN Order],
               ensureLeaguePriorityRows(o, rows)
        PROVE  WaiverInv'
    BY <1>8, BeginKeeps
  <1>3. ASSUME NEW i \in DOMAIN claims, cancelPendingClaim(i)
        PROVE  WaiverInv'
    BY <1>3, CancelKeeps
  <1>4. CASE ClaimFallsDue
    BY <1>4, DueKeeps
  <1>5. CASE LeaseGoesStale \/ LeaseIsOutlived
    BY <1>5, LeaseAgesKeeps
  <1>6. ASSUME NEW r \in Run,
               acquireProcessingLease(r) \/ Settle(r) \/ RunFails(r) \/ RunDies(r)
        PROVE  WaiverInv'
    BY <1>6, AcquireKeeps, TakeKeeps, RejectKeeps, DebitKeeps, CompleteKeeps, EndsKeeps DEF Settle
  <1>7. CASE UNCHANGED waiverVars
    <2>1. /\ UNCHANGED rosterVars /\ claims' = claims /\ priority' = priority /\ faab' = faab
          /\ reserved' = reserved /\ run' = run /\ overran' = overran /\ dueCount' = dueCount
          /\ lease' = lease /\ faults' = faults /\ creating' = creating /\ disagreed' = disagreed
      BY <1>7 DEF waiverVars
    <2>2. Shape
      BY ShapeFollows
    <2>3. Shape'
      BY <2>1, <2>2, RosterTypesStay DEF Shape, RunRecord, ClaimRecord
    <2>4. \A r \in Run : run[r].taken # Null => claims'[run[r].taken].status = "PENDING"
      BY <2>1 DEF WaiverInv, RunFits
    <2>5. RowsFit' /\ (~overran /\ ~disagreed => NewRowsFit')
      <3>1. RowsFit /\ (~overran /\ ~disagreed => NewRowsFit)
        BY DEF WaiverInv, Orderly
      <3> QED BY <2>1, <3>1, RowsFitKept, NewRowsFitKept
    <2> QED BY <2>1, <2>3, <2>4, <2>5, QuietKeeps DEF rosterVars
  <1> QED BY <1>1, <1>2, <1>3, <1>4, <1>5, <1>6, <1>7, <1>8 DEF WaiverNext, ManagerStep

LEMMA RowsAreAPermutation ==
    ASSUME WaiverInv
    PROVE  PrioritiesStayAPermutation
PROOF
  <1> SUFFICES ASSUME ~overran, ~disagreed
               PROVE  {priority[m] : m \in Rowed} = 1 .. Cardinality(Rowed)
    BY DEF PrioritiesStayAPermutation
  <1>1. PICK rank : rank = [m \in Rowed |-> priority[m]]
    OBVIOUS
  <1>2. Rowed \in SUBSET Member /\ Cardinality(Rowed) \in Nat /\ \A m \in Rowed : priority[m] \in Nat \ {0}
    BY ShapeFollows, RowsTyped
  <1>3. \A m \in Rowed : priority[m] <= Cardinality(Rowed)
    BY DEF WaiverInv, RowsFit
  <1>4. \A m \in Rowed : priority[m] \in 1 .. Cardinality(Rowed)
    BY <1>2, <1>3
  <1>5. rank \in [Rowed -> 1 .. Cardinality(Rowed)]
    BY <1>1, <1>4
  <1>6. \A m, n \in Rowed : rank[m] = rank[n] => m = n
    BY <1>1 DEF WaiverInv, Orderly, OneEach
  <1>7. \A i \in 1 .. Cardinality(Rowed) : \E m \in Rowed : rank[m] = i
    BY <1>2, <1>5, <1>6, AllNumbersTaken
  <1> QED BY <1>1, <1>4, <1>7

LEMMA BestClaimStep ==
    ASSUME WaiverInv, NEW r \in Run, run[r].taken # Null, ~overran, ~disagreed, NEW j \in run[r].todo
    PROVE  SortsBefore(SortKey(run[r].taken, priority), SortKey(j, priority))
PROOF
  <1>1. Active(r)
    BY DEF WaiverInv, RunFits, Active
  <1> QED BY <1>1 DEF WaiverInv, Orderly, InStep

\* A won player's row goes only with a drop of the owner's.
LEMMA AwardStep ==
    ASSUME WaiverInv, [WaiverNext]_waiverVars, NEW p \in Player, roster[p] # Null,
           roster[p].acquiredBy = "WAIVER", ~overran, roster'[p] # roster[p]
    PROVE  \/ \E q \in Request : call[q] = "begun" /\ q.player = p /\ q.member = Owner(p)
           \/ \E i \in DOMAIN claims : claims[i].offer.drop = p /\ claims[i].offer.member = Owner(p)
                                       /\ claims[i].status # claims'[i].status
PROOF
  <1>1. Shape
    BY ShapeFollows
  <1>2. CASE RosterStepUnlocked
    <2>1. PICK q \in Request : AddCreates(q) \/ processDropPlayerAction(q)
      BY <1>2 DEF RosterStepUnlocked, RosterStep, AddReads, DropReads, DropFails, RequestDies, HoldEnds
    <2>2. CASE AddCreates(q)
      BY <1>1, <2>2 DEF AddCreates, Shape, RosterTypeOK
    <2>3. CASE processDropPlayerAction(q)
      BY <1>1, <2>3 DEF processDropPlayerAction, Shape, RosterTypeOK
    <2> QED BY <2>1, <2>2, <2>3
  <1>3. ASSUME NEW r \in Run, completeClaim(r)
        PROVE  \E i \in DOMAIN claims : claims[i].offer.drop = p /\ claims[i].offer.member = Owner(p)
                                        /\ claims[i].status # claims'[i].status
    <2>0. PICK i, c : i = run[r].taken /\ c = claims[i].offer
      OBVIOUS
    <2>1. /\ run[r].phase = "advancing"
          /\ claims' = [claims EXCEPT ![i].status = "PROCESSED"]
          /\ roster' = [q \in Player |->
                          IF q = c.player THEN [member |-> c.member, acquiredBy |-> "WAIVER"]
                          ELSE IF q = c.drop /\ Owner(q) = c.member THEN Null ELSE roster[q]]
      BY <1>3, <2>0 DEF completeClaim, applyCanonicalRosterPlan
    <2>2. i \in DOMAIN claims /\ claims[i].status = "PENDING" /\ run[r].plan = "READY" /\ i # Null
      BY <1>1, <2>0, <2>1, RunTyped, ClaimsTyped DEF WaiverInv, RunFits
    <2>3. p # c.player
      BY <2>0, <2>1, <2>2 DEF WaiverInv, Undisturbed, Alone, Active
    <2>4. p = c.drop /\ Owner(p) = c.member
      BY <2>1, <2>3
    <2>5. claims'[i].status = "PROCESSED"
      BY <1>1, <2>1, <2>2, StatusSet
    <2> QED BY <2>0, <2>2, <2>4, <2>5
  <1>4. ASSUME NEW r \in Run,
               \/ acquireProcessingLease(r) \/ claimPending(r) \/ rejectClaim(r) \/ debitFaabInTransaction(r)
               \/ RunFinishes(r) \/ RunFails(r) \/ RunDies(r)
        PROVE  roster' = roster
    BY <1>4 DEF acquireProcessingLease, claimPending, rejectClaim, debitFaabInTransaction, RunFinishes,
                RunFails, RunDies, rosterVars
  <1>5. ASSUME \/ ManagerStep \/ LeaseGoesStale \/ LeaseIsOutlived \/ UNCHANGED waiverVars
        PROVE  roster' = roster
    BY <1>5 DEF ManagerStep, ensureLeaguePriorityRows, submitClaim, submitFails, cancelPendingClaim,
                ClaimFallsDue, LeaseGoesStale, LeaseIsOutlived, waiverVars, rosterVars
  <1> QED BY <1>2, <1>3, <1>4, <1>5 DEF WaiverNext, Settle

\* Whatever roster a league has after its draft, and however many priorities its
\* projection has written before it stopped, every state satisfies the invariant.
THEOREM WaiversInvariant ==
    ASSUME NEW start \in [Player -> RosterRow \cup {Null}], NEW projected \in Nat
    PROVE  WaiverSpec(start, projected) => []WaiverInv
PROOF
  <1>1. WaiverInit(start, projected) => WaiverInv
    BY InitFits
  <1>2. WaiverInv /\ [WaiverNext]_waiverVars => WaiverInv'
    BY NextFits
  <1> QED BY <1>1, <1>2, PTL DEF WaiverSpec

\* The state is well typed, every claimant of a run has a place in its order, and
\* no claim is taken by two runs at once (the row lock of claimPending).
THEOREM WaiversTyped ==
    ASSUME NEW start \in [Player -> RosterRow \cup {Null}], NEW projected \in Nat
    PROVE  WaiverSpec(start, projected) => []WaiverTypeOK
PROOF
  <1>1. WaiverInv => WaiverTypeOK
    BY DEF WaiverInv
  <1> QED BY <1>1, WaiversInvariant, PTL

\* First claims create what the projection has left out, from what they have read before,
\* and every award moves the members round: unless a run has outlived its lease, or two
\* claims at once have found different rows missing, the numbers stay 1 to n, each once.
THEOREM PrioritiesArePermuted ==
    ASSUME NEW start \in [Player -> RosterRow \cup {Null}], NEW projected \in Nat
    PROVE  WaiverSpec(start, projected) => []PrioritiesStayAPermutation
PROOF
  <1>1. WaiverInv => PrioritiesStayAPermutation
    BY RowsAreAPermutation
  <1> QED BY <1>1, WaiversInvariant, PTL

\* A claim that is taken comes before the run's other claims by the priorities that
\* are stored, though the run has sorted by the order it remembers.
THEOREM BestClaimIsFirst ==
    ASSUME NEW start \in [Player -> RosterRow \cup {Null}], NEW projected \in Nat
    PROVE  WaiverSpec(start, projected) => BestClaimFirst
PROOF
  <1>1. WaiverInv /\ [WaiverNext]_waiverVars =>
          [\A r \in Run : run[r].taken # Null /\ ~overran /\ ~disagreed =>
             \A j \in run[r].todo :
                 SortsBefore(SortKey(run[r].taken, priority), SortKey(j, priority))]_waiverVars
    BY BestClaimStep
  <1> QED BY <1>1, WaiversInvariant, PTL DEF WaiverSpec, BestClaimFirst

\* A player won on waivers leaves the winner only by a drop of the winner's, though
\* an award overwrites whatever row it finds.
THEOREM AwardsAreKept ==
    ASSUME NEW start \in [Player -> RosterRow \cup {Null}], NEW projected \in Nat
    PROVE  WaiverSpec(start, projected) => AwardIsKept
PROOF
  <1>1. WaiverInv /\ [WaiverNext]_waiverVars =>
          [\A p \in Player : roster[p] # Null /\ roster[p].acquiredBy = "WAIVER" /\ ~overran
              /\ roster'[p] # roster[p] =>
                 \/ \E q \in Request : call[q] = "begun" /\ q.player = p /\ q.member = Owner(p)
                 \/ \E i \in DOMAIN claims : claims[i].offer.drop = p /\ claims[i].offer.member = Owner(p)
                                             /\ claims[i].status # claims'[i].status]_waiverVars
    BY AwardStep
  <1> QED BY <1>1, WaiversInvariant, PTL DEF WaiverSpec, AwardIsKept

--------------------------------------------------------------------------------
(* Sums.  Nothing is summed up by an axiom: that a recursive function over the  *)
(* places of a sequence exists, and only one, is shown by induction, and what a *)
(* change of one summand does to the sum, too.                                  *)

\* Induction, with the set of numbers the claim holds for in the place of a predicate.
LEMMA SetInduction ==
    ASSUME NEW S, 0 \in S, \A n \in Nat : n \in S => n + 1 \in S
    PROVE  Nat \subseteq S
PROOF
  <1> SUFFICES ASSUME Nat \ S # {} PROVE FALSE
    OBVIOUS
  <1>1. PICK least \in Nat \ S : \A j \in Nat \ S : least <= j
    BY LeastExists
  <1>2. least # 0 /\ least \in Nat
    OBVIOUS
  <1>3. least - 1 \in Nat /\ (least - 1) + 1 = least
    BY <1>2
  <1>4. least - 1 \in S
    BY <1>1, <1>3
  <1> QED BY <1>1, <1>3, <1>4

\* s adds bid up, from 0 to n.
AddsUp(s, n, bid) == s = [i \in 0 .. n |-> IF i = 0 THEN 0 ELSE s[i - 1] + bid[i]]

LEMMA AddsUpFacts ==
    ASSUME NEW n \in Nat, NEW bid, NEW s, AddsUp(s, n, bid)
    PROVE  s[0] = 0 /\ \A i \in 1 .. n : s[i] = s[i - 1] + bid[i]
PROOF
  <1> DEFINE f == [i \in 0 .. n |-> IF i = 0 THEN 0 ELSE s[i - 1] + bid[i]]
  <1>1. s = f
    BY DEF AddsUp
  <1>2. f[0] = 0 /\ \A i \in 1 .. n : f[i] = s[i - 1] + bid[i]
    OBVIOUS
  <1> HIDE DEF f
  <1> QED BY <1>1, <1>2

LEMMA AddsUpExists ==
    ASSUME NEW bid
    PROVE  \A n \in Nat : \E s : AddsUp(s, n, bid)
PROOF
  <1> DEFINE S == {n \in Nat : \E s : AddsUp(s, n, bid)}
  <1>1. 0 \in S
    <2>1. AddsUp([i \in 0 .. 0 |-> 0], 0, bid)
      BY DEF AddsUp
    <2> QED BY <2>1
  <1>2. ASSUME NEW n \in Nat, n \in S
        PROVE  n + 1 \in S
    <2>1. PICK s : AddsUp(s, n, bid)
      BY <1>2
    <2>2. s[0] = 0 /\ \A i \in 1 .. n : s[i] = s[i - 1] + bid[i]
      BY <2>1, AddsUpFacts
    <2> DEFINE t == [i \in 0 .. n + 1 |-> IF i = n + 1 THEN s[n] + bid[n + 1] ELSE s[i]]
               u == [i \in 0 .. n + 1 |-> IF i = 0 THEN 0 ELSE t[i - 1] + bid[i]]
    <2>3. ASSUME NEW i \in 0 .. n + 1
          PROVE  t[i] = u[i]
      <3>1. CASE i = 0
        BY <2>2, <3>1
      <3>2. CASE i \in 1 .. n
        <4>1. t[i] = s[i] /\ t[i - 1] = s[i - 1] /\ u[i] = t[i - 1] + bid[i]
          BY <3>2
        <4> QED BY <2>2, <3>2, <4>1
      <3>3. CASE i = n + 1
        <4>1. t[i] = s[n] + bid[n + 1] /\ t[i - 1] = s[n] /\ u[i] = t[i - 1] + bid[i]
          BY <3>3
        <4> QED BY <3>3, <4>1
      <3> QED BY <3>1, <3>2, <3>3
    <2>4. t = u
      BY <2>3
    <2>5. AddsUp(t, n + 1, bid)
      BY <2>4 DEF AddsUp
    <2> HIDE DEF t
    <2> QED BY <2>5
  <1> HIDE DEF S
  <1>3. Nat \subseteq S
    BY <1>1, <1>2, SetInduction
  <1> QED BY <1>3 DEF S

LEMMA AddsUpOnce ==
    ASSUME NEW n \in Nat, NEW bid, NEW d, \A i \in 1 .. n : bid[i] = d[i],
           NEW s, AddsUp(s, n, bid), NEW t, AddsUp(t, n, d)
    PROVE  s[n] = t[n]
PROOF
  <1> DEFINE S == {i \in Nat : i <= n => s[i] = t[i]}
  <1>1. /\ s[0] = 0 /\ \A i \in 1 .. n : s[i] = s[i - 1] + bid[i]
        /\ t[0] = 0 /\ \A i \in 1 .. n : t[i] = t[i - 1] + d[i]
    BY AddsUpFacts
  <1>2. 0 \in S
    BY <1>1
  <1>3. ASSUME NEW i \in Nat, i \in S
        PROVE  i + 1 \in S
    <2> SUFFICES ASSUME i + 1 <= n PROVE s[i + 1] = t[i + 1]
      OBVIOUS
    <2>1. i + 1 \in 1 .. n /\ (i + 1) - 1 = i
      OBVIOUS
    <2>2. s[i + 1] = s[i] + bid[i + 1] /\ t[i + 1] = t[i] + d[i + 1]
      BY <1>1, <2>1
    <2> QED BY <1>3, <2>1, <2>2
  <1> HIDE DEF S
  <1>4. n \in S
    BY <1>2, <1>3, SetInduction
  <1> QED BY <1>4 DEF S

LEMMA SumIsASum ==
    ASSUME NEW n \in Nat, NEW bid
    PROVE  \E s : AddsUp(s, n, bid) /\ SumUpTo(n, bid) = s[n]
PROOF
  <1> DEFINE sum == CHOOSE s : s = [i \in 0 .. n |-> IF i = 0 THEN 0 ELSE s[i - 1] + bid[i]]
  <1>1. \E s : s = [i \in 0 .. n |-> IF i = 0 THEN 0 ELSE s[i - 1] + bid[i]]
    BY AddsUpExists DEF AddsUp
  <1>2. AddsUp(sum, n, bid)
    BY <1>1, Zenon DEF AddsUp
  <1>3. SumUpTo(n, bid) = sum[n]
    BY Zenon DEF SumUpTo
  <1> QED BY <1>2, <1>3

LEMMA SumSteps ==
    ASSUME NEW n \in Nat, NEW bid
    PROVE  SumUpTo(0, bid) = 0 /\ SumUpTo(n + 1, bid) = SumUpTo(n, bid) + bid[n + 1]
PROOF
  <1>1. SumUpTo(0, bid) = 0
    <2>1. PICK s : AddsUp(s, 0, bid) /\ SumUpTo(0, bid) = s[0]
      BY SumIsASum
    <2> QED BY <2>1, AddsUpFacts
  <1>2. PICK s : AddsUp(s, n + 1, bid) /\ SumUpTo(n + 1, bid) = s[n + 1]
    BY SumIsASum
  <1>3. PICK t : AddsUp(t, n, bid) /\ SumUpTo(n, bid) = t[n]
    BY SumIsASum
  <1>4. s[n] = t[n]
    <2> DEFINE u == [i \in 0 .. n |-> s[i]]
    <2>1. s[0] = 0 /\ \A i \in 1 .. n : s[i] = s[i - 1] + bid[i]
      BY <1>2, AddsUpFacts
    <2>2. ASSUME NEW i \in 0 .. n
          PROVE  u[i] = IF i = 0 THEN 0 ELSE u[i - 1] + bid[i]
      <3>1. i # 0 => i - 1 \in 0 .. n /\ i \in 1 .. n
        OBVIOUS
      <3> QED BY <2>1, <3>1
    <2>3. AddsUp(u, n, bid) /\ u[n] = s[n]
      BY <2>2 DEF AddsUp
    <2> HIDE DEF u
    <2> QED BY <1>3, <2>3, AddsUpOnce
  <1>5. s[n + 1] = s[(n + 1) - 1] + bid[n + 1] /\ (n + 1) - 1 = n
    BY <1>2, AddsUpFacts
  <1> QED BY <1>1, <1>2, <1>3, <1>4, <1>5

LEMMA EqualSums ==
    ASSUME NEW n \in Nat, NEW bid, NEW d, \A i \in 1 .. n : bid[i] = d[i]
    PROVE  SumUpTo(n, bid) = SumUpTo(n, d)
PROOF
  <1>1. PICK s : AddsUp(s, n, bid) /\ SumUpTo(n, bid) = s[n]
    BY SumIsASum
  <1>2. PICK t : AddsUp(t, n, d) /\ SumUpTo(n, d) = t[n]
    BY SumIsASum
  <1> QED BY <1>1, <1>2, AddsUpOnce

LEMMA SumTyped ==
    ASSUME NEW m \in Nat, NEW bid, \A i \in 1 .. m : bid[i] \in Nat
    PROVE  SumUpTo(m, bid) \in Nat
PROOF
  <1> DEFINE S == {n \in Nat : n <= m => SumUpTo(n, bid) \in Nat}
  <1>1. 0 \in S
    BY SumSteps
  <1>2. ASSUME NEW n \in Nat, n \in S
        PROVE  n + 1 \in S
    <2> SUFFICES ASSUME n + 1 <= m PROVE SumUpTo(n + 1, bid) \in Nat
      OBVIOUS
    <2>1. SumUpTo(n, bid) \in Nat /\ bid[n + 1] \in Nat
      BY <1>2
    <2> QED BY <2>1, SumSteps
  <1> HIDE DEF S
  <1>3. m \in S
    BY <1>1, <1>2, SetInduction
  <1> QED BY <1>3 DEF S

\* One summand changes, and the sum by as much.
LEMMA SumChanges ==
    ASSUME NEW m \in Nat, NEW bid, \A i \in 1 .. m : bid[i] \in Nat,
           NEW d, \A i \in 1 .. m : d[i] \in Nat,
           NEW k \in 1 .. m, \A i \in 1 .. m : i # k => d[i] = bid[i]
    PROVE  SumUpTo(m, d) + bid[k] = SumUpTo(m, bid) + d[k]
PROOF
  <1> DEFINE S == {n \in Nat : k <= n /\ n <= m => SumUpTo(n, d) + bid[k] = SumUpTo(n, bid) + d[k]}
  <1>1. 0 \in S
    OBVIOUS
  <1>2. ASSUME NEW n \in Nat, n \in S
        PROVE  n + 1 \in S
    <2> SUFFICES ASSUME k <= n + 1, n + 1 <= m
                 PROVE  SumUpTo(n + 1, d) + bid[k] = SumUpTo(n + 1, bid) + d[k]
      OBVIOUS
    <2>1. /\ SumUpTo(n + 1, d) = SumUpTo(n, d) + d[n + 1]
          /\ SumUpTo(n + 1, bid) = SumUpTo(n, bid) + bid[n + 1]
      BY SumSteps
    <2>2. SumUpTo(n, d) \in Nat /\ SumUpTo(n, bid) \in Nat
      <3>1. \A i \in 1 .. n : bid[i] \in Nat /\ d[i] \in Nat
        OBVIOUS
      <3> QED BY <3>1, SumTyped
    <2>3. d[n + 1] \in Nat /\ bid[n + 1] \in Nat /\ d[k] \in Nat /\ bid[k] \in Nat
      OBVIOUS
    <2>4. CASE k = n + 1
      <3>1. \A i \in 1 .. n : d[i] = bid[i]
        BY <2>4
      <3>2. SumUpTo(n, d) = SumUpTo(n, bid)
        BY <3>1, EqualSums
      <3> QED BY <2>1, <2>2, <2>3, <2>4, <3>2
    <2>5. CASE k <= n
      <3>1. SumUpTo(n, d) + bid[k] = SumUpTo(n, bid) + d[k] /\ d[n + 1] = bid[n + 1]
        BY <1>2, <2>5
      <3> QED BY <2>1, <2>2, <2>3, <3>1
    <2> QED BY <2>4, <2>5
  <1> HIDE DEF S
  <1>3. m \in S
    BY <1>1, <1>2, SetInduction
  <1> QED BY <1>3 DEF S

LEMMA SummandFits ==
    ASSUME NEW m \in Nat, NEW bid, \A i \in 1 .. m : bid[i] \in Nat, NEW k \in 1 .. m
    PROVE  bid[k] <= SumUpTo(m, bid)
PROOF
  <1> DEFINE d == [i \in 1 .. m |-> IF i = k THEN 0 ELSE bid[i]]
  <1>1. d[k] = 0 /\ (\A i \in 1 .. m : d[i] \in Nat /\ (i # k => d[i] = bid[i]))
    OBVIOUS
  <1> HIDE DEF d
  <1>2. SumUpTo(m, d) + bid[k] = SumUpTo(m, bid) + d[k]
    BY <1>1, SumChanges
  <1>3. SumUpTo(m, d) \in Nat /\ SumUpTo(m, bid) \in Nat
    BY <1>1, SumTyped
  <1> QED BY <1>1, <1>2, <1>3

--------------------------------------------------------------------------------
(* Bids *)

\* The summands of BidsOf.
Counted(m, status) ==
    [i \in DOMAIN claims |-> IF claims[i].offer.member = m /\ claims[i].status = status
                             THEN claims[i].offer.bid ELSE 0]

\* A balance is in a row.
BalancesInRows == \A m \in Member : priority[m] = Null => faab[m] = Null

BidInv == WaiverInv /\ BalancesInRows /\ EveryPendingBidIsCovered

LEMMA BidsTyped ==
    ASSUME Shape, NEW m, NEW status
    PROVE  /\ Len(claims) \in Nat /\ DOMAIN claims = 1 .. Len(claims)
           /\ \A i \in 1 .. Len(claims) : Counted(m, status)[i] \in Nat
           /\ BidsOf(m, status) = SumUpTo(Len(claims), Counted(m, status))
           /\ BidsOf(m, status) \in Nat
PROOF
  <1>1. /\ Len(claims) \in Nat /\ DOMAIN claims = 1 .. Len(claims)
        /\ \A i \in DOMAIN claims : claims[i].offer.bid \in Nat
    BY ClaimsTyped
  <1>2. \A i \in 1 .. Len(claims) : Counted(m, status)[i] \in Nat
    BY <1>1 DEF Counted
  <1>3. BidsOf(m, status) = SumUpTo(Len(claims), Counted(m, status))
    BY DEF BidsOf, Counted
  <1> QED BY <1>1, <1>2, <1>3, SumTyped

\* A pending claim's bid is among those of its member, and its end takes it out.
LEMMA BidMoves ==
    ASSUME Shape, NEW i \in DOMAIN claims, claims[i].status = "PENDING",
           NEW status \in {"PROCESSED", "REJECTED", "CANCELLED"},
           claims' = [claims EXCEPT ![i].status = status], NEW m \in Member
    PROVE  LET c == claims[i].offer
           IN  /\ c.member = m => /\ BidsOf(m, "PENDING")' + c.bid = BidsOf(m, "PENDING")
                                  /\ c.bid <= BidsOf(m, "PENDING")
               /\ c.member # m => BidsOf(m, "PENDING")' = BidsOf(m, "PENDING")
               /\ BidsOf(m, "PENDING")' \in Nat
               /\ BidsOf(m, "PROCESSED")' =
                     BidsOf(m, "PROCESSED") + IF c.member = m /\ status = "PROCESSED" THEN c.bid ELSE 0
PROOF
  <1> DEFINE c == claims[i].offer
             n == Len(claims)
  <1>1. /\ Len(claims') = n /\ DOMAIN claims' = DOMAIN claims
        /\ \A j \in DOMAIN claims : claims'[j].offer = claims[j].offer
        /\ \A j \in DOMAIN claims \ {i} : claims'[j] = claims[j]
        /\ claims'[i].status = status
    BY StatusSet
  <1>2. PICK p, q, before, after : /\ p = Counted(m, "PENDING") /\ before = Counted(m, "PROCESSED")
                                   /\ q = Counted(m, "PENDING")' /\ after = Counted(m, "PROCESSED")'
    OBVIOUS
  <1>3. /\ n \in Nat /\ DOMAIN claims = 1 .. n
        /\ \A j \in 1 .. n : p[j] \in Nat /\ before[j] \in Nat
        /\ BidsOf(m, "PENDING") = SumUpTo(n, p) /\ BidsOf(m, "PROCESSED") = SumUpTo(n, before)
    BY <1>2, BidsTyped
  <1>4. /\ BidsOf(m, "PENDING")' = SumUpTo(n, q) /\ BidsOf(m, "PROCESSED")' = SumUpTo(n, after)
    BY <1>1, <1>2 DEF BidsOf, Counted
  <1>5. \A j \in 1 .. n : j # i => q[j] = p[j] /\ after[j] = before[j]
    BY <1>1, <1>2, <1>3 DEF Counted
  <1>6. /\ p[i] = IF c.member = m THEN c.bid ELSE 0
        /\ q[i] = 0 /\ before[i] = 0
        /\ after[i] = IF c.member = m /\ status = "PROCESSED" THEN c.bid ELSE 0
    BY <1>1, <1>2 DEF Counted
  <1>7. c.bid \in Nat /\ i \in 1 .. n
    BY <1>3, ClaimsTyped
  <1>8. \A j \in 1 .. n : q[j] \in Nat /\ after[j] \in Nat
    BY <1>3, <1>5, <1>6, <1>7
  <1>9. SumUpTo(n, q) + p[i] = SumUpTo(n, p) + q[i]
    <2>1. n \in Nat /\ i \in 1 .. n /\ \A j \in 1 .. n : p[j] \in Nat /\ q[j] \in Nat
      BY <1>3, <1>7, <1>8
    <2>2. \A j \in 1 .. n : j # i => q[j] = p[j]
      BY <1>5
    <2> HIDE DEF n
    <2> QED BY ONLY <2>1, <2>2, SumChanges
  <1>10. SumUpTo(n, after) + before[i] = SumUpTo(n, before) + after[i]
    <2>1. n \in Nat /\ i \in 1 .. n /\ \A j \in 1 .. n : before[j] \in Nat /\ after[j] \in Nat
      BY <1>3, <1>7, <1>8
    <2>2. \A j \in 1 .. n : j # i => after[j] = before[j]
      BY <1>5
    <2> HIDE DEF n
    <2> QED BY ONLY <2>1, <2>2, SumChanges
  <1>11. p[i] <= SumUpTo(n, p)
    BY <1>3, <1>7, SummandFits
  <1>12. /\ SumUpTo(n, q) \in Nat /\ SumUpTo(n, p) \in Nat
         /\ SumUpTo(n, after) \in Nat /\ SumUpTo(n, before) \in Nat
    BY <1>3, <1>8, SumTyped
  <1> HIDE DEF c, n
  <1>13. /\ c.member = m => /\ BidsOf(m, "PENDING")' + c.bid = BidsOf(m, "PENDING")
                            /\ c.bid <= BidsOf(m, "PENDING")
         /\ c.member # m => BidsOf(m, "PENDING")' = BidsOf(m, "PENDING")
         /\ BidsOf(m, "PENDING")' \in Nat
         /\ BidsOf(m, "PROCESSED")' =
               BidsOf(m, "PROCESSED") + IF c.member = m /\ status = "PROCESSED" THEN c.bid ELSE 0
    BY <1>3, <1>4, <1>6, <1>7, <1>9, <1>10, <1>11, <1>12
  <1> QED BY <1>13 DEF c

\* A new claim adds its bid to those of its member.
LEMMA BidIsAdded ==
    ASSUME Shape, NEW o \in Offer, claims' = Append(claims, [offer |-> o, status |-> "PENDING"]),
           NEW m \in Member
    PROVE  /\ BidsOf(m, "PENDING")' = BidsOf(m, "PENDING") + IF o.member = m THEN o.bid ELSE 0
           /\ BidsOf(m, "PROCESSED")' = BidsOf(m, "PROCESSED")
PROOF
  <1> DEFINE n == Len(claims)
  <1>1. PICK p, q, before, after : /\ p = Counted(m, "PENDING") /\ before = Counted(m, "PROCESSED")
                                   /\ q = Counted(m, "PENDING")' /\ after = Counted(m, "PROCESSED")'
    OBVIOUS
  <1>2. /\ n \in Nat /\ DOMAIN claims = 1 .. n
        /\ BidsOf(m, "PENDING") = SumUpTo(n, p) /\ BidsOf(m, "PROCESSED") = SumUpTo(n, before)
        /\ SumUpTo(n, p) \in Nat /\ SumUpTo(n, before) \in Nat
    BY <1>1, BidsTyped
  <1>3. /\ Len(claims') = n + 1 /\ DOMAIN claims' = 1 .. n + 1
        /\ \A j \in 1 .. n : claims'[j] = claims[j]
        /\ claims'[n + 1] = [offer |-> o, status |-> "PENDING"]
    <2>1. [offer |-> o, status |-> "PENDING"] \in ClaimRecord /\ claims \in Seq(ClaimRecord)
      BY DEF ClaimRecord, Shape
    <2>2. /\ claims' \in Seq(ClaimRecord) /\ Len(claims') = n + 1
          /\ \A j \in 1 .. n : claims'[j] = claims[j]
          /\ claims'[n + 1] = [offer |-> o, status |-> "PENDING"]
      BY <2>1, AppendProperties
    <2>3. DOMAIN claims' = 1 .. Len(claims')
      BY <2>2, LenProperties
    <2> QED BY <2>2, <2>3
  <1>4. BidsOf(m, "PENDING")' = SumUpTo(n + 1, q) /\ BidsOf(m, "PROCESSED")' = SumUpTo(n + 1, after)
    BY <1>1, <1>3 DEF BidsOf, Counted
  <1>5. \A j \in 1 .. n : q[j] = p[j] /\ after[j] = before[j]
    BY <1>1, <1>2, <1>3 DEF Counted
  <1>6. /\ q[n + 1] = IF o.member = m THEN o.bid ELSE 0
        /\ after[n + 1] = 0
    <2>1. n + 1 \in DOMAIN claims'
      BY <1>2, <1>3
    <2> QED BY <1>1, <1>3, <2>1 DEF Counted
  <1>7. /\ SumUpTo(n + 1, q) = SumUpTo(n, q) + q[n + 1]
        /\ SumUpTo(n + 1, after) = SumUpTo(n, after) + after[n + 1]
    BY <1>2, SumSteps
  <1>8. SumUpTo(n, q) = SumUpTo(n, p) /\ SumUpTo(n, after) = SumUpTo(n, before)
    BY <1>2, <1>5, EqualSums
  <1> HIDE DEF n
  <1> QED BY <1>2, <1>4, <1>6, <1>7, <1>8

\* The floor at zero is never reached: the bid released is part of what is reserved.
LEMMA ReleaseIsExact ==
    ASSUME BidInv, IsFAAB, NEW i \in DOMAIN claims, claims[i].status = "PENDING",
           NEW status \in {"PROCESSED", "REJECTED", "CANCELLED"},
           claims' = [claims EXCEPT ![i].status = status], releasePendingBid(i), NEW m \in Member
    PROVE  LET c == claims[i].offer
           IN  /\ reserved'[m] = BidsOf(m, "PENDING")'
               /\ reserved'[m] = reserved[m] - IF c.member = m THEN c.bid ELSE 0
               /\ BidsOf(m, "PROCESSED")' =
                     BidsOf(m, "PROCESSED") + IF c.member = m /\ status = "PROCESSED" THEN c.bid ELSE 0
PROOF
  <1>1. Shape
    BY ShapeFollows DEF BidInv
  <1> DEFINE c == claims[i].offer
  <1>2. /\ c.member = m => /\ BidsOf(m, "PENDING")' + c.bid = BidsOf(m, "PENDING")
                           /\ c.bid <= BidsOf(m, "PENDING")
        /\ c.member # m => BidsOf(m, "PENDING")' = BidsOf(m, "PENDING")
        /\ BidsOf(m, "PENDING")' \in Nat
        /\ BidsOf(m, "PROCESSED")' =
              BidsOf(m, "PROCESSED") + IF c.member = m /\ status = "PROCESSED" THEN c.bid ELSE 0
    BY <1>1, BidMoves
  <1>3. c.member \in Member /\ c.bid \in Nat /\ reserved \in [Member -> Nat]
    BY <1>1, ClaimsTyped DEF Shape
  <1>4. reserved' = [reserved EXCEPT ![c.member] = IF @ >= c.bid THEN @ - c.bid ELSE 0]
    BY DEF releasePendingBid
  <1>5. reserved[m] = BidsOf(m, "PENDING")
    BY DEF BidInv, EveryPendingBidIsCovered
  <1>6. BidsOf(m, "PENDING") \in Nat /\ BidsOf(m, "PENDING")' \in Nat
    BY <1>1, <1>2, BidsTyped
  <1> HIDE DEF c
  <1>7. CASE c.member = m
    BY <1>2, <1>3, <1>4, <1>5, <1>6, <1>7 DEF c
  <1>8. CASE c.member # m
    BY <1>2, <1>3, <1>4, <1>5, <1>6, <1>8 DEF c
  <1> QED BY <1>7, <1>8

LEMMA BidsAtRest ==
    ASSUME BidInv, WaiverInv', UNCHANGED <<claims, priority, faab, reserved>>
    PROVE  BidInv'
PROOF
  <1>1. \A m \in Member : /\ BidsOf(m, "PENDING")' = BidsOf(m, "PENDING") /\ Balance(m)' = Balance(m)
                          /\ BidsOf(m, "PROCESSED")' = BidsOf(m, "PROCESSED")
    BY DEF BidsOf, Balance
  <1>2. EveryPendingBidIsCovered'
    BY <1>1 DEF BidInv, EveryPendingBidIsCovered, IsFAAB
  <1> QED BY <1>2 DEF BidInv, BalancesInRows

\* A claim ends without an award.
LEMMA BidIsGivenBack ==
    ASSUME BidInv, WaiverInv', NEW i \in DOMAIN claims, claims[i].status = "PENDING",
           NEW status \in {"REJECTED", "CANCELLED"},
           claims' = [claims EXCEPT ![i].status = status], releasePendingBid(i), UNCHANGED <<priority, faab>>
    PROVE  BidInv'
PROOF
  <1>1. Shape
    BY ShapeFollows DEF BidInv
  <1>2. ASSUME IsFAAB, NEW m \in Member
        PROVE  /\ reserved'[m] = BidsOf(m, "PENDING")' /\ reserved'[m] <= Balance(m)'
               /\ Balance(m)' + BidsOf(m, "PROCESSED")' = Budget
    <2>1. /\ reserved'[m] = BidsOf(m, "PENDING")'
          /\ reserved'[m] = reserved[m] - IF claims[i].offer.member = m THEN claims[i].offer.bid ELSE 0
          /\ BidsOf(m, "PROCESSED")' = BidsOf(m, "PROCESSED") + 0
      BY <1>1, <1>2, ReleaseIsExact
    <2>2. /\ claims[i].offer.bid \in Nat /\ reserved[m] \in Nat /\ Balance(m) \in Nat
          /\ BidsOf(m, "PROCESSED") \in Nat
      BY <1>1, <1>2, ClaimsTyped, BalanceTyped, BidsTyped DEF Shape
    <2>3. reserved[m] <= Balance(m) /\ Balance(m) + BidsOf(m, "PROCESSED") = Budget /\ Balance(m)' = Balance(m)
      BY <1>2 DEF BidInv, EveryPendingBidIsCovered, Balance
    <2> QED BY <2>1, <2>2, <2>3
  <1> QED BY <1>2 DEF BidInv, BalancesInRows, EveryPendingBidIsCovered, IsFAAB

\* An award numbers rows anew and takes none away.
LEMMA AwardKeepsRows ==
    ASSUME WaiverInv, WaiverInv', NEW r \in Run, completeClaim(r)
    PROVE  \A m \in Member : priority[m] # Null => priority'[m] # Null
PROOF
  <1>1. PICK entries, w, update : /\ entries = run[r].entries /\ w = claims[run[r].taken].offer.member
                                  /\ update = buildAdvancedWaiverPriorityUpdates(entries, w)
    OBVIOUS
  <1>2. /\ priority' = [m \in Member |-> IF m \in DOMAIN entries /\ update[m] # entries[m]
                                         THEN update[m] ELSE priority[m]]
        /\ run[r].phase = "advancing"
    BY <1>1 DEF completeClaim, advancePriorityRows
  <1>3. Numbers(entries, DOMAIN entries, Cardinality(Member))
    BY <1>1, ShapeFollows, RunTyped, PlacesAreOrder DEF Numbers
  <1>4. w \in DOMAIN entries
    <2>1. run[r].taken # Null /\ run[r].taken \in run[r].todo \cup ({run[r].taken} \ {Null})
      BY <1>2 DEF WaiverInv, RunFits
    <2> QED BY <1>1, <1>2, <2>1 DEF WaiverInv, RunFits
  <1>5. Numbers(update, DOMAIN entries, Cardinality(Member))
    BY <1>1, <1>3, <1>4, AdvanceFits
  <1>6. \A m \in DOMAIN entries : update[m] # Null
    BY <1>5, PlacesAreOrder DEF Numbers
  <1> QED BY <1>2, <1>6

\* A claim is awarded: the bid goes from the reservation and the balance to the bids won.
LEMMA BidIsCharged ==
    ASSUME BidInv, WaiverInv', NEW r \in Run, completeClaim(r)
    PROVE  BidInv'
PROOF
  <1>1. Shape /\ RunFits(r)
    BY ShapeFollows DEF BidInv, WaiverInv
  <1>2. PICK i, c : i = run[r].taken /\ c = claims[i].offer
    OBVIOUS
  <1>3. /\ run[r].phase = "advancing" /\ releasePendingBid(i)
        /\ claims' = [claims EXCEPT ![i].status = "PROCESSED"]
        /\ faab' = IF IsFAAB THEN [faab EXCEPT ![c.member] = Balance(c.member) - c.bid] ELSE faab
    BY <1>2 DEF completeClaim
  <1>4. i \in DOMAIN claims /\ claims[i].status = "PENDING"
    BY <1>1, <1>2, <1>3, RunTyped DEF RunFits
  <1>5. c.member \in Member /\ c.bid \in Nat
    BY <1>1, <1>2, <1>4, ClaimsTyped
  <1>6. ASSUME IsFAAB, NEW m \in Member
        PROVE  /\ reserved'[m] = BidsOf(m, "PENDING")' /\ reserved'[m] <= Balance(m)'
               /\ Balance(m)' + BidsOf(m, "PROCESSED")' = Budget
    <2>1. /\ reserved'[m] = BidsOf(m, "PENDING")'
          /\ reserved'[m] = reserved[m] - IF c.member = m THEN c.bid ELSE 0
          /\ BidsOf(m, "PROCESSED")' = BidsOf(m, "PROCESSED") + IF c.member = m THEN c.bid ELSE 0
      BY <1>1, <1>2, <1>3, <1>4, <1>6, ReleaseIsExact
    <2>2. reserved[m] \in Nat /\ Balance(m) \in Nat /\ BidsOf(m, "PROCESSED") \in Nat /\ Budget \in Nat
      BY <1>1, <1>6, BalanceTyped, BidsTyped DEF Shape
    <2>3. reserved[m] <= Balance(m) /\ Balance(m) + BidsOf(m, "PROCESSED") = Budget
      BY <1>6 DEF BidInv, EveryPendingBidIsCovered
    <2>4. Balance(m)' = Balance(m) - IF c.member = m THEN c.bid ELSE 0
      <3>1. faab \in [Member -> Nat \cup {Null}] /\ faab' = [faab EXCEPT ![c.member] = Balance(c.member) - c.bid]
        BY <1>1, <1>3, <1>6 DEF Shape
      <3>2. Balance(c.member) - c.bid \in Int /\ Null \notin Int
        BY <1>1, <1>5, <1>6, BalanceTyped, WaiverAssumption
      <3>3. CASE c.member = m
        BY <2>2, <3>1, <3>2, <3>3 DEF Balance
      <3>4. CASE c.member # m
        <4>1. faab'[m] = faab[m]
          BY <3>1, <3>4
        <4>2. Balance(m)' = Balance(m)
          BY <4>1 DEF Balance
        <4> QED BY <2>2, <3>4, <4>2
      <3> QED BY <3>3, <3>4
    <2> QED BY <1>5, <2>1, <2>2, <2>3, <2>4
  <1>7. BalancesInRows'
    <2>1. \A m \in Member : priority[m] # Null => priority'[m] # Null
      BY AwardKeepsRows DEF BidInv
    <2>2. c.member \in Rowed
      BY <1>2, <1>4 DEF BidInv, WaiverInv, RowsFit
    <2>3. \A m \in Member : m # c.member => faab'[m] = faab[m]
      BY <1>1, <1>3 DEF Shape
    <2> QED BY <2>1, <2>2, <2>3 DEF BidInv, BalancesInRows, Rowed
  <1> QED BY <1>6, <1>7 DEF BidInv, EveryPendingBidIsCovered, IsFAAB

\* A claim is submitted: its own bid is reserved, and who gets a row gets the whole budget.
LEMMA BidIsReserved ==
    ASSUME BidInv, WaiverInv', NEW o \in Offer, submitClaim(o)
    PROVE  BidInv'
PROOF
  <1>1. Shape /\ o.member \in Member /\ o.bid \in Nat
    BY ShapeFollows, WaiverAssumption DEF BidInv
  <1>2. /\ claims' = Append(claims, [offer |-> o, status |-> "PENDING"])
        /\ IsFAAB => reservePendingBid(o.member, o.bid)
    BY DEF submitClaim
  <1>3. /\ \A m \in Rowed : faab'[m] = faab[m]
        /\ \A m \in Rowed' \ Rowed : faab'[m] = Budget
        /\ \A m \in Member \ Rowed' : priority'[m] = Null /\ faab'[m] = faab[m]
        /\ Rowed \subseteq Rowed'
    BY SubmittedRows DEF BidInv
  <1>4. \A m \in Member : m \notin Rowed => faab[m] = Null
    BY DEF BidInv, BalancesInRows, Rowed
  <1>5. ASSUME IsFAAB, NEW m \in Member
        PROVE  /\ reserved'[m] = BidsOf(m, "PENDING")' /\ reserved'[m] <= Balance(m)'
               /\ Balance(m)' + BidsOf(m, "PROCESSED")' = Budget
    <2>1. /\ BidsOf(m, "PENDING")' = BidsOf(m, "PENDING") + IF o.member = m THEN o.bid ELSE 0
          /\ BidsOf(m, "PROCESSED")' = BidsOf(m, "PROCESSED")
      BY <1>1, <1>2, BidIsAdded
    <2>2. /\ reserved \in [Member -> Nat] /\ Balance(m) \in Nat /\ Budget \in Nat
          /\ BidsOf(m, "PENDING") \in Nat
      BY <1>1, <1>5, BalanceTyped, BidsTyped DEF Shape
    <2>3. reserved[m] = BidsOf(m, "PENDING") /\ reserved[m] <= Balance(m)
          /\ Balance(m) + BidsOf(m, "PROCESSED") = Budget
      BY <1>5 DEF BidInv, EveryPendingBidIsCovered
    <2>4. Balance(m)' = Balance(m)
      <3>1. CASE m \in Rowed
        BY <1>3, <3>1 DEF Balance
      <3>2. CASE m \in Rowed' \ Rowed
        BY <1>3, <1>4, <3>2 DEF Balance
      <3>3. CASE m \notin Rowed'
        BY <1>3, <3>3 DEF Balance
      <3> QED BY <3>1, <3>2, <3>3
    <2>5. /\ reserved' = [reserved EXCEPT ![o.member] = @ + o.bid]
          /\ reserved[o.member] + o.bid <= Balance(o.member)
      BY <1>2, <1>5 DEF reservePendingBid
    <2>6. reserved'[m] = reserved[m] + IF o.member = m THEN o.bid ELSE 0
      BY <1>1, <2>2, <2>5
    <2>7. CASE o.member = m
      BY <1>1, <2>1, <2>2, <2>3, <2>4, <2>5, <2>6, <2>7
    <2>8. CASE o.member # m
      BY <1>1, <2>1, <2>2, <2>3, <2>4, <2>6, <2>8
    <2> QED BY <2>7, <2>8
  <1>6. BalancesInRows'
    <2>1. ASSUME NEW m \in Member, priority'[m] = Null
          PROVE  faab'[m] = Null
      <3>1. m \notin Rowed'
        BY <2>1 DEF Rowed
      <3> QED BY <1>3, <1>4, <3>1
    <2> QED BY <2>1 DEF BalancesInRows
  <1> QED BY <1>5, <1>6 DEF BidInv, EveryPendingBidIsCovered, IsFAAB

LEMMA BidsStep ==
    ASSUME BidInv, [WaiverNext]_waiverVars
    PROVE  BidInv'
PROOF
  <1>1. WaiverInv /\ WaiverInv'
    BY NextFits DEF BidInv
  <1>2. ASSUME NEW o \in Offer, submitClaim(o)
        PROVE  BidInv'
    BY <1>1, <1>2, BidIsReserved
  <1>3. ASSUME NEW i \in DOMAIN claims, cancelPendingClaim(i)
        PROVE  BidInv'
    <2>1. /\ claims[i].status = "PENDING" /\ claims' = [claims EXCEPT ![i].status = "CANCELLED"]
          /\ releasePendingBid(i) /\ UNCHANGED <<priority, faab>>
      BY <1>3 DEF cancelPendingClaim, Pending
    <2> QED BY <1>1, <2>1, BidIsGivenBack
  <1>4. ASSUME NEW r \in Run, rejectClaim(r)
        PROVE  BidInv'
    <2>1. Shape /\ RunFits(r)
      BY <1>1, ShapeFollows DEF WaiverInv
    <2>2. PICK i : i = run[r].taken
      OBVIOUS
    <2>3. /\ run[r].phase = "settling" /\ claims' = [claims EXCEPT ![i].status = "REJECTED"]
          /\ releasePendingBid(i) /\ UNCHANGED <<priority, faab>>
      BY <1>4, <2>2 DEF rejectClaim
    <2>4. i \in DOMAIN claims /\ claims[i].status = "PENDING"
      BY <2>1, <2>2, <2>3, RunTyped DEF RunFits
    <2> QED BY <1>1, <2>3, <2>4, BidIsGivenBack
  <1>5. ASSUME NEW r \in Run, completeClaim(r)
        PROVE  BidInv'
    BY <1>1, <1>5, BidIsCharged
  <1>6. ASSUME NEW r \in Run, \/ acquireProcessingLease(r) \/ claimPending(r) \/ debitFaabInTransaction(r)
                              \/ RunFinishes(r) \/ RunFails(r) \/ RunDies(r)
        PROVE  UNCHANGED <<claims, priority, faab, reserved>>
    BY <1>6 DEF acquireProcessingLease, claimPending, debitFaabInTransaction, RunFinishes, RunFails,
                RunDies, ledger
  <1>7. ASSUME \/ RosterStepUnlocked \/ ClaimFallsDue \/ LeaseGoesStale \/ LeaseIsOutlived
               \/ UNCHANGED waiverVars
        PROVE  UNCHANGED <<claims, priority, faab, reserved>>
    BY <1>7 DEF RosterStepUnlocked, ClaimFallsDue, LeaseGoesStale, LeaseIsOutlived, waiverVars, ledger
  <1>8. ASSUME NEW o \in Offer,
               submitFails(o) \/ \E missing \in SUBSET Member :
                   \E rows \in [missing -> DOMAIN Order] : ensureLeaguePriorityRows(o, rows)
        PROVE  UNCHANGED <<claims, priority, faab, reserved>>
    BY <1>8 DEF submitFails, ensureLeaguePriorityRows, ledger
  <1> QED BY <1>1, <1>2, <1>3, <1>4, <1>5, <1>6, <1>7, <1>8, BidsAtRest DEF WaiverNext, ManagerStep, Settle

\* However submissions, cancellations and runs interleave, and however often a run
\* fails, dies or outlives its lease: what is reserved is what the pending claims bid,
\* the balance covers it, and no bid is charged twice or forgotten.
THEOREM BidsAreCovered ==
    ASSUME NEW start \in [Player -> RosterRow \cup {Null}], NEW projected \in Nat
    PROVE  WaiverSpec(start, projected) => []EveryPendingBidIsCovered
PROOF
  <1>1. WaiverInit(start, projected) => BidInv
    <2> SUFFICES ASSUME WaiverInit(start, projected) PROVE BidInv
      OBVIOUS
    <2>1. WaiverInv /\ claims = <<>> /\ Len(claims) = 0
      BY InitFits DEF WaiverInit
    <2>2. \A m \in Member : BidsOf(m, "PENDING") = 0 /\ BidsOf(m, "PROCESSED") = 0
      BY <2>1, SumSteps DEF BidsOf
    <2>3. \A m \in Member : reserved[m] = 0 /\ faab[m] = Null
      BY DEF WaiverInit
    <2>4. ASSUME IsFAAB, NEW m \in Member
          PROVE  Balance(m) = Budget /\ Budget \in Nat
      BY <2>3, <2>4, WaiverAssumption DEF Balance
    <2> QED BY <2>1, <2>2, <2>3, <2>4 DEF BidInv, BalancesInRows, EveryPendingBidIsCovered
  <1>2. BidInv /\ [WaiverNext]_waiverVars => BidInv'
    BY BidsStep
  <1>3. BidInv => EveryPendingBidIsCovered
    BY DEF BidInv
  <1> QED BY <1>1, <1>2, <1>3, PTL DEF WaiverSpec

--------------------------------------------------------------------------------
(* Signings *)

\* The player's row is there because a manager has signed him.
Signed(p) ==
    \E q \in Request : q.kind = "add" /\ q.player = p
                       /\ roster[p] = [member |-> q.member, acquiredBy |-> "FREE_AGENT"]

\* What a roster plan is worth: while no run has outlived its lease, the player of a claim
\* that was found free is free still, or has been signed meanwhile.
FreeOrSigned ==
    ~overran => \A r \in Run : run[r].taken # Null /\ run[r].plan = "READY" =>
                    LET p == claims[run[r].taken].offer.player IN roster[p] = Null \/ Signed(p)

\* A row changes by a signing, which makes it that of the manager who signs, by a drop,
\* which leaves none, or by an award.
LEMMA RowsChange ==
    ASSUME WaiverInv, [WaiverNext]_waiverVars, \A r \in Run : ~completeClaim(r), NEW p \in Player
    PROVE  roster'[p] = roster[p] \/ roster'[p] = Null \/ Signed(p)'
PROOF
  <1>1. Shape
    BY ShapeFollows
  <1>2. CASE RosterStepUnlocked
    <2>1. ASSUME NEW q \in Request, AddCreates(q)
          PROVE  roster'[p] = roster[p] \/ Signed(p)'
      BY <1>1, <2>1 DEF AddCreates, Shape, RosterTypeOK, Signed
    <2>2. ASSUME NEW q \in Request, processDropPlayerAction(q)
          PROVE  roster'[p] = roster[p] \/ roster'[p] = Null
      BY <1>1, <2>2 DEF processDropPlayerAction, Shape, RosterTypeOK
    <2>3. (\A q \in Request : ~AddCreates(q) /\ ~processDropPlayerAction(q)) => roster' = roster
      BY <1>2 DEF RosterStepUnlocked, RosterStep, AddReads, DropReads, DropFails, RequestDies, HoldEnds
    <2> QED BY <2>1, <2>2, <2>3
  <1>3. ASSUME NEW r \in Run,
               \/ acquireProcessingLease(r) \/ claimPending(r) \/ rejectClaim(r) \/ debitFaabInTransaction(r)
               \/ RunFinishes(r) \/ RunFails(r) \/ RunDies(r)
        PROVE  roster' = roster
    BY <1>3 DEF acquireProcessingLease, claimPending, rejectClaim, debitFaabInTransaction, RunFinishes,
                RunFails, RunDies, rosterVars
  <1>4. ASSUME \/ ManagerStep \/ LeaseGoesStale \/ LeaseIsOutlived \/ UNCHANGED waiverVars
        PROVE  roster' = roster
    BY <1>4 DEF ManagerStep, ensureLeaguePriorityRows, submitClaim, submitFails, cancelPendingClaim,
                ClaimFallsDue, LeaseGoesStale, LeaseIsOutlived, waiverVars, rosterVars
  <1> QED BY <1>2, <1>3, <1>4 DEF WaiverNext, Settle

\* A row that was signed stays so, or changes.
LEMMA SignedStays ==
    ASSUME NEW p, Signed(p), roster'[p] = roster[p]
    PROVE  Signed(p)'
PROOF BY DEF Signed

\* No claim changes but in its status, and only an award makes it PROCESSED.
LEMMA ClaimsChange ==
    ASSUME WaiverInv, [WaiverNext]_waiverVars, NEW i \in DOMAIN claims
    PROVE  /\ claims'[i].offer = claims[i].offer
           /\ claims[i].status = "PENDING" /\ claims'[i].status = "PROCESSED" =>
                 \E r \in Run : completeClaim(r) /\ run[r].taken = i
PROOF
  <1>1. Shape /\ \A r \in Run : RunFits(r)
    BY ShapeFollows DEF WaiverInv
  <1>2. ASSUME NEW o \in Offer, submitClaim(o)
        PROVE  claims'[i] = claims[i]
    <2>1. claims' = Append(claims, [offer |-> o, status |-> "PENDING"])
      BY <1>2 DEF submitClaim
    <2> QED BY <1>1, <2>1, ClaimsTyped, AppendProperties DEF Shape
  <1>3. ASSUME NEW j \in DOMAIN claims, NEW status \in {"PROCESSED", "REJECTED", "CANCELLED"},
               claims' = [claims EXCEPT ![j].status = status]
        PROVE  /\ claims'[i].offer = claims[i].offer
               /\ claims[i].status = "PENDING" /\ claims'[i].status = "PROCESSED" =>
                     i = j /\ status = "PROCESSED"
    BY <1>1, <1>3, StatusSet
  <1>4. ASSUME NEW j \in DOMAIN claims, cancelPendingClaim(j)
        PROVE  claims' = [claims EXCEPT ![j].status = "CANCELLED"]
    BY <1>4 DEF cancelPendingClaim
  <1>5. ASSUME NEW r \in Run, rejectClaim(r)
        PROVE  run[r].taken \in DOMAIN claims /\ claims' = [claims EXCEPT ![run[r].taken].status = "REJECTED"]
    BY <1>1, <1>5, RunTyped DEF rejectClaim, RunFits
  <1>6. ASSUME NEW r \in Run, completeClaim(r)
        PROVE  run[r].taken \in DOMAIN claims /\ claims' = [claims EXCEPT ![run[r].taken].status = "PROCESSED"]
    BY <1>1, <1>6, RunTyped DEF completeClaim, RunFits
  <1>7. ASSUME NEW r \in Run, \/ acquireProcessingLease(r) \/ claimPending(r) \/ debitFaabInTransaction(r)
                              \/ RunFinishes(r) \/ RunFails(r) \/ RunDies(r)
        PROVE  claims' = claims
    BY <1>7 DEF acquireProcessingLease, claimPending, debitFaabInTransaction, RunFinishes, RunFails, RunDies
  <1>8. ASSUME \/ RosterStepUnlocked \/ ClaimFallsDue \/ LeaseGoesStale \/ LeaseIsOutlived
               \/ UNCHANGED waiverVars
        PROVE  claims' = claims
    BY <1>8 DEF RosterStepUnlocked, ClaimFallsDue, LeaseGoesStale, LeaseIsOutlived, waiverVars
  <1>9. ASSUME NEW o \in Offer,
               \/ submitFails(o)
               \/ \E missing \in SUBSET Member : \E rows \in [missing -> DOMAIN Order] :
                      ensureLeaguePriorityRows(o, rows)
        PROVE  claims' = claims
    BY <1>9 DEF submitFails, ensureLeaguePriorityRows
  <1> QED BY <1>2, <1>3, <1>4, <1>5, <1>6, <1>7, <1>8, <1>9 DEF WaiverNext, ManagerStep, Settle

\* A claim that is settled is let go.
LEMMA TakenIsReleased ==
    ASSUME Shape, NEW r \in Run, completeClaim(r)
    PROVE  \E next : run' = [run EXCEPT ![r] = next] /\ next.taken = Null
PROOF
  <1>1. PICK rank : run' = [run EXCEPT ![r] = [run[r] EXCEPT !.phase = "choosing", !.taken = Null,
                                                 !.plan = "none", !.entries = <<>>, !.rank = rank]]
    BY DEF completeClaim
  <1>2. run[r] \in RunRecord
    BY DEF Shape
  <1>3. [run[r] EXCEPT !.phase = "choosing", !.taken = Null, !.plan = "none", !.entries = <<>>,
                       !.rank = rank].taken = Null
    BY <1>2 DEF RunRecord
  <1> QED BY <1>1, <1>3

\* A claim that has a plan had it before, or finds its player free now.
LEMMA PlansComeFromRows ==
    ASSUME WaiverInv, [WaiverNext]_waiverVars, NEW r \in Run,
           run'[r].taken # Null, run'[r].plan = "READY"
    PROVE  /\ run'[r].taken \in DOMAIN claims /\ claims'[run'[r].taken].offer = claims[run'[r].taken].offer
           /\ \/ run[r].taken = run'[r].taken /\ run[r].plan = "READY"
              \/ roster[claims[run'[r].taken].offer.player] = Null /\ UNCHANGED roster
PROOF
  <1>1. Shape /\ WaiverInv'
    BY ShapeFollows, NextFits
  <1> DEFINE Fresh == roster[claims[run'[r].taken].offer.player] = Null /\ UNCHANGED roster
             Goal == \/ run[r].taken = run'[r].taken /\ run[r].plan = "READY"
                     \/ Fresh /\ run'[r].taken \in Pending
  <1>2. UNCHANGED run => Goal
    OBVIOUS
  <1>3. ASSUME NEW o \in Run, claimPending(o)
        PROVE  Goal
    <2>1. PICK i, plan : i = First(run[o].todo, run[o].rank) /\ plan = buildCanonicalRosterPlan(i)
      OBVIOUS
    <2>2. /\ run[o].phase = "choosing" /\ UNCHANGED roster
          /\ run' = [run EXCEPT ![o] =
                 IF i \in Pending
                 THEN [@ EXCEPT !.phase = "settling", !.todo = run[o].todo \ {i}, !.taken = i, !.plan = plan]
                 ELSE [@ EXCEPT !.todo = run[o].todo \ {i}]]
      BY <1>3, <2>1 DEF claimPending, rosterVars
    <2>3. run \in [Run -> RunRecord] /\ run[o] \in RunRecord
      BY <1>1 DEF Shape
    <2>4. CASE r # o
      BY <2>2, <2>3, <2>4
    <2>5. CASE r = o /\ i \in Pending
      <3>1. run'[r].taken = i /\ run'[r].plan = plan
        BY <2>2, <2>3, <2>5 DEF RunRecord
      <3>2. plan = "READY" => roster[claims[i].offer.player] = Null
        BY <2>1 DEF buildCanonicalRosterPlan
      <3> QED BY <2>2, <2>5, <3>1, <3>2
    <2>6. CASE r = o /\ i \notin Pending
      BY <2>2, <2>3, <2>6 DEF RunRecord
    <2> QED BY <2>4, <2>5, <2>6
  <1>4. ASSUME NEW o \in Run, debitFaabInTransaction(o)
        PROVE  Goal
    <2>1. PICK next : /\ run' = [run EXCEPT ![o] = next] /\ run[o].plan = "READY"
                      /\ next \in {[run[o] EXCEPT !.plan = "FAILED"],
                                   [run[o] EXCEPT !.phase = "advancing", !.entries = Restrict(priority, Rowed)]}
      BY <1>4 DEF debitFaabInTransaction
    <2>2. run \in [Run -> RunRecord] /\ run[o] \in RunRecord
      BY <1>1 DEF Shape
    <2>3. next.plan = "FAILED" \/ next.taken = run[o].taken
      BY <2>1, <2>2 DEF RunRecord
    <2>4. run'[o] = next /\ \A n \in Run \ {o} : run'[n] = run[n]
      BY <2>1, <2>2
    <2> QED BY <2>1, <2>3, <2>4
  <1>5. ASSUME NEW o \in Run, \/ rejectClaim(o) \/ completeClaim(o) \/ acquireProcessingLease(o)
                              \/ RunFinishes(o) \/ RunFails(o) \/ RunDies(o)
        PROVE  Goal
    <2>1. run \in [Run -> RunRecord] /\ run[o] \in RunRecord
      BY <1>1 DEF Shape
    <2>2. PICK next : run' = [run EXCEPT ![o] = next] /\ next.taken = Null
      <3> DEFINE settled == [run[o] EXCEPT !.phase = "choosing", !.taken = Null, !.plan = "none"]
      <3>1. settled.taken = Null /\ NoRun.taken = Null
        BY <2>1 DEF RunRecord, NoRun
      <3>2. loadPendingClaims.taken = Null
        BY DEF loadPendingClaims
      <3>3. \/ run' = [run EXCEPT ![o] = settled] \/ run' = [run EXCEPT ![o] = loadPendingClaims]
            \/ run' = [run EXCEPT ![o] = NoRun] \/ completeClaim(o)
        BY <1>5 DEF rejectClaim, acquireProcessingLease, RunFinishes, RunFails, RunDies
      <3> HIDE DEF settled
      <3>4. CASE completeClaim(o)
        BY <1>1, <3>4, TakenIsReleased
      <3> QED BY <3>1, <3>2, <3>3, <3>4
    <2>3. run'[o] = next /\ \A n \in Run \ {o} : run'[n] = run[n]
      BY <2>1, <2>2
    <2> QED BY <2>2, <2>3
  <1>6. ASSUME \/ RosterStepUnlocked \/ ManagerStep \/ LeaseGoesStale \/ LeaseIsOutlived \/ UNCHANGED waiverVars
        PROVE  UNCHANGED run
    BY <1>6 DEF RosterStepUnlocked, ManagerStep, ensureLeaguePriorityRows, submitClaim, submitFails,
                cancelPendingClaim, ClaimFallsDue, LeaseGoesStale, LeaseIsOutlived, waiverVars
  <1>7. Goal
    BY <1>2, <1>3, <1>4, <1>5, <1>6 DEF WaiverNext, Settle
  <1>8. run'[r].taken \in DOMAIN claims
    BY <1>1, <1>7, RunTyped DEF Pending
  <1>9. \A i \in DOMAIN claims : claims'[i].offer = claims[i].offer
    BY ClaimsChange
  <1> QED BY <1>7, <1>8, <1>9

\* What has overrun stays so.
LEMMA OverrunsStay ==
    ASSUME WaiverInv, [WaiverNext]_waiverVars, ~overran'
    PROVE  ~overran
PROOF
  <1>1. ASSUME NEW r \in Run, acquireProcessingLease(r)
        PROVE  ~overran
    BY <1>1 DEF acquireProcessingLease
  <1>2. ASSUME NEW r \in Run, Settle(r) \/ RunFails(r) \/ RunDies(r)
        PROVE  overran' = overran
    BY <1>2 DEF Settle, claimPending, rejectClaim, debitFaabInTransaction, completeClaim, RunFinishes,
                RunFails, RunDies
  <1>3. ASSUME \/ RosterStepUnlocked \/ ManagerStep \/ LeaseGoesStale \/ LeaseIsOutlived \/ UNCHANGED waiverVars
        PROVE  overran' = overran
    BY <1>3 DEF RosterStepUnlocked, ManagerStep, ensureLeaguePriorityRows, submitClaim, submitFails,
                cancelPendingClaim, ClaimFallsDue, LeaseGoesStale, LeaseIsOutlived, waiverVars
  <1> QED BY <1>1, <1>2, <1>3 DEF WaiverNext

\* Only the run itself could award its player meanwhile: all other rows are signed or dropped.
LEMMA FreeOrSignedStep ==
    ASSUME WaiverInv, FreeOrSigned, [WaiverNext]_waiverVars
    PROVE  FreeOrSigned'
PROOF
  <1> SUFFICES ASSUME ~overran', NEW r \in Run, run'[r].taken # Null, run'[r].plan = "READY",
                      NEW p, p = claims'[run'[r].taken].offer.player
               PROVE  roster'[p] = Null \/ Signed(p)'
    BY DEF FreeOrSigned
  <1>1. Shape /\ RunFits(r) /\ WaiverInv' /\ ~overran
    BY ShapeFollows, NextFits, OverrunsStay DEF WaiverInv
  <1>2. /\ run'[r].taken \in DOMAIN claims /\ p = claims[run'[r].taken].offer.player
        /\ \/ run[r].taken = run'[r].taken /\ run[r].plan = "READY"
           \/ roster[p] = Null /\ UNCHANGED roster
    BY PlansComeFromRows
  <1>3. p \in Player
    BY <1>1, <1>2, ClaimsTyped
  <1>4. CASE roster[p] = Null /\ UNCHANGED roster
    BY <1>4
  <1>5. CASE run[r].taken = run'[r].taken /\ run[r].plan = "READY"
    <2>1. roster[p] = Null \/ Signed(p)
      BY <1>1, <1>2, <1>5 DEF FreeOrSigned
    <2>2. ASSUME NEW o \in Run, completeClaim(o)
          PROVE  FALSE
      <3>1. o = r
        <4>1. run[o].phase = "advancing" /\ run[r].taken # Null
          BY <1>5, <2>2 DEF completeClaim
        <4>2. run[r].phase \in {"settling", "advancing"}
          BY <1>1, <4>1 DEF RunFits
        <4>3. Alone(o) /\ Alone(r)
          BY <1>1, <4>1, <4>2 DEF WaiverInv, Undisturbed, Active
        <4> QED BY <4>3 DEF Alone
      <3>2. run'[o].taken = Null
        BY <1>1, <2>2, TakenIsReleased DEF Shape
      <3> QED BY <3>1, <3>2
    <2>3. roster'[p] = roster[p] \/ roster'[p] = Null \/ Signed(p)'
      BY <1>3, <2>2, RowsChange
    <2> QED BY <2>1, <2>3, SignedStays
  <1> QED BY <1>2, <1>4, <1>5

\* An award finds its player free or signed.
LEMMA AwardFindsFreeOrSigned ==
    ASSUME WaiverInv, FreeOrSigned, [WaiverNext]_waiverVars, ~overran, NEW i \in DOMAIN claims,
           claims[i].status = "PENDING", claims'[i].status = "PROCESSED"
    PROVE  roster[claims[i].offer.player] = Null \/ Signed(claims[i].offer.player)
PROOF
  <1>1. PICK r \in Run : completeClaim(r) /\ run[r].taken = i
    BY ClaimsChange
  <1>2. run[r].phase = "advancing" /\ RunFits(r)
    BY <1>1 DEF completeClaim, WaiverInv
  <1>3. run[r].taken # Null /\ run[r].plan = "READY"
    BY <1>2 DEF RunFits
  <1> QED BY <1>1, <1>3 DEF FreeOrSigned

\* While no run has outlived its lease, an award takes a player from nobody but a manager
\* who has signed him between the run's look at the roster and its write.
THEOREM AwardsTakeOnlyTheSigned ==
    ASSUME NEW start \in [Player -> RosterRow \cup {Null}], NEW projected \in Nat
    PROVE  WaiverSpec(start, projected) =>
             [][\A i \in DOMAIN claims :
                  ~overran /\ claims[i].status = "PENDING" /\ claims'[i].status = "PROCESSED" =>
                     \/ roster[claims[i].offer.player] = Null
                     \/ Signed(claims[i].offer.player)]_waiverVars
PROOF
  <1>1. WaiverInit(start, projected) => WaiverInv /\ FreeOrSigned
    <2> SUFFICES ASSUME WaiverInit(start, projected) PROVE WaiverInv /\ FreeOrSigned
      OBVIOUS
    <2>1. \A r \in Run : run[r].taken = Null
      BY DEF WaiverInit, NoRun
    <2> QED BY <2>1, InitFits DEF FreeOrSigned
  <1>2. WaiverInv /\ FreeOrSigned /\ [WaiverNext]_waiverVars => (WaiverInv /\ FreeOrSigned)'
    BY NextFits, FreeOrSignedStep
  <1>3. WaiverInv /\ FreeOrSigned /\ [WaiverNext]_waiverVars =>
          [\A i \in DOMAIN claims :
              ~overran /\ claims[i].status = "PENDING" /\ claims'[i].status = "PROCESSED" =>
                 \/ roster[claims[i].offer.player] = Null
                 \/ Signed(claims[i].offer.player)]_waiverVars
    BY AwardFindsFreeOrSigned
  <1> QED BY <1>1, <1>2, <1>3, PTL DEF WaiverSpec

\* So where nobody may sign a free agent past the waivers, and no run outlives its
\* lease, the check of the roster when a claim settles is worth what it promises.
THEOREM AwardsTakeFromNobody ==
    ASSUME NEW start \in [Player -> RosterRow \cup {Null}], NEW projected \in Nat,
           \A q \in Request : q.kind = "drop"
    PROVE  WaiverSpec(start, projected) /\ []~overran => AwardTakesFromNobody
PROOF
  <1> DEFINE A == \A i \in DOMAIN claims : claims[i].status = "PENDING" /\ claims'[i].status = "PROCESSED" =>
                       roster[claims[i].offer.player] = Null
             B == \A i \in DOMAIN claims :
                     ~overran /\ claims[i].status = "PENDING" /\ claims'[i].status = "PROCESSED" =>
                        \/ roster[claims[i].offer.player] = Null
                        \/ Signed(claims[i].offer.player)
  <1>1. ~overran /\ [B]_waiverVars => [A]_waiverVars
    BY DEF Signed
  <1>2. WaiverSpec(start, projected) => [][B]_waiverVars
    BY AwardsTakeOnlyTheSigned
  <1>3. WaiverSpec(start, projected) /\ []~overran => [][A]_waiverVars
    BY <1>1, <1>2, PTL
  <1> QED BY <1>3 DEF AwardTakesFromNobody
================================================================================
