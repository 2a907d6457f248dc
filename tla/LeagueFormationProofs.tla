-------------------------- MODULE LeagueFormationProofs --------------------------
(* A league before its draft, for every number of persons, seats and servers:   *)
(* it never overflows, its order is the league unless two commands overlapped,  *)
(* and a started order stays.                                                   *)
EXTENDS LeagueFormation, FiniteSetTheorems, SequenceTheorems, TLAPS

Phase == {"none", "SCHEDULED", "opened", "LIVE"}
SlotType == [Person -> 1 .. MaxTeams \cup {Null}]

--------------------------------------------------------------------------------
(* Lists of members.                                                             *)

LEMMA ListFacts ==
    ASSUME NEW S, IsFiniteSet(S), NEW list \in SetToSeqs(S)
    PROVE  /\ list \in Seq(S) /\ Len(list) = Cardinality(S)
           /\ Range(list) = S /\ IsInjective(list)
<1> DEFINE D == 1 .. Cardinality(S)
<1>1. Cardinality(S) \in Nat
  BY FS_CardinalityType
<1>2. list \in [D -> S] /\ \A i, j \in D : i # j => list[i] # list[j]
  BY DEF SetToSeqs
<1>3. list \in Seq(S) /\ Len(list) = Cardinality(S) /\ IsInjective(list)
  BY <1>1, <1>2 DEF IsInjective
<1>4. list \in Injection(D, S)
  BY <1>2, <1>3 DEF Injection
<1>5. IsFiniteSet(D) /\ Cardinality(D) = Cardinality(S)
  BY <1>1, FS_Interval
<1>6. list \in Surjection(D, S)
  BY <1>4, <1>5, FS_Injection
<1>7. Range(list) = S
  BY <1>2, <1>6 DEF Range, Surjection
<1> QED
  BY <1>3, <1>7

LEMMA InOrderIsTheList ==
    ASSUME NEW S, NEW list \in Seq(S)
    PROVE  InOrder(list) = list
<1> DEFINE id == [i \in DOMAIN list |-> i]
<1>1. Range(id) = DOMAIN list
  BY DEF Range
<1>2. \A n \in DOMAIN list : (CHOOSE i \in DOMAIN list : id[i] = n) = n
  OBVIOUS
<1>3. list = [n \in DOMAIN list |-> list[n]]
  OBVIOUS
<1>4. Rows(list, id) = [n \in DOMAIN list |-> list[CHOOSE i \in DOMAIN list : id[i] = n]]
  BY <1>1 DEF Rows
<1> QED
  BY <1>2, <1>3, <1>4 DEF InOrder

\* Who is taken out of a list leaves the others in it.
LEMMA RemoveFacts ==
    ASSUME NEW S, NEW list \in Seq(S), NEW k \in DOMAIN list
    PROVE  LET rest == RemoveAt(list, k)
           IN  /\ rest \in Seq(S) /\ Len(rest) = Len(list) - 1
               /\ Range(rest) \subseteq Range(list)
               /\ IsInjective(list) => IsInjective(rest) /\ Range(rest) = Range(list) \ {list[k]}
<1> DEFINE n == Len(list)
           rest == RemoveAt(list, k)
<1>1. n \in Nat /\ k \in 1 .. n /\ DOMAIN list = 1 .. n
  OBVIOUS
<1>2. /\ rest \in Seq(S) /\ Len(rest) = n - 1
      /\ \A i \in 1 .. n - 1 : rest[i] = IF i < k THEN list[i] ELSE list[i + 1]
  <2> DEFINE front == SubSeq(list, 1, k - 1)
             back == SubSeq(list, k + 1, n)
  <2>1. /\ front \in Seq(S) /\ Len(front) = k - 1
        /\ \A i \in 1 .. k - 1 : front[i] = list[i]
    BY <1>1
  <2>2. /\ back \in Seq(S) /\ Len(back) = n - k
        /\ \A i \in 1 .. n - k : back[i] = list[k + i]
    BY <1>1
  <2>3. rest = front \o back
    BY DEF RemoveAt
  <2> HIDE DEF front, back, rest
  <2>4. /\ rest \in Seq(S) /\ Len(rest) = k - 1 + (n - k)
        /\ \A i \in 1 .. n - 1 : rest[i] = IF i <= k - 1 THEN front[i] ELSE back[i - (k - 1)]
    BY <1>1, <2>1, <2>2, <2>3
  <2>5. ASSUME NEW i \in 1 .. n - 1
        PROVE  rest[i] = IF i < k THEN list[i] ELSE list[i + 1]
    <3> n \in Int /\ k \in Int /\ i \in Int
      BY <1>1
    <3>1. CASE i < k
      <4>1. i <= k - 1 /\ i \in 1 .. k - 1
        BY <3>1
      <4> QED
        BY <2>1, <2>4, <3>1, <4>1
    <3>2. CASE ~(i < k)
      <4>1. /\ ~(i <= k - 1) /\ i - (k - 1) \in 1 .. n - k /\ k + (i - (k - 1)) = i + 1
        BY <3>2
      <4> QED
        BY <2>2, <2>4, <3>2, <4>1
    <3> QED
      BY <3>1, <3>2
  <2>6. k - 1 + (n - k) = n - 1
    BY <1>1
  <2> QED
    BY <2>4, <2>5, <2>6
<1>3. DOMAIN rest = 1 .. n - 1
  BY <1>1, <1>2
<1>4. Range(rest) \subseteq Range(list)
  BY <1>1, <1>2, <1>3 DEF Range
<1>5. ASSUME IsInjective(list)
      PROVE  IsInjective(rest) /\ Range(rest) = Range(list) \ {list[k]}
  <2>1. \A i, j \in 1 .. n : list[i] = list[j] => i = j
    BY <1>1, <1>5 DEF IsInjective
  <2>2. \A i \in 1 .. n - 1 : rest[i] # list[k]
    BY <1>1, <1>2, <2>1
  <2>3. \A i, j \in 1 .. n - 1 : rest[i] = rest[j] => i = j
    BY <1>1, <1>2, <2>1
  <2>4. \A i \in 1 .. n : i # k => \E j \in 1 .. n - 1 : rest[j] = list[i]
    <3> TAKE i \in 1 .. n
    <3>1. CASE i < k
      BY <1>1, <1>2, <3>1
    <3>2. CASE i > k
      <4>1. i - 1 \in 1 .. n - 1 /\ ~(i - 1 < k) /\ i - 1 + 1 = i
        BY <1>1, <3>2
      <4> QED
        BY <1>2, <4>1
    <3> QED
      BY <1>1, <3>1, <3>2
  <2>5. IsInjective(rest)
    BY <1>3, <2>3 DEF IsInjective
  <2>6. Range(rest) = {rest[i] : i \in 1 .. n - 1} /\ Range(list) = {list[i] : i \in 1 .. n}
    BY <1>1, <1>3 DEF Range
  <2> HIDE DEF rest
  <2>7. Range(list) \ {list[k]} \subseteq Range(rest)
    BY <2>4, <2>6
  <2>8. list[k] \notin Range(rest)
    BY <2>2, <2>6
  <2> QED
    BY <1>4, <2>5, <2>7, <2>8
<1> QED
  BY <1>2, <1>4, <1>5

LEMMA AppendFacts ==
    ASSUME NEW S, NEW list \in Seq(S), NEW p \in S
    PROVE  /\ Append(list, p) \in Seq(S) /\ Len(Append(list, p)) = Len(list) + 1
           /\ Range(Append(list, p)) = Range(list) \cup {p}
<1> DEFINE n == Len(list)
           longer == Append(list, p)
<1>1. n \in Nat /\ longer \in Seq(S) /\ Len(longer) = n + 1 /\ DOMAIN list = 1 .. n
      /\ DOMAIN longer = 1 .. n + 1
      /\ \A i \in 1 .. n : longer[i] = list[i] /\ longer[n + 1] = p
  OBVIOUS
<1>2. longer[n + 1] = p
  OBVIOUS
<1>3. Range(longer) = Range(list) \cup {p}
  BY <1>1, <1>2 DEF Range
<1> QED
  BY <1>1, <1>3

LEMMA RenumberedFacts ==
    ASSUME NEW list \in Seq(Person), Len(list) <= MaxTeams, draftSlot \in SlotType
    PROVE  /\ Renumbered(list) \in SlotType
           /\ \A p \in Range(list) : Renumbered(list)[p] \in 1 .. Len(list)
<1>1. MaxTeams \in Nat /\ DOMAIN list = 1 .. Len(list) /\ Len(list) \in Nat
  BY FormationAssumption
<1>2. \A p \in Range(list) : (CHOOSE i \in DOMAIN list : list[i] = p) \in 1 .. Len(list)
  BY <1>1 DEF Range
<1>3. Range(list) \subseteq Person
  BY DEF Range
<1>4. \A p \in Range(list) : Renumbered(list)[p] \in 1 .. Len(list)
  BY <1>2, <1>3 DEF Renumbered
<1>5. \A p \in Person : Renumbered(list)[p] \in 1 .. MaxTeams \cup {Null}
  BY <1>1, <1>4 DEF Renumbered, SlotType
<1> QED
  BY <1>4, <1>5 DEF Renumbered, SlotType

--------------------------------------------------------------------------------
(* The k-th number of a finite set.                                              *)

\* Up to a larger number there are more.
LEMMA RankGrows ==
    ASSUME NEW S \in SUBSET Nat, IsFiniteSet(S), NEW m \in Nat, NEW n \in S, m < n
    PROVE  Rank(S, m) < Rank(S, n)
<1> DEFINE L == {x \in S : x <= m}
           U == {x \in S : x <= n}
<1>1. \A x \in S : x \in Nat /\ (x <= m => x <= n) /\ ~(n <= m) /\ n <= n
  OBVIOUS
<1>2. U \in SUBSET S /\ L \in SUBSET U /\ n \in U /\ n \notin L
  BY <1>1
<1> HIDE DEF U, L
<1>3. IsFiniteSet(U)
  BY <1>2, FS_Subset
<1>4. IsFiniteSet(L) /\ Cardinality(L) <= Cardinality(U) /\ Cardinality(L) # Cardinality(U)
  BY <1>2, <1>3, FS_Subset
<1>5. Cardinality(L) \in Nat /\ Cardinality(U) \in Nat
  BY <1>3, <1>4, FS_CardinalityType
<1> QED
  BY <1>4, <1>5 DEF Rank, L, U

LEMMA CountUpTo ==
    ASSUME NEW n \in Nat
    PROVE  IsFiniteSet(1 .. n) /\ Cardinality(1 .. n) = n
BY FS_Interval

LEMMA RankFacts ==
    ASSUME NEW S \in SUBSET Nat, IsFiniteSet(S)
    PROVE  /\ \A n \in S : Rank(S, n) \in 1 .. Cardinality(S)
           /\ \A m, n \in S : Rank(S, m) = Rank(S, n) => m = n
           /\ \A k \in 1 .. Cardinality(S) : \E n \in S : Rank(S, n) = k
<1> DEFINE N == Cardinality(S)
           f == [n \in S |-> Rank(S, n)]
<1>1. N \in Nat
  BY FS_CardinalityType
<1>2. ASSUME NEW n \in S
      PROVE  Rank(S, n) \in 1 .. N
  <2> DEFINE U == {x \in S : x <= n}
  <2>1. U \in SUBSET S /\ n \in U
    OBVIOUS
  <2>2. IsFiniteSet(U) /\ Cardinality(U) <= N
    BY <2>1, FS_Subset
  <2>3. Cardinality(U) \in Nat /\ Cardinality(U) # 0
    BY <2>1, <2>2, FS_CardinalityType, FS_EmptySet
  <2> QED
    BY <1>1, <2>2, <2>3 DEF Rank
<1>3. ASSUME NEW m \in S, NEW n \in S, Rank(S, m) = Rank(S, n)
      PROVE  m = n
  <2>1. m < n => Rank(S, m) < Rank(S, n)
    BY RankGrows
  <2>2. n < m => Rank(S, n) < Rank(S, m)
    BY RankGrows
  <2>3. m \in Nat /\ n \in Nat /\ Rank(S, m) \in Nat
    BY <1>1, <1>2
  <2> QED
    BY <1>3, <2>1, <2>2, <2>3
<1>4. f \in Injection(S, 1 .. N)
  BY <1>2, <1>3 DEF Injection, IsInjective
<1>5. IsFiniteSet(1 .. N) /\ Cardinality(1 .. N) = N
  BY <1>1, FS_Interval
<1>6. f \in Surjection(S, 1 .. N)
  BY <1>4, <1>5, FS_Injection
<1>7. \A k \in 1 .. N : \E n \in S : f[n] = k
  BY <1>6 DEF Surjection
<1> QED
  BY <1>2, <1>3, <1>7

--------------------------------------------------------------------------------
(* What assignDraftSlots returns.                                                *)

\* Those who keep their slot have one each, and there is a free one for each other.
SpareFits(list) ==
    /\ Spare(list) \subseteq DOMAIN list /\ IsFiniteSet(Spare(list))
    /\ FreeSlots(list) \subseteq 1 .. 2 * Len(list) /\ IsFiniteSet(FreeSlots(list))
    /\ \A i, j \in DOMAIN list \ Spare(list) :
          draftSlot[list[i]] \in Nat \ {0} /\ (draftSlot[list[i]] = draftSlot[list[j]] => i = j)
    /\ Cardinality(Spare(list)) \in Nat /\ Cardinality(FreeSlots(list)) \in Nat
    /\ Cardinality({draftSlot[list[i]] : i \in DOMAIN list \ Spare(list)})
          = Len(list) - Cardinality(Spare(list))
    /\ Cardinality(Spare(list)) <= Len(list) /\ Len(list) <= Cardinality(FreeSlots(list))

LEMMA SpareAndFree ==
    ASSUME NEW list \in Seq(Person), draftSlot \in SlotType
    PROVE  SpareFits(list)
<1> DEFINE n == Len(list)
           K == DOMAIN list \ Spare(list)
           kept == {draftSlot[list[i]] : i \in K}
           f == [i \in K |-> draftSlot[list[i]]]
<1>1. n \in Nat /\ DOMAIN list = 1 .. n /\ Spare(list) \subseteq 1 .. n
  BY DEF Spare
<1>2. IsFiniteSet(1 .. n) /\ Cardinality(1 .. n) = n
  BY <1>1, CountUpTo
<1>3. \A i \in K : list[i] \in Person /\ KeepsSlot(list, i)
  BY DEF Spare
<1>4. \A i \in K : draftSlot[list[i]] \in Nat \ {0}
  BY <1>3, FormationAssumption DEF KeepsSlot, SlotType
<1>5. ASSUME NEW i \in K, NEW j \in K, draftSlot[list[i]] = draftSlot[list[j]]
      PROVE  i = j
  <2>1. i \in 1 .. n /\ j \in 1 .. n
    BY <1>1
  <2>2. ~(j < i)
    <3>1. SUFFICES ASSUME j < i PROVE FALSE
      OBVIOUS
    <3>2. j \in 1 .. i - 1
      BY <2>1, <3>1
    <3> QED
      BY <1>3, <1>5, <3>2 DEF KeepsSlot
  <2>3. ~(i < j)
    <3>1. SUFFICES ASSUME i < j PROVE FALSE
      OBVIOUS
    <3>2. i \in 1 .. j - 1
      BY <2>1, <3>1
    <3> QED
      BY <1>3, <1>5, <3>2 DEF KeepsSlot
  <2> QED
    BY <2>1, <2>2, <2>3
<1>6. IsFiniteSet(K) /\ IsFiniteSet(Spare(list)) /\ Cardinality(Spare(list)) <= n
  BY <1>1, <1>2, FS_Subset
<1>7. Cardinality(K) = n - Cardinality(Spare(list))
  <2>1. K \cap Spare(list) = {} /\ K \cup Spare(list) = 1 .. n
    BY <1>1
  <2>2. Cardinality(1 .. n) = Cardinality(K) + Cardinality(Spare(list)) - Cardinality(K \cap Spare(list))
    BY <1>6, <2>1, FS_Union
  <2>3. Cardinality(K) \in Nat /\ Cardinality(Spare(list)) \in Nat
    BY <1>6, FS_CardinalityType
  <2>4. Cardinality(K \cap Spare(list)) = 0
    BY <2>1, FS_EmptySet
  <2> HIDE DEF K, n
  <2> QED
    BY <1>1, <1>2, <2>2, <2>3, <2>4
<1>8. IsFiniteSet(kept) /\ Cardinality(kept) = Cardinality(K)
  <2>1. f \in Surjection(K, kept)
    BY DEF Surjection
  <2>2. f \in Injection(K, kept)
    BY <1>5 DEF Injection, IsInjective
  <2> QED
    BY <1>6, <2>1, <2>2, FS_Surjection
<1>9. /\ IsFiniteSet(FreeSlots(list)) /\ n <= Cardinality(FreeSlots(list))
      /\ FreeSlots(list) \subseteq 1 .. 2 * n
  <2> DEFINE all == 1 .. 2 * n
  <2>1. IsFiniteSet(all) /\ Cardinality(all) = 2 * n
    <3>1. 2 * n \in Nat
      BY <1>1
    <3> QED
      BY <3>1, CountUpTo
  <2>2. FreeSlots(list) = all \ kept
    BY DEF FreeSlots
  <2>3. IsFiniteSet(FreeSlots(list)) /\ Cardinality(FreeSlots(list)) \in Nat
    BY <2>1, <2>2, FS_Subset, FS_CardinalityType
  <2> HIDE DEF kept
  <2>4. /\ IsFiniteSet(FreeSlots(list) \cup kept)
        /\ Cardinality(FreeSlots(list) \cup kept) = Cardinality(FreeSlots(list)) + Cardinality(kept) - 0
    <3>1. FreeSlots(list) \cap kept = {}
      BY <2>2
    <3>2. Cardinality(FreeSlots(list) \cap kept) = 0
      BY <3>1, FS_EmptySet
    <3>3. /\ IsFiniteSet(FreeSlots(list) \cup kept)
          /\ Cardinality(FreeSlots(list) \cup kept)
                = Cardinality(FreeSlots(list)) + Cardinality(kept) - Cardinality(FreeSlots(list) \cap kept)
      BY <1>8, <2>3, FS_Union
    <3> QED
      BY <3>2, <3>3
  <2>5. Cardinality(all) <= Cardinality(FreeSlots(list) \cup kept)
    <3>1. all \in SUBSET (FreeSlots(list) \cup kept)
      BY <2>2
    <3> QED
      BY <2>4, <3>1, FS_Subset
  <2>6. Cardinality(kept) \in Nat /\ Cardinality(kept) <= n
    BY <1>1, <1>6, <1>7, <1>8, FS_CardinalityType
  <2> QED
    BY <1>1, <2>1, <2>2, <2>3, <2>4, <2>5, <2>6
<1>10. Cardinality(Spare(list)) \in Nat /\ Cardinality(FreeSlots(list)) \in Nat
  BY <1>6, <1>9, FS_CardinalityType
<1> QED
  BY <1>1, <1>4, <1>5, <1>6, <1>7, <1>8, <1>9, <1>10 DEF SpareFits

\* Members get different slots, within the league's size or the next so many.
LEMMA AssignedSlots ==
    ASSUME NEW list \in Seq(Person), Len(list) <= MaxTeams, draftSlot \in SlotType
    PROVE  /\ assignDraftSlots(list) \in [DOMAIN list -> 1 .. 2 * MaxTeams]
           /\ IsInjective(assignDraftSlots(list))
<1> DEFINE n == Len(list)
           slots == assignDraftSlots(list)
           free == FreeSlots(list)
           spare == Spare(list)
<1>0. SpareFits(list)
  BY SpareAndFree
<1>1. n \in Nat /\ DOMAIN list = 1 .. n /\ MaxTeams \in Nat /\ spare \subseteq 1 .. n
  BY FormationAssumption DEF Spare
<1>2. /\ IsFiniteSet(spare) /\ IsFiniteSet(free) /\ free \in SUBSET Nat /\ spare \in SUBSET Nat
      /\ free \subseteq 1 .. 2 * n
  BY <1>0, <1>1 DEF SpareFits
<1>3. Cardinality(spare) \in Nat /\ Cardinality(free) \in Nat /\ Cardinality(spare) <= Cardinality(free)
  BY <1>0, <1>1 DEF SpareFits
<1>4. ASSUME NEW i \in spare
      PROVE  slots[i] \in free /\ Rank(free, slots[i]) = Rank(spare, i)
  <2>1. Rank(spare, i) \in 1 .. Cardinality(free)
    BY <1>2, <1>3, RankFacts
  <2>2. \E m \in free : Rank(free, m) = Rank(spare, i)
    BY <1>2, <2>1, RankFacts
  <2>3. slots[i] = CHOOSE m \in free : Rank(free, m) = Rank(spare, i)
    BY <1>1 DEF assignDraftSlots
  <2> QED
    BY <2>2, <2>3
<1>5. \A i \in DOMAIN list \ spare : slots[i] = draftSlot[list[i]] /\ slots[i] \in 1 .. MaxTeams
  <2>1. \A i \in DOMAIN list \ spare : slots[i] = draftSlot[list[i]]
    BY <1>1 DEF assignDraftSlots
  <2>2. \A i \in DOMAIN list \ spare : draftSlot[list[i]] \in 1 .. MaxTeams
    <3> TAKE i \in DOMAIN list \ spare
    <3>1. list[i] \in Person
      OBVIOUS
    <3>2. draftSlot[list[i]] \in Nat \ {0}
      BY <1>0 DEF SpareFits
    <3> QED
      BY <3>1, <3>2, FormationAssumption DEF SlotType
  <2> QED
    BY <2>1, <2>2
<1>6. slots \in [DOMAIN list -> 1 .. 2 * MaxTeams]
  <2>1. DOMAIN slots = DOMAIN list /\ slots = [i \in DOMAIN list |-> slots[i]]
    BY DEF assignDraftSlots
  <2>2. \A i \in DOMAIN list : slots[i] \in 1 .. 2 * MaxTeams
    BY <1>1, <1>2, <1>4, <1>5
  <2> QED
    BY <2>1, <2>2
<1>7. ASSUME NEW i \in DOMAIN list, NEW j \in DOMAIN list, slots[i] = slots[j]
      PROVE  i = j
  <2>1. CASE i \in spare /\ j \in spare
    BY <1>2, <1>4, <1>7, <2>1, RankFacts
  <2>2. CASE i \notin spare /\ j \notin spare
    BY <1>0, <1>5, <1>7, <2>2 DEF SpareFits
  <2>3. CASE i \in spare /\ j \notin spare
    BY <1>4, <1>5, <1>7, <2>3 DEF FreeSlots
  <2>4. CASE i \notin spare /\ j \in spare
    BY <1>4, <1>5, <1>7, <2>4 DEF FreeSlots
  <2> QED
    BY <2>1, <2>2, <2>3, <2>4
<1> QED
  BY <1>6, <1>7 DEF IsInjective

\* If no member's slot is above the number of members, the slots are 1 to that number.
LEMMA AssignedSlotsFit ==
    ASSUME NEW list \in Seq(Person), Len(list) <= MaxTeams, draftSlot \in SlotType,
           \A p \in Range(list) : draftSlot[p] = Null \/ draftSlot[p] <= Len(list)
    PROVE  Range(assignDraftSlots(list)) = 1 .. Len(list)
<1> DEFINE n == Len(list)
           slots == assignDraftSlots(list)
           free == FreeSlots(list)
           spare == Spare(list)
           kept == {draftSlot[list[i]] : i \in DOMAIN list \ spare}
<1>0. SpareFits(list)
  BY SpareAndFree
<1>1. n \in Nat /\ DOMAIN list = 1 .. n /\ MaxTeams \in Nat /\ spare \subseteq 1 .. n
  BY FormationAssumption DEF Spare
<1>2. /\ IsFiniteSet(spare) /\ IsFiniteSet(free) /\ free \in SUBSET Nat /\ spare \in SUBSET Nat
      /\ free \subseteq 1 .. 2 * n
  BY <1>0, <1>1 DEF SpareFits
<1>3. Cardinality(spare) \in Nat /\ Cardinality(free) \in Nat /\ Cardinality(spare) <= Cardinality(free)
  BY <1>0, <1>1 DEF SpareFits
<1>4. kept \subseteq 1 .. n /\ IsFiniteSet(kept) /\ Cardinality(kept) = n - Cardinality(spare)
  <2>1. ASSUME NEW i \in DOMAIN list \ spare
        PROVE  draftSlot[list[i]] \in 1 .. n
    <3>1. draftSlot[list[i]] \in Nat \ {0} /\ list[i] \in Range(list)
      BY <1>0 DEF SpareFits, Range
    <3> QED
      BY <1>1, <3>1, FormationAssumption
  <2>2. kept \subseteq 1 .. n
    BY <2>1
  <2>3. Cardinality(kept) = n - Cardinality(spare)
    BY <1>0 DEF SpareFits
  <2>4. IsFiniteSet(1 .. n)
    BY <1>1, CountUpTo
  <2>5. IsFiniteSet(kept)
    BY <2>2, <2>4, FS_Subset
  <2> QED
    BY <2>2, <2>3, <2>5
<1>5. ASSUME NEW i \in spare
      PROVE  slots[i] \in 1 .. n
  <2>1. Rank(spare, i) \in 1 .. Cardinality(spare)
    BY <1>2, RankFacts
  <2>2. Rank(spare, i) \in 1 .. Cardinality(free)
    BY <1>3, <2>1
  <2>3. \E m \in free : Rank(free, m) = Rank(spare, i)
    BY <1>2, <2>2, RankFacts
  <2>4. slots[i] = CHOOSE m \in free : Rank(free, m) = Rank(spare, i)
    BY <1>1 DEF assignDraftSlots
  <2>5. slots[i] \in free /\ Rank(free, slots[i]) = Rank(spare, i)
    BY <2>3, <2>4
  <2> DEFINE open == (1 .. n) \ kept
             below == {x \in free : x <= n}
  <2>6. open = below
    BY <1>1, <1>2 DEF FreeSlots
  <2>7. Cardinality(open) = Cardinality(spare)
    <3>1. IsFiniteSet(1 .. n) /\ Cardinality(1 .. n) = n
      BY <1>1, CountUpTo
    <3>2. IsFiniteSet(open) /\ Cardinality(open) \in Nat
      BY <3>1, FS_Subset, FS_CardinalityType
    <3>3. open \cap kept = {} /\ open \cup kept = 1 .. n
      BY <1>4
    <3>4. Cardinality(1 .. n) = Cardinality(open) + Cardinality(kept) - Cardinality({})
      BY <1>4, <3>2, <3>3, FS_Union
    <3> QED
      BY <1>1, <1>3, <1>4, <3>1, <3>2, <3>4, FS_EmptySet
  <2>8. Rank(free, n) = Cardinality(spare)
    BY <2>6, <2>7 DEF Rank
  <2>9. ~(n < slots[i])
    <3>1. n < slots[i] => Rank(free, n) < Rank(free, slots[i])
      BY <1>1, <1>2, <2>5, RankGrows
    <3> QED
      BY <1>3, <2>1, <2>5, <2>8, <3>1
  <2> QED
    BY <1>1, <1>2, <2>5, <2>9
<1>6. \A i \in DOMAIN list \ spare : slots[i] \in 1 .. n
  BY <1>1, <1>4 DEF assignDraftSlots
<1>7. slots \in Injection(1 .. n, 1 .. n)
  <2>1. slots \in [1 .. n -> 1 .. n]
    BY <1>1, <1>5, <1>6, AssignedSlots
  <2> QED
    BY <1>1, <2>1, AssignedSlots DEF Injection
<1>8. slots \in Surjection(1 .. n, 1 .. n)
  BY <1>1, <1>7, CountUpTo, FS_Injection
<1>9. DOMAIN slots = 1 .. n /\ \A k \in 1 .. n : slots[k] \in 1 .. n
  BY <1>7 DEF Injection
<1>10. \A k \in 1 .. n : \E i \in 1 .. n : slots[i] = k
  BY <1>8 DEF Surjection
<1> HIDE DEF slots, n
<1> QED
  BY <1>9, <1>10 DEF Range, slots, n

\* The rows of distinct slots hold the list.
LEMMA RowsFacts ==
    ASSUME NEW list \in Seq(Person), NEW slots, DOMAIN slots = DOMAIN list, IsInjective(slots)
    PROVE  DOMAIN Rows(list, slots) = Range(slots) /\ Range(Rows(list, slots)) = Range(list)
<1> DEFINE rows == Rows(list, slots)
<1>1. DOMAIN rows = Range(slots)
  BY DEF Rows
<1>2. \A i \in DOMAIN list : slots[i] \in Range(slots) /\ rows[slots[i]] = list[i]
  <2> TAKE i \in DOMAIN list
  <2>1. slots[i] \in Range(slots)
    BY DEF Range
  <2>2. (CHOOSE j \in DOMAIN list : slots[j] = slots[i]) = i
    BY DEF IsInjective
  <2> QED
    BY <2>1, <2>2 DEF Rows
<1>3. \A n \in Range(slots) : \E i \in DOMAIN list : n = slots[i] /\ rows[n] = list[i]
  BY <1>2 DEF Range
<1> HIDE DEF rows
<1>4. Range(rows) = Range(list)
  <2>1. Range(rows) = {rows[n] : n \in Range(slots)} /\ Range(list) = {list[i] : i \in DOMAIN list}
    BY <1>1 DEF Range
  <2> QED
    BY <1>2, <1>3, <2>1
<1> QED
  BY <1>1, <1>4 DEF rows

--------------------------------------------------------------------------------
(* The invariant: the type of what a transaction has read, joins one at a time,  *)
(* what a fresh transaction knows, and slots that fit the league.                *)

JoinTxn == {x \in [kind : {"join"}, person : Person, list : Seq(Person), draft : Phase, fresh : BOOLEAN] :
               Len(x.list) < MaxTeams}
RemoveTxn == {x \in [kind : {"remove"}, person : Person \ {Creator}, list : Seq(Person),
                     draft : Phase, fresh : BOOLEAN] :
                 Len(x.list) <= MaxTeams /\ x.person \in Range(x.list)}
IsOrder(rows) == DOMAIN rows \subseteq 1 .. 2 * MaxTeams /\ Range(rows) \subseteq Person
ConvergeTxn(x) ==
    /\ x.kind = "converge" /\ x.draft \in Phase /\ x.fresh \in BOOLEAN /\ IsOrder(x.rows)
    /\ x = [kind |-> "converge", rows |-> x.rows, draft |-> x.draft, fresh |-> x.fresh]
CreateTxn == {x \in [kind : {"create"}, list : Seq(Person), fresh : BOOLEAN] : Len(x.list) <= MaxTeams}
TxnType(x) == x = NoTxn \/ x \in JoinTxn \/ x \in RemoveTxn \/ ConvergeTxn(x) \/ x \in CreateTxn

Members ==
    /\ active \subseteq Person /\ Creator \in active
    /\ IsFiniteSet(active) /\ Cardinality(active) <= MaxTeams
    /\ draftSlot \in SlotType
Drafts ==
    /\ draft \in Phase /\ (draft = "none" => order = None) /\ IsOrder(order)
    /\ raced \in BOOLEAN

\* A draft, once there, stays; and a join that runs has a seat left, since no other runs.
Transactions ==
    /\ DOMAIN txn = Server
    /\ \A s \in Server :
          /\ TxnType(txn[s])
          /\ txn[s].kind \in {"join", "remove"} /\ txn[s].draft # "none" => draft # "none"
          /\ txn[s].kind = "join" => /\ Cardinality(active) < MaxTeams
                                     /\ \A t \in Server : txn[t].kind = "join" => t = s

IsLeague(rows) == DOMAIN rows = 1 .. Cardinality(active) /\ Range(rows) = active

\* What a transaction has read still holds while no other command has written.
Current(x) ==
    /\ x.kind \in {"join", "remove"} =>
          /\ x.list \in SetToSeqs(active) /\ x.draft = draft /\ ~hasDraftStarted
          /\ x.kind = "join" <=> x.person \notin active
    /\ x.kind = "create" => x.list \in SetToSeqs(active)
    /\ x.kind = "converge" =>
          /\ x.draft = draft /\ draft # "LIVE"
          /\ IF draft = "none" THEN ~raced => IsLeague(x.rows)
             ELSE Cardinality(DOMAIN order) # Cardinality(active)
FreshIsCurrent == \A s \in Server : txn[s] # NoTxn /\ txn[s].fresh => Current(txn[s])

\* Without a draft the slots of the members are within the league's size.
SlotsFit ==
    ~raced /\ draft = "none" =>
        \A p \in active : draftSlot[p] = Null \/ draftSlot[p] <= Cardinality(active)

FormationInv == Members /\ Drafts /\ Transactions /\ FreshIsCurrent /\ SlotsFit /\ OrderIsTheLeague

--------------------------------------------------------------------------------
(* What every command does to the transactions.                                  *)

LEMMA KindOfTxn ==
    ASSUME NEW x, TxnType(x)
    PROVE  /\ x = NoTxn <=> x.kind = "none"
           /\ x \in JoinTxn <=> x.kind = "join"
           /\ x \in RemoveTxn <=> x.kind = "remove"
           /\ ConvergeTxn(x) <=> x.kind = "converge"
           /\ x \in CreateTxn <=> x.kind = "create"
           /\ x # NoTxn => x.fresh \in BOOLEAN
BY DEF TxnType, NoTxn, JoinTxn, RemoveTxn, ConvergeTxn, CreateTxn

\* A transaction that another has overtaken is what it was, but not fresh.
Overtaken(x) == IF x = NoTxn THEN NoTxn ELSE [x EXCEPT !.fresh = FALSE]

LEMMA OvertakenFacts ==
    ASSUME NEW x, TxnType(x)
    PROVE  /\ TxnType(Overtaken(x)) /\ Overtaken(x).kind = x.kind
           /\ x # NoTxn => Overtaken(x).fresh = FALSE
           /\ x.kind \in {"join", "remove"} => Overtaken(x).draft = x.draft
<1>1. CASE x = NoTxn
  BY <1>1 DEF Overtaken, TxnType, NoTxn
<1>2. CASE x \in JoinTxn
  BY <1>2 DEF Overtaken, TxnType, NoTxn, JoinTxn
<1>3. CASE x \in RemoveTxn
  BY <1>3 DEF Overtaken, TxnType, NoTxn, RemoveTxn
<1>4. CASE ConvergeTxn(x)
  BY <1>4 DEF Overtaken, TxnType, NoTxn, ConvergeTxn
<1>5. CASE x \in CreateTxn
  BY <1>5 DEF Overtaken, TxnType, NoTxn, CreateTxn
<1> QED
  BY <1>1, <1>2, <1>3, <1>4, <1>5 DEF TxnType

\* After a commit nothing is fresh; joins that still run must have a seat left.
LEMMA CommitTxns ==
    ASSUME Transactions, NEW s \in Server, NEW mends, Commit(s, mends),
           draft # "none" => draft' # "none",
           \A t \in Server \ {s} : txn[t].kind = "join" => Cardinality(active') < MaxTeams
    PROVE  Transactions' /\ FreshIsCurrent'
<1>1. /\ DOMAIN txn' = Server
      /\ txn'[s] = NoTxn /\ \A t \in Server \ {s} : txn'[t] = Overtaken(txn[t])
  BY DEF Commit, Overtaken
<1>2. \A t \in Server : TxnType(txn[t])
  BY DEF Transactions
<1>3. NoTxn.kind = "none" /\ TxnType(NoTxn)
  BY DEF NoTxn, TxnType
<1>4. ASSUME NEW t \in Server
      PROVE  /\ TxnType(txn'[t]) /\ (txn'[t] # NoTxn => txn'[t].fresh = FALSE)
             /\ txn'[t].kind # "none" => t # s /\ txn'[t].kind = txn[t].kind
             /\ txn'[t].kind \in {"join", "remove"} => txn'[t].draft = txn[t].draft
  <2>1. CASE t = s
    BY <1>1, <1>3, <2>1
  <2>2. CASE t # s
    <3>1. txn[t] = NoTxn => Overtaken(txn[t]) = NoTxn
      BY DEF Overtaken
    <3> QED
      BY <1>1, <1>2, <2>2, <3>1, OvertakenFacts
  <2> QED
    BY <2>1, <2>2
<1>5. ASSUME NEW t \in Server
      PROVE  TxnType(txn[t])'
  BY <1>4 DEF TxnType, JoinTxn, RemoveTxn, ConvergeTxn, CreateTxn, IsOrder, NoTxn, Phase
<1>6. Transactions'
  BY <1>1, <1>4, <1>5 DEF Transactions
<1>7. FreshIsCurrent'
  BY <1>4 DEF FreshIsCurrent
<1> QED
  BY <1>6, <1>7

\* A transaction that begins or fails leaves the league as it is.
LEMMA LeagueUnchanged ==
    ASSUME FormationInv, UNCHANGED <<active, draftSlot, draft, order, raced>>
    PROVE  Members' /\ Drafts' /\ SlotsFit' /\ OrderIsTheLeague'
BY DEF FormationInv, Members, Drafts, SlotsFit, OrderIsTheLeague, SlotType, IsOrder, Phase

LEMMA BeginKeepsInv ==
    ASSUME FormationInv, NEW s \in Server, NEW read, Begin(s, read),
           TxnType(read), read # NoTxn, Current(read),
           read.kind \in {"join", "remove"} => read.draft = draft,
           read.kind = "join" => LeagueRowFree /\ Cardinality(active) < MaxTeams
    PROVE  FormationInv'
<1>1. /\ txn' = [txn EXCEPT ![s] = read] /\ txn[s] = NoTxn
      /\ UNCHANGED <<active, draftSlot, draft, order, raced>>
  BY DEF Begin
<1>2. Members' /\ Drafts' /\ SlotsFit' /\ OrderIsTheLeague'
  BY <1>1, LeagueUnchanged
<1>3. /\ DOMAIN txn' = Server /\ txn'[s] = read
      /\ \A t \in Server \ {s} : txn'[t] = txn[t]
  BY <1>1 DEF FormationInv, Transactions
<1>5. \A t \in Server : TxnType(txn'[t])
  BY <1>3 DEF FormationInv, Transactions
<1>6. \A t \in Server : TxnType(txn[t])'
  BY <1>5 DEF TxnType, JoinTxn, RemoveTxn, ConvergeTxn, CreateTxn, IsOrder, NoTxn, Phase
<1>7. ASSUME NEW t \in Server, txn'[t].kind = "join"
      PROVE  Cardinality(active) < MaxTeams /\ \A u \in Server : txn'[u].kind = "join" => u = t
  BY <1>3, <1>7 DEF FormationInv, Transactions, LeagueRowFree, Running
<1>8. Transactions'
  BY <1>1, <1>3, <1>6, <1>7 DEF FormationInv, Transactions
<1>9. \A t \in Server : txn'[t] # NoTxn /\ txn'[t].fresh => Current(txn'[t])
  BY <1>3 DEF FormationInv, FreshIsCurrent
<1>10. FreshIsCurrent'
  BY <1>1, <1>9 DEF FreshIsCurrent, Current, IsLeague, hasDraftStarted
<1> QED
  BY <1>2, <1>8, <1>10 DEF FormationInv

LEMMA FailsKeepsInv ==
    ASSUME FormationInv, NEW s \in Server, Fails(s)
    PROVE  FormationInv'
<1>1. /\ txn' = [txn EXCEPT ![s] = NoTxn]
      /\ UNCHANGED <<active, draftSlot, draft, order, raced>>
  BY DEF Fails
<1>2. Members' /\ Drafts' /\ SlotsFit' /\ OrderIsTheLeague'
  BY <1>1, LeagueUnchanged
<1>3. /\ DOMAIN txn' = Server /\ txn'[s] = NoTxn
      /\ \A t \in Server \ {s} : txn'[t] = txn[t]
  BY <1>1 DEF FormationInv, Transactions
<1>5. NoTxn.kind = "none" /\ TxnType(NoTxn)
  BY DEF NoTxn, TxnType
<1>6. \A t \in Server : TxnType(txn'[t])
  BY <1>3, <1>5 DEF FormationInv, Transactions
<1>7. \A t \in Server : TxnType(txn[t])'
  BY <1>6 DEF TxnType, JoinTxn, RemoveTxn, ConvergeTxn, CreateTxn, IsOrder, NoTxn, Phase
<1>8. Transactions'
  BY <1>1, <1>3, <1>5, <1>7 DEF FormationInv, Transactions
<1>9. \A t \in Server : txn'[t] # NoTxn /\ txn'[t].fresh => Current(txn'[t])
  BY <1>3 DEF FormationInv, FreshIsCurrent
<1>10. FreshIsCurrent'
  BY <1>1, <1>9 DEF FreshIsCurrent, Current, IsLeague, hasDraftStarted
<1> QED
  BY <1>2, <1>8, <1>10 DEF FormationInv

--------------------------------------------------------------------------------
(* The commands.                                                                 *)

LEMMA InitKeepsInv ==
    ASSUME FormationInit
    PROVE  FormationInv
<1>1. MaxTeams \in Nat \ {0} /\ Creator \in Person /\ Null \notin Nat
  BY FormationAssumption
<1>2. IsFiniteSet({Creator}) /\ Cardinality({Creator}) = 1
  BY FS_Singleton
<1>3. Members
  BY <1>1, <1>2 DEF FormationInit, Members, SlotType
<1>4. DOMAIN None = {} /\ Range(None) = {}
  BY DEF None, Range
<1>5. Drafts
  BY <1>4 DEF FormationInit, Drafts, Phase, IsOrder
<1>6. Transactions
  BY DEF FormationInit, Transactions, TxnType, NoTxn
<1>7. FreshIsCurrent
  BY DEF FormationInit, FreshIsCurrent
<1>8. SlotsFit /\ OrderIsTheLeague
  BY <1>1 DEF FormationInit, SlotsFit, OrderIsTheLeague
<1> QED
  BY <1>3, <1>5, <1>6, <1>7, <1>8 DEF FormationInv

LEMMA JoinReadsKeepsInv ==
    ASSUME FormationInv, NEW s \in Server, NEW p \in Person, JoinReads(s, p)
    PROVE  FormationInv'
<1>1. PICK list \in ActiveMembers :
          Begin(s, [kind |-> "join", person |-> p, list |-> list, draft |-> draft, fresh |-> TRUE])
  BY DEF JoinReads
<1> DEFINE read == [kind |-> "join", person |-> p, list |-> list, draft |-> draft, fresh |-> TRUE]
<1>2. list \in SetToSeqs(active)
  BY DEF ActiveMembers
<1>3. list \in Seq(active) /\ Len(list) = Cardinality(active)
  BY <1>2, ListFacts DEF FormationInv, Members
<1>4. list \in Seq(Person)
  BY <1>3 DEF FormationInv, Members
<1>5. read \in JoinTxn
  BY <1>3, <1>4 DEF JoinTxn, JoinReads, FormationInv, Drafts
<1>6. TxnType(read) /\ read # NoTxn
  BY <1>5 DEF TxnType, NoTxn
<1>7. Current(read)
  BY <1>2 DEF Current, JoinReads
<1> QED
  BY <1>1, <1>6, <1>7, BeginKeepsInv DEF JoinReads

LEMMA RemoveReadsKeepsInv ==
    ASSUME FormationInv, NEW s \in Server, NEW p \in Person, RemoveReads(s, p)
    PROVE  FormationInv'
<1>1. PICK list \in ActiveMembers :
          Begin(s, [kind |-> "remove", person |-> p, list |-> list, draft |-> draft, fresh |-> TRUE])
  BY DEF RemoveReads
<1> DEFINE read == [kind |-> "remove", person |-> p, list |-> list, draft |-> draft, fresh |-> TRUE]
<1>2. list \in SetToSeqs(active)
  BY DEF ActiveMembers
<1>3. list \in Seq(active) /\ Len(list) = Cardinality(active) /\ Range(list) = active
  BY <1>2, ListFacts DEF FormationInv, Members
<1>4. list \in Seq(Person) /\ Len(list) <= MaxTeams
  BY <1>3 DEF FormationInv, Members
<1>5. read \in RemoveTxn
  BY <1>3, <1>4 DEF RemoveTxn, RemoveReads, FormationInv, Drafts
<1>6. TxnType(read) /\ read # NoTxn
  BY <1>5 DEF TxnType, NoTxn
<1>7. Current(read)
  BY <1>2 DEF Current, RemoveReads
<1> QED
  BY <1>1, <1>6, <1>7, BeginKeepsInv

LEMMA CreateReadsKeepsInv ==
    ASSUME FormationInv, NEW s \in Server, CreateReads(s)
    PROVE  FormationInv'
<1>1. PICK list \in SetToSeqs(active) : Begin(s, [kind |-> "create", list |-> list, fresh |-> TRUE])
  BY DEF CreateReads
<1> DEFINE read == [kind |-> "create", list |-> list, fresh |-> TRUE]
<1>2. list \in Seq(active) /\ Len(list) = Cardinality(active)
  BY ListFacts DEF FormationInv, Members
<1>3. list \in Seq(Person) /\ Len(list) <= MaxTeams
  BY <1>2 DEF FormationInv, Members
<1>4. read \in CreateTxn
  BY <1>3 DEF CreateTxn
<1>5. TxnType(read) /\ read # NoTxn
  BY <1>4 DEF TxnType, NoTxn
<1>6. Current(read)
  BY DEF Current
<1> QED
  BY <1>1, <1>5, <1>6, BeginKeepsInv

\* The convergence gives the slots 1 to n, one each, if the members' slots fit.
LEMMA ConvergeReadsKeepsInv ==
    ASSUME FormationInv, NEW s \in Server, ConvergeReads(s)
    PROVE  FormationInv'
<1>1. PICK list \in ActiveMembers :
          Begin(s, [kind |-> "converge", rows |-> Rows(list, assignDraftSlots(list)),
                    draft |-> draft, fresh |-> TRUE])
  BY DEF ConvergeReads
<1> DEFINE slots == assignDraftSlots(list)
           rows == Rows(list, slots)
           read == [kind |-> "converge", rows |-> rows, draft |-> draft, fresh |-> TRUE]
<1>2. list \in SetToSeqs(active)
  BY DEF ActiveMembers
<1>3. list \in Seq(active) /\ Len(list) = Cardinality(active) /\ Range(list) = active
  BY <1>2, ListFacts DEF FormationInv, Members
<1>4. list \in Seq(Person) /\ Len(list) <= MaxTeams /\ active \subseteq Person /\ draftSlot \in SlotType
  BY <1>3 DEF FormationInv, Members
<1>5. slots \in [DOMAIN list -> 1 .. 2 * MaxTeams] /\ IsInjective(slots)
  BY <1>4, AssignedSlots
<1>6. DOMAIN rows = Range(slots) /\ Range(rows) = active
  BY <1>3, <1>4, <1>5, RowsFacts
<1>7. Range(slots) \subseteq 1 .. 2 * MaxTeams
  BY <1>5 DEF Range
<1>8. IsOrder(rows)
  BY <1>4, <1>6, <1>7 DEF IsOrder
<1>9. ~raced /\ draft = "none" => IsLeague(rows)
  <2>1. ASSUME ~raced, draft = "none"
        PROVE  Range(slots) = 1 .. Cardinality(active)
    BY <1>3, <1>4, <2>1, AssignedSlotsFit DEF FormationInv, SlotsFit
  <2> QED
    BY <1>6, <2>1 DEF IsLeague
<1> HIDE DEF slots, rows
<1>10. draft \in Phase
  BY DEF FormationInv, Drafts
<1>11. ConvergeTxn(read)
  BY <1>8, <1>10 DEF ConvergeTxn
<1>12. TxnType(read) /\ read # NoTxn
  BY <1>11 DEF TxnType, NoTxn
<1>13. Current(read)
  BY <1>9 DEF Current, ConvergeReads
<1> QED
  BY <1>1, <1>12, <1>13, BeginKeepsInv DEF slots, rows

LEMMA JoinWritesKeepsInv ==
    ASSUME FormationInv, NEW s \in Server, JoinWrites(s)
    PROVE  FormationInv'
<1> DEFINE x == txn[s]
           list == x.list
           p == x.person
           longer == Append(list, p)
<1>1. x \in JoinTxn
  BY KindOfTxn DEF JoinWrites, FormationInv, Transactions
<1>2. /\ p \in Person /\ list \in Seq(Person) /\ Len(list) < MaxTeams /\ Len(list) \in Nat
      /\ x.fresh \in BOOLEAN /\ x.draft \in Phase /\ x # NoTxn
  BY <1>1 DEF JoinTxn, NoTxn
<1>3. /\ active' = active \cup {p} /\ draftSlot' = [draftSlot EXCEPT ![p] = Len(list) + 1]
      /\ order' = IF x.draft = "none" THEN order ELSE InOrder(longer)
      /\ Commit(s, x.draft # "none") /\ draft' = draft
      /\ raced' = (~x.fresh \/ (raced /\ x.draft = "none"))
  BY DEF JoinWrites, Commit
<1>4. Cardinality(active) < MaxTeams /\ IsFiniteSet(active) /\ \A t \in Server \ {s} : txn[t].kind # "join"
  BY DEF FormationInv, Transactions, Members, JoinWrites
<1>5. /\ IsFiniteSet(active') /\ Cardinality(active) \in Nat
      /\ Cardinality(active') = IF p \in active THEN Cardinality(active) ELSE Cardinality(active) + 1
  BY <1>3, <1>4, FS_AddElement, FS_CardinalityType
<1>6. MaxTeams \in Nat /\ Null \notin Nat
  BY FormationAssumption
<1>7. longer \in Seq(Person) /\ Len(longer) = Len(list) + 1 /\ Range(longer) = Range(list) \cup {p}
  BY <1>2, AppendFacts
<1>8. InOrder(longer) = longer /\ DOMAIN longer = 1 .. Len(list) + 1 /\ Range(longer) \subseteq Person
  <2>1. InOrder(longer) = longer
    BY <1>7, InOrderIsTheList
  <2>2. Range(list) \subseteq Person
    BY <1>2 DEF Range
  <2> HIDE DEF longer
  <2>3. DOMAIN longer = 1 .. Len(list) + 1
    BY <1>7
  <2> QED
    BY <1>2, <1>7, <2>1, <2>2, <2>3
<1>9. Members'
  <2>1. active' \subseteq Person /\ Creator \in active' /\ Cardinality(active') <= MaxTeams
    BY <1>2, <1>3, <1>4, <1>5, <1>6 DEF FormationInv, Members
  <2>2. draftSlot' \in SlotType
    BY <1>2, <1>3, <1>6 DEF FormationInv, Members, SlotType
  <2> QED
    BY <1>5, <2>1, <2>2 DEF Members, SlotType
<1>10. Drafts'
  <2>1. x.draft # "none" => draft # "none"
    BY DEF FormationInv, Transactions, JoinWrites
  <2>2. IsOrder(longer)
    BY <1>2, <1>6, <1>8 DEF IsOrder
  <2>3. IsOrder(order')
    BY <1>3, <1>8, <2>2 DEF FormationInv, Drafts
  <2>4. raced' \in BOOLEAN
    BY <1>2, <1>3 DEF FormationInv, Drafts
  <2> QED
    BY <1>3, <2>1, <2>3, <2>4 DEF FormationInv, Drafts, IsOrder, Phase
<1>11. Transactions' /\ FreshIsCurrent'
  BY <1>3, <1>4, CommitTxns DEF FormationInv
<1>12. x.fresh => /\ Range(list) = active /\ Len(list) = Cardinality(active)
                  /\ p \notin active /\ x.draft = draft
  BY <1>2, <1>4, ListFacts DEF FormationInv, FreshIsCurrent, Current, JoinWrites
<1> HIDE DEF x, list, p, longer
<1>13. SlotsFit'
  <2>1. SUFFICES ASSUME ~raced', draft' = "none", NEW m \in active'
                 PROVE  draftSlot'[m] = Null \/ draftSlot'[m] <= Cardinality(active')
    BY DEF SlotsFit
  <2>2. x.fresh /\ draft = "none" /\ ~raced
    BY <1>3, <1>12, <2>1, <1>2 DEF FormationInv, Drafts
  <2>3. CASE m = p
    <3>1. draftSlot'[m] = Len(list) + 1
      BY <1>2, <1>3, <2>3 DEF FormationInv, Members, SlotType
    <3> QED
      BY <1>5, <1>12, <2>2, <3>1
  <2>4. CASE m # p
    <3>1. m \in active /\ m \in Person /\ draftSlot'[m] = draftSlot[m]
      BY <1>3, <2>1, <2>4 DEF FormationInv, Members, SlotType
    <3>2. draftSlot[m] = Null \/ (draftSlot[m] \in Nat /\ draftSlot[m] <= Cardinality(active))
      <4>1. draftSlot[m] = Null \/ draftSlot[m] <= Cardinality(active)
        BY <2>2, <3>1 DEF FormationInv, SlotsFit
      <4>2. draftSlot[m] = Null \/ draftSlot[m] \in Nat
        BY <1>6, <3>1 DEF FormationInv, Members, SlotType
      <4> QED
        BY <4>1, <4>2
    <3> QED
      BY <1>5, <1>12, <2>2, <3>1, <3>2
  <2> QED
    BY <2>3, <2>4
<1>14. OrderIsTheLeague'
  <2>1. SUFFICES ASSUME ~raced', draft' # "none"
                 PROVE  DOMAIN order' = 1 .. Cardinality(active') /\ Range(order') = active'
    BY DEF OrderIsTheLeague
  <2>2. x.fresh /\ x.draft # "none"
    BY <1>3, <1>12, <2>1, <1>2
  <2> QED
    BY <1>3, <1>5, <1>7, <1>8, <1>12, <2>2
<1> QED
  BY <1>9, <1>10, <1>11, <1>13, <1>14 DEF FormationInv

LEMMA RemoveWritesKeepsInv ==
    ASSUME FormationInv, NEW s \in Server, RemoveWrites(s)
    PROVE  FormationInv'
<1> DEFINE x == txn[s]
           list == x.list
           p == x.person
           k == CHOOSE i \in DOMAIN list : list[i] = p
           rest == RemoveAt(list, k)
<1>1. x \in RemoveTxn
  BY KindOfTxn DEF RemoveWrites, FormationInv, Transactions
<1>2. /\ p \in Person \ {Creator} /\ list \in Seq(Person) /\ Len(list) <= MaxTeams /\ Len(list) \in Nat
      /\ x.fresh \in BOOLEAN /\ x.draft \in Phase /\ x # NoTxn /\ p \in Range(list)
  BY <1>1 DEF RemoveTxn, NoTxn
<1>3. /\ active' = active \ {p} /\ draftSlot' = [Renumbered(rest) EXCEPT ![p] = Null]
      /\ order' = IF x.draft = "none" THEN order ELSE InOrder(rest)
      /\ Commit(s, TRUE) /\ draft' = draft /\ raced' = ~x.fresh
  BY <1>2 DEF RemoveWrites, Commit
<1>4. k \in DOMAIN list /\ list[k] = p
  <2>1. \E i \in DOMAIN list : list[i] = p
    BY <1>2 DEF Range
  <2> QED
    BY <2>1
<1> HIDE DEF k
<1>5. /\ rest \in Seq(Person) /\ Len(rest) = Len(list) - 1 /\ Range(rest) \subseteq Range(list)
      /\ IsInjective(list) => Range(rest) = Range(list) \ {p}
  <2> HIDE DEF list, p
  <2> QED
    BY <1>2, <1>4, RemoveFacts
<1>6. /\ InOrder(rest) = rest /\ DOMAIN rest = 1 .. Len(list) - 1 /\ Range(rest) \subseteq Person
      /\ Len(rest) \in Nat
  <2>1. InOrder(rest) = rest
    BY <1>5, InOrderIsTheList
  <2>2. Range(list) \subseteq Person
    BY <1>2 DEF Range
  <2> HIDE DEF rest
  <2>3. DOMAIN rest = 1 .. Len(list) - 1 /\ Len(rest) \in Nat
    BY <1>5
  <2> QED
    BY <1>5, <2>1, <2>2, <2>3
<1>7. MaxTeams \in Nat /\ Null \notin Nat
  BY FormationAssumption
<1>8. IsFiniteSet(active) /\ Cardinality(active) \in Nat /\ Cardinality(active) <= MaxTeams
  BY FS_CardinalityType DEF FormationInv, Members
<1>9. /\ IsFiniteSet(active') /\ Cardinality(active') \in Nat
      /\ Cardinality(active') = IF p \in active THEN Cardinality(active) - 1 ELSE Cardinality(active)
  BY <1>3, <1>8, FS_RemoveElement, FS_CardinalityType
<1>10. /\ Renumbered(rest) \in SlotType
       /\ \A q \in Range(rest) : Renumbered(rest)[q] \in 1 .. Len(rest)
  <2>1. Len(rest) <= MaxTeams
    BY <1>2, <1>5, <1>7
  <2> QED
    BY <1>5, <2>1, RenumberedFacts DEF FormationInv, Members
<1> HIDE DEF rest
<1>11. Members'
  <2>1. active' \subseteq Person /\ Creator \in active' /\ Cardinality(active') <= MaxTeams
    BY <1>2, <1>3, <1>7, <1>8, <1>9 DEF FormationInv, Members
  <2>2. draftSlot' \in SlotType
    BY <1>2, <1>3, <1>10 DEF SlotType
  <2> QED
    BY <1>9, <2>1, <2>2 DEF Members, SlotType
<1>12. Drafts'
  <2>1. x.draft # "none" => draft # "none"
    BY DEF FormationInv, Transactions, RemoveWrites
  <2>2. IsOrder(rest)
    BY <1>2, <1>6, <1>7 DEF IsOrder
  <2>3. IsOrder(order')
    BY <1>3, <1>6, <2>2 DEF FormationInv, Drafts
  <2> QED
    BY <1>2, <1>3, <2>1, <2>3 DEF FormationInv, Drafts, IsOrder, Phase
<1>13. Transactions' /\ FreshIsCurrent'
  <2>1. \A t \in Server \ {s} : txn[t].kind = "join" => Cardinality(active') < MaxTeams
    BY <1>7, <1>8, <1>9 DEF FormationInv, Transactions
  <2> QED
    BY <1>3, <2>1, CommitTxns DEF FormationInv
<1>14. x.fresh => /\ Range(list) = active /\ Len(list) = Cardinality(active) /\ IsInjective(list)
                  /\ p \in active /\ x.draft = draft
  BY <1>2, <1>8, ListFacts DEF FormationInv, FreshIsCurrent, Current, RemoveWrites
<1>15. x.fresh => Range(rest) = active' /\ Len(rest) = Cardinality(active')
  BY <1>3, <1>5, <1>9, <1>14
<1> HIDE DEF x, list, p
<1>16. SlotsFit'
  <2>1. SUFFICES ASSUME ~raced', NEW m \in active'
                 PROVE  draftSlot'[m] <= Cardinality(active')
    BY DEF SlotsFit
  <2>2. m \in Range(rest) /\ Len(rest) = Cardinality(active') /\ m # p /\ m \in Person
    BY <1>2, <1>3, <1>15, <1>11, <2>1 DEF Members
  <2>3. draftSlot'[m] = Renumbered(rest)[m]
    BY <1>3, <1>10, <2>2 DEF SlotType
  <2> QED
    BY <1>6, <1>10, <2>2, <2>3
<1>17. OrderIsTheLeague'
  <2>1. SUFFICES ASSUME ~raced', draft' # "none"
                 PROVE  DOMAIN order' = 1 .. Cardinality(active') /\ Range(order') = active'
    BY DEF OrderIsTheLeague
  <2>2. x.fresh /\ x.draft # "none"
    BY <1>2, <1>3, <1>14, <2>1
  <2> QED
    BY <1>3, <1>5, <1>6, <1>15, <2>2
<1> QED
  BY <1>11, <1>12, <1>13, <1>16, <1>17 DEF FormationInv

LEMMA ConvergeWritesKeepsInv ==
    ASSUME FormationInv, NEW s \in Server, ConvergeWrites(s)
    PROVE  FormationInv'
<1> DEFINE x == txn[s]
<1>1. x.fresh \in BOOLEAN /\ IsOrder(x.rows) /\ x # NoTxn
  BY KindOfTxn DEF ConvergeWrites, FormationInv, Transactions, ConvergeTxn
<1>2. /\ order' = x.rows /\ draft' = IF draft = "none" THEN "SCHEDULED" ELSE draft
      /\ active' = active /\ draftSlot' = draftSlot
      /\ Commit(s, FALSE) /\ raced' = (~x.fresh \/ raced)
  BY DEF ConvergeWrites, Commit
<1>3. draft' # "none"
  BY <1>2
<1>4. Members'
  BY <1>2 DEF FormationInv, Members, SlotType
<1>5. Drafts'
  <2>1. IsOrder(order')
    BY <1>1, <1>2
  <2> QED
    BY <1>1, <1>2, <1>3, <2>1 DEF FormationInv, Drafts, IsOrder, Phase
<1>6. Transactions' /\ FreshIsCurrent'
  <2>1. \A t \in Server \ {s} : txn[t].kind = "join" => Cardinality(active') < MaxTeams
    BY <1>2 DEF FormationInv, Transactions
  <2> QED
    BY <1>2, <1>3, <2>1, CommitTxns DEF FormationInv
<1>7. SlotsFit'
  BY <1>3 DEF SlotsFit
<1>8. OrderIsTheLeague'
  <2>1. SUFFICES ASSUME ~raced'
                 PROVE  DOMAIN order' = 1 .. Cardinality(active') /\ Range(order') = active'
    BY DEF OrderIsTheLeague
  <2>2. x.fresh /\ ~raced
    BY <1>1, <1>2, <2>1 DEF FormationInv, Drafts
  <2>3. Current(x) /\ x.kind = "converge"
    BY <1>1, <2>2 DEF FormationInv, FreshIsCurrent, ConvergeWrites
  <2>4. CASE draft = "none"
    BY <1>2, <2>2, <2>3, <2>4 DEF Current, IsLeague
  <2>5. CASE draft # "none"
    <3>1. DOMAIN order = 1 .. Cardinality(active) /\ Cardinality(active) \in Nat
      BY <2>2, <2>5, FS_CardinalityType DEF FormationInv, OrderIsTheLeague, Members
    <3>2. Cardinality(DOMAIN order) = Cardinality(active)
      BY <3>1, CountUpTo
    <3> QED
      BY <2>3, <2>5, <3>2 DEF Current
  <2> QED
    BY <2>4, <2>5
<1> QED
  BY <1>4, <1>5, <1>6, <1>7, <1>8 DEF FormationInv

LEMMA CreateWritesKeepsInv ==
    ASSUME FormationInv, NEW s \in Server, CreateWrites(s)
    PROVE  FormationInv'
<1> DEFINE x == txn[s]
           list == x.list
<1>1. x \in CreateTxn
  BY KindOfTxn DEF CreateWrites, FormationInv, Transactions
<1>2. list \in Seq(Person) /\ Len(list) <= MaxTeams /\ x.fresh \in BOOLEAN /\ x # NoTxn
  BY <1>1 DEF CreateTxn, NoTxn
<1>3. /\ draftSlot' = Renumbered(list) /\ order' = InOrder(list)
      /\ draft' \in {"SCHEDULED", "opened"} /\ active' = active
      /\ Commit(s, TRUE) /\ raced' = ~x.fresh
  BY <1>2 DEF CreateWrites, Commit
<1>4. InOrder(list) = list
  BY <1>2, InOrderIsTheList
<1>5. Renumbered(list) \in SlotType
  BY <1>2, RenumberedFacts DEF FormationInv, Members
<1>6. Members'
  BY <1>3, <1>5 DEF FormationInv, Members, SlotType
<1>7. Drafts'
  <2>1. DOMAIN list = 1 .. Len(list) /\ Len(list) \in Nat /\ MaxTeams \in Nat
    BY <1>2, FormationAssumption
  <2>2. Range(list) \subseteq Person
    BY <1>2 DEF Range
  <2>3. IsOrder(order')
    BY <1>2, <1>3, <1>4, <2>1, <2>2 DEF IsOrder
  <2> QED
    BY <1>2, <1>3, <2>3 DEF Drafts, IsOrder, Phase
<1>8. Transactions' /\ FreshIsCurrent'
  <2>1. \A t \in Server \ {s} : txn[t].kind = "join" => Cardinality(active') < MaxTeams
    BY <1>3 DEF FormationInv, Transactions
  <2> QED
    BY <1>3, <2>1, CommitTxns DEF FormationInv
<1>9. SlotsFit'
  BY <1>3 DEF SlotsFit
<1>10. OrderIsTheLeague'
  <2>1. SUFFICES ASSUME ~raced'
                 PROVE  DOMAIN order' = 1 .. Cardinality(active') /\ Range(order') = active'
    BY DEF OrderIsTheLeague
  <2>2. x.fresh
    BY <1>2, <1>3, <2>1
  <2>3. list \in SetToSeqs(active)
    BY <1>2, <2>2 DEF FormationInv, FreshIsCurrent, Current, CreateWrites
  <2>4. Range(list) = active /\ Len(list) = Cardinality(active)
    BY <2>3, ListFacts DEF FormationInv, Members
  <2> QED
    BY <1>2, <1>3, <1>4, <2>4
<1> QED
  BY <1>6, <1>7, <1>8, <1>9, <1>10 DEF FormationInv

LEMMA StartKeepsInv ==
    ASSUME FormationInv, startDraft
    PROVE  FormationInv'
<1>1. /\ DOMAIN txn' = Server /\ \A t \in Server : txn'[t] = Overtaken(txn[t])
  BY DEF startDraft, Overtaken
<1>2. ASSUME NEW t \in Server
      PROVE  /\ TxnType(txn'[t]) /\ (txn'[t] # NoTxn => txn'[t].fresh = FALSE)
             /\ txn'[t].kind = txn[t].kind
             /\ txn'[t].kind \in {"join", "remove"} => txn'[t].draft = txn[t].draft
  <2>1. txn[t] = NoTxn => Overtaken(txn[t]) = NoTxn
    BY DEF Overtaken
  <2>2. TxnType(txn[t])
    BY DEF FormationInv, Transactions
  <2> QED
    BY <1>1, <2>1, <2>2, OvertakenFacts
<1>3. ASSUME NEW t \in Server
      PROVE  TxnType(txn[t])'
  BY <1>2 DEF TxnType, JoinTxn, RemoveTxn, ConvergeTxn, CreateTxn, IsOrder, NoTxn, Phase
<1>4. draft # "none" /\ draft' = "LIVE" /\ UNCHANGED <<active, draftSlot, order, raced>>
  BY DEF startDraft
<1>5. Transactions'
  BY <1>1, <1>2, <1>3, <1>4 DEF FormationInv, Transactions
<1>6. FreshIsCurrent'
  BY <1>2 DEF FreshIsCurrent
<1>7. Members' /\ Drafts' /\ SlotsFit' /\ OrderIsTheLeague'
  BY <1>4 DEF FormationInv, Members, Drafts, SlotsFit, OrderIsTheLeague, SlotType, IsOrder, Phase
<1> QED
  BY <1>5, <1>6, <1>7 DEF FormationInv

LEMMA StepKeepsInv ==
    ASSUME FormationInv, [FormationNext]_formationVars
    PROVE  FormationInv'
<1>1. CASE UNCHANGED formationVars
  BY <1>1 DEF formationVars, FormationInv, Members, Drafts, Transactions, FreshIsCurrent, SlotsFit,
              OrderIsTheLeague, Current, IsLeague, hasDraftStarted, SlotType, IsOrder, TxnType,
              JoinTxn, RemoveTxn, ConvergeTxn, CreateTxn, NoTxn, Phase
<1>2. CASE FormationNext
  BY <1>2, JoinReadsKeepsInv, JoinWritesKeepsInv, RemoveReadsKeepsInv, RemoveWritesKeepsInv,
     ConvergeReadsKeepsInv, ConvergeWritesKeepsInv, CreateReadsKeepsInv, CreateWritesKeepsInv,
     FailsKeepsInv, StartKeepsInv DEF FormationNext
<1> QED
  BY <1>1, <1>2

--------------------------------------------------------------------------------
\* The inductive invariant holds: what a transaction that nobody has overtaken read is
\* still so, and what it will write is the league (memberCommands.ts and
\* DraftSetupConvergenceService.ts, which read and write without a common lock).
THEOREM FormationInvariant == FormationSpec => []FormationInv
<1>1. FormationInit => FormationInv
  BY InitKeepsInv
<1>2. FormationInv /\ [FormationNext]_formationVars => FormationInv'
  BY StepKeepsInv
<1> QED
  BY <1>1, <1>2, PTL DEF FormationSpec

\* The state is typed, and the league never has more members than it may: joins wait
\* for each other on the league's row (memberCommands.ts:330), and nothing else adds.
THEOREM FormationTyped == FormationSpec => []FormationTypeOK
<1>1. FormationInv => FormationTypeOK
  <2>1. FormationInv => \A s \in Server : txn[s].kind \in {"none", "join", "remove", "converge", "create"}
    BY DEF FormationInv, Transactions, TxnType, NoTxn, JoinTxn, RemoveTxn, ConvergeTxn, CreateTxn
  <2> QED
    BY <2>1 DEF FormationInv, Members, Drafts, FormationTypeOK, IsOrder, Phase, SlotType
<1> QED
  BY <1>1, FormationInvariant, PTL

\* The order is the league, however many managers have joined, left and rejoined, unless
\* two commands have overlapped and none has mended it since (memberCommands.ts:129-145,
\* DraftSetupConvergenceService.ts:13).
THEOREM OrderCorrect == FormationSpec => []OrderIsTheLeague
<1>1. FormationInv => OrderIsTheLeague
  BY DEF FormationInv
<1> QED
  BY <1>1, FormationInvariant, PTL

\* Only a command that had read the league before its draft started writes the order
\* after (comments at DraftSetupConvergenceService.ts:87 and memberCommands.ts:69).
THEOREM OrderStays == FormationSpec => StartedOrderStays
<1> DEFINE Late == draft = "LIVE" /\ order' # order =>
                      \E s \in Server : txn[s] # NoTxn /\ ~txn[s].fresh /\ txn'[s] = NoTxn
<1>1. ASSUME FormationInv, FormationNext
      PROVE  Late
  <2>1. SUFFICES ASSUME draft = "LIVE", order' # order
                 PROVE  \E s \in Server : txn[s] # NoTxn /\ ~txn[s].fresh /\ txn'[s] = NoTxn
    OBVIOUS
  <2>2. PICK s \in Server : JoinWrites(s) \/ RemoveWrites(s) \/ ConvergeWrites(s)
    BY <1>1, <2>1 DEF FormationNext, JoinReads, RemoveReads, ConvergeReads, CreateReads, CreateWrites,
                      Begin, Fails, startDraft
  <2>3. txn[s].kind \in {"join", "remove", "converge"} /\ txn'[s] = NoTxn
    BY <2>2 DEF JoinWrites, RemoveWrites, ConvergeWrites, Commit
  <2>4. txn[s] # NoTxn
    BY <2>3 DEF NoTxn
  <2>5. ~txn[s].fresh
    BY <1>1, <2>1, <2>3, <2>4 DEF FormationInv, FreshIsCurrent, Current, hasDraftStarted
  <2> QED
    BY <2>3, <2>4, <2>5
<1>2. UNCHANGED formationVars => Late
  BY DEF formationVars
<1>3. FormationInv /\ [FormationNext]_formationVars => [Late]_formationVars
  BY <1>1, <1>2
<1> QED
  BY <1>3, FormationInvariant, PTL DEF FormationSpec, StartedOrderStays
================================================================================
