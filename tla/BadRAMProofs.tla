---------------------------- MODULE BadRAMProofs ----------------------------
(***************************************************************************)
(* Theorems about the BadRAM patterns, for words and tables of any size    *)
(* and any addresses.                                                      *)
(***************************************************************************)
EXTENDS BadRAM, FiniteSetTheorems, TLAPS

USE WidthAssumption, TableAssumption, FaultAssumption DEF None

-----------------------------------------------------------------------------
(* What a pattern stands for.                                              *)
LEMMA CombineType ==
  ASSUME NEW p \in Pattern, NEW q \in Pattern
  PROVE  combine(p, q) \in Pattern
BY DEF combine, CombineMask, Pattern

LEMMA SingleType ==
  ASSUME NEW adr \in Words
  PROVE  Single(adr) \in Pattern /\ adr \in Covers(Single(adr))
BY DEF Single, Pattern, Words, Covers, Bits, DEFAULT_MASK

(* A combined pattern covers what each of the two did.                     *)
LEMMA CombineCovers ==
  ASSUME NEW p \in Pattern, NEW q \in Pattern
  PROVE  /\ Covers(p) \subseteq Covers(combine(p, q))
         /\ Covers(q) \subseteq Covers(combine(p, q))
BY DEF Covers, combine, CombineMask, Pattern

LEMMA FaultsAreWords == ASSUME NEW adr \in Faults PROVE adr \in Words
OBVIOUS

-----------------------------------------------------------------------------
(* Types.                                                                  *)
LEMMA RelocatedType ==
  ASSUME TypeOK, NEW i \in 0 .. BADRAM_MAXPATNS - 1, idx # None
  PROVE  Relocated(i) \in [0 .. BADRAM_MAXPATNS - 1 -> Pattern]
<1>1. patn[idx] \in Pattern /\ patn[i] \in Pattern
  BY DEF TypeOK
<1>2. combine(patn[i], patn[idx]) \in Pattern
  BY <1>1, CombineType
<1> QED BY <1>1, <1>2 DEF Relocated, TypeOK

LEMMA TypeStep ==
  ASSUME TypeOK, [Next]_vars
  PROVE  TypeOK'
<1>1. CASE Restart
  <2>1. forced' \in BOOLEAN /\ slipped' \in BOOLEAN
    BY <1>1, Zenon DEF Restart
  <2>2. /\ patn' = patn /\ idx' = idx
        /\ numpatn' = 0 /\ found' = {}
    BY <1>1, Zenon DEF Restart
  <2> QED BY <2>1, <2>2 DEF TypeOK
<1>2. ASSUME NEW adr \in Faults, InsertKnown(adr)
      PROVE  TypeOK'
  BY <1>2 DEF InsertKnown, TypeOK
<1>3. ASSUME NEW adr \in Faults, Append(adr)
      PROVE  TypeOK'
  <2>1. Single(adr) \in Pattern
    BY SingleType
  <2> QED BY <1>3, <2>1 DEF Append, HasRoom, TypeOK
<1>4. ASSUME NEW adr \in Faults, Merge(adr)
      PROVE  TypeOK'
  <2>1. PICK i \in 0 .. numpatn - 1 :
               /\ patn' = [patn EXCEPT ![i] = combine(@, Single(adr))]
               /\ idx' = i
    BY <1>4 DEF Merge, Cheap
  <2>2. i \in 0 .. BADRAM_MAXPATNS - 1 /\ patn[i] \in Pattern
    BY DEF TypeOK
  <2>3. combine(patn[i], Single(adr)) \in Pattern
    BY <2>2, SingleType, CombineType
  <2> QED BY <1>4, <2>1, <2>2, <2>3 DEF Merge, TypeOK
<1>5. ASSUME NEW i \in 0 .. BADRAM_MAXPATNS - 1, Relocate(i)
      PROVE  TypeOK'
  <2>1. i \in 0 .. numpatn - 1
    BY <1>5 DEF Relocate, Partners, Cheap
  <2>2. Relocated(i) \in [0 .. BADRAM_MAXPATNS - 1 -> Pattern]
    BY <1>5, RelocatedType DEF Relocate
  <2> QED BY <1>5, <2>1, <2>2 DEF Relocate, TypeOK
<1>6. CASE RelocationDone
  BY <1>6 DEF RelocationDone, TypeOK
<1>7. CASE UNCHANGED vars
  BY <1>7 DEF vars, TypeOK
<1> QED
  BY <1>1, <1>2, <1>3, <1>4, <1>5, <1>6, <1>7
  DEF Next, insertaddress, relocateiffree

LEMMA TypeInit == Init => TypeOK
<1> SUFFICES ASSUME Init PROVE TypeOK
  OBVIOUS
<1>1. forced \in BOOLEAN /\ slipped \in BOOLEAN
  BY Zenon DEF Init
<1>2. /\ patn \in [0 .. BADRAM_MAXPATNS - 1 -> Pattern]
      /\ numpatn = 0 /\ idx = None /\ found = {}
  <2>1. [adr |-> {}, mask |-> {}] \in Pattern
    BY DEF Pattern
  <2> QED BY <2>1, Zenon DEF Init
<1> QED BY <1>1, <1>2 DEF TypeOK

(* The table, its count and the index of the recursion stay inside their   *)
(* bounds, in any sequence of insertions, relocations and restarts.        *)
THEOREM TypeCorrect == Spec => []TypeOK
BY TypeInit, TypeStep, PTL DEF Spec

-----------------------------------------------------------------------------
(* What the steps do to the addresses the table covers.                    *)
LEMMA AppendKeeps ==
  ASSUME TypeOK, NEW adr \in Faults, Append(adr)
  PROVE  Covered \cup {adr} \subseteq Covered'
<1>1. adr \in Covers(Single(adr))
  BY SingleType
<1>2. patn'[numpatn] = Single(adr) /\ numpatn \in 0 .. numpatn' - 1
  BY DEF Append, HasRoom, TypeOK
<1>3. \A i \in 0 .. numpatn - 1 : patn'[i] = patn[i] /\ i \in 0 .. numpatn' - 1
  BY DEF Append, HasRoom, TypeOK
<1> QED BY <1>1, <1>2, <1>3 DEF Covered

LEMMA MergeKeeps ==
  ASSUME TypeOK, NEW adr \in Faults, Merge(adr)
  PROVE  Covered \cup {adr} \subseteq Covered'
<1>1. PICK i \in 0 .. numpatn - 1 :
             patn' = [patn EXCEPT ![i] = combine(@, Single(adr))]
  BY DEF Merge, Cheap
<1>2. numpatn' = numpatn /\ numpatn \in 0 .. BADRAM_MAXPATNS
  BY DEF Merge, TypeOK
<1>3. patn[i] \in Pattern /\ patn'[i] = combine(patn[i], Single(adr))
  BY <1>1, <1>2 DEF TypeOK
<1>4. /\ Covers(patn[i]) \subseteq Covers(patn'[i])
      /\ adr \in Covers(patn'[i])
  BY <1>3, SingleType, CombineCovers
<1>5. \A k \in 0 .. numpatn - 1 : k # i => patn'[k] = patn[k]
  BY <1>1, <1>2 DEF TypeOK
<1>6. adr \in Covered'
  BY <1>2, <1>4 DEF Covered
<1>7. ASSUME NEW k \in 0 .. numpatn - 1
      PROVE  Covers(patn[k]) \subseteq Covered'
  BY <1>2, <1>4, <1>5 DEF Covered
<1> QED BY <1>6, <1>7 DEF Covered

(* The entry that joins another is replaced by the last one, unless it is  *)
(* the last one itself.                                                    *)
LEMMA RelocateKeeps ==
  ASSUME TypeOK, NEW i \in 0 .. BADRAM_MAXPATNS - 1, Relocate(i), Careful(i)
  PROVE  Covered \subseteq Covered'
<1> DEFINE last == numpatn - 1
           joined == [patn EXCEPT ![i] = combine(@, patn[idx])]
<1>1. /\ i \in 0 .. last /\ idx \in 0 .. last /\ i # idx
      /\ numpatn' = last /\ last \in 0 .. BADRAM_MAXPATNS - 1
  BY DEF Relocate, Partners, Cheap, Careful, TypeOK
<1>2. patn' = IF idx < last THEN [joined EXCEPT ![idx] = joined[last]]
              ELSE joined
  BY DEF Relocate, Relocated
<1>3. patn[i] \in Pattern /\ patn[idx] \in Pattern
  BY <1>1 DEF TypeOK
<1>4. /\ joined[i] = combine(patn[i], patn[idx])
      /\ \A k \in 0 .. last : k # i => joined[k] = patn[k]
      /\ DOMAIN joined = 0 .. BADRAM_MAXPATNS - 1
  BY <1>1 DEF TypeOK
<1>5. /\ Covers(patn[i]) \subseteq Covers(joined[i])
      /\ Covers(patn[idx]) \subseteq Covers(joined[i])
  BY <1>3, <1>4, CombineCovers
<1>6. \A k \in 0 .. last : k # idx =>
        \E n \in 0 .. last - 1 : patn'[n] = joined[k]
  <2> SUFFICES ASSUME NEW k \in 0 .. last, k # idx
               PROVE  \E n \in 0 .. last - 1 : patn'[n] = joined[k]
    OBVIOUS
  <2> HIDE DEF joined
  <2>1. CASE k < last
    <3>1. patn'[k] = joined[k]
      BY <1>1, <1>2, <1>4
    <3> QED BY <1>1, <2>1, <3>1
  <2>2. CASE k = last
    <3>1. idx \in 0 .. last - 1 /\ patn'[idx] = joined[last]
      BY <1>1, <1>2, <1>4, <2>2
    <3> QED BY <2>2, <3>1
  <2> QED BY <1>1, <2>1, <2>2
<1>7. ASSUME NEW k \in 0 .. last
      PROVE  Covers(patn[k]) \subseteq Covered'
  <2> HIDE DEF joined, last
  <2>1. PICK m \in 0 .. last : m # idx /\ Covers(patn[k]) \subseteq Covers(joined[m])
    <3>1. CASE k = idx
      BY <1>1, <1>5, <3>1
    <3>2. CASE k = i
      BY <1>1, <1>5, <3>2
    <3>3. CASE k # idx /\ k # i
      BY <1>4, <3>3
    <3> QED BY <3>1, <3>2, <3>3
  <2>2. PICK n \in 0 .. last - 1 : patn'[n] = joined[m]
    BY <1>6, <2>1
  <2>3. Covers(patn'[n]) \subseteq Covered'
    BY <1>1, <2>2 DEF Covered
  <2> QED BY <2>1, <2>2, <2>3
<1> QED BY <1>7 DEF Covered

LEMMA DoneKeeps ==
  ASSUME RelocationDone
  PROVE  Covered' = Covered
BY DEF RelocationDone, Covered

LEMMA KeptStep ==
  ASSUME TypeOK
  PROVE  /\ \A adr \in Faults : Append(adr) \/ Merge(adr) =>
                                  Covered \cup {adr} \subseteq Covered'
         /\ \A i \in 0 .. BADRAM_MAXPATNS - 1 : Relocate(i) /\ Careful(i) =>
                                  Covered \subseteq Covered'
BY AppendKeeps, MergeKeeps, RelocateKeeps

(* No insertion and no well-behaved relocation loses an address, for every *)
(* width of word and size of table.                                        *)
THEOREM NothingLost == Spec => Kept
<1>1. TypeOK =>
        [/\ \A adr \in Faults : Append(adr) \/ Merge(adr) =>
                                  Covered \cup {adr} \subseteq Covered'
         /\ \A i \in 0 .. BADRAM_MAXPATNS - 1 : Relocate(i) /\ Careful(i) =>
                                  Covered \subseteq Covered']_vars
  BY KeptStep
<1> QED BY <1>1, TypeCorrect, PTL DEF Spec, Kept

-----------------------------------------------------------------------------
(* Costs.  A power of two is the number of subsets of a set, so that a     *)
(* pattern with fewer bits in its mask leaves more addresses.              *)
LEMMA DefaultInBits == DEFAULT_MASK \subseteq Bits
BY DEF DEFAULT_MASK, Bits

LEMMA MaskSize ==
  ASSUME NEW mask \in SUBSET DEFAULT_MASK
  PROVE  /\ IsFiniteSet(Bits \ mask)
         /\ Cardinality(Bits \ mask) = Width - Cardinality(mask)
<1>1. IsFiniteSet(Bits) /\ Cardinality(Bits) = Width
  BY FS_Interval DEF Bits
<1>2. Bits \cap mask = mask
  BY DefaultInBits
<1> QED BY <1>1, <1>2, FS_Difference

LEMMA Power ==
  ASSUME NEW S, IsFiniteSet(S)
  PROVE  /\ 2 ^ Cardinality(S) \in Nat /\ IsFiniteSet(SUBSET S)
         /\ 2 ^ Cardinality(S) = Cardinality(SUBSET S)
BY FS_SUBSET, FS_CardinalityType

LEMMA PowerGrows ==
  ASSUME NEW S, IsFiniteSet(S), NEW T \in SUBSET S, T # S
  PROVE  2 ^ Cardinality(T) < 2 ^ Cardinality(S)
<1>1. IsFiniteSet(T)
  BY FS_Subset
<1>2. SUBSET T \subseteq SUBSET S /\ SUBSET T # SUBSET S
  OBVIOUS
<1>3. /\ Cardinality(SUBSET T) <= Cardinality(SUBSET S)
      /\ Cardinality(SUBSET S) # Cardinality(SUBSET T)
  BY <1>2, Power, FS_Subset
<1> QED BY <1>1, <1>3, Power

(* Open(mask): the addresses a mask leaves open, before the count wraps.   *)
Open(mask) == 2 ^ Cardinality(Bits \ mask)
All        == 2 ^ Width

LEMMA AddressesOpen ==
  ASSUME NEW mask \in SUBSET DEFAULT_MASK
  PROVE  /\ All \in Nat /\ Open(mask) \in Nat
         /\ addresses(mask) = Open(mask) % All
         /\ 1 < Open(mask)
         /\ mask # {} => Open(mask) < All
         /\ mask = {} => Open(mask) = All
<1>1. IsFiniteSet(Bits) /\ Cardinality(Bits) = Width
  BY FS_Interval DEF Bits
<1>2. Open(mask) \in Nat /\ All \in Nat
  BY <1>1, MaskSize, Power DEF Open, All
<1>3. addresses(mask) = Open(mask) % All
  BY MaskSize DEF addresses, Open, All
<1>4. 1 < Open(mask)
  <2>1. {} \in SUBSET (Bits \ mask) /\ {} # Bits \ mask
    <3>1. 0 \in Bits \ mask
      BY DEF Bits, DEFAULT_MASK
    <3> QED BY <3>1
  <2>2. 2 ^ Cardinality({}) < Open(mask)
    BY <2>1, MaskSize, PowerGrows DEF Open
  <2>3. 2 ^ Cardinality({}) = 1
    <3>1. SUBSET {} = {{}}
      OBVIOUS
    <3> QED BY <3>1, Power, FS_EmptySet, FS_Singleton
  <2> QED BY <2>2, <2>3
<1>5. ASSUME mask # {} PROVE Open(mask) < All
  <2>1. Bits \ mask \in SUBSET Bits /\ Bits \ mask # Bits
    BY <1>5, DefaultInBits
  <2> QED BY <1>1, <2>1, PowerGrows DEF Open, All
<1>6. ASSUME mask = {} PROVE Open(mask) = All
  BY <1>1, <1>6 DEF Open, All
<1> QED BY <1>2, <1>3, <1>4, <1>5, <1>6

LEMMA Remainder ==
  ASSUME NEW m \in Nat, NEW x \in Nat, x < m
  PROVE  x % m = x /\ m % m = 0
OBVIOUS

(* The count of addresses is 0 for the mask that leaves all of them.       *)
LEMMA AddressesValue ==
  ASSUME NEW mask \in SUBSET DEFAULT_MASK
  PROVE  /\ All \in Nat /\ All > 1
         /\ addresses(mask) \in 0 .. All - 1
         /\ mask = {} => addresses(mask) = 0
         /\ mask # {} => addresses(mask) = Open(mask) /\ addresses(mask) > 1
<1> DEFINE n == Open(mask)
           a == addresses(mask)
<1>1. /\ All \in Nat /\ n \in Nat /\ 1 < n /\ a = n % All
      /\ mask # {} => n < All
      /\ mask = {} => n = All
  BY AddressesOpen
<1> HIDE DEF n, a
<1>2. /\ mask = {} => a = 0
      /\ mask # {} => a = n
  BY <1>1, Remainder
<1>3. All > 1 /\ a \in 0 .. All - 1
  BY <1>1, <1>2
<1> QED BY <1>1, <1>2, <1>3 DEF n, a

LEMMA Wrap ==
  ASSUME NEW m \in Nat, NEW a \in 0 .. m - 1, NEW b \in 0 .. m - 1
  PROVE  (a - b) % m = IF a >= b THEN a - b ELSE a - b + m
<1>1. CASE a >= b
  BY <1>1
<1>2. CASE a < b
  BY <1>2
<1> QED BY <1>1, <1>2

(* Combining two patterns costs nothing exactly when the first keeps its   *)
(* mask, and never as much as ~0L.                                         *)
LEMMA Cost ==
  ASSUME NEW p \in Pattern, NEW q \in Pattern
  PROVE  /\ combicost(p, q) \in Nat
         /\ combicost(p, q) < AnyCost
         /\ combicost(p, q) < 1 <=> CombineMask(p, q) = p.mask
<1> DEFINE c == CombineMask(p, q)
           m == p.mask
           ac == addresses(c)
           am == addresses(m)
<1>1. c \in SUBSET DEFAULT_MASK /\ m \in SUBSET DEFAULT_MASK /\ c \subseteq m
  BY DEF CombineMask, Pattern
<1>2. combicost(p, q) = (ac - am) % All
  BY DEF combicost, combine, All
<1>3. AnyCost = All - 1
  BY DEF AnyCost, All
<1>4. c # m => m # {}
  BY <1>1
<1>5. c # m => Open(m) < Open(c)
  <2> SUFFICES ASSUME c # m PROVE Open(m) < Open(c)
    OBVIOUS
  <2>1. Bits \ m \in SUBSET (Bits \ c) /\ Bits \ m # Bits \ c
    BY <1>1 DEF Bits, DEFAULT_MASK
  <2> QED BY <1>1, <2>1, MaskSize, PowerGrows DEF Open
<1>6. /\ All \in Nat /\ All > 1 /\ ac \in 0 .. All - 1 /\ am \in 0 .. All - 1
      /\ c = {} => ac = 0
      /\ m = {} => am = 0
      /\ c # {} => ac = Open(c) /\ ac > 1
      /\ m # {} => am = Open(m) /\ am > 1
  BY <1>1, AddressesValue
<1> HIDE DEF c, m, ac, am
<1>7. (ac - am) % All = IF ac >= am THEN ac - am ELSE ac - am + All
  BY <1>6, Wrap
<1>8. CASE c = m
  BY <1>2, <1>3, <1>6, <1>7, <1>8 DEF ac, am, c, m
<1>9. CASE c # m
  <2>1. am > 1 /\ (c = {} => ac = 0) /\ (c # {} => am < ac)
    BY <1>4, <1>5, <1>6, <1>9
  <2>2. /\ combicost(p, q) \in Nat /\ combicost(p, q) < AnyCost
        /\ ~(combicost(p, q) < 1)
    BY <1>2, <1>3, <1>6, <1>7, <2>1
  <2> QED BY <1>9, <2>2 DEF c, m
<1> QED BY <1>8, <1>9

-----------------------------------------------------------------------------
(* What insertaddress() learns from the costs.                             *)
LEMMA KeepsMask ==
  ASSUME NEW p \in Pattern, NEW adr \in Words
  PROVE  CombineMask(p, Single(adr)) = p.mask <=> adr \in Covers(p)
BY DEF CombineMask, Single, Covers, Pattern

LEMMA KnownCovered ==
  ASSUME TypeOK, NEW adr \in Faults
  PROVE  Known(adr) <=> adr \in Covered
<1>1. ASSUME NEW i \in 0 .. numpatn - 1
      PROVE  combicost(patn[i], Single(adr)) < 1 <=> adr \in Covers(patn[i])
  <2>1. patn[i] \in Pattern
    BY DEF TypeOK
  <2> QED BY <2>1, FaultsAreWords, SingleType, Cost, KeepsMask
<1> QED BY <1>1 DEF Known, Cheap, Covered

(* insertaddress() passes over exactly the addresses that some pattern     *)
(* stands for: modular arithmetic on the counts does not confuse costs.    *)
THEOREM KnownExactly == Spec => []KnownIsCovered
<1>1. TypeOK => KnownIsCovered
  BY KnownCovered DEF KnownIsCovered
<1> QED BY <1>1, TypeCorrect, PTL

(* The table is never indexed with the -1 of an unsuccessful search when   *)
(* an address is merged into it.                                           *)
THEOREM PlaceFound == Spec => []MergeHasPlace
<1>1. TypeOK => MergeHasPlace
  <2> SUFFICES ASSUME TypeOK, numpatn > 0, NEW adr \in Faults
               PROVE  Cheap(patn, Single(adr), AnyCost) # {}
    BY DEF MergeHasPlace
  <2>1. 0 \in 0 .. numpatn - 1 /\ patn[0] \in Pattern
    BY DEF TypeOK
  <2>2. combicost(patn[0], Single(adr)) < AnyCost
    BY <2>1, FaultsAreWords, SingleType, Cost
  <2> QED BY <2>1, <2>2 DEF Cheap
<1> QED BY <1>1, TypeCorrect, PTL

(* The wrapping costs are never mistaken for what they are not.            *)
THEOREM CostsAlwaysTrue == Spec => []CostsTrue
<1>1. KnownIsCovered /\ MergeHasPlace => CostsTrue
  BY DEF CostsTrue
<1> QED BY <1>1, KnownExactly, PlaceFound, PTL

-----------------------------------------------------------------------------
LEMMA CapturedStep ==
  ASSUME TypeOK, CapturedUnlessSlipped, [Next]_vars
  PROVE  CapturedUnlessSlipped'
<1> SUFFICES ASSUME ~slipped' PROVE found' \subseteq Covered'
  BY DEF CapturedUnlessSlipped
<1>1. CASE Restart
  BY <1>1, Zenon DEF Restart
<1>2. ASSUME NEW adr \in Faults, InsertKnown(adr)
      PROVE  found' \subseteq Covered'
  <2>1. adr \in Covered
    BY <1>2, KnownCovered DEF InsertKnown
  <2>2. Covered' = Covered /\ found' = found \cup {adr} /\ slipped' = slipped
    BY <1>2, Zenon DEF InsertKnown, Covered
  <2> QED BY <2>1, <2>2 DEF CapturedUnlessSlipped
<1>3. ASSUME NEW adr \in Faults, Append(adr) \/ Merge(adr)
      PROVE  found' \subseteq Covered'
  <2>1. found' = found \cup {adr} /\ slipped' = slipped
    BY <1>3, Zenon DEF Append, Merge
  <2> QED BY <1>3, <2>1, AppendKeeps, MergeKeeps DEF CapturedUnlessSlipped
<1>4. ASSUME NEW i \in 0 .. BADRAM_MAXPATNS - 1, Relocate(i)
      PROVE  found' \subseteq Covered'
  <2>1. found' = found /\ slipped' = (slipped \/ ~Careful(i))
    BY <1>4, Zenon DEF Relocate
  <2>2. ~slipped /\ Careful(i)
    BY <2>1, Zenon
  <2> QED BY <1>4, <2>1, <2>2, RelocateKeeps DEF CapturedUnlessSlipped
<1>5. CASE RelocationDone
  <2>1. found' = found /\ slipped' = slipped
    BY <1>5, Zenon DEF RelocationDone
  <2> QED BY <1>5, <2>1, DoneKeeps DEF CapturedUnlessSlipped
<1>6. CASE UNCHANGED vars
  BY <1>6, Zenon DEF vars, CapturedUnlessSlipped, Covered
<1> QED
  BY <1>1, <1>2, <1>3, <1>4, <1>5, <1>6, Zenon
  DEF Next, insertaddress, relocateiffree

(* If every relocation is well-behaved, the patterns capture all errors:   *)
(* the stale index and the pattern that joins itself are the only ways to  *)
(* lose one.                                                               *)
THEOREM CapturesUnlessSlipped == Spec => []CapturedUnlessSlipped
<1>1. Init => CapturedUnlessSlipped
  BY Zenon DEF Init, CapturedUnlessSlipped
<1>2. TypeOK /\ CapturedUnlessSlipped /\ [Next]_vars => CapturedUnlessSlipped'
  BY CapturedStep
<1> QED BY <1>1, <1>2, TypeCorrect, PTL DEF Spec

-----------------------------------------------------------------------------
(* Nothing is captured in vain.  Until an address is merged into a full    *)
(* table, any two of its patterns differ in a bit of both masks, and so    *)
(* stand for different addresses.  To join two such patterns is free of    *)
(* charge only when they differ in that bit alone.  A stale index names a  *)
(* copy of a pattern of the table, or one the table has lost.              *)
Apart(p, q) == \E b \in p.mask \cap q.mask : ~(b \in p.adr <=> b \in q.adr)

Separate == \A i, j \in 0 .. numpatn - 1 : i # j => Apart(patn[i], patn[j])
Stale ==
  idx = numpatn => \/ \E j \in 0 .. numpatn - 1 : patn[j] = patn[idx]
                   \/ \A j \in 0 .. numpatn - 1 : Apart(patn[j], patn[idx])
Within == \A i \in 0 .. numpatn - 1 : Covers(patn[i]) \subseteq found
Exact ==
  ~forced =>
    /\ Separate /\ Within
    /\ idx # None => idx <= numpatn /\ Stale /\ Covers(patn[idx]) \subseteq found

LEMMA DisjointSizes ==
  ASSUME NEW S, IsFiniteSet(S), NEW T, IsFiniteSet(T), S \cap T = {}
  PROVE  Cardinality(S \cup T) = Cardinality(S) + Cardinality(T)
<1>1. /\ Cardinality(S \cup T) = Cardinality(S) + Cardinality(T) - Cardinality(S \cap T)
      /\ Cardinality(S) \in Nat /\ Cardinality(T) \in Nat
  BY FS_Union, FS_CardinalityType
<1>2. Cardinality(S \cap T) = 0
  BY FS_EmptySet
<1> QED BY <1>1, <1>2

(* A mask with one bit less leaves twice as many addresses.                *)
LEMMA Doubles ==
  ASSUME NEW S, IsFiniteSet(S), NEW b, b \notin S
  PROVE  2 ^ Cardinality(S \cup {b}) = 2 * 2 ^ Cardinality(S)
<1> DEFINE T == {A \cup {b} : A \in SUBSET S}
           f == [A \in SUBSET S |-> A \cup {b}]
<1>1. SUBSET (S \cup {b}) = (SUBSET S) \cup T
  <2>1. ASSUME NEW B \in SUBSET (S \cup {b}), b \in B PROVE B \in T
    <3>1. B \ {b} \in SUBSET S /\ B = (B \ {b}) \cup {b}
      BY <2>1
    <3> QED BY <3>1
  <2>2. ASSUME NEW B \in SUBSET (S \cup {b}), b \notin B PROVE B \in SUBSET S
    BY <2>2
  <2>3. ASSUME NEW A \in SUBSET S PROVE A \cup {b} \in SUBSET (S \cup {b})
    BY <2>3
  <2>4. T \subseteq SUBSET (S \cup {b})
    BY <2>3
  <2>5. SUBSET S \subseteq SUBSET (S \cup {b})
    OBVIOUS
  <2> HIDE DEF T
  <2> DEFINE U == SUBSET S
             V == SUBSET (S \cup {b})
  <2>6. /\ \A B \in V : B \in T \/ B \in U
        /\ T \subseteq V /\ U \subseteq V
    BY <2>1, <2>2, <2>4, <2>5
  <2> HIDE DEF U, V
  <2>7. V = U \cup T
    BY <2>6
  <2> QED BY <2>7 DEF U, V
<1>2. (SUBSET S) \cap T = {}
  <2>1. ASSUME NEW B \in SUBSET S, B \in T PROVE FALSE
    <3>1. PICK A \in SUBSET S : B = A \cup {b}
      BY <2>1
    <3>2. b \in B
      BY <3>1
    <3> QED BY <2>1, <3>2
  <2> DEFINE U == SUBSET S
  <2> HIDE DEF T, U
  <2>2. U \cap T = {}
    BY <2>1 DEF U
  <2> QED BY <2>2 DEF U
<1>3. f \in Bijection(SUBSET S, T)
  <2>1. \A A, B \in SUBSET S : A \cup {b} = B \cup {b} => A = B
    OBVIOUS
  <2>2. f \in [SUBSET S -> T] /\ \A t \in T : \E A \in SUBSET S : f[A] = t
    OBVIOUS
  <2>3. \A A, B \in SUBSET S : f[A] = f[B] => A = B
    BY <2>1
  <2> HIDE DEF f, T
  <2> QED BY <2>2, <2>3 DEF Bijection, Injection, Surjection, IsInjective
<1>4. IsFiniteSet(SUBSET S) /\ 2 ^ Cardinality(S) = Cardinality(SUBSET S)
  BY Power
<1>5. IsFiniteSet(T) /\ Cardinality(T) = Cardinality(SUBSET S)
  <2> HIDE DEF f, T
  <2> QED BY <1>3, <1>4, FS_Bijection DEF ExistsBijection
<1>6. Cardinality((SUBSET S) \cup T) = 2 * Cardinality(SUBSET S)
  <2> DEFINE U == SUBSET S
  <2> HIDE DEF T, U
  <2>1. IsFiniteSet(U) /\ IsFiniteSet(T) /\ U \cap T = {}
    BY <1>2, <1>4, <1>5 DEF U
  <2>2. Cardinality(U) \in Nat /\ Cardinality(T) = Cardinality(U)
    BY <1>4, <1>5, FS_CardinalityType DEF U
  <2>3. Cardinality(U \cup T) = Cardinality(U) + Cardinality(T)
    BY <2>1, <2>2, DisjointSizes
  <2>4. Cardinality(U \cup T) = 2 * Cardinality(U)
    BY <2>2, <2>3
  <2> QED BY <2>4 DEF U
<1>7. 2 ^ Cardinality(S \cup {b}) = Cardinality(SUBSET (S \cup {b}))
  <2>1. IsFiniteSet(S \cup {b})
    BY FS_AddElement
  <2> QED BY <2>1, Power
<1> HIDE DEF T
<1> QED BY <1>1, <1>4, <1>6, <1>7

LEMMA OpenDoubles ==
  ASSUME NEW mask \in SUBSET DEFAULT_MASK, NEW b \in mask
  PROVE  Open(mask \ {b}) = 2 * Open(mask)
<1>1. Bits \ (mask \ {b}) = (Bits \ mask) \cup {b} /\ b \notin Bits \ mask
  BY DefaultInBits
<1> QED BY <1>1, MaskSize, Doubles DEF Open

(* Patterns that are apart are joined free of charge only when they differ *)
(* in one bit and their masks are the same.                                *)
LEMMA FreeJoin ==
  ASSUME NEW p \in Pattern, NEW q \in Pattern, Apart(p, q),
         combicost(p, q) < 1 + addresses(q.mask)
  PROVE  \E b \in p.mask \cap q.mask :
           /\ ~(b \in p.adr <=> b \in q.adr)
           /\ CombineMask(p, q) = p.mask \ {b} /\ CombineMask(p, q) = q.mask \ {b}
<1> DEFINE c == CombineMask(p, q)
           ac == addresses(c)
           ap == addresses(p.mask)
           aq == addresses(q.mask)
<1>1. PICK b \in p.mask \cap q.mask : ~(b \in p.adr <=> b \in q.adr)
  BY DEF Apart
<1>2. /\ p.mask \in SUBSET DEFAULT_MASK /\ q.mask \in SUBSET DEFAULT_MASK
      /\ c \in SUBSET DEFAULT_MASK /\ p.mask \ {b} \in SUBSET DEFAULT_MASK
      /\ q.mask \ {b} \in SUBSET DEFAULT_MASK
      /\ c \subseteq p.mask \ {b} /\ c \subseteq q.mask \ {b}
  BY <1>1 DEF CombineMask, Pattern
<1>3. combicost(p, q) = (ac - ap) % All
  BY DEF combicost, combine, All
<1>4. /\ All \in Nat /\ ac \in 0 .. All - 1 /\ ap \in 0 .. All - 1 /\ aq \in 0 .. All - 1
      /\ ap = Open(p.mask) /\ aq = Open(q.mask) /\ ap > 1 /\ aq > 1
      /\ c = {} => ac = 0
      /\ c # {} => ac = Open(c)
  BY <1>1, <1>2, AddressesValue
<1>5. c = {} => Open(c) = All
  BY <1>2, AddressesOpen
<1>6. \A m \in SUBSET DEFAULT_MASK : c \subseteq m =>
        /\ Open(m) \in Nat /\ Open(m) <= Open(c)
        /\ Open(m) = Open(c) => m = c
  <2> SUFFICES ASSUME NEW m \in SUBSET DEFAULT_MASK, c \subseteq m
               PROVE  /\ Open(m) \in Nat /\ Open(m) <= Open(c)
                      /\ Open(m) = Open(c) => m = c
    OBVIOUS
  <2>1. Open(m) \in Nat /\ Open(c) \in Nat
    BY <1>2, AddressesOpen
  <2>2. CASE m = c
    BY <2>1, <2>2
  <2>3. CASE m # c
    <3>1. Bits \ m \in SUBSET (Bits \ c) /\ Bits \ m # Bits \ c
      <4> HIDE DEF c
      <4> QED BY <1>2, <2>3, DefaultInBits
    <3>2. Open(m) < Open(c)
      BY <1>2, <3>1, MaskSize, PowerGrows DEF Open
    <3> QED BY <2>1, <3>2
  <2> QED BY <2>2, <2>3
<1>7. Open(p.mask \ {b}) = 2 * ap /\ Open(q.mask \ {b}) = 2 * aq
  BY <1>1, <1>2, <1>4, OpenDoubles
<1>8. /\ 2 * ap \in Nat /\ 2 * ap <= Open(c) /\ (2 * ap = Open(c) => p.mask \ {b} = c)
      /\ 2 * aq <= Open(c) /\ (2 * aq = Open(c) => q.mask \ {b} = c)
  BY <1>2, <1>6, <1>7
<1>9. Open(c) \in Nat
  BY <1>2, <1>6
<1> DEFINE oc == Open(c)
<1> HIDE DEF ac, ap, aq, oc, c
<1>10. (ac - ap) % All = oc - ap
  <2>1. (ac - ap) % All = IF ac >= ap THEN ac - ap ELSE ac - ap + All
    BY <1>4, Wrap
  <2>2. CASE c = {}
    BY <1>4, <1>5, <2>1, <2>2 DEF oc
  <2>3. CASE c # {}
    BY <1>4, <1>8, <2>1, <2>3 DEF oc
  <2> QED BY <2>2, <2>3
<1>11. oc - ap < 1 + aq
  BY <1>3, <1>10 DEF aq
<1>12. 2 * ap = oc /\ 2 * aq = oc
  BY <1>4, <1>8, <1>9, <1>11 DEF oc
<1> QED BY <1>1, <1>8, <1>12 DEF oc, c

(* What is joined then stands for no more than the two did, and is apart   *)
(* from whatever both were apart from.                                     *)
LEMMA JoinExact ==
  ASSUME NEW p \in Pattern, NEW q \in Pattern, Apart(p, q),
         combicost(p, q) < 1 + addresses(q.mask)
  PROVE  /\ Covers(combine(p, q)) \subseteq Covers(p) \cup Covers(q)
         /\ \A r \in Pattern : Apart(r, p) /\ Apart(r, q) => Apart(r, combine(p, q))
<1>1. PICK b \in p.mask \cap q.mask :
        /\ ~(b \in p.adr <=> b \in q.adr)
        /\ CombineMask(p, q) = p.mask \ {b} /\ CombineMask(p, q) = q.mask \ {b}
  BY FreeJoin
<1> DEFINE c == combine(p, q)
<1>2. /\ c.mask = p.mask \ {b} /\ c.mask = q.mask \ {b}
      /\ \A n \in c.mask : (n \in c.adr <=> n \in p.adr) /\ (n \in c.adr <=> n \in q.adr)
  BY <1>1 DEF combine, CombineMask
<1> HIDE DEF c
<1>3. Covers(c) \subseteq Covers(p) \cup Covers(q)
  <2> SUFFICES ASSUME NEW w \in Covers(c) PROVE w \in Covers(p) \/ w \in Covers(q)
    OBVIOUS
  <2>1. w \in Words /\ \A n \in c.mask : n \in w <=> n \in c.adr
    BY DEF Covers
  <2>2. CASE b \in w <=> b \in p.adr
    BY <1>2, <2>1, <2>2 DEF Covers
  <2>3. CASE ~(b \in w <=> b \in p.adr)
    BY <1>1, <1>2, <2>1, <2>3 DEF Covers
  <2> QED BY <2>2, <2>3
<1>4. ASSUME NEW r \in Pattern, Apart(r, p), Apart(r, q) PROVE Apart(r, c)
  <2>1. PICK n \in r.mask \cap p.mask : ~(n \in r.adr <=> n \in p.adr)
    BY <1>4 DEF Apart
  <2>2. PICK m \in r.mask \cap q.mask : ~(m \in r.adr <=> m \in q.adr)
    BY <1>4 DEF Apart
  <2>3. CASE n # b
    <3>1. n \in c.mask /\ ~(n \in r.adr <=> n \in c.adr)
      BY <1>2, <2>1, <2>3
    <3> QED BY <2>1, <3>1 DEF Apart
  <2>4. CASE m # b
    <3>1. m \in c.mask /\ ~(m \in r.adr <=> m \in c.adr)
      BY <1>2, <2>2, <2>4
    <3> QED BY <2>2, <3>1 DEF Apart
  <2> QED BY <1>1, <2>1, <2>2, <2>3, <2>4
<1> QED BY <1>3, <1>4 DEF c

(* A pattern that joins itself or its copy stays what it is.               *)
LEMMA JoinItself ==
  ASSUME NEW p \in Pattern
  PROVE  /\ Covers(combine(p, p)) = Covers(p)
         /\ \A r \in Pattern : Apart(r, p) => Apart(r, combine(p, p))
         /\ CombineMask(p, p) = p.mask
BY DEF combine, CombineMask, Covers, Apart, Pattern

LEMMA ApartBoth ==
  ASSUME NEW p, NEW q, Apart(p, q)
  PROVE  Apart(q, p)
BY DEF Apart
(* What entry i of the search costs, unless it is the disguised one.       *)
LEMMA PartnerCost ==
  ASSUME TypeOK, idx # None, NEW i \in Partners, i # idx
  PROVE  /\ Disguised[i] = patn[i]
         /\ combicost(patn[i], patn[idx]) < 1 + addresses(patn[idx].mask)
<1>1. i \in 0 .. BADRAM_MAXPATNS - 1 /\ i \in 0 .. numpatn - 1
  BY DEF Partners, Cheap, TypeOK
<1>2. Disguised[i] = patn[i]
  BY <1>1 DEF Disguised, TypeOK
<1> QED BY <1>2 DEF Partners, Cheap

(* A copy behind the table joins the pattern it is a copy of.              *)
LEMMA CopyJoinsItself ==
  ASSUME TypeOK, Separate, idx # None, idx = numpatn,
         NEW i \in Partners, IsCheapest(i, Disguised, patn[idx], Partners),
         NEW j \in 0 .. numpatn - 1, patn[j] = patn[idx]
  PROVE  i = j
<1> DEFINE q == patn[idx]
<1>1. /\ i \in 0 .. numpatn - 1 /\ i # idx /\ j # idx
      /\ j \in 0 .. BADRAM_MAXPATNS - 1 /\ i \in 0 .. BADRAM_MAXPATNS - 1
  BY DEF Partners, Cheap, TypeOK
<1>2. q \in Pattern /\ patn[i] \in Pattern
  BY <1>1 DEF TypeOK
<1>3. Disguised[j] = q /\ Disguised[i] = patn[i]
  BY <1>1 DEF Disguised, TypeOK
<1>4. combicost(q, q) \in Nat /\ combicost(q, q) < 1
  BY <1>2, Cost, JoinItself
<1>5. combicost(patn[i], q) \in Nat
  BY <1>2, Cost
<1>6. addresses(q.mask) \in Nat
  <2>1. q.mask \in SUBSET DEFAULT_MASK
    BY <1>2 DEF Pattern
  <2> QED BY <2>1, AddressesValue
<1>7. j \in Partners
  BY <1>3, <1>4, <1>6 DEF Partners, Cheap
<1>8. \/ combicost(patn[i], q) < combicost(q, q)
      \/ combicost(patn[i], q) = combicost(q, q)
  BY <1>3, <1>7 DEF IsCheapest
<1>9. CombineMask(patn[i], q) = patn[i].mask
  BY <1>2, <1>4, <1>5, <1>8, Cost
<1>10. ~Apart(patn[i], q)
  BY <1>9 DEF Apart, CombineMask
<1> QED BY <1>1, <1>10 DEF Separate

(* What a relocation joins is made of addresses found, and apart from the  *)
(* other patterns.                                                         *)
LEMMA JoinedExact ==
  ASSUME TypeOK, Exact, ~forced, NEW i \in 0 .. BADRAM_MAXPATNS - 1, Relocate(i)
  PROVE  /\ Covers(combine(patn[i], patn[idx])) \subseteq found
         /\ \A k \in (0 .. numpatn - 1) \ {i, idx} :
              Apart(patn[k], combine(patn[i], patn[idx]))
<1> DEFINE p == patn[i]
           q == patn[idx]
           others == (0 .. numpatn - 1) \ {i, idx}
<1>1. /\ idx # None /\ i \in Partners /\ i \in 0 .. numpatn - 1
      /\ IsCheapest(i, Disguised, q, Partners)
      /\ idx \in 0 .. BADRAM_MAXPATNS - 1
      /\ numpatn \in 0 .. BADRAM_MAXPATNS
  BY DEF Relocate, Partners, Cheap, TypeOK
<1>2. /\ p \in Pattern /\ q \in Pattern
      /\ \A k \in others : patn[k] \in Pattern
  BY <1>1 DEF TypeOK
<1>3. /\ Separate /\ idx <= numpatn /\ Stale
      /\ Covers(p) \subseteq found /\ Covers(q) \subseteq found
  BY <1>1 DEF Exact, Within
<1>4. i # idx => combicost(p, q) < 1 + addresses(q.mask)
  BY <1>1, PartnerCost
<1>5. \A k \in others : Apart(patn[k], p)
  BY <1>1, <1>3 DEF Separate
<1> HIDE DEF others
<1>6. CASE p = q
  <2> HIDE DEF p, q
  <2> QED BY <1>2, <1>3, <1>5, <1>6, JoinItself DEF p, q, others
<1>7. CASE i # idx /\ Apart(p, q) /\ \A k \in others : Apart(patn[k], q)
  <2> HIDE DEF p, q
  <2>1. /\ Covers(combine(p, q)) \subseteq Covers(p) \cup Covers(q)
        /\ \A r \in Pattern : Apart(r, p) /\ Apart(r, q) => Apart(r, combine(p, q))
    BY <1>2, <1>4, <1>7, JoinExact
  <2>2. \A k \in others : Apart(patn[k], combine(p, q))
    BY <1>2, <1>5, <1>7, <2>1
  <2> QED BY <1>3, <2>1, <2>2 DEF p, q, others
<1>8. CASE idx < numpatn /\ i # idx
  <2>1. Apart(p, q) /\ \A k \in others : Apart(patn[k], q)
    BY <1>1, <1>3, <1>8 DEF Separate, others
  <2> QED BY <1>7, <1>8, <2>1
<1>9. CASE idx = numpatn
  <2>1. i # idx
    BY <1>1, <1>9
  <2>2. CASE \E j \in 0 .. numpatn - 1 : patn[j] = q
    <3>1. PICK j \in 0 .. numpatn - 1 : patn[j] = q
      BY <2>2
    <3>2. i = j
      BY <1>1, <1>3, <1>9, <3>1, CopyJoinsItself
    <3> QED BY <1>6, <3>1, <3>2
  <2>3. CASE \A j \in 0 .. numpatn - 1 : Apart(patn[j], q)
    BY <1>1, <1>7, <2>1, <2>3 DEF others
  <2> QED BY <1>3, <1>9, <2>2, <2>3 DEF Stale
<1> QED BY <1>1, <1>3, <1>6, <1>8, <1>9 DEF TypeOK

(* The patterns stay apart, and made of what was found, as the last one    *)
(* moves to the place of the one that joined another.                      *)
LEMMA RelocateExact ==
  ASSUME TypeOK, Exact, NEW i \in 0 .. BADRAM_MAXPATNS - 1, Relocate(i)
  PROVE  Exact'
<1> SUFFICES ASSUME ~forced'
             PROVE  /\ Separate' /\ Within'
                    /\ idx' <= numpatn' /\ Stale' /\ Covers(patn'[idx']) \subseteq found'
  BY DEF Exact, Covers
<1> DEFINE last == numpatn - 1
           c == combine(patn[i], patn[idx])
           joined == [patn EXCEPT ![i] = c]
           kept == (0 .. last) \ {idx}
<1>1. /\ forced' = forced /\ found' = found
  BY Zenon DEF Relocate
<1>2. /\ i \in 0 .. last /\ idx \in 0 .. last + 1
      /\ idx \in 0 .. BADRAM_MAXPATNS - 1
      /\ numpatn' = last /\ last \in 0 .. BADRAM_MAXPATNS - 1 /\ idx' = i
  <2>1. ~forced
    BY <1>1, Zenon
  <2>2. idx # None /\ idx <= numpatn
    BY <2>1 DEF Exact, Relocate
  <2> QED BY <2>2 DEF Relocate, Partners, Cheap, TypeOK
<1>3. patn' = IF idx < last THEN [joined EXCEPT ![idx] = joined[last]]
              ELSE joined
  BY DEF Relocate, Relocated
<1>4. /\ DOMAIN joined = 0 .. BADRAM_MAXPATNS - 1
      /\ joined[i] = c
      /\ \A k \in 0 .. BADRAM_MAXPATNS - 1 : k # i => joined[k] = patn[k]
  BY <1>2 DEF TypeOK
<1>5. /\ Covers(c) \subseteq found
      /\ \A k \in kept : k # i => Apart(patn[k], c) /\ Apart(c, patn[k])
      /\ \A k \in kept : Covers(patn[k]) \subseteq found
      /\ \A k, n \in kept : k # n => Apart(patn[k], patn[n])
  <2>1. ~forced
    BY <1>1, Zenon
  <2>2. Separate /\ Within
    BY <2>1, Zenon DEF Exact
  <2> QED BY <2>1, <2>2, JoinedExact, ApartBoth DEF Separate, Within
<1> HIDE DEF c, joined
<1>6. /\ \A k \in kept : Covers(joined[k]) \subseteq found
      /\ \A k, n \in kept : k # n => Apart(joined[k], joined[n])
  BY <1>2, <1>4, <1>5
<1> DEFINE from(k) == IF k = idx THEN last ELSE k
<1>7. \A k \in 0 .. last - 1 : patn'[k] = joined[from(k)] /\ from(k) \in kept
  BY <1>2, <1>3, <1>4
<1>8. \A k, n \in 0 .. last - 1 : k # n => from(k) # from(n)
  BY <1>2
<1> HIDE DEF from, kept
<1>9. Separate'
  <2>1. \A k, n \in 0 .. last - 1 : k # n => Apart(patn'[k], patn'[n])
    BY <1>6, <1>7, <1>8
  <2> QED BY <1>2, <2>1 DEF Separate, Apart
<1>10. Within'
  <2>1. \A k \in 0 .. last - 1 : Covers(patn'[k]) \subseteq found
    BY <1>6, <1>7
  <2> QED BY <1>1, <1>2, <2>1 DEF Within, Covers
<1>11. Stale'
  <2> SUFFICES ASSUME i = last
               PROVE  \/ \E j \in 0 .. last - 1 : patn'[j] = patn'[i]
                      \/ \A j \in 0 .. last - 1 : Apart(patn'[j], patn'[i])
    BY <1>2 DEF Stale, Apart
  <2>1. patn'[i] = c
    BY <1>2, <1>3, <1>4
  <2>2. CASE idx < last
    <3>1. patn'[idx] = c
      BY <1>2, <1>3, <1>4, <2>2
    <3> QED BY <1>2, <2>1, <2>2, <3>1
  <2>3. CASE idx >= last
    <3>1. \A j \in 0 .. last - 1 : j \in kept /\ patn'[j] = patn[j] /\ j # i
      BY <1>2, <1>3, <1>4, <2>3 DEF kept
    <3> QED BY <1>5, <2>1, <3>1
  <2> QED BY <1>2, <2>2, <2>3
<1>12. Covers(patn'[i]) \subseteq found
  <2>1. \/ patn'[i] = c
        \/ last \in kept /\ patn'[i] = patn[last]
    <3>1. CASE idx < last /\ i = idx
      <4>1. patn'[i] = joined[last] /\ last # i
        BY <1>2, <1>3, <1>4, <3>1
      <4> QED BY <1>2, <1>4, <3>1, <4>1 DEF kept
    <3>2. CASE ~(idx < last /\ i = idx)
      BY <1>2, <1>3, <1>4, <3>2
    <3> QED BY <3>1, <3>2
  <2> QED BY <1>5, <2>1
<1> QED BY <1>1, <1>2, <1>9, <1>10, <1>11, <1>12

LEMMA AppendExact ==
  ASSUME TypeOK, Exact, NEW adr \in Faults, Append(adr)
  PROVE  Exact'
<1> SUFFICES ASSUME ~forced'
             PROVE  /\ Separate' /\ Within'
                    /\ idx' <= numpatn' /\ Stale' /\ Covers(patn'[idx']) \subseteq found'
  BY DEF Exact, Covers
<1> DEFINE s == Single(adr)
<1>1. ~forced /\ adr \notin Covered /\ found' = found \cup {adr}
  BY KnownCovered, Zenon DEF Append
<1>2. Separate /\ Within
  BY <1>1, Zenon DEF Exact
<1>3. /\ numpatn' = numpatn + 1 /\ idx' = numpatn
      /\ numpatn \in 0 .. BADRAM_MAXPATNS - 1
      /\ patn' = [patn EXCEPT ![numpatn] = s]
  BY DEF Append, HasRoom, TypeOK
<1>4. patn'[numpatn] = s /\ \A k \in 0 .. numpatn - 1 : patn'[k] = patn[k]
  BY <1>3 DEF TypeOK
<1>5. Covers(s) \subseteq {adr}
  <2> SUFFICES ASSUME NEW w \in Covers(s) PROVE w = adr
    OBVIOUS
  <2>1. w \in SUBSET DEFAULT_MASK /\ \A b \in DEFAULT_MASK : b \in w <=> b \in adr
    BY DEF Covers, Words, Single
  <2>2. adr \in SUBSET DEFAULT_MASK
    BY FaultsAreWords DEF Words
  <2> QED BY <2>1, <2>2
<1>6. \A k \in 0 .. numpatn - 1 : Apart(patn[k], s) /\ Apart(s, patn[k])
  <2> SUFFICES ASSUME NEW k \in 0 .. numpatn - 1 PROVE Apart(patn[k], s)
    BY ApartBoth
  <2>1. patn[k] \in Pattern /\ adr \notin Covers(patn[k])
    BY <1>1, <1>3 DEF TypeOK, Covered
  <2>2. PICK b \in patn[k].mask : ~(b \in adr <=> b \in patn[k].adr)
    BY <2>1, FaultsAreWords DEF Covers
  <2>3. b \in DEFAULT_MASK
    BY <2>1 DEF Pattern
  <2> QED BY <2>2, <2>3 DEF Apart, Single
<1> HIDE DEF s
<1>7. Separate'
  <2>1. \A k, n \in 0 .. numpatn : k # n => Apart(patn'[k], patn'[n])
    BY <1>2, <1>3, <1>4, <1>6 DEF Separate
  <2> QED BY <1>3, <2>1 DEF Separate, Apart
<1>8. Within'
  <2>1. \A k \in 0 .. numpatn : Covers(patn'[k]) \subseteq found \cup {adr}
    BY <1>2, <1>3, <1>4, <1>5 DEF Within
  <2> QED BY <1>1, <1>3, <2>1 DEF Within, Covers
<1>9. Stale'
  BY <1>3 DEF Stale
<1>10. Covers(patn'[idx']) \subseteq found'
  BY <1>1, <1>3, <1>4, <1>5
<1> QED BY <1>3, <1>7, <1>8, <1>9, <1>10

LEMMA ExactStep ==
  ASSUME TypeOK, Exact, [Next]_vars
  PROVE  Exact'
<1>1. CASE Restart
  <2>1. numpatn' = 0 /\ idx' = None
    BY <1>1, Zenon DEF Restart
  <2> QED BY <2>1 DEF Exact, Separate, Within
<1>2. ASSUME NEW adr \in Faults, InsertKnown(adr)
      PROVE  Exact'
  <2>1. /\ patn' = patn /\ numpatn' = numpatn /\ idx' = idx /\ idx = None
        /\ found \subseteq found' /\ forced' = forced
    BY <1>2, Zenon DEF InsertKnown
  <2> QED BY <2>1 DEF Exact, Separate, Within, Covers, Apart
<1>3. ASSUME NEW adr \in Faults, Merge(adr)
      PROVE  Exact'
  <2>1. forced'
    BY <1>3, Zenon DEF Merge
  <2> QED BY <2>1, Zenon DEF Exact
<1>4. CASE RelocationDone
  <2>1. /\ patn' = patn /\ numpatn' = numpatn /\ idx' = None
        /\ found' = found /\ forced' = forced
    BY <1>4, Zenon DEF RelocationDone
  <2> QED BY <2>1 DEF Exact, Separate, Within, Covers, Apart
<1>5. CASE UNCHANGED vars
  BY <1>5, Zenon DEF vars, Exact, Separate, Within, Stale, Covers, Apart
<1> QED
  BY <1>1, <1>2, <1>3, <1>4, <1>5, AppendExact, RelocateExact, Zenon
  DEF Next, insertaddress, relocateiffree

(* Until an address is merged into a full table, the patterns stand for    *)
(* addresses that errors were reported for and for no others: relocations, *)
(* the ill-behaved ones included, join only what doubles exactly.          *)
THEOREM NothingSpurious == Spec => []NoSpurious
<1>1. Init => Exact
  <2> SUFFICES ASSUME Init PROVE Exact
    OBVIOUS
  <2>1. numpatn = 0 /\ idx = None
    BY Zenon DEF Init
  <2> QED BY <2>1 DEF Exact, Separate, Within
<1>2. TypeOK /\ Exact /\ [Next]_vars => Exact'
  BY ExactStep
<1>3. Exact => NoSpurious
  BY DEF Exact, Within, NoSpurious, Covered
<1> QED BY <1>1, <1>2, <1>3, TypeCorrect, PTL DEF Spec
=============================================================================
