------------------------------- MODULE BadRAM -------------------------------
(***************************************************************************)
(* The BadRAM patterns of patn.c: a table of at most BADRAM_MAXPATNS pairs *)
(* (address, mask), grown one faulty address at a time.  A pattern stands  *)
(* for every address that equals it in the bits of its mask.               *)
(*                                                                         *)
(* A word is the set of the numbers of its one bits, so that the masks and *)
(* the bitwise operators of the code are sets and their operators.         *)
(*                                                                         *)
(* insertaddress() and each level of the recursion of relocateiffree() are *)
(* an action; idx is the argument of the level that is next, None between  *)
(* two insertions.  Nothing runs in between: the steps are apart so that   *)
(* what each does to the table can be told.                                *)
(***************************************************************************)
EXTENDS Integers, FiniteSetsExt

CONSTANTS
  Width,           \* bits in a word (32)
  BADRAM_MAXPATNS, \* entries of the table (10)
  Faults           \* the addresses errors are reported for

Bits         == 0 .. Width - 1
DEFAULT_MASK == 2 .. Width - 1   \* a longword is the testing granularity
Words        == SUBSET DEFAULT_MASK

ASSUME WidthAssumption == Width \in Nat /\ Width > 2
ASSUME TableAssumption == BADRAM_MAXPATNS \in Nat \ {0}
ASSUME FaultAssumption == Faults \subseteq Words

Pattern == [adr : SUBSET Bits, mask : SUBSET DEFAULT_MASK]
Single(adr) == [adr |-> adr, mask |-> DEFAULT_MASK]

VARIABLES
  patn,     \* v->patn
  numpatn,  \* v->numpatn
  idx,      \* the entry relocateiffree() is called for, or None
  found,    \* history: the addresses inserted since the last init()
  forced,   \* history: an address was merged because the table was full
  slipped   \* history: a relocation was not well-behaved (see Careful)

vars == <<patn, numpatn, idx, found, forced, slipped>>

None == -1

-----------------------------------------------------------------------------

(* COMBINE_MASK: the bits of both masks in which the addresses agree.      *)
CombineMask(p, q) ==
  {b \in p.mask \cap q.mask : b \in p.adr <=> b \in q.adr}

(* The least pattern of this form that holds both.                         *)
combine(p, q) == [adr  |-> (p.adr \cup q.adr) \cap CombineMask(p, q),
                  mask |-> CombineMask(p, q)]

addresses_with_31_bits(mask) ==
  2 ^ (Width - 1 - Cardinality(mask \ {Width - 1})) % 2 ^ Width

(* The number of addresses a mask leaves open, an unsigned long: 0 for the *)
(* empty mask, which leaves all of them.                                   *)
addresses(mask) == 2 ^ (Width - Cardinality(mask)) % 2 ^ Width

combicost_with_other_size(p, q) ==
  (addresses(combine(p, q).mask) - addresses(q.mask)) % 2 ^ Width

(* How many more addresses p covers once it is combined with q.            *)
combicost(p, q) ==
  (addresses(combine(p, q).mask) - addresses(p.mask)) % 2 ^ Width

(* The entries cheapindex() may choose: those that cost less than mincost. *)
Cheap(table, pat, mincost) ==
  {i \in 0 .. numpatn - 1 : combicost(table[i], pat) < mincost}

(* Its choice among them: the search runs down the table and takes a later *)
(* entry only when it is cheaper.                                          *)
IsCheapest(i, table, pat, cheap) ==
  \A k \in cheap : LET cost(e) == combicost(table[e], pat)
                   IN  cost(i) < cost(k) \/ (cost(i) = cost(k) /\ k <= i)

-----------------------------------------------------------------------------
(* init(), first at the start and again after a restart, empties the table *)
(* by its count only.                                                      *)
Init ==
  /\ patn = [i \in 0 .. BADRAM_MAXPATNS - 1 |-> [adr |-> {}, mask |-> {}]]
  /\ numpatn = 0
  /\ idx = None /\ found = {} /\ forced = FALSE /\ slipped = FALSE

Restart ==
  /\ idx = None
  /\ numpatn' = 0 /\ found' = {} /\ forced' = FALSE /\ slipped' = FALSE
  /\ UNCHANGED <<patn, idx>>

(* The first test of insertaddress(): some pattern costs nothing to extend.*)
Known(adr) == Cheap(patn, Single(adr), 1) # {}

HasRoom == numpatn < BADRAM_MAXPATNS

(* insertaddress() that returns 0.                                         *)
InsertKnown(adr) ==
  /\ idx = None /\ Known(adr)
  /\ found' = found \cup {adr}
  /\ UNCHANGED <<patn, numpatn, idx, forced, slipped>>

(* There is room: a pattern of its own.                                    *)
Append(adr) ==
  /\ idx = None /\ ~Known(adr)
  /\ HasRoom
  /\ patn' = [patn EXCEPT ![numpatn] = Single(adr)]
  /\ numpatn' = numpatn + 1
  /\ idx' = numpatn
  /\ found' = found \cup {adr}
  /\ UNCHANGED <<forced, slipped>>

(* ~0L, the limit that is to admit every cost.                             *)
AnyCost == 2 ^ Width - 1

(* There is none: the cheapest pattern is extended.                        *)
Merge(adr) ==
  /\ idx = None /\ ~Known(adr)
  /\ ~HasRoom
  /\ LET cheap == Cheap(patn, Single(adr), AnyCost)
     IN  \E i \in cheap : /\ IsCheapest(i, patn, Single(adr), cheap)
                          /\ patn' = [patn EXCEPT ![i] = combine(@, Single(adr))]
                          /\ idx' = i
  /\ found' = found \cup {adr}
  /\ forced' = TRUE
  /\ UNCHANGED <<numpatn, slipped>>

(* relocateidx(): entry idx has its address inverted during the search, so *)
(* that it looks unlike itself.                                            *)
Disguised == [patn EXCEPT ![idx].adr = Bits \ @]

Partners == Cheap(Disguised, patn[idx], 1 + addresses(patn[idx].mask))

Relocated_with_no_move(i) == [patn EXCEPT ![i] = combine(@, patn[idx])]

(* The table after entry idx has joined entry i: the last one moves to the *)
(* free place, even when it is the one just combined.                      *)
Relocated(i) ==
  LET joined == [patn EXCEPT ![i] = combine(@, patn[idx])]
  IN  IF idx < numpatn - 1
      THEN [joined EXCEPT ![idx] = joined[numpatn - 1]]
      ELSE joined

(* The well-behaved relocations: the entry is one of the table, and joins  *)
(* another one.                                                            *)
Careful(i) == idx < numpatn /\ i # idx

Relocate(i) ==
  /\ idx # None
  /\ i \in Partners /\ IsCheapest(i, Disguised, patn[idx], Partners)
  /\ patn' = Relocated(i)
  /\ numpatn' = numpatn - 1
  /\ idx' = i
  /\ slipped' = (slipped \/ ~Careful(i))
  /\ UNCHANGED <<found, forced>>

RelocationDone ==
  /\ idx # None /\ Partners = {}
  /\ idx' = None
  /\ UNCHANGED <<patn, numpatn, found, forced, slipped>>

insertaddress(adr) == InsertKnown(adr) \/ Append(adr) \/ Merge(adr)
relocateiffree == (\E i \in 0 .. BADRAM_MAXPATNS - 1 : Relocate(i)) \/ RelocationDone

Next == (\E adr \in Faults : insertaddress(adr)) \/ relocateiffree \/ Restart

Spec == Init /\ [][Next]_vars

-----------------------------------------------------------------------------
(* The word-aligned addresses a pattern, and the table, stands for.        *)
Covers(p) == {w \in Words : \A b \in p.mask : b \in w <=> b \in p.adr}
Covered   == UNION {Covers(patn[i]) : i \in 0 .. numpatn - 1}

(* The table is inside its bounds, and so is the entry being relocated,    *)
(* though it may lie behind the last one in use.                           *)
TypeOK ==
  /\ patn \in [0 .. BADRAM_MAXPATNS - 1 -> Pattern]
  /\ numpatn \in 0 .. BADRAM_MAXPATNS
  /\ idx \in {None} \cup (0 .. BADRAM_MAXPATNS - 1)
  /\ found \subseteq Faults
  /\ forced \in BOOLEAN /\ slipped \in BOOLEAN

(* Nothing is lost: insertaddress() adds its address to what the table     *)
(* covers, and a well-behaved relocation drops no pattern that is not      *)
(* contained in another, whatever the last entry's move overwrites.        *)
Kept ==
  [][/\ \A adr \in Faults : Append(adr) \/ Merge(adr) =>
                              Covered \cup {adr} \subseteq Covered'
     /\ \A i \in 0 .. BADRAM_MAXPATNS - 1 : Relocate(i) /\ Careful(i) =>
                              Covered \subseteq Covered']_vars

(* As long as all relocations are well-behaved, the patterns capture every *)
(* error: a stale index and a pattern that joins itself are the only ways  *)
(* to lose one.                                                            *)
CapturedUnlessSlipped == ~slipped => found \subseteq Covered

(* insertaddress() returns 0, and nothing is printed, exactly for an       *)
(* address that the table covers already: the wrapping arithmetic of the   *)
(* costs never mistakes one for another.                                   *)
KnownIsCovered ==
  idx = None => \A adr \in Faults : Known(adr) <=> adr \in Covered

(* As long as no address had to be merged into a full table, the patterns  *)
(* stand for faulty addresses only ("only if free of charge").             *)
NoSpurious == ~forced => Covered \subseteq found

(* Whatever the table holds, insertaddress() finds a pattern to merge an   *)
(* address into: it never uses the -1 that cheapindex() returns when all   *)
(* of them cost too much.                                                  *)
MergeHasPlace ==
  idx = None /\ numpatn > 0 =>
    \A adr \in Faults : Cheap(patn, Single(adr), AnyCost) # {}

(* The wrapping costs are never mistaken for what they are not.            *)
CostsTrue == KnownIsCovered /\ MergeHasPlace

(* "These patterns state that faults have occurred [...] but at least all  *)
(* the errors are captured" (README).                                      *)
AllCaptured == found \subseteq Covered
=============================================================================
