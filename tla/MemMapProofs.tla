---------------------------- MODULE MemMapProofs ----------------------------
(***************************************************************************)
(* Proofs about the memory map, for every table, board, hole and memory:   *)
(* its types, and that it is in ascending order, first as it is built and  *)
(* then as sort_pmap() leaves it; and that of a table of the BIOS it has   *)
(* the usable pages, no more and no less, and of a search those that       *)
(* answer.                                                                 *)
(*                                                                         *)
(* A search of memory may find more pieces than v->pmap has elements,      *)
(* which the code does not check; what it has written beyond the last one  *)
(* is no map of memory.  All is proved as long as the pieces fit, and of a *)
(* table they always do.                                                   *)
(***************************************************************************)
EXTENDS MemMap, SequenceTheorems, FiniteSetTheorems, WellFoundedInduction, TLAPS

USE UnitsAssumption, SizeAssumption

Fits == msegs <= E820MAX

-----------------------------------------------------------------------------
(* Arithmetic of pages and of the probe.                                   *)
LEMMA DivMonotone ==
  ASSUME NEW n \in Nat \ {0}, NEW a \in Nat, NEW b \in Nat, a <= b
  PROVE  a \div n \in Nat /\ b \div n \in Nat /\ a \div n <= b \div n
BY SMTT(30)

LEMMA DownMonotone ==
  ASSUME NEW a \in Nat, NEW b \in Nat, a <= b
  PROVE  Down(a) \in Nat /\ Down(b) \in Nat /\ Down(a) <= Down(b)
BY DivMonotone DEF Down

LEMMA UpMonotone ==
  ASSUME NEW a \in Nat, NEW b \in Nat, a <= b
  PROVE  /\ Up(a) \in Nat /\ Up(b) \in Nat /\ Up(a) <= Up(b)
         /\ Down(a) \in Nat /\ Down(a) <= Up(b)
<1>1. a + PageUnits - 1 \in Nat /\ b + PageUnits - 1 \in Nat /\ a <= b + PageUnits - 1
  OBVIOUS
<1> QED BY <1>1, DivMonotone DEF Up, Down

LEMMA PageOfProduct ==
  ASSUME NEW n \in Nat PROVE n * PageUnits \in Nat /\ Down(n * PageUnits) = n
BY SMTT(30) DEF Down

LEMMA DownPositive ==
  ASSUME NEW a \in Nat, PageUnits <= a PROVE Down(a) # 0
<1>1. Down(1 * PageUnits) = 1
  BY PageOfProduct
<1>2. Down(PageUnits) <= Down(a) /\ Down(a) \in Nat
  BY DownMonotone
<1> QED BY <1>1, <1>2

LEMMA ModOnce ==
  ASSUME NEW d \in Nat \ {0}, NEW n \in Nat, n < 2 * d
  PROVE  n % d = IF n < d THEN n ELSE n - d
BY SMTT(30)

LEMMA HoleFacts == RES_START \in Nat /\ RES_END \in Nat /\ RES_START < RES_END
BY HoleAssumption

LEMMA ProbeFacts ==
  /\ EndOfProgram \in Nat /\ ProbeLimit \in Nat /\ ProbeStep \in Nat \ {0}
  /\ GapSteps \in Nat \ {0} /\ AddressLimit \in Nat \ {0}
  /\ PageUnits <= EndOfProgram /\ EndOfProgram <= ProbeLimit /\ ProbeLimit < AddressLimit
  /\ ProbeLimit + 2 * ProbeStep < AddressLimit + EndOfProgram
  /\ RES_END + 2 * ProbeStep <= AddressLimit
  /\ Up(EndOfProgram) \in Nat /\ Up(EndOfProgram) * PageUnits \in 0 .. AddressLimit - 1
<1>1. Up(EndOfProgram) \in Nat
  BY ProbeAssumption, UpMonotone
<1>2. Up(EndOfProgram) * PageUnits < AddressLimit
  BY ProbeAssumption DEF Up
<1>3. Up(EndOfProgram) * PageUnits \in Nat
  BY <1>1, PageOfProduct
<1> QED BY <1>1, <1>2, <1>3, ProbeAssumption

LEMMA StepIs ==
  ASSUME NEW a \in 0 .. AddressLimit - 1
  PROVE  /\ Step(a) \in 0 .. AddressLimit - 1
         /\ Step(a) = IF a + ProbeStep < AddressLimit THEN a + ProbeStep
                      ELSE a + ProbeStep - AddressLimit
<1>1. AddressLimit \in Nat \ {0} /\ a + ProbeStep \in Nat /\ a + ProbeStep < 2 * AddressLimit
  BY ProbeFacts
<1>2. Step(a) = IF a + ProbeStep < AddressLimit THEN a + ProbeStep
                ELSE a + ProbeStep - AddressLimit
  <2> DEFINE n == a + ProbeStep
  <2>1. n \in Nat /\ n < 2 * AddressLimit
    BY <1>1
  <2> HIDE DEF n
  <2>2. n % AddressLimit = IF n < AddressLimit THEN n ELSE n - AddressLimit
    BY <1>1, <2>1, ModOnce
  <2>3. Step(a) = n % AddressLimit
    BY DEF n, Step
  <2> QED BY <1>1, <2>1, <2>2, <2>3, ProbeFacts DEF n
<1> DEFINE s == Step(a)
<1>3. s = IF a + ProbeStep < AddressLimit THEN a + ProbeStep ELSE a + ProbeStep - AddressLimit
  BY <1>2
<1> HIDE DEF s
<1>4. s \in 0 .. AddressLimit - 1
  BY <1>1, <1>3, ProbeFacts
<1> QED BY <1>2, <1>4 DEF s

(* A search that has come past its end stays there for one more step.      *)
LEMMA SearchEnds ==
  ASSUME NEW a \in 0 .. AddressLimit - 1, EndOfProgram <= a,
         a <= ProbeLimit \/ a = RES_END
  PROVE  /\ Searching(Step(a)) => Step(a) = a + ProbeStep
         /\ ~ Searching(Step(a)) => ~ Searching(Step(Step(a)))
         /\ a = ProbeLimit => ~ Searching(Step(a))
<1> DEFINE s == Step(a)
           t == Step(s)
<1>1. /\ s \in 0 .. AddressLimit - 1
      /\ s = IF a + ProbeStep < AddressLimit THEN a + ProbeStep
             ELSE a + ProbeStep - AddressLimit
  BY StepIs
<1>2. /\ t \in 0 .. AddressLimit - 1
      /\ t = IF s + ProbeStep < AddressLimit THEN s + ProbeStep
             ELSE s + ProbeStep - AddressLimit
  BY <1>1, StepIs
<1> HIDE DEF s, t
<1> DEFINE Stays == /\ Searching(s) => s = a + ProbeStep
                    /\ ~ Searching(s) => ~ Searching(t)
                    /\ a = ProbeLimit => ~ Searching(s)
<1>4. ASSUME a + ProbeStep < AddressLimit PROVE Stays
  <2>1. s = a + ProbeStep
    BY <1>1, <1>4
  <2>2. CASE s + ProbeStep < AddressLimit
    BY <1>1, <1>2, <2>1, <2>2, ProbeFacts DEF Searching
  <2>3. CASE s + ProbeStep >= AddressLimit
    <3>1. t < EndOfProgram
      BY <1>1, <1>2, <2>1, <2>3, ProbeFacts, HoleFacts
    <3>2. a = ProbeLimit => s > ProbeLimit
      BY <2>1, ProbeFacts
    <3> QED BY <1>1, <1>2, <2>1, <3>1, <3>2, ProbeFacts DEF Searching
  <2>4. s + ProbeStep < AddressLimit \/ s + ProbeStep >= AddressLimit
    BY <1>1, ProbeFacts
  <2> QED BY <2>2, <2>3, <2>4
<1>5. ASSUME a + ProbeStep >= AddressLimit PROVE Stays
  <2>1. a <= ProbeLimit /\ s + ProbeStep < EndOfProgram
    BY <1>1, <1>5, ProbeFacts, HoleFacts
  <2> QED BY <1>1, <1>2, <2>1, ProbeFacts DEF Searching
<1>3. s = Step(a) /\ t = Step(Step(a))
  BY DEF s, t
<1> QED BY <1>1, <1>4, <1>5, <1>3, ProbeFacts

(* The bounds that lie in the hole are moved to its ends, in order.        *)
From(e) == ClipHole(e.addr, e.addr + e.size).from
To(e) == ClipHole(e.addr, e.addr + e.size).to

LEMMA ClipMonotone ==
  ASSUME NEW d, NEW e, d.addr \in Nat, d.size \in Nat, e.addr \in Nat, e.size \in Nat,
         d.addr + d.size <= e.addr
  PROVE  /\ From(d) \in Nat /\ To(d) \in Nat /\ From(e) \in Nat /\ To(e) \in Nat
         /\ From(d) <= From(e) /\ To(d) <= From(e) /\ To(d) <= To(e)
BY HoleFacts DEF From, To, ClipHole, InHole

(* A set of numbers has a least one.                                       *)
LEMMA Least ==
  ASSUME NEW S \in SUBSET Nat, S # {}
  PROVE  \E k \in S : \A n \in S : k <= n
<1>1. PICK k \in S : \A n \in S : ~ (<<n, k>> \in OpToRel(<, Nat))
  BY WFMin, NatLessThanWellFounded
<1>2. \A n \in S : ~ (n < k)
  BY <1>1 DEF OpToRel
<1> QED BY <1>2

LEMMA MinOfTwo ==
  ASSUME NEW a \in Nat, NEW b \in Nat
  PROVE  Min({a, b}) \in {a, b} /\ Min({a, b}) <= a /\ Min({a, b}) <= b
<1>1. \E x \in {a, b} : \A y \in {a, b} : x <= y
  OBVIOUS
<1> QED BY <1>1 DEF Min

LEMMA MaxOfTypes ==
  ASSUME NEW S \in SUBSET (0 .. NVS), 0 \in S
  PROVE  Max(S) \in 0 .. NVS
<1>1. \E x \in S : \A y \in S : x >= y
  BY DEF NVS
<1> QED BY <1>1 DEF Max

-----------------------------------------------------------------------------
(* The inductive invariant, first its types: which firmware a stage is     *)
(* for, the table, the sweep, the map, and how far its builders have come. *)
FirmwareKnown ==
  /\ firmware \in {"unknown", "pcbios", "linuxbios"}
  /\ pc \in {"search", "pcbios", "size", "sweep", "build", "probe", "gap", "sort", "done"}
  /\ mode = "probe" =>
       firmware = "unknown" /\ pc \in {"size", "probe", "gap", "sort", "done"}
  /\ mode # "probe" /\ firmware = "unknown" => pc \in {"search", "pcbios"}
  /\ firmware = "pcbios" => pc \in {"size", "sweep", "build", "sort", "done"}
  /\ firmware = "linuxbios" => pc \in {"size", "sort", "done"}

TableTypes ==
  /\ e820 \in Seq(Entry) /\ Len(e820) <= E820MAX
  /\ pc = "search" => board \in Boards

Entries820 == [addr : Nat, size : Nat \ {0}, type : {RAM, RESERVED, ACPI, NVS}]
SweepTypes ==
  /\ overlap \subseteq DOMAIN e820 /\ points \subseteq (DOMAIN e820) \X {"from", "to"}
  /\ last_type \in 0 .. NVS /\ last_addr \in Nat
  /\ new_bios \in Seq(Entries820) /\ Len(new_bios) <= E820MAX
  /\ pc \in {"search", "pcbios", "size"} =>
       overlap = {} /\ points = {} /\ last_type = 0 /\ last_addr = 0 /\ new_bios = <<>>
  /\ points # {} => Len(new_bios) < E820MAX

MapTypes ==
  /\ Fits => pmap \in [-1 .. E820MAX -> [start : Nat, end : Nat]] /\ plim_upper \in Nat
  /\ gap \in 0 .. GapSteps /\ (pc = "gap" => gap # 0)
  /\ p \in 0 .. AddressLimit - 1

Counts ==
  /\ msegs \in Nat /\ i \in Nat
  /\ mode # "probe" => Fits
  /\ pc \in {"search", "pcbios", "sweep"} => msegs = 0 /\ i = 0
  /\ pc = "size" => IF firmware = "linuxbios" THEN msegs <= i /\ i <= Len(e820)
                    ELSE msegs = 0 /\ i = 0
  /\ pc = "build" => msegs <= i /\ i <= Len(new_bios)
  /\ pc \in {"sort", "done"} => i <= msegs
  /\ pc \in {"probe", "gap"} => i = 0

TypesInv == FirmwareKnown /\ TableTypes /\ SweepTypes /\ MapTypes /\ Counts

(* Then the order.  The sweep has closed no entry beyond the change points *)
(* to come, nor beyond the entry it has open.                              *)
EndAt(k) == new_bios[k].addr + new_bios[k].size
SweepOrder ==
  /\ \A k, l \in DOMAIN new_bios : k < l => EndAt(k) <= new_bios[l].addr
  /\ last_type # 0 => \A k \in DOMAIN new_bios : EndAt(k) <= last_addr
  /\ \A c \in points :
       last_addr <= AddressOf(c) /\ \A k \in DOMAIN new_bios : EndAt(k) <= AddressOf(c)

(* The elements of the map are in order, with their ends, and those of the *)
(* entries still to come go behind them.                                   *)
Pair(a, b) == a.start <= b.start /\ a.end <= b.start /\ a.end <= b.end
Pairs == \A k, l \in 0 .. msegs - 1 : k < l => Pair(pmap[k], pmap[l])
Built(e) == [start |-> Up(From(e)), end |-> Down(To(e))]
BuildOrder ==
  pc = "build" =>
    /\ Pairs
    /\ \A k \in 0 .. msegs - 1, n \in i + 1 .. Len(new_bios) : Pair(pmap[k], Built(new_bios[n]))

(* So is the element a search has begun; one that has not is behind all    *)
(* that have ended, unless it is over.                                     *)
Before0(p0) == IF Reserved(p0) THEN RES_START ELSE p0
ProbeOrder ==
  pc \in {"probe", "gap"} /\ Fits =>
    /\ Pairs
    /\ \A k \in 0 .. msegs - 1 : pmap[k].end <= Down(ProbeLimit)
    /\ Searching(p) => \A k \in 0 .. msegs - 1 :
                         pmap[k].start <= Down(p) /\ pmap[k].end <= Down(p)
    /\ pc = "gap" => pmap[msegs].start = 0 /\ (~ Searching(p) => ~ Searching(Step(p)))
    /\ pc = "probe" =>
         /\ pmap[msegs].start = 0 => ~ Searching(p)
         /\ pmap[msegs].start # 0 => \A k \in 0 .. msegs - 1 :
              pmap[k].start <= pmap[msegs].start /\ pmap[k].end <= pmap[msegs].start
         /\ Searching(p) =>
              /\ pmap[msegs].start <= Down(p)
              /\ \A k \in 0 .. msegs - 1 : pmap[k].end <= Down(Before0(p))

(* What is left of it once elements have been put over others.             *)
Apart(a, b) == a = b \/ a.end <= b.start \/ b.end <= b.start
SortOrder ==
  pc \in {"sort", "done"} /\ firmware # "linuxbios" /\ Fits =>
    /\ i = 0 => Pairs
    /\ \A k, l \in 0 .. msegs - 1 :
         k < l => pmap[k].start <= pmap[l].start /\ Apart(pmap[k], pmap[l])
    /\ \A k \in 0 .. msegs - 1 : pmap[k].end <= LastEnd
    /\ pc = "done" => plim_upper = LastEnd

OrderInv == SweepOrder /\ BuildOrder /\ ProbeOrder /\ SortOrder
IInv == TypesInv /\ OrderInv

-----------------------------------------------------------------------------
(* Types.                                                                  *)
THEOREM InvInit == Init => IInv
<1> SUFFICES ASSUME Init PROVE IInv
  OBVIOUS
<1>1. FirmwareKnown /\ TableTypes /\ Counts
  BY DEF Init, FirmwareKnown, TableTypes, Counts, Fits
<1>2. SweepTypes
  BY DEF Init, SweepTypes, NVS
<1>3. MapTypes
  BY ProbeFacts DEF Init, MapTypes
<1>4. OrderInv
  BY DEF Init, OrderInv, SweepOrder, BuildOrder, ProbeOrder, SortOrder
<1> QED BY <1>1, <1>2, <1>3, <1>4 DEF IInv, TypesInv

LEMMA FirmwareKnownNext ==
  ASSUME TypesInv, [Next]_vars PROVE FirmwareKnown'
<1> USE DEF TypesInv, FirmwareKnown
<1>1. CASE UNCHANGED vars
  BY <1>1 DEF vars, given
<1>2. CASE SearchOn \/ query_linuxbios \/ query_pcbios
  BY <1>2 DEF SearchOn, query_linuxbios, query_pcbios, ToSize, Counts, SweepTypes
<1>3. CASE StartBios \/ EndSweep
  BY <1>3 DEF StartBios, EndSweep, memsize_801, given
<1>4. CASE \E c \in points : Sweep(c)
  BY <1>4 DEF Sweep, given
<1>5. CASE BuildEntry \/ EndBuild \/ BuildLinuxbios \/ EndLinuxbios
  BY <1>5 DEF BuildEntry, EndBuild, BuildLinuxbios, EndLinuxbios, given
<1>6. CASE StartProbe \/ Probe \/ ProbeGap \/ EndProbe
  BY <1>6 DEF StartProbe, Probe, EndsAt, ProbeGap, EndProbe, given
<1>7. CASE SortElement \/ Finish
  BY <1>7 DEF SortElement, Finish, given
<1> QED BY <1>1, <1>2, <1>3, <1>4, <1>5, <1>6, <1>7 DEF Next

(* The ranges of a memory record of a board are entries of a table.        *)
LEMMA CopiedType ==
  ASSUME NEW head \in Header,
         \A k \in DOMAIN head.recs :
           LET rec == head.recs[k]
           IN  /\ rec.tag = "memory" =>
                    RecordSize <= rec.size /\ Entries(rec) <= Len(rec.ranges)
               /\ \A n \in DOMAIN rec.ranges :
                    rec.ranges[n].addr < AddressLimit /\ rec.ranges[n].size < AddressLimit,
         MemoryRecords(head) # {}
  PROVE  /\ Copied(MemoryRecord(head)) \in Seq(Entry)
         /\ Len(Copied(MemoryRecord(head))) <= E820MAX
<1>1. MemoryRecords(head) \in SUBSET Nat
  BY DEF MemoryRecords, Visited, Header
<1>2. PICK k \in MemoryRecords(head) : MemoryRecord(head) = head.recs[k]
  BY <1>1, Least DEF MemoryRecord
<1> DEFINE rec == head.recs[k]
<1>3. k \in DOMAIN head.recs /\ rec.tag = "memory"
  BY DEF MemoryRecords, Visited
<1>4. rec \in Record
  BY <1>3 DEF Header
<1>5. rec.size \in Nat /\ rec.ranges \in Seq(MemoryRange)
  BY <1>4 DEF Record
<1>6. RecordSize <= rec.size /\ Entries(rec) <= Len(rec.ranges)
  BY <1>3
<1>7. \A n \in DOMAIN rec.ranges :
        rec.ranges[n].addr < AddressLimit /\ rec.ranges[n].size < AddressLimit
  BY <1>3
<1> HIDE DEF rec
<1>8. Entries(rec) \in Nat
  BY <1>5, <1>6, DivMonotone DEF Entries, RecordSize, RangeSize
<1> DEFINE m == Min({Entries(rec), E820MAX})
<1>9. m \in Nat /\ m <= Entries(rec) /\ m <= E820MAX
  BY <1>8, MinOfTwo
<1>10. m <= Len(rec.ranges) /\ Len(rec.ranges) \in Nat
  BY <1>5, <1>6, <1>8, <1>9
<1> HIDE DEF m
<1>11. ASSUME NEW n \in 1 .. m
       PROVE  /\ rec.ranges[n].addr \in 0 .. AddressLimit - 1
              /\ rec.ranges[n].size \in 0 .. AddressLimit - 1
  <2>1. n \in DOMAIN rec.ranges /\ rec.ranges[n] \in MemoryRange
    BY <1>5, <1>9, <1>10
  <2>2. rec.ranges[n].addr \in Nat /\ rec.ranges[n].size \in Nat
    BY <2>1 DEF MemoryRange
  <2> QED BY <1>7, <2>1, <2>2
<1>12. \A n \in 1 .. m :
         [addr |-> rec.ranges[n].addr, size |-> rec.ranges[n].size,
          type |-> IF rec.ranges[n].ram THEN RAM ELSE RESERVED] \in Entry
  BY <1>11 DEF Entry
<1>13. Copied(rec) = [n \in 1 .. m |->
         [addr |-> rec.ranges[n].addr, size |-> rec.ranges[n].size,
          type |-> IF rec.ranges[n].ram THEN RAM ELSE RESERVED]]
  BY DEF Copied, m
<1>14. Copied(rec) \in [1 .. m -> Entry]
  BY <1>12, <1>13
<1>15. Copied(rec) \in Seq(Entry) /\ Len(Copied(rec)) = m
  BY <1>9, <1>14
<1> QED BY <1>2, <1>9, <1>15 DEF rec

LEMMA TableTypesNext ==
  ASSUME TypesInv, [Next]_vars PROVE TableTypes'
<1> USE DEF TypesInv, TableTypes
<1>1. CASE UNCHANGED vars
  BY <1>1 DEF vars, given
<1>2. CASE SearchOn
  BY <1>2 DEF SearchOn
<1>3. CASE query_linuxbios
  <2> DEFINE first == board[place]
             head == Forwarded(first)
  <2>1. pc = "search" /\ board \in Boards /\ place \in DOMAIN board
    BY <1>3 DEF query_linuxbios
  <2>2. CASE UNCHANGED e820
    BY <1>3, <2>2 DEF query_linuxbios, ToSize
  <2>3. CASE e820' = Copied(MemoryRecord(head)) /\ MemoryRecords(head) # {}
             /\ ~ (Forwards(first) /\ first.recs[1].forward = 0)
    <3>1. first \in Header
      BY <2>1, BoardAssumption
    <3>2. Forwards(first) => 1 \in DOMAIN first.recs
      BY <3>1 DEF Forwards, Header
    <3>3. PICK a \in DOMAIN board : head = board[a]
      <4>1. CASE Forwards(first)
        <5>1. first.recs[1].tag = "forward"
          BY <4>1 DEF Forwards
        <5>2. first.recs[1].forward \in DOMAIN board \cup {0}
          BY <2>1, <3>2, <4>1, <5>1, BoardAssumption
        <5> QED BY <2>3, <4>1, <5>2 DEF Forwarded
      <4>2. CASE ~ Forwards(first)
        BY <2>1, <4>2 DEF Forwarded
      <4> QED BY <4>1, <4>2
    <3>4. e820' \in Seq(Entry) /\ Len(e820') <= E820MAX
      <4>1. board[a] \in Header
        BY <2>1, BoardAssumption
      <4>2. \A k \in DOMAIN board[a].recs :
              LET rec == board[a].recs[k]
              IN  /\ rec.tag = "memory" =>
                       RecordSize <= rec.size /\ Entries(rec) <= Len(rec.ranges)
                  /\ \A n \in DOMAIN rec.ranges :
                       rec.ranges[n].addr < AddressLimit /\ rec.ranges[n].size < AddressLimit
        BY <2>1, BoardAssumption
      <4> QED BY <2>3, <3>3, <4>1, <4>2, CopiedType
    <3> QED BY <1>3, <2>3, <3>4 DEF query_linuxbios, ToSize
  <2> QED BY <1>3, <2>2, <2>3 DEF query_linuxbios
<1>4. CASE query_pcbios
  BY <1>4, TableAssumption DEF query_pcbios, ToSize
<1>5. CASE StartBios \/ EndSweep \/ EndBuild \/ EndLinuxbios \/ Finish
  BY <1>5 DEF StartBios, EndSweep, memsize_801, EndBuild, EndLinuxbios, Finish, given
<1>6. CASE (\E c \in points : Sweep(c)) \/ BuildEntry \/ BuildLinuxbios \/ SortElement
  BY <1>6 DEF Sweep, BuildEntry, BuildLinuxbios, SortElement, given
<1>7. CASE StartProbe \/ Probe \/ ProbeGap \/ EndProbe
  BY <1>7 DEF StartProbe, Probe, EndsAt, ProbeGap, EndProbe, given
<1> QED BY <1>1, <1>2, <1>3, <1>4, <1>5, <1>6, <1>7 DEF Next

LEMMA AddressType ==
  ASSUME TypesInv, NEW c \in (DOMAIN e820) \X {"from", "to"}
  PROVE  AddressOf(c) \in Nat
<1>1. e820[c[1]] \in Entry
  BY DEF TypesInv, TableTypes
<1>2. e820[c[1]].addr \in Nat /\ e820[c[1]].size \in Nat
  BY <1>1 DEF Entry
<1>3. \A n \in Nat : n % AddressLimit \in Nat
  BY ProbeFacts, SMTT(30)
<1>4. EndOf(c[1]) \in Nat
  BY <1>2, <1>3 DEF EndOf
<1> QED BY <1>2, <1>4 DEF AddressOf

LEMMA CoveringType ==
  ASSUME TypesInv, NEW S \in SUBSET DOMAIN e820
  PROVE  Covering(S) \in 0 .. NVS
<1>1. ASSUME NEW k \in S PROVE e820[k].type \in 0 .. NVS
  <2>1. e820[k] \in Entry
    BY DEF TypesInv, TableTypes
  <2> QED BY <2>1 DEF Entry, NVS, RAM, RESERVED, ACPI
<1> DEFINE T == {e820[k].type : k \in S} \cup {0}
<1>2. T \in SUBSET (0 .. NVS) /\ 0 \in T
  BY <1>1 DEF NVS
<1> HIDE DEF T
<1>3. Max(T) \in 0 .. NVS
  BY <1>2, MaxOfTypes
<1> QED BY <1>3 DEF T, Covering

(* What a round of the sweep makes of the sanitised map.                   *)
LEMMA ClosedType ==
  ASSUME TypesInv, NEW addr \in Nat, last_addr <= addr
  PROVE  /\ Closed(addr) \in Seq(Entries820)
         /\ Len(Closed(addr)) \in {Len(new_bios), Len(new_bios) + 1}
         /\ \/ Closed(addr) = new_bios
            \/ /\ last_type # 0
               /\ Closed(addr) = Append(new_bios, [addr |-> last_addr, size |-> addr - last_addr,
                                                   type |-> last_type])
<1> DEFINE e == [addr |-> last_addr, size |-> addr - last_addr, type |-> last_type]
<1>1. new_bios \in Seq(Entries820) /\ last_addr \in Nat /\ last_type \in 0 .. NVS
  BY DEF TypesInv, SweepTypes
<1>2. CASE last_type # 0 /\ addr # last_addr
  <2>1. Closed(addr) = Append(new_bios, e)
    BY <1>2 DEF Closed
  <2>2. addr - last_addr \in Nat \ {0}
    BY <1>1, <1>2
  <2>3. last_type \in {RAM, RESERVED, ACPI, NVS}
    BY <1>1, <1>2 DEF RAM, RESERVED, ACPI, NVS
  <2>4. e \in Entries820
    BY <1>1, <2>2, <2>3 DEF Entries820
  <2> HIDE DEF e
  <2>5. Append(new_bios, e) \in Seq(Entries820) /\ Len(Append(new_bios, e)) = Len(new_bios) + 1
    BY <1>1, <2>4
  <2> QED BY <1>2, <2>1, <2>5 DEF e
<1>3. CASE ~ (last_type # 0 /\ addr # last_addr)
  BY <1>1, <1>3 DEF Closed
<1> QED BY <1>2, <1>3

LEMMA SweepTypesNext ==
  ASSUME TypesInv, SweepOrder, [Next]_vars PROVE SweepTypes'
<1> DEFINE Same == UNCHANGED <<overlap, points, last_type, last_addr, new_bios>>
<1>1. ASSUME Same, UNCHANGED e820 \/ pc \in {"search", "pcbios"},
             pc' \in {"search", "pcbios", "size"} => pc \in {"search", "pcbios", "size"}
      PROVE  SweepTypes'
  BY <1>1 DEF TypesInv, SweepTypes
<1>2. CASE UNCHANGED vars
  BY <1>1, <1>2 DEF vars, given
<1>3. CASE SearchOn \/ query_linuxbios \/ query_pcbios
  BY <1>1, <1>3 DEF SearchOn, query_linuxbios, query_pcbios
<1>4. CASE StartBios
  <2>1. CASE Unreasonable
    BY <1>1, <1>4, <2>1 DEF StartBios, memsize_801, given
  <2>2. CASE ~ Unreasonable
    BY <1>4, <2>2 DEF StartBios, TypesInv, SweepTypes
  <2> QED BY <2>1, <2>2
<1>5. ASSUME NEW c \in points, Sweep(c) PROVE SweepTypes'
  <2> DEFINE addr == AddressOf(c)
             current == Covering(overlap')
  <2> USE DEF TypesInv, SweepTypes
  <2>1. c \in (DOMAIN e820) \X {"from", "to"} /\ UNCHANGED <<e820, pc>> /\ pc = "sweep"
    BY <1>5 DEF Sweep
  <2>2. addr \in Nat /\ last_addr <= addr
    BY <2>1, AddressType DEF SweepOrder
  <2>3. overlap' \subseteq DOMAIN e820
    BY <1>5, <2>1 DEF Sweep
  <2>4. current \in 0 .. NVS
    BY <2>3, CoveringType
  <2>5. new_bios' \in {new_bios, Closed(addr)}
    BY <1>5 DEF Sweep
  <2>6. new_bios' \in Seq(Entries820) /\ Len(new_bios') <= Len(new_bios) + 1
    <3>1. Len(new_bios) \in Nat
      OBVIOUS
    <3>2. Closed(addr) \in Seq(Entries820) /\ Len(Closed(addr)) <= Len(new_bios) + 1
      <4>1. Len(Closed(addr)) \in {Len(new_bios), Len(new_bios) + 1}
        BY <2>2, ClosedType
      <4>2. Closed(addr) \in Seq(Entries820)
        BY <2>2, ClosedType
      <4> QED BY <3>1, <4>1, <4>2
    <3> QED BY <2>5, <3>1, <3>2
  <2>7. last_type' \in 0 .. NVS /\ last_addr' \in Nat
    BY <1>5, <2>2, <2>4 DEF Sweep, StartsAt
  <2>8. points' \subseteq points /\ (points' # {} => Len(new_bios') # E820MAX)
    BY <1>5 DEF Sweep, Full
  <2>9. Len(new_bios') <= E820MAX /\ (points' # {} => Len(new_bios') < E820MAX)
    BY <2>6, <2>8
  <2> QED BY <2>1, <2>3, <2>6, <2>7, <2>8, <2>9
<1>6. CASE EndSweep \/ EndBuild \/ EndLinuxbios \/ Finish
  BY <1>1, <1>6 DEF EndSweep, memsize_801, EndBuild, EndLinuxbios, Finish, given
<1>7. CASE BuildEntry \/ BuildLinuxbios \/ SortElement
  BY <1>1, <1>7 DEF BuildEntry, BuildLinuxbios, SortElement, given
<1>8. CASE StartProbe \/ Probe \/ ProbeGap \/ EndProbe
  BY <1>1, <1>8 DEF StartProbe, Probe, EndsAt, ProbeGap, EndProbe, given
<1> QED BY <1>2, <1>3, <1>4, <1>5, <1>6, <1>7, <1>8 DEF Next

(* Every value put into the map is a number of pages.                      *)
Elements == [start : Nat, end : Nat]
Maps == [-1 .. E820MAX -> Elements]

LEMMA PageTypes ==
  ASSUME NEW a \in Nat PROVE Up(a) \in Nat /\ Down(a) \in Nat
BY UpMonotone, DownMonotone

LEMMA Puts ==
  ASSUME NEW m \in Maps, NEW k, NEW x \in Nat
  PROVE  /\ [m EXCEPT ![k].start = x] \in Maps
         /\ [m EXCEPT ![k].end = x] \in Maps
         /\ \A e \in Elements : [m EXCEPT ![k] = e] \in Maps
BY DEF Maps, Elements

LEMMA BuiltType ==
  ASSUME NEW e, e.addr \in Nat, e.size \in Nat PROVE Built(e) \in Elements
<1>1. From(e) \in Nat /\ To(e) \in Nat
  BY HoleFacts DEF From, To, ClipHole
<1>2. Up(From(e)) \in Nat /\ Down(To(e)) \in Nat
  BY <1>1, PageTypes
<1> QED BY <1>2 DEF Built, Elements

(* The number of elements only grows, so that what fits has always fitted. *)
LEMMA FitsBefore ==
  ASSUME TypesInv, [Next]_vars PROVE msegs' \in Nat /\ (Fits' => Fits)
<1> USE DEF TypesInv, Counts
<1>1. ASSUME msegs' \in {msegs, msegs + 1} \/ (msegs = 0 /\ msegs' = 2)
      PROVE  msegs' \in Nat /\ (Fits' => Fits)
  BY <1>1 DEF Fits
<1>2. CASE UNCHANGED msegs
  BY <1>1, <1>2
<1>3. CASE StartBios \/ EndSweep
  BY <1>1, <1>3 DEF StartBios, EndSweep, memsize_801, FirmwareKnown
<1>4. CASE BuildEntry \/ BuildLinuxbios
  BY <1>1, <1>4 DEF BuildEntry, BuildLinuxbios, Add
<1>5. CASE Probe \/ EndProbe
  BY <1>1, <1>5 DEF Probe, EndsAt, EndProbe
<1> QED
  BY <1>2, <1>3, <1>4, <1>5 DEF Next, vars, SearchOn, query_linuxbios, query_pcbios, Sweep,
    EndBuild, EndLinuxbios, StartProbe, ProbeGap, SortElement, Finish

LEMMA MapTypesNext ==
  ASSUME TypesInv, [Next]_vars PROVE MapTypes'
<1> DEFINE Typed == pmap \in Maps /\ plim_upper \in Nat
<1> SUFFICES /\ Fits' => Typed'
             /\ gap' \in 0 .. GapSteps /\ (pc' = "gap" => gap' # 0)
             /\ p' \in 0 .. AddressLimit - 1
  BY DEF MapTypes, Maps, Elements
<1>0. Fits' => Typed
  BY FitsBefore DEF TypesInv, MapTypes, Maps, Elements
<1> DEFINE Probing == /\ gap' \in 0 .. GapSteps /\ (pc' = "gap" => gap' # 0)
                      /\ p' \in 0 .. AddressLimit - 1
<1>1. ASSUME UNCHANGED <<gap, p>>, pc' = "gap" => pc = "gap" PROVE Probing
  BY <1>1 DEF TypesInv, MapTypes
<1>2. CASE UNCHANGED vars
  BY <1>0, <1>1, <1>2 DEF vars, given, probing
<1>3. CASE SearchOn \/ query_linuxbios \/ query_pcbios
  BY <1>0, <1>1, <1>3 DEF SearchOn, query_linuxbios, query_pcbios, ToSize, probing
<1>4. CASE \E c \in points : Sweep(c)
  BY <1>0, <1>1, <1>4 DEF Sweep, probing
<1>5. CASE EndBuild \/ EndLinuxbios
  BY <1>0, <1>1, <1>5 DEF EndBuild, EndLinuxbios, probing
<1>6. CASE StartBios \/ EndSweep
  <2>1. /\ RES_START \div PageUnits \in Nat /\ Up(RES_END) \in Nat
        /\ RES_END \div PageUnits + ExtPages \in Nat
    BY HoleFacts, PageTypes DEF Down
  <2>2. ASSUME Typed, memsize_801 PROVE pmap' \in Maps
    <3> DEFINE low == [start |-> 0, end |-> RES_START \div PageUnits]
               high == [start |-> Up(RES_END), end |-> RES_END \div PageUnits + ExtPages]
               m == [pmap EXCEPT ![0] = low]
    <3>1. low \in Elements /\ high \in Elements
      BY <2>1 DEF Elements
    <3>2. pmap' = [m EXCEPT ![1] = high]
      BY <2>2 DEF memsize_801
    <3> HIDE DEF low, high
    <3>3. m \in Maps
      BY <2>2, <3>1, Puts
    <3> HIDE DEF m
    <3> QED BY <3>1, <3>2, <3>3, Puts
  <2> QED BY <1>0, <1>1, <1>6, <2>2 DEF StartBios, EndSweep, memsize_801, probing
<1>7. CASE BuildEntry
  <2>1. i + 1 \in DOMAIN new_bios /\ new_bios[i + 1] \in Entries820
    BY <1>7 DEF BuildEntry, TypesInv, SweepTypes, Counts
  <2>2. Built(new_bios[i + 1]) \in Elements
    BY <2>1, BuiltType DEF Entries820
  <2>3. Typed => pmap' \in Maps
    <3>1. pmap' \in {pmap, [pmap EXCEPT ![msegs] = Built(new_bios[i + 1])]}
      BY <1>7 DEF BuildEntry, Add, Built, From, To
    <3>5. pmap \in Maps => [pmap EXCEPT ![msegs] = Built(new_bios[i + 1])] \in Maps
      BY <2>2, Puts
    <3> QED BY <3>1, <3>5
  <2> QED BY <1>0, <1>1, <1>7, <2>3 DEF BuildEntry, probing
<1>8. CASE BuildLinuxbios
  <2>1. i + 1 \in DOMAIN e820 /\ e820[i + 1] \in Entry
    BY <1>8 DEF BuildLinuxbios, TypesInv, TableTypes, Counts
  <2>2. Up(e820[i + 1].addr) \in Nat /\ Down(EndOf(i + 1)) \in Nat
    <3>1. <<i + 1, "to">> \in (DOMAIN e820) \X {"from", "to"}
      BY <2>1
    <3>2. AddressOf(<<i + 1, "to">>) \in Nat
      BY <3>1, AddressType
    <3>3. EndOf(i + 1) \in Nat /\ e820[i + 1].addr \in Nat
      BY <2>1, <3>2 DEF AddressOf, Entry
    <3> QED BY <3>3, PageTypes
  <2>3. Typed => pmap' \in Maps
    <3> DEFINE e == [start |-> Up(e820[i + 1].addr), end |-> Down(EndOf(i + 1))]
    <3>1. pmap' \in {pmap, [pmap EXCEPT ![msegs] = e]}
      BY <1>8 DEF BuildLinuxbios, Add
    <3>2. e \in Elements
      BY <2>2 DEF Elements
    <3> HIDE DEF e
    <3>5. pmap \in Maps => [pmap EXCEPT ![msegs] = e] \in Maps
      BY <3>2, Puts
    <3> QED BY <3>1, <3>5
  <2> QED BY <1>0, <1>1, <1>8, <2>3 DEF BuildLinuxbios, probing
<1>9. CASE StartProbe
  <2>1. Typed => pmap' \in Maps
    BY <1>9, ProbeFacts, Puts DEF StartProbe
  <2> QED BY <1>0, <1>9, <2>1, ProbeFacts DEF StartProbe, TypesInv, MapTypes
<1>10. CASE Probe
  <2>1. p \in 0 .. AddressLimit - 1 /\ gap \in 0 .. GapSteps
    BY DEF TypesInv, MapTypes
  <2>2. Step(p) \in 0 .. AddressLimit - 1 /\ Down(p) \in Nat
    BY <2>1, StepIs, PageTypes
  <2>3. Down(RES_START) \in Nat /\ RES_END \in 0 .. AddressLimit - 1
    BY PageTypes, HoleFacts, ProbeFacts
  <2>4. ASSUME NEW d \in Nat, EndsAt(d), Down(d) \in Nat, Typed PROVE pmap' \in Maps
    <3>1. [pmap EXCEPT ![msegs].end = Down(d)] \in Maps
      BY <2>4, Puts
    <3> DEFINE m == [pmap EXCEPT ![msegs].end = Down(d)]
    <3>2. pmap' = [m EXCEPT ![msegs + 1].start = 0]
      BY <2>4 DEF EndsAt
    <3> HIDE DEF m
    <3>3. m \in Maps
      BY <3>1 DEF m
    <3> QED BY <3>2, <3>3, Puts
  <2>5. Typed => pmap' \in Maps
    BY <1>10, <2>1, <2>2, <2>3, <2>4, HoleFacts DEF Probe
  <2>6. Probing
    BY <1>10, <2>1, <2>2, <2>3, ProbeFacts DEF Probe, EndsAt
  <2> QED BY <1>0, <1>10, <2>5, <2>6 DEF Probe
<1>11. CASE ProbeGap
  <2> DEFINE a == IF Reserved(p) THEN RES_END ELSE p
  <2>1. a \in 0 .. AddressLimit - 1 /\ ProbeLimit \in 0 .. AddressLimit - 1
        /\ p \in 0 .. AddressLimit - 1
    BY HoleFacts, ProbeFacts DEF TypesInv, MapTypes
  <2>2. /\ Step(p) \in 0 .. AddressLimit - 1 /\ Step(a) \in 0 .. AddressLimit - 1
        /\ Step(ProbeLimit) \in 0 .. AddressLimit - 1
    BY <2>1, StepIs
  <2>3. Down(a) \in Nat
    BY <2>1, PageTypes
  <2>4. Typed => pmap' \in Maps
    <3>1. pmap' \in {pmap, [pmap EXCEPT ![msegs].start = Down(a)]}
      BY <1>11 DEF ProbeGap, Found
    <3> HIDE DEF a
    <3>5. pmap \in Maps => [pmap EXCEPT ![msegs].start = Down(a)] \in Maps
      BY <2>3, Puts
    <3> QED BY <3>1, <3>5
  <2>5. p' \in 0 .. AddressLimit - 1
    BY <1>11, <2>2 DEF ProbeGap
  <2>6. gap' \in 0 .. GapSteps /\ (pc' = "gap" => gap' # 0)
    <3>1. pc = "gap" /\ gap \in 0 .. GapSteps /\ gap # 0
      BY <1>11 DEF ProbeGap, TypesInv, MapTypes
    <3>2. \/ UNCHANGED gap
          \/ gap' = gap - 1 /\ (gap' <= 0 => pc' = "probe")
      BY <1>11 DEF ProbeGap
    <3> QED BY <3>1, <3>2, ProbeFacts
  <2> QED BY <1>0, <1>11, <2>4, <2>5, <2>6 DEF ProbeGap
<1>12. CASE EndProbe
  <2>1. Down(ProbeLimit) \in Nat
    BY PageTypes, ProbeFacts
  <2>2. Typed => pmap' \in Maps
    <3>1. pmap' \in {pmap, [pmap EXCEPT ![msegs].end = Down(ProbeLimit)]}
      BY <1>12 DEF EndProbe
    <3>5. pmap \in Maps => [pmap EXCEPT ![msegs].end = Down(ProbeLimit)] \in Maps
      BY <2>1, Puts
    <3> QED BY <3>1, <3>5
  <2> QED BY <1>0, <1>1, <1>12, <2>2 DEF EndProbe, probing
<1>13. CASE SortElement
  <2>1. i \in Nat /\ msegs \in Nat /\ i < msegs
    BY <1>13 DEF TypesInv, Counts, SortElement
  <2>2. Fits => i \in -1 .. E820MAX
    BY <2>1 DEF Fits
  <2>3. Typed /\ Fits => pmap' \in Maps
    BY <1>13, <2>1, <2>2 DEF SortElement, Maps
  <2> QED BY <1>0, <1>1, <1>13, <2>3 DEF SortElement, probing, Fits
<1>14. CASE Finish
  <2>1. Typed /\ Fits => LastEnd \in Nat
    BY DEF LastEnd, Maps, Elements, Fits, TypesInv, Counts
  <2> QED BY <1>0, <1>1, <1>14, <2>1 DEF Finish, probing, Fits
<1> QED BY <1>2, <1>3, <1>4, <1>5, <1>6, <1>7, <1>8, <1>9, <1>10, <1>11, <1>12, <1>13, <1>14
        DEF Next

LEMMA CountsNext ==
  ASSUME TypesInv, TableTypes', [Next]_vars PROVE Counts'
<1> USE DEF TypesInv, Counts, Fits
<1>1. Len(e820) \in Nat /\ Len(e820) <= E820MAX /\ Len(new_bios) \in Nat
      /\ Len(new_bios) <= E820MAX /\ Len(e820') \in Nat
  BY DEF TableTypes, SweepTypes
<1>2. CASE UNCHANGED vars
  BY <1>2 DEF vars, given
<1>3. CASE SearchOn \/ query_linuxbios \/ query_pcbios
  BY <1>1, <1>3 DEF SearchOn, query_linuxbios, query_pcbios, ToSize
<1>4. CASE StartBios \/ EndSweep
  BY <1>1, <1>4 DEF StartBios, EndSweep, memsize_801, given, FirmwareKnown
<1>5. CASE \E c \in points : Sweep(c)
  BY <1>5 DEF Sweep, given
<1>6. CASE BuildEntry
  BY <1>1, <1>6 DEF BuildEntry, Add, given, FirmwareKnown
<1>7. CASE BuildLinuxbios
  BY <1>1, <1>7 DEF BuildLinuxbios, Add, given, FirmwareKnown
<1>8. CASE EndBuild \/ EndLinuxbios
  BY <1>8 DEF EndBuild, EndLinuxbios, given
<1>9. CASE StartProbe \/ ProbeGap
  BY <1>9 DEF StartProbe, ProbeGap, given, FirmwareKnown
<1>10. CASE Probe \/ EndProbe
  BY <1>10 DEF Probe, EndsAt, EndProbe, given, FirmwareKnown
<1>11. CASE SortElement \/ Finish
  BY <1>11 DEF SortElement, Finish, given
<1> QED BY <1>2, <1>3, <1>4, <1>5, <1>6, <1>7, <1>8, <1>9, <1>10, <1>11 DEF Next

LEMMA TypesNext ==
  ASSUME TypesInv, SweepOrder, [Next]_vars PROVE TypesInv'
BY FirmwareKnownNext, TableTypesNext, SweepTypesNext, MapTypesNext, CountsNext DEF TypesInv

-----------------------------------------------------------------------------
(* Order.  The next change point is behind all that has been closed, and   *)
(* so is all that this one closes or opens before those still to come.     *)
LEMMA SweepOrderNext ==
  ASSUME TypesInv, SweepOrder, [Next]_vars PROVE SweepOrder'
<1>1. ASSUME UNCHANGED <<points, last_type, last_addr, new_bios>>, UNCHANGED e820 \/ points = {}
      PROVE  SweepOrder'
  BY <1>1 DEF SweepOrder, EndAt, AddressOf, EndOf
<1>2. CASE UNCHANGED vars
  BY <1>1, <1>2 DEF vars, given
<1>3. CASE SearchOn \/ query_linuxbios \/ query_pcbios
  BY <1>1, <1>3 DEF SearchOn, query_linuxbios, query_pcbios, TypesInv, SweepTypes
<1>4. CASE StartBios
  <2>1. CASE Unreasonable
    BY <1>1, <1>4, <2>1 DEF StartBios, memsize_801, given
  <2>2. CASE ~ Unreasonable
    <3>1. new_bios' = <<>> /\ last_type' = 0 /\ last_addr' = 0 /\ UNCHANGED e820
          /\ points' = (DOMAIN e820) \X {"from", "to"}
      BY <1>4, <2>2 DEF StartBios, TypesInv, SweepTypes
    <3>2. \A c \in points' : AddressOf(c) \in Nat
      BY <3>1, AddressType
    <3>3. \A c : (AddressOf(c))' = AddressOf(c)
      BY <3>1 DEF AddressOf, EndOf
    <3> QED BY <3>1, <3>2, <3>3 DEF SweepOrder
  <2> QED BY <2>1, <2>2
<1>5. ASSUME NEW c \in points, Sweep(c) PROVE SweepOrder'
  <2> DEFINE addr == AddressOf(c)
             closed == Closed(addr)
             e == [addr |-> last_addr, size |-> addr - last_addr, type |-> last_type]
  <2>1. /\ points \subseteq (DOMAIN e820) \X {"from", "to"} /\ new_bios \in Seq(Entries820)
        /\ last_addr \in Nat
    BY DEF TypesInv, SweepTypes
  <2>2. addr \in Nat /\ last_addr <= addr
    BY <2>1, AddressType DEF SweepOrder
  <2>3. ASSUME NEW k \in DOMAIN new_bios PROVE EndAt(k) \in Nat /\ new_bios[k].addr \in Nat
    <3>1. new_bios[k] \in Entries820
      BY <2>1
    <3> QED BY <3>1 DEF EndAt, Entries820
  <2>4. ASSUME NEW d \in points' PROVE addr <= AddressOf(d) /\ (AddressOf(d))' = AddressOf(d)
    <3>1. d \in points /\ ~ Before(d, c) /\ UNCHANGED e820
      BY <1>5 DEF Sweep
    <3>2. AddressOf(d) \in Nat
      BY <2>1, <3>1, AddressType
    <3> QED BY <2>2, <3>1, <3>2 DEF Before, AddressOf, EndOf
  <2>5. \A d \in points' : AddressOf(d) \in Nat
    BY <1>5, <2>1, AddressType DEF Sweep
  <2> DEFINE new == new_bios'
             End(k) == new[k].addr + new[k].size
  <2>6. \/ new = new_bios /\ last_type' = last_type /\ last_addr' = last_addr
        \/ new = closed /\ (last_type' # 0 => last_addr' = addr) /\ last_addr' \in {last_addr, addr}
    BY <1>5 DEF Sweep, StartsAt
  <2>7. new = new_bios \/ (last_type # 0 /\ new = Append(new_bios, e))
    BY <2>2, <2>6, ClosedType
  <2>8. /\ \A k, l \in DOMAIN new : k < l => End(k) <= new[l].addr
        /\ \A k \in DOMAIN new : End(k) <= addr
        /\ new = new_bios /\ last_type # 0 => \A k \in DOMAIN new : End(k) <= last_addr
    <3>1. CASE new = new_bios
      BY <2>1, <2>2, <2>3, <3>1 DEF SweepOrder, EndAt
    <3>2. CASE last_type # 0 /\ new = Append(new_bios, e)
      <4> DEFINE n == Len(new_bios)
      <4>1. n \in Nat /\ DOMAIN new_bios = 1 .. n /\ DOMAIN new = 1 .. n + 1
        BY <2>1, <3>2
      <4>2. \A k \in 1 .. n : new[k] = new_bios[k]
        BY <2>1, <3>2, <4>1
      <4>3. new[n + 1] = e
        BY <2>1, <3>2, <4>1
      <4> HIDE DEF n, new
      <4>4. End(n + 1) = addr /\ new[n + 1].addr = last_addr
        BY <2>1, <2>2, <4>3
      <4>5. \A k \in 1 .. n : End(k) = EndAt(k) /\ new[k].addr = new_bios[k].addr
        BY <4>2 DEF EndAt
      <4>6. \A k \in 1 .. n : EndAt(k) <= last_addr
        BY <3>2, <4>1 DEF SweepOrder
      <4> HIDE DEF addr, End
      <4>7. \A k, l \in 1 .. n : k < l => End(k) <= new[l].addr
        BY <4>1, <4>5 DEF SweepOrder
      <4>8. \A k \in 1 .. n : End(k) <= last_addr /\ End(k) <= addr
        <5> TAKE k \in 1 .. n
        <5>1. EndAt(k) \in Nat /\ End(k) = EndAt(k) /\ EndAt(k) <= last_addr
          BY <2>3, <4>1, <4>5, <4>6
        <5> QED BY <2>1, <2>2, <5>1
      <4>9. \A k, l \in 1 .. n + 1 : k < l => End(k) <= new[l].addr
        <5> TAKE k, l \in 1 .. n + 1
        <5>1. CASE l = n + 1
          BY <4>1, <4>4, <4>8, <5>1
        <5>2. CASE l # n + 1
          BY <4>1, <4>7, <5>2
        <5> QED BY <5>1, <5>2
      <4>10. \A k \in 1 .. n + 1 : End(k) <= addr
        <5> TAKE k \in 1 .. n + 1
        <5>1. CASE k = n + 1
          BY <2>2, <4>4, <5>1
        <5>2. CASE k # n + 1
          BY <4>1, <4>8, <5>2
        <5> QED BY <5>1, <5>2
      <4>11. new # new_bios
        BY <4>1
      <4> QED BY <4>1, <4>9, <4>10, <4>11
    <3> QED BY <2>7, <3>1, <3>2
  <2>9. ASSUME NEW k \in DOMAIN new PROVE End(k) \in Nat
    <3>1. new \in Seq(Entries820)
      BY SweepTypesNext DEF SweepTypes
    <3>2. new[k] \in Entries820
      BY <3>1
    <3> QED BY <3>2 DEF Entries820
  <2>10. (\A k : (EndAt(k))' = End(k)) /\ last_addr' \in Nat /\ last_addr' <= addr
    BY <2>1, <2>2, <2>6 DEF EndAt
  <2>11. last_type' # 0 => \A k \in DOMAIN new : End(k) <= last_addr'
    BY <2>6, <2>8
  <2> HIDE DEF addr, new, End
  <2>12. \A d \in points' : last_addr' <= AddressOf(d)
                            /\ \A k \in DOMAIN new : End(k) <= AddressOf(d)
    BY <2>2, <2>4, <2>5, <2>8, <2>9, <2>10
  <2> QED BY <2>4, <2>8, <2>10, <2>11, <2>12 DEF SweepOrder, new
<1>6. CASE EndSweep \/ EndBuild \/ EndLinuxbios \/ Finish
  BY <1>1, <1>6 DEF EndSweep, memsize_801, EndBuild, EndLinuxbios, Finish, given
<1>7. CASE BuildEntry \/ BuildLinuxbios \/ SortElement
  BY <1>1, <1>7 DEF BuildEntry, BuildLinuxbios, SortElement, given
<1>8. CASE StartProbe \/ Probe \/ ProbeGap \/ EndProbe
  BY <1>1, <1>8 DEF StartProbe, Probe, EndsAt, ProbeGap, EndProbe, given
<1> QED BY <1>2, <1>3, <1>4, <1>5, <1>6, <1>7, <1>8 DEF Next

LEMMA BuiltPair ==
  ASSUME NEW d \in Entries820, NEW e \in Entries820, d.addr + d.size <= e.addr
  PROVE  Pair(Built(d), Built(e))
<1>1. d.addr \in Nat /\ d.size \in Nat /\ e.addr \in Nat /\ e.size \in Nat
  BY DEF Entries820
<1>2. /\ From(d) \in Nat /\ To(d) \in Nat /\ From(e) \in Nat /\ To(e) \in Nat
      /\ From(d) <= From(e) /\ To(d) <= From(e) /\ To(d) <= To(e)
  BY <1>1, ClipMonotone
<1>3. Up(From(d)) <= Up(From(e)) /\ Down(To(d)) <= Up(From(e)) /\ Down(To(d)) <= Down(To(e))
  <2>1. Up(From(d)) <= Up(From(e))
    BY <1>2, UpMonotone
  <2>2. Down(To(d)) <= Up(From(e))
    BY <1>2, UpMonotone
  <2>3. Down(To(d)) <= Down(To(e))
    BY <1>2, DownMonotone
  <2> QED BY <2>1, <2>2, <2>3
<1> QED BY <1>3 DEF Pair, Built

LEMMA BuildOrderNext ==
  ASSUME TypesInv, SweepOrder, BuildOrder, [Next]_vars PROVE BuildOrder'
<1>1. ASSUME UNCHANGED <<pc, pmap, msegs, i, new_bios>> PROVE BuildOrder'
  BY <1>1 DEF BuildOrder, Pairs
<1>2. CASE UNCHANGED vars
  BY <1>1, <1>2 DEF vars
<1>3. CASE BuildEntry
  <2> DEFINE e == new_bios[i + 1]
  <2>1. /\ pc = "build" /\ i \in Nat /\ msegs \in Nat /\ msegs <= i /\ i < Len(new_bios)
        /\ new_bios \in Seq(Entries820) /\ Len(new_bios) <= E820MAX
    BY <1>3 DEF BuildEntry, TypesInv, Counts, SweepTypes
  <2>2. /\ e \in Entries820 /\ i + 1 \in DOMAIN new_bios
        /\ \A n \in i + 1 .. Len(new_bios) : new_bios[n] \in Entries820 /\ n \in DOMAIN new_bios
    BY <2>1
  <2>3. \A n \in i + 2 .. Len(new_bios) : Pair(Built(e), Built(new_bios[n]))
    <3> TAKE n \in i + 2 .. Len(new_bios)
    <3>1. n \in i + 1 .. Len(new_bios) /\ i + 1 < n
      BY <2>1
    <3>2. new_bios[n] \in Entries820 /\ e.addr + e.size <= new_bios[n].addr
      BY <2>2, <3>1 DEF SweepOrder, EndAt
    <3> QED BY <2>2, <3>2, BuiltPair
  <2>4. \A k \in 0 .. msegs - 1 : \A n \in i + 2 .. Len(new_bios) :
          Pair(pmap[k], Built(new_bios[n]))
    BY <2>1 DEF BuildOrder
  <2>5. \A k \in 0 .. msegs - 1 : Pair(pmap[k], Built(e))
    BY <2>1 DEF BuildOrder
  <2>6. \A k, l \in 0 .. msegs - 1 : k < l => Pair(pmap[k], pmap[l])
    BY <2>1 DEF BuildOrder, Pairs
  <2>7. new_bios' = new_bios /\ i' = i + 1
    BY <1>3 DEF BuildEntry
  <2>8. CASE UNCHANGED <<pmap, msegs>>
    BY <2>1, <2>4, <2>6, <2>7, <2>8 DEF BuildOrder, Pairs
  <2>9. CASE pmap' = [pmap EXCEPT ![msegs] = Built(e)] /\ msegs' = msegs + 1
    <3>1. msegs \in DOMAIN pmap
      BY <2>1 DEF TypesInv, MapTypes, Fits
    <3>2. /\ pmap'[msegs] = Built(e)
          /\ \A k \in 0 .. msegs - 1 : pmap'[k] = pmap[k]
      BY <2>1, <2>9, <3>1
    <3>3. \A k, l \in 0 .. msegs' - 1 : k < l => Pair(pmap'[k], pmap'[l])
      <4> TAKE k, l \in 0 .. msegs' - 1
      <4>1. CASE l = msegs
        BY <2>1, <2>5, <2>9, <3>2, <4>1
      <4>2. CASE l # msegs
        BY <2>1, <2>6, <2>9, <3>2, <4>2
      <4> QED BY <4>1, <4>2
    <3>4. \A k \in 0 .. msegs' - 1, n \in i + 2 .. Len(new_bios) :
            Pair(pmap'[k], Built(new_bios[n]))
      <4> TAKE k \in 0 .. msegs' - 1, n \in i + 2 .. Len(new_bios)
      <4>1. CASE k = msegs
        BY <2>3, <3>2, <4>1
      <4>2. CASE k # msegs
        BY <2>1, <2>4, <2>9, <3>2, <4>2
      <4> QED BY <4>1, <4>2
    <3> QED BY <2>1, <2>7, <3>3, <3>4 DEF BuildOrder, Pairs
  <2> QED BY <1>3, <2>8, <2>9 DEF BuildEntry, Add, Built, From, To
<1>4. CASE EndSweep
  <2>1. pc' = "build" => msegs' = 0
    BY <1>4 DEF EndSweep, memsize_801, TypesInv, Counts
  <2> QED BY <2>1 DEF BuildOrder, Pairs
<1>5. ASSUME pc' # "build" PROVE BuildOrder'
  BY <1>5 DEF BuildOrder
<1>6. CASE SearchOn \/ query_linuxbios \/ query_pcbios \/ StartBios \/ EndBuild
  BY <1>5, <1>6 DEF SearchOn, query_linuxbios, query_pcbios, ToSize, StartBios, memsize_801, EndBuild
<1>7. CASE (\E c \in points : Sweep(c)) \/ BuildLinuxbios \/ EndLinuxbios \/ SortElement \/ Finish
  BY <1>5, <1>7 DEF Sweep, BuildLinuxbios, EndLinuxbios, SortElement, Finish
<1>8. CASE StartProbe \/ Probe \/ ProbeGap \/ EndProbe
  BY <1>5, <1>8 DEF StartProbe, Probe, EndsAt, ProbeGap, EndProbe
<1> QED BY <1>2, <1>3, <1>4, <1>6, <1>7, <1>8 DEF Next

(* The search.  What ends is behind all that has ended before, and the     *)
(* place where the search goes on behind that.                             *)
LEMMA ProbeOrderNext ==
  ASSUME TypesInv, ProbeOrder, [Next]_vars PROVE ProbeOrder'
<1>1. ASSUME UNCHANGED <<pc, pmap, msegs, p>> PROVE ProbeOrder'
  BY <1>1 DEF ProbeOrder, Pairs, Fits
<1>2. CASE UNCHANGED vars
  BY <1>1, <1>2 DEF vars, probing
<1>3. SUFFICES ASSUME Fits', Fits, pc' \in {"probe", "gap"} PROVE ProbeOrder'
  BY FitsBefore DEF ProbeOrder
<1>4. /\ pmap \in Maps /\ p \in 0 .. AddressLimit - 1 /\ msegs \in Nat /\ msegs <= E820MAX
      /\ msegs \in -1 .. E820MAX
  BY <1>3 DEF TypesInv, MapTypes, Maps, Elements, Counts, Fits
<1>5. \A k \in 0 .. msegs : /\ pmap[k] \in Elements
                            /\ pmap[k].start \in Nat /\ pmap[k].end \in Nat
  BY <1>4 DEF Maps, Elements
<1>6. CASE StartProbe
  <2> DEFINE first == Up(EndOfProgram)
  <2>1. pc = "size" /\ msegs = 0
    BY <1>6 DEF StartProbe, TypesInv, Counts, FirmwareKnown
  <2>2. msegs' = 0 /\ pc' = "probe" /\ p' = first * PageUnits /\ pmap'[0].start = first
    BY <1>4, <1>6, <2>1 DEF StartProbe, Maps, Elements
  <2>3. first \in Nat /\ Down(p') = first
    BY <2>2, ProbeFacts, PageOfProduct
  <2>4. first # 0
    <3>1. Down(EndOfProgram) # 0
      BY ProbeFacts, DownPositive
    <3>2. Down(EndOfProgram) \in Nat /\ Down(EndOfProgram) <= first
      BY ProbeFacts, UpMonotone
    <3> QED BY <2>3, <3>1, <3>2
  <2> HIDE DEF first
  <2> QED BY <2>2, <2>3, <2>4 DEF ProbeOrder, Pairs
<1> DEFINE K == 0 .. msegs - 1
           start == pmap[msegs].start
<1>7. ASSUME Searching(p)
      PROVE  /\ EndOfProgram <= p /\ p < ProbeLimit
             /\ \A a \in 0 .. AddressLimit - 1 : p <= a => Down(p) <= Down(a) /\ Down(a) \in Nat
  BY <1>4, <1>7, DownMonotone, ProbeFacts DEF Searching
<1>8. CASE Probe
  <2>1. pc = "probe" /\ Searching(p)
    BY <1>8 DEF Probe
  <2>2. /\ Pairs /\ start # 0 /\ start <= Down(p)
        /\ \A k \in K : /\ pmap[k].end <= Down(ProbeLimit)
                       /\ pmap[k].start <= Down(p) /\ pmap[k].end <= Down(p)
                       /\ pmap[k].start <= start /\ pmap[k].end <= start
                       /\ pmap[k].end <= Down(Before0(p))
    BY <1>3, <2>1 DEF ProbeOrder
  <2>3. ASSUME EndsAt(Before0(p)), p' = IF Reserved(p) THEN RES_END ELSE p PROVE ProbeOrder'
    <3> DEFINE d == Before0(p)
    <3>1. /\ d \in 0 .. AddressLimit - 1 /\ d <= p /\ d <= ProbeLimit
          /\ p' \in 0 .. AddressLimit - 1 /\ p <= p'
      BY <1>4, <1>7, <2>1, <2>3, HoleFacts, ProbeFacts DEF Before0, Reserved
    <3>2. Down(d) \in Nat /\ Down(d) <= Down(p) /\ Down(d) <= Down(ProbeLimit) /\ Down(p) <= Down(p')
          /\ Down(p) \in Nat /\ Down(p') \in Nat
      BY <1>4, <3>1, DownMonotone, ProbeFacts
    <3>3. ~ Searching(p') => ~ Searching(Step(p'))
      <4>1. EndOfProgram <= p' /\ (p' <= ProbeLimit \/ p' = RES_END)
        <5>1. p' = p \/ p' = RES_END
          BY <2>3
        <5>2. EndOfProgram <= p /\ p < ProbeLimit /\ p \in Nat
          BY <1>4, <1>7, <2>1
        <5>3. p <= p' /\ p' \in Nat
          BY <3>1, ProbeFacts
        <5>4. EndOfProgram <= p'
          BY <5>2, <5>3, ProbeFacts
        <5>5. p' = p => p' <= ProbeLimit
          BY <5>2, ProbeFacts
        <5> QED BY <5>1, <5>4, <5>5
      <4>2. CASE p' = p
        BY <2>1, <4>2
      <4>3. CASE p' = RES_END
        <5>1. RES_END \in 0 .. AddressLimit - 1 /\ RES_END + ProbeStep < AddressLimit
          BY HoleFacts, ProbeFacts
        <5>2. Step(RES_END) = RES_END + ProbeStep
          BY <5>1, StepIs
        <5>3. EndOfProgram <= RES_END
          BY <4>1, <4>3
        <5> QED BY <4>3, <5>2, <5>3, HoleFacts, ProbeFacts DEF Searching
      <4> QED BY <2>3, <4>2, <4>3
    <3>4. msegs' = msegs + 1 /\ pc' = "gap" /\ msegs + 1 \in -1 .. E820MAX
      BY <1>3, <1>4, <2>3 DEF EndsAt, Fits
    <3>5. /\ \A k \in K : pmap'[k] = pmap[k]
          /\ pmap'[msegs].start = start /\ pmap'[msegs].end = Down(d)
          /\ pmap'[msegs + 1].start = 0
      <4>1. pmap' = [[pmap EXCEPT ![msegs].end = Down(d)] EXCEPT ![msegs + 1].start = 0]
        BY <2>3 DEF EndsAt
      <4> HIDE DEF d
      <4>2. [pmap EXCEPT ![msegs].end = Down(d)] \in Maps
        BY <1>4, <3>2, Puts
      <4> DEFINE m == [pmap EXCEPT ![msegs].end = Down(d)]
      <4>3. m[msegs].start = start /\ m[msegs].end = Down(d) /\ \A k \in K : m[k] = pmap[k]
        BY <1>4, <1>5, <3>2 DEF Maps, Elements
      <4>4. m \in Maps /\ pmap' = [m EXCEPT ![msegs + 1].start = 0]
        BY <4>1, <4>2
      <4> HIDE DEF m
      <4>5. m[msegs + 1] \in Elements
        BY <3>4, <4>4 DEF Maps
      <4>6. pmap'[msegs + 1] = [m[msegs + 1] EXCEPT !.start = 0]
        BY <3>4, <4>4 DEF Maps
      <4>7. \A k \in 0 .. msegs : pmap'[k] = m[k]
        BY <1>4, <4>4 DEF Maps
      <4> QED BY <1>4, <4>3, <4>5, <4>6, <4>7 DEF Elements
    <3> HIDE DEF d
    <3>6. /\ \A k \in K : Pair(pmap[k], pmap'[msegs])
          /\ \A k \in K : pmap[k].start \in Nat /\ pmap[k].end \in Nat
      <4> SUFFICES ASSUME NEW k \in K
                   PROVE  Pair(pmap[k], pmap'[msegs]) /\ pmap[k].start \in Nat /\ pmap[k].end \in Nat
        OBVIOUS
      <4>1. pmap[k].end <= Down(d)
        BY <2>2 DEF d
      <4> QED BY <1>4, <1>5, <2>2, <3>5, <4>1 DEF Pair
    <3>7. Pairs'
      <4> SUFFICES ASSUME NEW k \in 0 .. msegs, NEW l \in 0 .. msegs, k < l
                   PROVE  Pair(pmap'[k], pmap'[l])
        BY <1>4, <3>4 DEF Pairs
      <4>1. CASE l = msegs
        BY <1>4, <3>5, <3>6, <4>1
      <4>2. CASE l # msegs
        BY <1>4, <2>2, <3>5, <4>2 DEF Pairs
      <4> QED BY <4>1, <4>2
    <3>8. \A k \in 0 .. msegs' - 1 :
            /\ pmap'[k].end <= Down(ProbeLimit)
            /\ pmap'[k].start <= Down(p') /\ pmap'[k].end <= Down(p')
      <4> SUFFICES ASSUME NEW k \in 0 .. msegs
                   PROVE  /\ pmap'[k].end <= Down(ProbeLimit)
                          /\ pmap'[k].start <= Down(p') /\ pmap'[k].end <= Down(p')
        BY <1>4, <3>4
      <4>1. CASE k = msegs
        BY <1>5, <2>2, <3>2, <3>5, <4>1
      <4>2. CASE k # msegs
        BY <1>4, <2>2, <3>2, <3>5, <3>6, <4>2
      <4> QED BY <4>1, <4>2
    <3> QED BY <3>3, <3>4, <3>5, <3>7, <3>8 DEF ProbeOrder
  <2>4. ASSUME ~ Reserved(p), p' = Step(p), UNCHANGED <<pc, pmap, msegs>> PROVE ProbeOrder'
    <3>1. p' \in 0 .. AddressLimit - 1 /\ (Searching(p') => p' = p + ProbeStep)
      BY <1>4, <1>7, <2>1, <2>4, SearchEnds, StepIs, ProbeFacts
    <3>2. Searching(p') => Down(p) <= Down(p') /\ Down(p) <= Down(Before0(p'))
                           /\ Down(Before0(p')) \in Nat /\ Down(p') \in Nat
      <4> SUFFICES ASSUME Searching(p')
                   PROVE  Down(p) <= Down(p') /\ Down(p) <= Down(Before0(p'))
                          /\ Down(Before0(p')) \in Nat /\ Down(p') \in Nat
        OBVIOUS
      <4>1. p <= p' /\ p <= Before0(p') /\ Before0(p') \in Nat
        BY <1>4, <2>4, <3>1, ProbeFacts, HoleFacts DEF Before0, Reserved
      <4> QED BY <1>4, <3>1, <4>1, DownMonotone
    <3>3. Down(p) \in Nat /\ start \in Nat
      BY <1>4, <1>5, PageTypes
    <3>4. Searching(p') =>
            /\ start <= Down(p')
            /\ \A k \in K : /\ pmap[k].start <= Down(p') /\ pmap[k].end <= Down(p')
                           /\ pmap[k].end <= Down(Before0(p'))
      <4> SUFFICES ASSUME Searching(p')
                   PROVE  /\ start <= Down(p')
                          /\ \A k \in K : /\ pmap[k].start <= Down(p') /\ pmap[k].end <= Down(p')
                                         /\ pmap[k].end <= Down(Before0(p'))
        OBVIOUS
      <4>1. \A k \in K : pmap[k].start \in Nat /\ pmap[k].end \in Nat
        BY <1>4, <1>5
      <4> QED BY <2>2, <3>2, <3>3, <4>1
    <3> QED BY <2>1, <2>2, <2>4, <3>4 DEF ProbeOrder, Pairs
  <2> QED BY <1>8, <2>3, <2>4 DEF Probe, Before0
<1>9. CASE ProbeGap
  <2> DEFINE a == IF Reserved(p) THEN RES_END ELSE p
  <2>1. /\ pc = "gap" /\ Pairs /\ start = 0 /\ (~ Searching(p) => ~ Searching(Step(p)))
        /\ \A k \in K : pmap[k].end <= Down(ProbeLimit)
        /\ Searching(p) => \A k \in K : pmap[k].start <= Down(p) /\ pmap[k].end <= Down(p)
        /\ msegs' = msegs
    BY <1>3, <1>9 DEF ProbeGap, ProbeOrder
  <2>2. CASE ~ Searching(p)
    <3>1. pc' = "probe" /\ p' = Step(p) /\ pmap' = pmap
      BY <1>9, <2>2 DEF ProbeGap
    <3> QED BY <2>1, <2>2, <3>1 DEF ProbeOrder, Pairs
  <2>3. CASE Searching(p)
    <3>1. a \in 0 .. AddressLimit - 1 /\ p <= a /\ EndOfProgram <= a
          /\ (a <= ProbeLimit \/ a = RES_END) /\ ~ Reserved(a)
      BY <1>4, <1>7, <2>3, HoleFacts, ProbeFacts DEF Reserved
    <3>2. /\ Searching(Step(a)) => Step(a) = a + ProbeStep
          /\ ~ Searching(Step(a)) => ~ Searching(Step(Step(a)))
          /\ Step(a) \in 0 .. AddressLimit - 1
      BY <3>1, SearchEnds, StepIs
    <3>3. Down(p) <= Down(a) /\ Down(a) \in Nat /\ Down(p) \in Nat
      BY <1>4, <3>1, DownMonotone
    <3>4. \A k \in K : /\ pmap[k].start \in Nat /\ pmap[k].end \in Nat
                      /\ pmap[k].start <= Down(a) /\ pmap[k].end <= Down(a)
      BY <1>4, <1>5, <2>1, <2>3, <3>3
    <3>5. Searching(Step(a)) => /\ Down(a) <= Down(Step(a)) /\ Down(Step(a)) \in Nat
                                /\ Down(a) <= Down(Before0(Step(a)))
                                /\ Down(Before0(Step(a))) \in Nat
      <4> SUFFICES ASSUME Searching(Step(a))
                   PROVE  /\ Down(a) <= Down(Step(a)) /\ Down(Step(a)) \in Nat
                          /\ Down(a) <= Down(Before0(Step(a)))
                          /\ Down(Before0(Step(a))) \in Nat
        OBVIOUS
      <4> HIDE DEF a
      <4>1. a <= Step(a) /\ a <= Before0(Step(a)) /\ Before0(Step(a)) \in Nat
        BY <3>1, <3>2, ProbeFacts, HoleFacts DEF Before0, Reserved
      <4> QED BY <3>1, <3>2, <4>1, DownMonotone
    <3> DEFINE s == Step(a)
    <3>6. Searching(s) => \A k \in K : /\ pmap[k].start <= Down(s) /\ pmap[k].end <= Down(s)
                                       /\ pmap[k].end <= Down(Before0(s))
      BY <3>3, <3>4, <3>5
    <3> HIDE DEF s, a
    <3>7. CASE /\ pmap' = [pmap EXCEPT ![msegs].start = Found(a)]
               /\ p' = s /\ pc' = "probe"
      <4>1. /\ pmap'[msegs].start = Down(a) /\ \A k \in K : pmap'[k] = pmap[k]
        BY <1>4, <1>5, <3>7 DEF Found, Maps, Elements
      <4>2. Down(a) # 0
        BY <3>1, ProbeFacts, DownPositive
      <4>3. Pairs'
        BY <2>1, <4>1 DEF Pairs
      <4>4. Searching(s) => Down(a) <= Down(s)
        BY <3>5 DEF s
      <4> QED BY <2>1, <3>4, <3>6, <3>7, <4>1, <4>2, <4>3, <4>4 DEF ProbeOrder
    <3>8. CASE pmap' = pmap /\ p' = Step(ProbeLimit) /\ pc' = "probe"
      <4>1. ~ Searching(Step(ProbeLimit))
        BY SearchEnds, ProbeFacts
      <4> QED BY <2>1, <3>8, <4>1 DEF ProbeOrder, Pairs
    <3>9. CASE pmap' = pmap /\ p' = s /\ pc' = "gap"
      <4>1. ~ Searching(s) => ~ Searching(Step(s))
        BY <3>2 DEF s
      <4> QED BY <2>1, <3>6, <3>9, <4>1 DEF ProbeOrder, Pairs
    <3> QED BY <1>9, <2>1, <2>3, <3>7, <3>8, <3>9 DEF ProbeGap, a, s
  <2> QED BY <2>2, <2>3
<1>10. CASE SearchOn \/ query_linuxbios \/ query_pcbios \/ StartBios \/ EndSweep \/ EndBuild
  BY <1>3, <1>10 DEF SearchOn, query_linuxbios, query_pcbios, ToSize, StartBios, EndSweep,
    memsize_801, EndBuild, TypesInv, FirmwareKnown
<1>11. CASE (\E c \in points : Sweep(c)) \/ BuildEntry \/ BuildLinuxbios \/ EndLinuxbios
  BY <1>3, <1>11 DEF Sweep, BuildEntry, BuildLinuxbios, EndLinuxbios, TypesInv, FirmwareKnown
<1>12. CASE EndProbe \/ SortElement \/ Finish
  BY <1>3, <1>12 DEF EndProbe, SortElement, Finish
<1> QED BY <1>2, <1>6, <1>8, <1>9, <1>10, <1>11, <1>12 DEF Next

LEMMA PairsAreSorted ==
  ASSUME NEW m \in Maps, NEW n \in 0 .. E820MAX,
         \A k, l \in 0 .. n - 1 : k < l => Pair(m[k], m[l])
  PROVE  /\ \A k, l \in 0 .. n - 1 : k < l => m[k].start <= m[l].start /\ Apart(m[k], m[l])
         /\ \A k \in 0 .. n - 1 : m[k].end <= m[n - 1].end
<1>1. \A k \in 0 .. n - 1 : m[k].end \in Nat
  BY DEF Maps, Elements
<1>2. ASSUME NEW k \in 0 .. n - 1 PROVE m[k].end <= m[n - 1].end
  <2>1. CASE k = n - 1
    BY <1>1, <2>1
  <2>2. CASE k # n - 1
    BY <2>2 DEF Pair
  <2> QED BY <2>1, <2>2
<1>3. \A k, l \in 0 .. n - 1 : k < l => m[k].start <= m[l].start /\ Apart(m[k], m[l])
  BY DEF Pair, Apart
<1> QED BY <1>2, <1>3

LEMMA Greatest ==
  ASSUME NEW n \in Nat, NEW S \in SUBSET (0 .. n), S # {}
  PROVE  Max(S) \in S /\ \A x \in S : x <= Max(S)
<1> DEFINE T == {n - x : x \in S}
<1>1. T \in SUBSET Nat
  OBVIOUS
<1>0. T # {}
  <2>1. PICK x \in S : TRUE
    OBVIOUS
  <2>2. n - x \in T
    BY <2>1
  <2> QED BY <2>2
<1>2. PICK t \in T : \A u \in T : t <= u
  BY <1>0, <1>1, Least
<1>3. PICK y \in S : t = n - y
  OBVIOUS
<1>4. \A x \in S : x \in 0 .. n /\ n - y <= n - x
  BY <1>2, <1>3
<1>5. \A x \in S : y >= x
  BY <1>4
<1> QED BY <1>4, <1>5 DEF Max

(* What sort_pmap() moves an element past begins where that element does.  *)
LEMMA PlaceIs ==
  ASSUME pmap \in Maps, i \in Nat, i <= E820MAX,
         \A k, l \in 0 .. i : k < l => pmap[k].start <= pmap[l].start
  PROVE  /\ Place(i) \in -1 .. i
         /\ \A k \in 0 .. i : Place(i) <= k => pmap[k].start = pmap[i].start
<1> DEFINE smaller == {k \in 0 .. i - 1 : pmap[k].start < pmap[i].start}
<1>1. \A k \in 0 .. i : pmap[k].start \in Nat
  BY DEF Maps, Elements
<1>2. \A k \in 0 .. i : pmap[k].start <= pmap[i].start
  BY <1>1
<1>3. CASE smaller = {}
  <2>1. Place(i) = -1
    BY <1>3 DEF Place
  <2>2. ASSUME NEW k \in 0 .. i PROVE pmap[k].start = pmap[i].start
    <3>1. k # i => ~ (pmap[k].start < pmap[i].start)
      BY <1>3
    <3> QED BY <1>1, <1>2, <3>1
  <2> QED BY <2>1, <2>2
<1>4. CASE smaller # {}
  <2>1. i - 1 \in Nat /\ smaller \in SUBSET (0 .. i - 1)
    BY <1>4
  <2>2. Max(smaller) \in smaller /\ \A x \in smaller : x <= Max(smaller)
    BY <1>4, <2>1, Greatest
  <2>3. Place(i) = Max(smaller) + 1
    BY <1>4 DEF Place
  <2> DEFINE b == Max(smaller)
  <2>4. b \in 0 .. i - 1 /\ Place(i) = b + 1
    BY <2>2, <2>3
  <2>5. ASSUME NEW k \in 0 .. i, b + 1 <= k PROVE pmap[k].start = pmap[i].start
    <3>1. k \notin smaller
      BY <2>2, <2>4, <2>5
    <3>2. k # i => ~ (pmap[k].start < pmap[i].start)
      BY <3>1
    <3> QED BY <1>1, <1>2, <3>2
  <2> HIDE DEF b
  <2> QED BY <2>4, <2>5
<1> QED BY <1>3, <1>4

LEMMA SortOrderNext ==
  ASSUME TypesInv, BuildOrder, ProbeOrder, SortOrder, MapTypes', [Next]_vars
  PROVE  SortOrder'
<1>1. ASSUME UNCHANGED <<pc, firmware, pmap, msegs, i, plim_upper>> PROVE SortOrder'
  BY <1>1 DEF SortOrder, Pairs, Fits, LastEnd
<1>2. CASE UNCHANGED vars
  BY <1>1, <1>2 DEF vars, given
<1>3. ASSUME pc' \notin {"sort", "done"} \/ firmware' = "linuxbios" PROVE SortOrder'
  BY <1>3 DEF SortOrder
<1>4. SUFFICES ASSUME Fits', Fits, firmware' # "linuxbios" PROVE SortOrder'
  BY FitsBefore DEF SortOrder
<1>5. /\ pmap \in Maps /\ msegs \in 0 .. E820MAX /\ i \in Nat
      /\ pmap' \in Maps /\ msegs' \in 0 .. E820MAX
  <2>1. pmap \in Maps /\ pmap' \in Maps
    BY <1>4 DEF TypesInv, MapTypes, Maps, Elements
  <2>2. msegs \in Nat /\ i \in Nat
    BY DEF TypesInv, Counts
  <2>3. msegs' \in Nat
    BY FitsBefore
  <2>4. msegs <= E820MAX /\ msegs' <= E820MAX
    BY <1>4 DEF Fits
  <2> QED BY <2>1, <2>2, <2>3, <2>4
<1>6. ASSUME Pairs', pc' = "sort" PROVE SortOrder'
  <2> DEFINE m == pmap'
             n == msegs'
  <2>1. m \in Maps /\ n \in 0 .. E820MAX /\ \A k, l \in 0 .. n - 1 : k < l => Pair(m[k], m[l])
    BY <1>5, <1>6 DEF Pairs
  <2> HIDE DEF m, n
  <2>2. /\ \A k, l \in 0 .. n - 1 : k < l => m[k].start <= m[l].start /\ Apart(m[k], m[l])
        /\ \A k \in 0 .. n - 1 : m[k].end <= m[n - 1].end
    BY <2>1, PairsAreSorted
  <2> QED BY <1>6, <2>2 DEF SortOrder, LastEnd, m, n
<1>7. CASE StartBios \/ EndSweep
  <2>1. CASE memsize_801
    <3>1. /\ pmap'[0] = [start |-> 0, end |-> Down(RES_START)]
          /\ pmap'[1] = [start |-> Up(RES_END), end |-> Down(RES_END) + ExtPages]
          /\ msegs' = 2 /\ pc' = "sort"
      BY <1>5, <2>1 DEF memsize_801, Maps, Down
    <3>2. /\ Up(RES_END) \in Nat /\ Down(RES_START) \in Nat /\ Down(RES_END) \in Nat
          /\ Down(RES_START) <= Up(RES_END) /\ Down(RES_START) <= Down(RES_END)
      BY HoleFacts, UpMonotone, DownMonotone
    <3>3. Pair(pmap'[0], pmap'[1])
      BY <3>1, <3>2 DEF Pair
    <3>4. Pairs'
      BY <3>1, <3>3 DEF Pairs
    <3> QED BY <1>6, <3>1, <3>4
  <2>2. CASE pc' \in {"sweep", "build"}
    BY <1>3, <2>2
  <2> QED BY <1>7, <2>1, <2>2 DEF StartBios, EndSweep
<1>8. CASE EndBuild
  <2>1. Pairs' /\ pc' = "sort"
    BY <1>8 DEF EndBuild, BuildOrder, Pairs
  <2> QED BY <1>6, <2>1
<1>9. CASE EndProbe
  <2>1. /\ pc = "probe" /\ ~ Searching(p) /\ pc' = "sort"
        /\ Pairs /\ \A k \in 0 .. msegs - 1 : pmap[k].end <= Down(ProbeLimit)
        /\ pmap[msegs].start # 0 => \A k \in 0 .. msegs - 1 :
             pmap[k].start <= pmap[msegs].start /\ pmap[k].end <= pmap[msegs].start
    BY <1>4, <1>9 DEF EndProbe, ProbeOrder
  <2>2. CASE pmap[msegs].start # 0
    <3>1. pmap' = [pmap EXCEPT ![msegs].end = Down(ProbeLimit)] /\ msegs' = msegs + 1
      BY <1>9, <2>2 DEF EndProbe
    <3>2. pmap[msegs] \in Elements /\ msegs \in -1 .. E820MAX
      BY <1>5 DEF Maps
    <3>3. /\ pmap'[msegs].start = pmap[msegs].start /\ pmap'[msegs].end = Down(ProbeLimit)
          /\ \A k \in 0 .. msegs - 1 : pmap'[k] = pmap[k]
      BY <1>5, <3>1, <3>2 DEF Maps, Elements
    <3>4. \A k \in 0 .. msegs - 1 : Pair(pmap'[k], pmap'[msegs])
      BY <2>1, <2>2, <3>3 DEF Pair
    <3>5. Pairs'
      <4> SUFFICES ASSUME NEW k \in 0 .. msegs, NEW l \in 0 .. msegs, k < l
                   PROVE  Pair(pmap'[k], pmap'[l])
        BY <1>5, <3>1 DEF Pairs
      <4>1. CASE l = msegs
        BY <1>5, <3>4, <4>1
      <4>2. CASE l # msegs
        BY <1>5, <2>1, <3>3, <4>2 DEF Pairs
      <4> QED BY <4>1, <4>2
    <3> QED BY <1>6, <2>1, <3>5
  <2>3. CASE pmap[msegs].start = 0
    <3>1. Pairs'
      BY <1>9, <2>1, <2>3 DEF EndProbe, Pairs
    <3> QED BY <1>6, <2>1, <3>1
  <2> QED BY <2>2, <2>3
<1>10. CASE SortElement
  <2> DEFINE j == Place(i)
             f(k) == IF k = j THEN i ELSE IF j < k /\ k < i THEN k + 1 ELSE k
             K == 0 .. msegs - 1
  <2>1. /\ pc = "sort" /\ firmware # "linuxbios" /\ i < msegs /\ pc' = "sort"
        /\ msegs' = msegs /\ i' = i + 1
    BY <1>4, <1>10 DEF SortElement, given
  <2>2. /\ \A k, l \in K : k < l => pmap[k].start <= pmap[l].start /\ Apart(pmap[k], pmap[l])
        /\ \A k \in K : pmap[k].end <= pmap[msegs - 1].end
    BY <1>4, <2>1 DEF SortOrder, LastEnd
  <2>3. j \in -1 .. i /\ \A k \in 0 .. i : j <= k => pmap[k].start = pmap[i].start
    BY <1>5, <2>1, <2>2, PlaceIs
  <2> HIDE DEF j
  <2>4. ASSUME NEW k \in K
        PROVE  /\ f(k) \in K /\ pmap'[k] = pmap[f(k)]
               /\ pmap[f(k)].start = pmap[k].start /\ pmap[k].start \in Nat
    <3>1. k \in DOMAIN pmap /\ k \in -1 .. E820MAX /\ pmap[k].start \in Nat
      <4>1. k \in -1 .. E820MAX
        BY <1>5, <2>4
      <4> HIDE DEF K, f
      <4> QED BY <1>5, <4>1 DEF Maps, Elements
    <3>2. pmap' = [n \in DOMAIN pmap |->
                    CASE n = j          -> pmap[i]
                      [] j < n /\ n < i -> pmap[n + 1]
                      [] OTHER          -> pmap[n]]
      BY <1>10 DEF SortElement, j
    <3>3. pmap'[k] = pmap[f(k)]
      <4>1. CASE k = j
        BY <2>3, <3>1, <3>2, <4>1
      <4>2. CASE j < k /\ k < i
        BY <2>3, <3>1, <3>2, <4>2
      <4>3. CASE k # j /\ ~ (j < k /\ k < i)
        BY <3>1, <3>2, <4>3
      <4> QED BY <4>1, <4>2, <4>3
    <3>4. f(k) \in K
      BY <1>5, <2>1, <2>3
    <3>5. pmap[f(k)].start = pmap[k].start
      BY <1>5, <2>1, <2>3
    <3> QED BY <3>1, <3>3, <3>4, <3>5
  <2>5. f(msegs - 1) = msegs - 1
    BY <1>5, <2>1, <2>3
  <2> HIDE DEF f
  <2>6. ASSUME NEW k \in K, NEW l \in K, k < l
        PROVE  pmap'[k].start <= pmap'[l].start /\ Apart(pmap'[k], pmap'[l])
    <3>1. pmap[k].start <= pmap[l].start
      BY <2>2, <2>6
    <3>2. pmap'[k].start <= pmap'[l].start
      BY <2>4, <3>1
    <3>3. CASE f(k) = f(l)
      BY <2>4, <3>3 DEF Apart
    <3>4. CASE f(k) < f(l)
      BY <2>2, <2>4, <3>4
    <3>5. CASE f(l) < f(k)
      <4>1. pmap[f(l)].start <= pmap[f(k)].start /\ Apart(pmap[f(l)], pmap[f(k)])
        BY <2>2, <2>4, <3>5
      <4>2. pmap[f(l)].start = pmap[f(k)].start
        BY <2>4, <3>1, <4>1
      <4> QED BY <2>4, <3>2, <4>1, <4>2 DEF Apart
    <3>6. f(k) \in Int /\ f(l) \in Int
      BY <1>5, <2>4
    <3> QED BY <3>2, <3>3, <3>4, <3>5, <3>6
  <2>7. \A k \in K : pmap'[k].end <= pmap'[msegs - 1].end
    <3> TAKE k \in K
    <3>1. msegs - 1 \in K
      BY <1>5
    <3> QED BY <2>2, <2>4, <2>5, <3>1
  <2> QED BY <1>5, <2>1, <2>6, <2>7 DEF SortOrder, LastEnd
<1>11. CASE Finish
  <2>1. UNCHANGED <<pmap, msegs, i, firmware>> /\ pc = "sort" /\ plim_upper' = LastEnd
    BY <1>11 DEF Finish, given
  <2> QED BY <1>4, <2>1 DEF SortOrder, Pairs, LastEnd
<1>12. CASE SearchOn \/ query_linuxbios \/ query_pcbios
  BY <1>3, <1>12 DEF SearchOn, query_linuxbios, query_pcbios, ToSize, TypesInv, FirmwareKnown
<1>13. CASE (\E c \in points : Sweep(c)) \/ BuildEntry
  BY <1>3, <1>13 DEF Sweep, BuildEntry
<1>14. CASE BuildLinuxbios \/ EndLinuxbios
  BY <1>3, <1>14 DEF BuildLinuxbios, EndLinuxbios, given
<1>15. CASE StartProbe \/ Probe \/ ProbeGap
  BY <1>3, <1>15 DEF StartProbe, Probe, EndsAt, ProbeGap
<1> QED BY <1>2, <1>7, <1>8, <1>9, <1>10, <1>11, <1>12, <1>13, <1>14, <1>15 DEF Next

-----------------------------------------------------------------------------
LEMMA InvNext == IInv /\ [Next]_vars => IInv'
<1> SUFFICES ASSUME IInv, [Next]_vars PROVE IInv'
  OBVIOUS
<1>1. TypesInv'
  BY TypesNext DEF IInv, OrderInv
<1>2. OrderInv'
  BY <1>1, SweepOrderNext, BuildOrderNext, ProbeOrderNext, SortOrderNext
     DEF IInv, OrderInv, TypesInv
<1> QED BY <1>1, <1>2 DEF IInv

LEMMA InvAlways == Spec => []IInv
BY InvInit, InvNext, PTL DEF Spec

(* Whatever the BIOS or coreboot say, there is room for it.                *)
LEMMA TablesFit == IInv => (mode # "probe" => Fits)
BY DEF IInv, TypesInv, Counts

(* Everything has its type, and no table writes beyond v->pmap or the      *)
(* sanitised map; a search may, and has its types as long as it fits.      *)
THEOREM TypesAlways == Spec => [](mode # "probe" \/ Fits => TypeOK)
<1>1. IInv => (mode # "probe" \/ Fits => TypeOK)
  <2> SUFFICES ASSUME IInv, Fits PROVE TypeOK
    BY TablesFit
  <2>1. i \in 0 .. E820MAX /\ msegs \in 0 .. E820MAX
    BY DEF IInv, TypesInv, Counts, Fits, FirmwareKnown, TableTypes, SweepTypes
  <2> QED BY <2>1 DEF IInv, TypesInv, TypeOK, FirmwareKnown, SweepTypes, MapTypes, Entries820
<1> QED BY <1>1, InvAlways, PTL

(* The memory map is built in ascending order from any table and any       *)
(* memory, whatever the hole clips; sort_pmap() keeps it so, but for       *)
(* elements that begin at the same page; and the limit is the end of it.   *)
THEOREM MapAlwaysInOrder == Spec => [](mode # "probe" \/ Fits => MapInOrder)
<1>1. IInv => (mode # "probe" \/ Fits => MapInOrder)
  <2> SUFFICES ASSUME IInv, Fits PROVE MapInOrder
    BY TablesFit
  <2>1. msegs \in 0 .. E820MAX /\ pmap \in Maps
    BY DEF IInv, TypesInv, Counts, Fits, MapTypes, Maps, Elements
  <2>2. \A k \in 0 .. msegs - 1 : pmap[k].start \in Nat /\ pmap[k].end \in Nat
    BY <2>1 DEF Maps, Elements
  <2>3. BuiltInOrder
    <3> SUFFICES ASSUME pc = "sort", i = 0, firmware # "linuxbios", NEW k \in 0 .. msegs - 2
                 PROVE  pmap[k].start <= pmap[k + 1].start /\ pmap[k].end <= pmap[k + 1].start
      BY DEF BuiltInOrder
    <3>1. Pairs
      BY DEF IInv, OrderInv, SortOrder
    <3>2. k \in 0 .. msegs - 1 /\ k + 1 \in 0 .. msegs - 1 /\ k < k + 1
      BY <2>1
    <3> QED BY <3>1, <3>2 DEF Pairs, Pair
  <2>4. StillInOrder
    <3> SUFFICES ASSUME pc = "done", firmware # "linuxbios",
                        NEW k \in 0 .. msegs - 1, NEW l \in 0 .. msegs - 1, k < l
                 PROVE  /\ pmap[k].start <= pmap[l].start
                        /\ pmap[k] = pmap[l] \/ PagesOf(k) \cap PagesOf(l) = {}
      BY DEF StillInOrder
    <3>1. pmap[k].start <= pmap[l].start /\ Apart(pmap[k], pmap[l])
      BY DEF IInv, OrderInv, SortOrder
    <3> QED BY <2>2, <3>1 DEF Apart, PagesOf
  <2>5. LimitIsEnd
    <3> SUFFICES ASSUME pc = "done", firmware # "linuxbios",
                        NEW k \in 0 .. msegs - 1, NEW page \in PagesOf(k)
                 PROVE  page < plim_upper
      BY DEF LimitIsEnd, MapPages
    <3>1. pmap[k].end <= plim_upper
      BY DEF IInv, OrderInv, SortOrder
    <3>2. plim_upper \in Nat
      BY DEF IInv, TypesInv, MapTypes
    <3> QED BY <2>2, <3>1, <3>2 DEF PagesOf
  <2> QED BY <2>3, <2>4, <2>5 DEF MapInOrder
<1> QED BY <1>1, InvAlways, PTL

-----------------------------------------------------------------------------
(* What the BIOS reports, exactly.  A change point is passed once it is    *)
(* taken.  What lies below a point passed has the type of the open entry,  *)
(* or is in one that was closed, or has none; the entries over a unit      *)
(* between the last point passed and the next are those of overlap.  An    *)
(* entry is closed where the type changes, not only where another begins:  *)
(* a usable page is never in two of them.                                  *)
AllPoints == (DOMAIN e820) \X {"from", "to"}
Passed    == AllPoints \ points
PassedBy(u) == \E d \in Passed : u < AddressOf(d)
InOpen(u) == last_type # 0 /\ last_addr <= u
InClosed(u) == \E k \in DOMAIN new_bios : Within(new_bios[k], u)

ClosedTrue ==
  \A k \in DOMAIN new_bios :
    /\ EndAt(k) < AddressLimit /\ TypeAt(EndAt(k)) # new_bios[k].type
    /\ \A u \in Units : Within(new_bios[k], u) => TypeAt(u) = new_bios[k].type
SweepTrue ==
  /\ overlap = {k \in DOMAIN e820 : <<k, "from">> \notin points /\ <<k, "to">> \in points}
  /\ last_type = Covering(overlap)
  /\ \A d \in Passed, c \in points : ~ Before(c, d)
  /\ last_type # 0 => \E d \in Passed : AddressOf(d) = last_addr
  /\ \A u \in Units : PassedBy(u) =>
       /\ InOpen(u) => TypeAt(u) = last_type
       /\ TypeAt(u) # 0 => InOpen(u) \/ InClosed(u)
BiosTrue ==
  firmware = "pcbios" /\ Plain =>
    /\ ClosedTrue
    /\ pc = "build" => new_bios # <<>>
    /\ pc = "sweep" /\ Len(new_bios) < E820MAX => SweepTrue
    /\ pc \in {"build", "sort", "done"} /\ new_bios # <<>> /\ Len(new_bios) < E820MAX =>
         \A u \in Units : TypeAt(u) # 0 => InClosed(u)

(* The map has the pages of the entries built so far, and the sort loses   *)
(* none: what it puts an element over is empty.                            *)
Usable(e) ==
  /\ e.type \in {RAM, ACPI}
  /\ ~ (InHole(e.addr) /\ e.addr + e.size < RES_END)
BuiltPages(e) == Up(From(e)) .. Down(To(e)) - 1
EntriesBuilt == IF pc = "build" THEN i ELSE Len(new_bios)
BuildTrue ==
  firmware = "pcbios" /\ pc \in {"build", "sort", "done"} /\ new_bios # <<>> =>
    MapPages = UNION {BuiltPages(new_bios[n]) :
                        n \in {m \in 1 .. EntriesBuilt : Usable(new_bios[m])}}
SortTrue ==
  firmware = "pcbios" /\ pc = "sort" =>
    \A k, l \in 0 .. msegs - 1 : k < l /\ i <= l => Pair(pmap[k], pmap[l])
ExactInv == BiosTrue /\ BuildTrue /\ SortTrue

(* A change point's address and kind, in a plain table.                    *)
LEMMA PointIs ==
  ASSUME TypesInv, Plain, NEW k \in DOMAIN e820
  PROVE  /\ e820[k].addr \in Nat /\ EndOf(k) = e820[k].addr + e820[k].size
         /\ e820[k].size \in Nat \ {0} /\ EndOf(k) \in Units /\ e820[k].addr \in Units
         /\ e820[k].type \in 1 .. NVS
         /\ AddressOf(<<k, "from">>) = e820[k].addr /\ AddressOf(<<k, "to">>) = EndOf(k)
         /\ IsStart(<<k, "from">>) /\ ~ IsStart(<<k, "to">>)
         /\ \A u \in Units : Within(e820[k], u) <=> e820[k].addr <= u /\ u < EndOf(k)
<1> DEFINE a == e820[k].addr
           s == e820[k].size
           n == EndOf(k)
<1>1. /\ a \in 0 .. AddressLimit - 1 /\ s \in 0 .. AddressLimit - 1 /\ s # 0
      /\ e820[k].type \in 1 .. NVS
  <2>1. e820[k] \in Entry
    BY DEF TypesInv, TableTypes
  <2> QED BY <2>1 DEF Plain, Entry, RAM, RESERVED, ACPI, NVS
<1>2. n = (a + s) % AddressLimit /\ ~ (n < a)
  BY DEF EndOf, Plain, Unreasonable
<1>3. AddressOf(<<k, "from">>) = a /\ AddressOf(<<k, "to">>) = n
  BY DEF AddressOf
<1>4. \A u \in Units : Within(e820[k], u) <=> a <= u /\ u < a + s
  BY DEF Within
<1> HIDE DEF a, s, n
<1>5. n = a + s /\ n < AddressLimit
  <2> DEFINE t == a + s
  <2>1. t \in Nat /\ t < 2 * AddressLimit /\ AddressLimit \in Nat \ {0}
    BY <1>1, ProbeFacts
  <2>2. n = t % AddressLimit
    BY <1>2
  <2>3. t = a + s
    OBVIOUS
  <2> HIDE DEF t
  <2>4. t % AddressLimit = IF t < AddressLimit THEN t ELSE t - AddressLimit
    BY <2>1, ModOnce
  <2> QED BY <1>1, <1>2, <2>1, <2>2, <2>3, <2>4
<1>6. n \in Units /\ a \in Units /\ a < n
  BY <1>1, <1>5 DEF Units
<1>7. IsStart(<<k, "from">>) /\ ~ IsStart(<<k, "to">>)
  BY <1>1, <1>3, <1>6 DEF IsStart, a, n, Units
<1> QED BY <1>1, <1>3, <1>4, <1>5, <1>6, <1>7 DEF a, s, n

LEMMA PassedIs ==
  ASSUME TypesInv, Plain, NEW c \in AllPoints
  PROVE  /\ c[1] \in DOMAIN e820 /\ (c = <<c[1], "from">> \/ c = <<c[1], "to">>)
         /\ AddressOf(c) \in Units
<1>1. c[1] \in DOMAIN e820 /\ (c = <<c[1], "from">> \/ c = <<c[1], "to">>)
  BY DEF AllPoints
<1> QED BY <1>1, PointIs

LEMMA CoveringIs ==
  ASSUME TypesInv, NEW S \in SUBSET DOMAIN e820
  PROVE  /\ Covering(S) \in 0 .. NVS
         /\ \A k \in S : e820[k].type <= Covering(S)
         /\ Covering(S) # 0 => \E k \in S : e820[k].type = Covering(S)
<1> DEFINE T == {e820[k].type : k \in S} \cup {0}
<1>1. ASSUME NEW k \in S PROVE e820[k].type \in 0 .. NVS
  <2>1. e820[k] \in Entry
    BY DEF TypesInv, TableTypes
  <2> QED BY <2>1 DEF Entry, NVS, RAM, RESERVED, ACPI
<1>2. T \in SUBSET (0 .. NVS) /\ T # {} /\ NVS \in Nat
  BY <1>1 DEF NVS
<1> DEFINE m == Covering(S)
<1>3. m = Max(T)
  BY DEF Covering
<1>4. \A k \in S : e820[k].type \in T
  OBVIOUS
<1>5. \A t \in T : t = 0 \/ \E k \in S : e820[k].type = t
  OBVIOUS
<1> HIDE DEF T, m
<1>6. m \in T /\ \A t \in T : t <= m
  BY <1>2, <1>3, Greatest
<1> QED BY <1>2, <1>4, <1>5, <1>6 DEF m

(* The entries over a unit.                                                *)
Over(u) == {n \in DOMAIN e820 : Within(e820[n], u)}
LEMMA TypeIsCovering == \A u : TypeAt(u) = Covering(Over(u))
BY DEF TypeAt, Covering, Over

(* The least of the points to come and those passed.                       *)
IsNext(c) == c \in points /\ \A d \in points : ~ Before(d, c)

LEMMA NextIs ==
  ASSUME TypesInv, Plain, SweepTrue, NEW c, IsNext(c)
  PROVE  /\ c \in AllPoints /\ AddressOf(c) \in Units
         /\ \A d \in points :
              d \in AllPoints /\ AddressOf(d) \in Units /\ AddressOf(c) <= AddressOf(d)
         /\ \A d \in Passed : AddressOf(d) \in Units /\ AddressOf(d) <= AddressOf(c)
         /\ \A u \in Units : PassedBy(u) => u < AddressOf(c)
<1>1. points \subseteq AllPoints
  BY DEF TypesInv, SweepTypes, AllPoints
<1>2. \A d \in AllPoints : AddressOf(d) \in Nat /\ AddressOf(d) \in Units
  BY PassedIs DEF Units
<1>3. c \in AllPoints /\ AddressOf(c) \in Nat /\ AddressOf(c) \in Units
  BY <1>1, <1>2 DEF IsNext
<1>4. ASSUME NEW d \in points PROVE AddressOf(c) <= AddressOf(d)
  BY <1>1, <1>2, <1>3, <1>4 DEF IsNext, Before
<1>5. ASSUME NEW d \in Passed PROVE AddressOf(d) <= AddressOf(c)
  <2>1. ~ Before(c, d) /\ d \in AllPoints
    BY DEF SweepTrue, IsNext, Passed
  <2> QED BY <1>2, <1>3, <2>1 DEF Before
<1>6. \A d \in Passed : AddressOf(d) \in Units
  BY <1>2 DEF Passed
<1>7. \A u \in Units : PassedBy(u) => u < AddressOf(c)
  BY <1>3, <1>5, <1>6 DEF PassedBy, Units
<1> QED BY <1>1, <1>2, <1>3, <1>4, <1>5, <1>6, <1>7

(* Between the last point passed and the next, overlap is what is there.   *)
LEMMA TypeBetween ==
  ASSUME TypesInv, Plain, SweepTrue, NEW c, IsNext(c), NEW u \in Units,
         ~ PassedBy(u), u < AddressOf(c)
  PROVE  TypeAt(u) = last_type
<1>1. \A k \in DOMAIN e820 :
        Within(e820[k], u) <=> <<k, "from">> \notin points /\ <<k, "to">> \in points
  <2> TAKE k \in DOMAIN e820
  <2> DEFINE from == <<k, "from">>
             to == <<k, "to">>
  <2>1. from \in AllPoints /\ to \in AllPoints
    BY DEF AllPoints
  <2>2. /\ Within(e820[k], u) <=> AddressOf(from) <= u /\ u < AddressOf(to)
        /\ AddressOf(from) \in Nat /\ AddressOf(to) \in Nat /\ u \in Nat
        /\ AddressOf(c) \in Nat
    BY PointIs, NextIs DEF Units
  <2>3. \A d \in points : AddressOf(c) <= AddressOf(d)
    BY NextIs
  <2>4. \A d \in Passed : ~ (u < AddressOf(d))
    BY DEF PassedBy
  <2>5. (from \in points \/ from \in Passed) /\ (to \in points \/ to \in Passed)
    BY <2>1 DEF Passed
  <2>6. ~ (from \in points /\ from \in Passed) /\ ~ (to \in points /\ to \in Passed)
    BY DEF Passed
  <2> HIDE DEF from, to
  <2>7. from \in points <=> u < AddressOf(from)
    BY <2>2, <2>3, <2>4, <2>5, <2>6
  <2>8. to \in points <=> u < AddressOf(to)
    BY <2>2, <2>3, <2>4, <2>5, <2>6
  <2>9. Within(e820[k], u) <=> from \notin points /\ to \in points
    BY <2>2, <2>7, <2>8
  <2> QED BY <2>9 DEF from, to
<1>2. Over(u) = overlap
  BY <1>1 DEF Over, SweepTrue
<1> QED BY <1>2, TypeIsCovering DEF SweepTrue

(* Where the type changes for the first time, it is not the old one.       *)
LEMMA TypeChanges ==
  ASSUME TypesInv, Plain, SweepTrue, NEW c, IsNext(c), NEW S,
         S = IF IsStart(c) THEN overlap \cup {c[1]} ELSE overlap \ {c[1]},
         Covering(S) # last_type
  PROVE  TypeAt(AddressOf(c)) # last_type
<1> DEFINE a == AddressOf(c)
           k == c[1]
<1>1. /\ k \in DOMAIN e820 /\ a \in Units /\ overlap \in SUBSET DOMAIN e820
      /\ S \in SUBSET DOMAIN e820 /\ Over(a) \in SUBSET DOMAIN e820
      /\ c = <<k, "from">> \/ c = <<k, "to">>
  BY NextIs, PassedIs DEF Over, TypesInv, SweepTypes
<1>2. /\ last_type = Covering(overlap) /\ TypeAt(a) = Covering(Over(a))
      /\ last_type \in 0 .. NVS /\ TypeAt(a) \in 0 .. NVS /\ Covering(S) \in 0 .. NVS
  BY <1>1, CoveringIs, TypeIsCovering DEF SweepTrue
<1>3. CASE c = <<k, "from">>
  <2>1. a = e820[k].addr /\ IsStart(c) /\ k \in Over(a) /\ e820[k].type \in 1 .. NVS
    <3>1. Within(e820[k], a) <=> e820[k].addr <= a /\ a < EndOf(k)
      BY <1>1, PointIs
    <3>2. a = e820[k].addr /\ IsStart(c) /\ EndOf(k) = a + e820[k].size
          /\ e820[k].size \in Nat \ {0} /\ e820[k].type \in 1 .. NVS /\ a \in Nat
      BY <1>1, <1>3, PointIs
    <3>3. k \in Over(a)
      BY <1>1, <3>1, <3>2 DEF Over
    <3> QED BY <3>2, <3>3
  <2>2. S = overlap \cup {k}
    BY <2>1
  <2>3. e820[k].type <= TypeAt(a)
    BY <1>1, <1>2, <2>1, CoveringIs
  <2>4. \A n \in overlap : e820[n].type <= last_type
    BY <1>1, <1>2, CoveringIs
  <2>5. last_type # 0 => \E n \in overlap : e820[n].type = last_type
    BY <1>1, <1>2, CoveringIs
  <2>6. last_type <= Covering(S)
    BY <1>1, <1>2, <2>2, <2>5, CoveringIs
  <2>7. \E n \in S : e820[n].type = Covering(S)
    BY <1>1, <1>2, <2>6, CoveringIs
  <2>8. e820[k].type = Covering(S)
    BY <1>2, <2>2, <2>4, <2>6, <2>7
  <2> QED BY <1>2, <2>1, <2>3, <2>6, <2>8
<1>4. CASE c = <<k, "to">>
  <2>1. a = EndOf(k) /\ ~ IsStart(c) /\ S = overlap \ {k}
    BY <1>1, <1>4, PointIs
  <2>2. ASSUME NEW n \in Over(a) PROVE n \in S
    <3> DEFINE from == <<n, "from">>
               to == <<n, "to">>
    <3>1. n \in DOMAIN e820 /\ from \in AllPoints /\ to \in AllPoints
      BY DEF Over, AllPoints
    <3>2. /\ AddressOf(from) <= a /\ a < AddressOf(to) /\ IsStart(from)
          /\ AddressOf(from) \in Nat /\ AddressOf(to) \in Nat /\ a \in Nat
          /\ AddressOf(to) = EndOf(n)
      BY <1>1, <3>1, PointIs DEF Over, Units
    <3>3. from \notin points
      <4> SUFFICES ASSUME from \in points PROVE FALSE
        OBVIOUS
      <4>1. a <= AddressOf(from) /\ ~ Before(from, c)
        BY NextIs DEF IsNext
      <4> HIDE DEF a, from, to
      <4>2. AddressOf(from) = a
        BY <3>2, <4>1
      <4> QED BY <2>1, <3>2, <4>1, <4>2 DEF Before, a
    <3>4. to \in points
      <4>1. to \notin Passed
        BY <3>2, NextIs
      <4> QED BY <3>1, <4>1 DEF Passed
    <3>5. n # k
      BY <2>1, <3>2
    <3> QED BY <2>1, <3>1, <3>3, <3>4, <3>5 DEF SweepTrue
  <2>3. TypeAt(a) <= Covering(S)
    BY <1>1, <1>2, <2>2, CoveringIs
  <2>4. Covering(S) <= last_type
    BY <1>1, <1>2, <2>1, CoveringIs
  <2> QED BY <1>2, <2>3, <2>4
<1> QED BY <1>1, <1>3, <1>4

(* What was closed stays, and the entry that is closed has its type all    *)
(* over, and not where it ends.                                            *)
LEMMA SweepTrueNext ==
  ASSUME TypesInv, SweepOrder, ClosedTrue, SweepTrue, Plain, NEW c \in points, Sweep(c)
  PROVE  ClosedTrue' /\ (Len(new_bios') < E820MAX => SweepTrue')
<1> DEFINE a == AddressOf(c)
           k == c[1]
           S == IF IsStart(c) THEN overlap \cup {c[1]} ELSE overlap \ {c[1]}
           new == new_bios'
           e == [addr |-> last_addr, size |-> a - last_addr, type |-> last_type]
           n == Len(new_bios)
<1>1. /\ pc = "sweep" /\ IsNext(c) /\ UNCHANGED e820 /\ overlap' = S
      /\ new_bios \in Seq(Entries820) /\ last_addr \in Nat /\ last_type \in 0 .. NVS
      /\ overlap \in SUBSET DOMAIN e820
      /\ DOMAIN new_bios = 1 .. n /\ n \in Nat
  BY DEF Sweep, IsNext, TypesInv, SweepTypes
<1>2. /\ a \in Units /\ c \in AllPoints /\ k \in DOMAIN e820 /\ a \in Nat /\ last_addr <= a
      /\ c = <<k, "from">> \/ c = <<k, "to">>
      /\ \A d \in Passed : AddressOf(d) \in Units /\ AddressOf(d) \in Nat /\ AddressOf(d) <= a
      /\ \A u \in Units : PassedBy(u) => u < a
  BY <1>1, NextIs, PassedIs DEF SweepOrder, Units
<1>3. \A u \in Units : InOpen(u) /\ u < a => TypeAt(u) = last_type
  BY <1>1, TypeBetween DEF SweepTrue
<1>4. \A u \in Units : u < a /\ TypeAt(u) # 0 => InOpen(u) \/ InClosed(u)
  <2> SUFFICES ASSUME NEW u \in Units, u < a, TypeAt(u) # 0, ~ PassedBy(u) PROVE InOpen(u)
    BY DEF SweepTrue
  <2>1. last_type # 0
    BY <1>1, TypeBetween
  <2>2. PICK d \in Passed : AddressOf(d) = last_addr
    BY <2>1 DEF SweepTrue
  <2>3. ~ (u < last_addr)
    BY <2>2 DEF PassedBy
  <2> QED BY <1>1, <2>1, <2>3 DEF InOpen, Units
<1>5. /\ \A u : (TypeAt(u))' = TypeAt(u)
      /\ \A d : (AddressOf(d))' = AddressOf(d)
      /\ \A d, f : Before(d, f)' <=> Before(d, f)
      /\ AllPoints' = AllPoints
  <2>1. \A u : (TypeAt(u))' = TypeAt(u)
    BY <1>1 DEF TypeAt, Within
  <2>2. \A d : (AddressOf(d))' = AddressOf(d)
    BY <1>1 DEF AddressOf, EndOf
  <2>3. \A d, f : Before(d, f)' <=> Before(d, f)
    BY <1>1, <2>2, Zenon DEF Before, IsStart
  <2>4. AllPoints' = AllPoints
    BY <1>1 DEF AllPoints
  <2> QED BY <2>1, <2>2, <2>3, <2>4
<1>6. \/ /\ Covering(S) = last_type /\ new = new_bios
         /\ last_type' = last_type /\ last_addr' = last_addr
      \/ /\ Covering(S) # last_type /\ new = Closed(a) /\ last_type' = Covering(S)
         /\ Covering(S) # 0 => last_addr' = a
  <2>1. Covering(overlap') = Covering(S)
    BY <1>1
  <2> HIDE DEF S, new
  <2> QED BY <1>1, <2>1 DEF Sweep, StartsAt, new
<1>7. \/ new = new_bios /\ (Covering(S) = last_type \/ last_type = 0 \/ a = last_addr)
      \/ /\ new = Append(new_bios, e) /\ Covering(S) # last_type
         /\ last_type # 0 /\ a # last_addr
  BY <1>6 DEF Closed
<1>8. \A x \in DOMAIN new_bios : x \in DOMAIN new /\ new[x] = new_bios[x]
  BY <1>1, <1>7
<1> DEFINE End(x) == new[x].addr + new[x].size
<1>9. \A x \in DOMAIN new :
        /\ End(x) < AddressLimit /\ TypeAt(End(x)) # new[x].type
        /\ \A u \in Units : Within(new[x], u) => TypeAt(u) = new[x].type
  <2> TAKE x \in DOMAIN new
  <2>1. CASE x \in DOMAIN new_bios
    <3>1. new[x] = new_bios[x] /\ End(x) = EndAt(x)
      BY <1>8, <2>1 DEF EndAt
    <3> HIDE DEF new, End
    <3> QED BY <2>1, <3>1 DEF ClosedTrue
  <2>2. CASE x \notin DOMAIN new_bios
    <3>1. new[x] = e /\ Covering(S) # last_type /\ last_type # 0
      <4> HIDE DEF e
      <4> QED BY <1>1, <1>7, <2>2
    <3>2. End(x) = a /\ new[x].type = last_type
      BY <1>1, <1>2, <3>1
    <3>3. TypeAt(a) # last_type
      BY <1>1, <3>1, TypeChanges
    <3>4. \A u \in Units : Within(new[x], u) => InOpen(u) /\ u < a
      <4>1. new[x].addr = last_addr /\ new[x].addr + new[x].size = a
        BY <3>1, <3>2
      <4> HIDE DEF new, a
      <4> QED BY <3>1, <4>1 DEF Within, InOpen
    <3> HIDE DEF new, a, End
    <3> QED BY <1>2, <1>3, <3>2, <3>3, <3>4 DEF Units
  <2> QED BY <2>1, <2>2
<1>10. ClosedTrue'
  <2>1. (\A x : (EndAt(x))' = End(x)) /\ \A x : (TypeAt(EndAt(x)))' = TypeAt(End(x))
    <3>1. \A x : (EndAt(x))' = End(x)
      BY DEF EndAt
    <3>2. \A x : (TypeAt(EndAt(x)))' = TypeAt(End(x))
      BY <1>1, <3>1 DEF TypeAt, Within
    <3> QED BY <3>1, <3>2
  <2> HIDE DEF End
  <2> QED BY <1>5, <1>9, <2>1 DEF ClosedTrue, Within
<1>11. \A u \in Units : u < a /\ TypeAt(u) # 0 =>
         \/ last_type' # 0 /\ last_addr' <= u
         \/ \E x \in DOMAIN new : Within(new[x], u)
  <2> SUFFICES ASSUME NEW u \in Units, u < a, TypeAt(u) # 0
               PROVE  \/ last_type' # 0 /\ last_addr' <= u
                      \/ \E x \in DOMAIN new : Within(new[x], u)
    OBVIOUS
  <2>1. CASE InClosed(u)
    <3> HIDE DEF new
    <3> QED BY <1>8, <2>1 DEF InClosed
  <2>2. CASE InOpen(u) /\ new = new_bios
    <3>1. last_type # 0 /\ last_addr <= u /\ a # last_addr
      BY <1>1, <1>2, <2>2 DEF InOpen, Units
    <3>2. Covering(S) = last_type
      <4>1. Append(new_bios, e) # new_bios
        <5> HIDE DEF e
        <5>1. n + 1 \in DOMAIN Append(new_bios, e) /\ n + 1 \notin DOMAIN new_bios
          BY <1>1
        <5> QED BY <5>1
      <4> HIDE DEF S, new, a, e
      <4> QED BY <1>7, <2>2, <3>1, <4>1
    <3> HIDE DEF S, new, a
    <3> QED BY <1>6, <3>1, <3>2
  <2>3. CASE InOpen(u) /\ new = Append(new_bios, e)
    <3>1. Within(e, u)
      BY <1>1, <1>2, <2>3 DEF InOpen, Within, Units
    <3>2. n + 1 \in DOMAIN new /\ new[n + 1] = e
      <4> HIDE DEF e
      <4> QED BY <1>1, <2>3
    <3> HIDE DEF new, e, n
    <3> QED BY <3>1, <3>2
  <2>4. InOpen(u) \/ InClosed(u)
    BY <1>4
  <2> QED BY <1>7, <2>1, <2>2, <2>3, <2>4
<1>12. ASSUME Len(new) < E820MAX PROVE SweepTrue'
  <2>1. points' = points \ {c}
    BY <1>1, <1>12 DEF Sweep, Full
  <2>2. Passed' = Passed \cup {c}
    BY <1>2, <1>5, <2>1 DEF Passed
  <2>3. \A u \in Units : (PassedBy(u))' => u < a
    BY <1>2, <1>5, <2>2 DEF PassedBy, Units
  <2>4. overlap' = {m \in DOMAIN e820 : <<m, "from">> \notin points' /\ <<m, "to">> \in points'}
    <3>1. /\ overlap' = S
          /\ overlap = {m \in DOMAIN e820 :
                          <<m, "from">> \notin points /\ <<m, "to">> \in points}
      BY <1>1 DEF SweepTrue
    <3>2. CASE c = <<k, "from">>
      <4>1. IsStart(c) /\ S = overlap \cup {k} /\ Before(c, <<k, "to">>)
        <5>1. /\ IsStart(<<k, "from">>)
              /\ AddressOf(<<k, "to">>) = AddressOf(<<k, "from">>) + e820[k].size
              /\ e820[k].size \in Nat \ {0} /\ AddressOf(<<k, "from">>) \in Nat
          BY <1>2, PointIs
        <5> QED BY <3>2, <5>1 DEF Before
      <4>2. <<k, "to">> \in points'
        <5>1. <<k, "to">> \in AllPoints /\ <<k, "to">> # c
          BY <1>2, <3>2 DEF AllPoints
        <5>2. <<k, "to">> \notin Passed
          BY <4>1 DEF SweepTrue
        <5> QED BY <2>1, <5>1, <5>2 DEF Passed
      <4>3. <<k, "from">> \notin points'
        BY <2>1, <3>2
      <4>4. \A m \in DOMAIN e820 : m # k =>
              /\ <<m, "from">> \in points' <=> <<m, "from">> \in points
              /\ <<m, "to">> \in points' <=> <<m, "to">> \in points
        BY <2>1, <3>2
      <4> HIDE DEF k, S
      <4> QED BY <1>2, <3>1, <4>1, <4>2, <4>3, <4>4
    <3>3. CASE c = <<k, "to">>
      <4>1. S = overlap \ {k}
        BY <1>2, <3>3, PointIs
      <4>2. <<k, "to">> \notin points'
        BY <2>1, <3>3
      <4>3. \A m \in DOMAIN e820 : m # k =>
              /\ <<m, "from">> \in points' <=> <<m, "from">> \in points
              /\ <<m, "to">> \in points' <=> <<m, "to">> \in points
        BY <2>1, <3>3
      <4> HIDE DEF k, S
      <4> QED BY <3>1, <4>1, <4>2, <4>3
    <3> QED BY <1>2, <3>2, <3>3
  <2>5. last_type' = Covering(overlap')
    BY <1>1, <1>6
  <2>6. \A d \in Passed', f \in points' : ~ Before(f, d)
    BY <1>1, <2>1, <2>2 DEF SweepTrue, IsNext
  <2>7. last_type' # 0 => \E d \in Passed' : AddressOf(d) = last_addr'
    <3> HIDE DEF S, new
    <3> QED BY <1>6, <2>2 DEF SweepTrue
  <2>8. \A u \in Units : (PassedBy(u))' =>
          /\ last_type' # 0 /\ last_addr' <= u => TypeAt(u) = last_type'
          /\ TypeAt(u) # 0 => \/ last_type' # 0 /\ last_addr' <= u
                             \/ \E x \in DOMAIN new : Within(new[x], u)
    <3> SUFFICES ASSUME NEW u \in Units, u < a, last_type' # 0, last_addr' <= u
                 PROVE  TypeAt(u) = last_type'
      BY <1>11, <2>3
    <3>1. last_addr' # a
      BY <1>2 DEF Units
    <3>2. last_type' = last_type /\ last_addr' = last_addr
      <4> HIDE DEF S, new, a
      <4> QED BY <1>6, <3>1
    <3> QED BY <1>3, <3>2 DEF InOpen
  <2>9. (Covering(overlap))' = Covering(overlap')
    BY <1>1 DEF Covering
  <2> QED BY <1>1, <1>5, <2>4, <2>5, <2>6, <2>7, <2>8, <2>9
          DEF SweepTrue, InOpen, InClosed, Within
<1> QED BY <1>10, <1>12

LEMMA BiosTrueNext ==
  ASSUME TypesInv, TypesInv', SweepOrder, BiosTrue, [Next]_vars PROVE BiosTrue'
<1> SUFFICES ASSUME firmware' = "pcbios", Plain' PROVE BiosTrue'
  BY DEF BiosTrue
<1>1. ASSUME new_bios' = <<>>, pc' \notin {"sweep", "build"} PROVE BiosTrue'
  BY <1>1 DEF BiosTrue, ClosedTrue
<1>2. ASSUME UNCHANGED <<firmware, e820, new_bios>>,
             pc' \in {"build", "sort", "done"} /\ pc \in {"build", "sort", "done"},
             pc' = "build" => pc = "build"
      PROVE  BiosTrue'
  <2>1. /\ \A u : (TypeAt(u))' = TypeAt(u)
        /\ \A k : (EndAt(k))' = EndAt(k)
        /\ \A u : (InClosed(u))' <=> InClosed(u)
        /\ Plain' <=> Plain
    BY <1>2 DEF TypeAt, Within, EndAt, InClosed, Plain, Unreasonable, EndOf
  <2>2. \A k : (TypeAt(EndAt(k)))' = TypeAt(EndAt(k))
    BY <1>2 DEF TypeAt, Within, EndAt
  <2>3. \A e, u : Within(e, u)' <=> Within(e, u)
    BY DEF Within
  <2> QED BY <1>2, <2>1, <2>2 DEF BiosTrue, ClosedTrue, Within
<1>3. CASE UNCHANGED vars
  <2>1. UNCHANGED <<firmware, e820, pc, points, overlap, last_type, last_addr, new_bios>>
    BY <1>3 DEF vars, given
  <2>2. /\ \A e, u : Within(e, u)' <=> Within(e, u)
        /\ \A u : (TypeAt(u))' = TypeAt(u)
        /\ \A k : (EndAt(k))' = EndAt(k)
        /\ \A k : (TypeAt(EndAt(k)))' = TypeAt(EndAt(k))
        /\ Plain' <=> Plain
    BY <2>1 DEF TypeAt, Within, EndAt, Plain, Unreasonable, EndOf
  <2>3. /\ \A u : (InClosed(u))' <=> InClosed(u)
        /\ \A u : (InOpen(u))' <=> InOpen(u)
        /\ \A d : (AddressOf(d))' = AddressOf(d)
        /\ (Covering(overlap))' = Covering(overlap)
        /\ Passed' = Passed
    BY <2>1, <2>2 DEF InClosed, InOpen, AddressOf, EndOf, Covering, Passed, AllPoints
  <2>4. /\ \A u : (PassedBy(u))' <=> PassedBy(u)
        /\ \A c, d : (Before(c, d))' <=> Before(c, d)
    BY <2>1, <2>3, Zenon DEF PassedBy, Before, IsStart
  <2>5. ClosedTrue' <=> ClosedTrue
    BY <2>1, <2>2 DEF ClosedTrue, Within
  <2>6. SweepTrue' <=> SweepTrue
    BY <2>1, <2>2, <2>3, <2>4, Zenon DEF SweepTrue
  <2> QED BY <2>1, <2>2, <2>3, <2>5, <2>6 DEF BiosTrue
<1>4. CASE SearchOn \/ query_linuxbios \/ query_pcbios
  BY <1>1, <1>4 DEF SearchOn, query_linuxbios, query_pcbios, ToSize, TypesInv, SweepTypes
<1>5. CASE StartBios
  <2>1. new_bios' = <<>>
    BY <1>5 DEF StartBios, TypesInv, SweepTypes
  <2>2. CASE pc' # "sweep"
    BY <1>1, <1>5, <2>1, <2>2 DEF StartBios, memsize_801
  <2>3. CASE pc' = "sweep"
    <3>1. /\ points' = AllPoints /\ UNCHANGED <<e820, overlap, last_type>>
          /\ overlap = {} /\ last_type = 0 /\ pc = "size"
      BY <1>5, <2>3 DEF StartBios, memsize_801, AllPoints, TypesInv, SweepTypes
    <3>2. Passed' = {} /\ AllPoints' = AllPoints
      BY <3>1 DEF Passed, AllPoints
    <3>3. overlap' = {k \in DOMAIN e820' : <<k, "from">> \notin points' /\ <<k, "to">> \in points'}
      BY <3>1 DEF AllPoints
    <3>4. last_type' = (Covering(overlap))'
      <4>1. Covering({}) = 0
        BY CoveringIs
      <4>2. (Covering(overlap))' = Covering({})
        BY <3>1 DEF Covering
      <4> QED BY <3>1, <4>1, <4>2
    <3>5. SweepTrue'
      BY <3>1, <3>2, <3>3, <3>4 DEF SweepTrue, PassedBy
    <3> QED BY <2>1, <2>3, <3>5 DEF ClosedTrue, BiosTrue
  <2> QED BY <2>2, <2>3
<1>6. ASSUME NEW c \in points, Sweep(c) PROVE BiosTrue'
  <2>1. /\ pc = "sweep" /\ pc' = "sweep" /\ firmware = "pcbios" /\ UNCHANGED e820
        /\ Len(new_bios) < E820MAX
    BY <1>6 DEF Sweep, given, TypesInv, SweepTypes
  <2>2. Plain
    BY <2>1 DEF Plain, Unreasonable, EndOf
  <2> QED BY <1>6, <2>1, <2>2, SweepTrueNext DEF BiosTrue
<1>7. CASE EndSweep
  <2>1. CASE new_bios = <<>>
    BY <1>1, <1>7, <2>1 DEF EndSweep, memsize_801
  <2>2. CASE new_bios # <<>>
    <3>1. /\ pc = "sweep" /\ pc' = "build" /\ UNCHANGED <<firmware, e820, new_bios>>
          /\ points = {}
      BY <1>7, <2>2 DEF EndSweep, given
    <3>2. Plain
      BY <3>1 DEF Plain, Unreasonable, EndOf
    <3>3. ASSUME Len(new_bios) < E820MAX, NEW u \in Units, TypeAt(u) # 0
          PROVE  InClosed(u)
      <4>1. SweepTrue
        BY <3>1, <3>2, <3>3 DEF BiosTrue
      <4>2. last_type = 0
        <5>1. overlap = {}
          BY <3>1, <4>1 DEF SweepTrue
        <5> QED BY <4>1, <5>1, CoveringIs DEF SweepTrue
      <4>3. PICK k \in Over(u) : TRUE
        BY <3>3, TypeIsCovering, CoveringIs DEF Over
      <4>4. PassedBy(u)
        <5>1. k \in DOMAIN e820 /\ Within(e820[k], u)
          BY <4>3 DEF Over
        <5>2. u < AddressOf(<<k, "to">>)
          BY <3>2, <5>1, PointIs
        <5>3. <<k, "to">> \in Passed
          BY <3>1, <5>1 DEF Passed, AllPoints
        <5> QED BY <5>2, <5>3 DEF PassedBy
      <4> QED BY <3>3, <4>1, <4>2, <4>4 DEF SweepTrue, InOpen
    <3>4. /\ \A u : (TypeAt(u))' = TypeAt(u)
          /\ \A k : (EndAt(k))' = EndAt(k)
          /\ \A u : (InClosed(u))' <=> InClosed(u)
          /\ \A k : (TypeAt(EndAt(k)))' = TypeAt(EndAt(k))
      BY <3>1 DEF TypeAt, Within, EndAt, InClosed
    <3> QED BY <2>2, <3>1, <3>2, <3>3, <3>4 DEF BiosTrue, ClosedTrue, Within
  <2> QED BY <2>1, <2>2
<1>8. CASE BuildEntry \/ EndBuild
  BY <1>2, <1>8 DEF BuildEntry, EndBuild, given
<1>9. CASE BuildLinuxbios \/ EndLinuxbios
  BY <1>9 DEF BuildLinuxbios, EndLinuxbios, given
<1>10. CASE StartProbe \/ Probe \/ ProbeGap \/ EndProbe
  <2>1. mode = "probe" \/ pc \in {"probe", "gap"}
    BY <1>10 DEF StartProbe, Probe, ProbeGap, EndProbe
  <2>2. firmware # "pcbios"
    BY <2>1 DEF TypesInv, FirmwareKnown
  <2> QED BY <1>10, <2>2 DEF StartProbe, Probe, EndsAt, ProbeGap, EndProbe, given
<1>11. CASE SortElement \/ Finish
  BY <1>2, <1>11 DEF SortElement, Finish, given
<1> QED BY <1>3, <1>4, <1>5, <1>6, <1>7, <1>8, <1>9, <1>10, <1>11 DEF Next, BiosTrue

LEMMA UpIs ==
  ASSUME NEW a \in Nat, NEW n \in Nat
  PROVE  Up(a) <= n <=> a <= n * PageUnits
<1>1. (a + PageUnits - 1) \div PageUnits \in Nat
  BY UpMonotone DEF Up
<1> QED BY <1>1, SMTT(30) DEF Up

LEMMA DownIs ==
  ASSUME NEW a \in Nat, NEW n \in Nat
  PROVE  n <= Down(a) <=> n * PageUnits <= a
BY SMTT(30) DEF Down

(* The units of a page are those between its bounds.                       *)
LEMMA PageBounds ==
  ASSUME NEW page \in Nat
  PROVE  /\ page * PageUnits \in Nat /\ (page + 1) * PageUnits = page * PageUnits + PageUnits
         /\ page * PageUnits \in UnitsOf(page)
         /\ \A u \in UnitsOf(page) : /\ u \in Nat /\ page * PageUnits <= u
                                     /\ u < page * PageUnits + PageUnits
         /\ page * PageUnits + PageUnits - 1 \in UnitsOf(page)
<1> DEFINE lo == page * PageUnits
           hi == (page + 1) * PageUnits
<1>1. lo \in Nat /\ hi = lo + PageUnits
  BY PageOfProduct
<1>2. UnitsOf(page) = lo .. hi - 1
  BY DEF UnitsOf
<1> HIDE DEF lo, hi
<1>3. /\ lo \in UnitsOf(page) /\ lo + PageUnits - 1 \in UnitsOf(page)
      /\ \A u \in UnitsOf(page) : u \in Nat /\ lo <= u /\ u < lo + PageUnits
  BY <1>1, <1>2
<1> QED BY <1>1, <1>3 DEF lo, hi

(* The pages that end up in the map for an entry that does not reach over  *)
(* the hole: those that are in the entry and not in the hole.              *)
LEMMA BuiltPagesAre ==
  ASSUME NEW e \in Entries820, e.type \in {RAM, ACPI}, NEW page \in Nat,
         ~ (e.addr <= RES_START /\ RES_END <= e.addr + e.size)
  PROVE  Usable(e) /\ page \in BuiltPages(e) <=>
           /\ e.addr <= page * PageUnits
           /\ page * PageUnits + PageUnits <= e.addr + e.size
           /\ page \notin HolePages
<1> DEFINE lo == page * PageUnits
           a == e.addr
           b == e.addr + e.size
           f == From(e)
           t == To(e)
<1>1. /\ a \in Nat /\ b \in Nat /\ a < b /\ lo \in Nat /\ (page + 1) * PageUnits = lo + PageUnits
      /\ page + 1 \in Nat
  <2>1. e.addr \in Nat /\ e.size \in Nat \ {0}
    BY DEF Entries820
  <2>2. lo \in Nat /\ (page + 1) * PageUnits = lo + PageUnits
    BY PageBounds
  <2> HIDE DEF lo
  <2> QED BY <2>1, <2>2
<1>2. /\ f = IF InHole(a) THEN RES_END ELSE a
      /\ t = IF InHole(b) THEN RES_START ELSE b
      /\ f \in Nat /\ t \in Nat
  BY <1>1, HoleFacts DEF From, To, ClipHole
<1>3. page \in BuiltPages(e) <=> f <= lo /\ lo + PageUnits <= t
  <2>1. Up(f) \in Nat /\ Down(t) \in Nat
    BY <1>2, PageTypes
  <2>2. page \in BuiltPages(e) <=> Up(f) <= page /\ page + 1 <= Down(t)
    BY <2>1 DEF BuiltPages
  <2>3. Up(f) <= page <=> f <= lo
    BY <1>2, UpIs
  <2>4. page + 1 <= Down(t) <=> lo + PageUnits <= t
    BY <1>1, <1>2, DownIs
  <2> QED BY <2>2, <2>3, <2>4
<1>4. page \in HolePages <=> RES_START <= lo /\ lo + PageUnits <= RES_END
  <2>1. Down(RES_START) \in Nat /\ Down(RES_END) \in Nat /\ Up(RES_START) = Down(RES_START)
    <3>1. Up(RES_START) = Down(RES_START)
      BY HoleAssumption, SMTT(30) DEF Up, Down
    <3> QED BY <3>1, HoleFacts, PageTypes
  <2>2. Up(RES_START) <= page <=> RES_START <= lo
    BY HoleFacts, UpIs
  <2>3. page + 1 <= Down(RES_END) <=> lo + PageUnits <= RES_END
    BY <1>1, HoleFacts, DownIs
  <2> HIDE DEF lo
  <2> QED BY <2>1, <2>2, <2>3 DEF HolePages
\* A page before the end of the hole is before its beginning or in it.
<1>5. lo + PageUnits <= RES_START \/ RES_START <= lo
  <2>1. Up(RES_START) = Down(RES_START) /\ Down(RES_START) \in Nat
    BY HoleAssumption, SMTT(30) DEF Up, Down
  <2>2. Up(RES_START) <= page <=> RES_START <= lo
    BY HoleFacts, UpIs
  <2>3. page + 1 <= Down(RES_START) <=> lo + PageUnits <= RES_START
    BY <1>1, HoleFacts, DownIs
  <2> HIDE DEF lo
  <2> QED BY <2>1, <2>2, <2>3
<1>6. lo + PageUnits <= RES_END \/ RES_END <= lo
  <2>1. Up(RES_END) = Down(RES_END) /\ Down(RES_END) \in Nat
    BY HoleAssumption, SMTT(30) DEF Up, Down
  <2>2. Up(RES_END) <= page <=> RES_END <= lo
    BY HoleFacts, UpIs
  <2>3. page + 1 <= Down(RES_END) <=> lo + PageUnits <= RES_END
    BY <1>1, HoleFacts, DownIs
  <2> HIDE DEF lo
  <2> QED BY <2>1, <2>2, <2>3
<1>7. Usable(e) <=> ~ (InHole(a) /\ b < RES_END)
  BY DEF Usable
<1>8. ~ (a <= RES_START /\ RES_END <= b)
  OBVIOUS
<1>9. PageUnits \in Nat \ {0}
  OBVIOUS
<1> HIDE DEF lo, a, b, f, t
<1>10. ASSUME Usable(e), f <= lo, lo + PageUnits <= t
       PROVE  a <= lo /\ lo + PageUnits <= b /\ ~ (RES_START <= lo /\ lo + PageUnits <= RES_END)
  BY <1>1, <1>2, <1>5, <1>6, <1>7, <1>8, <1>9, <1>10, HoleFacts DEF InHole
<1>11. ASSUME a <= lo, lo + PageUnits <= b, ~ (RES_START <= lo /\ lo + PageUnits <= RES_END)
       PROVE  Usable(e) /\ f <= lo /\ lo + PageUnits <= t
  BY <1>1, <1>2, <1>5, <1>6, <1>7, <1>8, <1>9, <1>11, HoleFacts DEF InHole
<1> QED BY <1>3, <1>4, <1>10, <1>11 DEF lo, a, b, f, t

(* Building.                                                               *)
LEMMA BuildTrueNext ==
  ASSUME IInv, IInv', BuildTrue, SortTrue, [Next]_vars PROVE BuildTrue' /\ SortTrue'
<1> USE DEF IInv, TypesInv
<1>1. ASSUME pc' \notin {"build", "sort", "done"} \/ firmware' # "pcbios"
      PROVE  BuildTrue' /\ SortTrue'
  BY <1>1 DEF BuildTrue, SortTrue
<1>2. CASE UNCHANGED vars
  <2>1. UNCHANGED <<pc, firmware, i, pmap, msegs, new_bios>>
    BY <1>2 DEF vars, given
  <2> QED BY <2>1 DEF BuildTrue, SortTrue, MapPages, PagesOf, EntriesBuilt
\* What has been built is in order when the sort begins.
<1>3. ASSUME pc' = "sort", i' = 0, Fits' PROVE SortTrue'
  BY <1>3 DEF OrderInv, SortOrder, Pairs, SortTrue
<1>4. CASE StartBios \/ EndSweep
  <2>1. CASE memsize_801
    <3>1. new_bios' = <<>> /\ pc' = "sort" /\ i' = 0 /\ msegs' = 2
      BY <1>4, <2>1 DEF StartBios, EndSweep, memsize_801, SweepTypes
    <3> QED BY <1>3, <3>1 DEF BuildTrue, Fits
  <2>2. CASE pc' = "build" /\ i' = 0 /\ UNCHANGED <<pmap, msegs>> /\ pc = "sweep"
    <3>1. msegs' = 0 /\ EntriesBuilt' = 0
      BY <2>2 DEF Counts, EntriesBuilt
    <3>2. MapPages' = {}
      BY <3>1 DEF MapPages
    <3> QED BY <2>2, <3>1, <3>2 DEF BuildTrue, SortTrue
  <2>3. CASE pc' = "sweep"
    BY <1>1, <2>3
  <2> QED BY <1>4, <2>1, <2>2, <2>3 DEF StartBios, EndSweep
<1>5. CASE BuildEntry
  <2> DEFINE e == new_bios[i + 1]
  <2>1. /\ pc = "build" /\ pc' = "build" /\ UNCHANGED <<firmware, new_bios>> /\ i' = i + 1
        /\ i \in Nat /\ msegs \in Nat /\ i < Len(new_bios) /\ msegs <= E820MAX
        /\ pmap \in Maps /\ new_bios \in Seq(Entries820)
        /\ EntriesBuilt = i /\ EntriesBuilt' = i + 1
        /\ firmware = "pcbios"
    BY <1>5 DEF BuildEntry, given, Counts, SweepTypes, MapTypes, Maps, Elements, Fits, EntriesBuilt,
                FirmwareKnown
  <2>2. CASE ~ Usable(e)
    <3>1. UNCHANGED <<pmap, msegs>>
      BY <1>5, <2>2 DEF BuildEntry, Usable
    <3>2. {m \in 1 .. i + 1 : Usable(new_bios[m])} = {m \in 1 .. i : Usable(new_bios[m])}
      BY <2>1, <2>2
    <3>3. MapPages' = MapPages
      BY <3>1 DEF MapPages, PagesOf
    <3> QED BY <2>1, <3>2, <3>3 DEF BuildTrue, SortTrue
  <2>3. CASE Usable(e)
    <3>1. pmap' = [pmap EXCEPT ![msegs] = Built(e)] /\ msegs' = msegs + 1
      BY <1>5, <2>3 DEF BuildEntry, Usable, Add, Built, From, To
    <3>2. pmap'[msegs] = Built(e) /\ \A k \in 0 .. msegs - 1 : pmap'[k] = pmap[k]
      BY <2>1, <3>1 DEF Maps
    <3>3. MapPages' = MapPages \cup BuiltPages(e)
      <4>1. /\ \A k \in 0 .. msegs - 1 : (PagesOf(k))' = PagesOf(k)
            /\ pmap'[msegs].start .. pmap'[msegs].end - 1 = BuiltPages(e)
        BY <3>2 DEF PagesOf, BuiltPages, Built
      <4>2. MapPages' = UNION {pmap'[k].start .. pmap'[k].end - 1 : k \in 0 .. msegs}
        BY <2>1, <3>1 DEF MapPages, PagesOf
      <4> DEFINE M == 0 .. msegs - 1
                 pages(k) == pmap'[k].start .. pmap'[k].end - 1
      <4>3. 0 .. msegs = M \cup {msegs}
        BY <2>1
      <4>4. \A page : page \in MapPages <=> \E k \in M : page \in pages(k)
        BY <4>1 DEF MapPages, PagesOf
      <4>5. \A page : page \in MapPages' <=> \E k \in M \cup {msegs} : page \in pages(k)
        BY <4>2, <4>3
      <4>6. pages(msegs) = BuiltPages(e)
        BY <4>1
      <4> HIDE DEF M, pages, e
      <4>7. \A page : page \in MapPages' <=> page \in MapPages \/ page \in pages(msegs)
        BY <4>4, <4>5
      <4> QED BY <4>6, <4>7
    <3>4. {m \in 1 .. i + 1 : Usable(new_bios[m])}
            = {m \in 1 .. i : Usable(new_bios[m])} \cup {i + 1}
      BY <2>1, <2>3
    <3> QED BY <2>1, <3>3, <3>4 DEF BuildTrue, SortTrue
  <2> QED BY <2>2, <2>3
<1>6. CASE EndBuild
  <2>1. /\ pc = "build" /\ pc' = "sort" /\ i' = 0 /\ UNCHANGED <<firmware, new_bios, pmap, msegs>>
        /\ EntriesBuilt = Len(new_bios) /\ EntriesBuilt' = Len(new_bios)
    BY <1>6 DEF EndBuild, given, EntriesBuilt
  <2>2. MapPages' = MapPages
    BY <2>1 DEF MapPages, PagesOf
  <2>3. Fits'
    BY <2>1 DEF Counts, FirmwareKnown, Fits
  <2> QED BY <1>3, <2>1, <2>2, <2>3 DEF BuildTrue
<1>7. CASE SortElement
  <2> DEFINE j == Place(i)
             f(k) == IF k = j THEN i ELSE IF j < k /\ k < i THEN k + 1 ELSE k
             K == 0 .. msegs - 1
  <2> SUFFICES ASSUME firmware = "pcbios" PROVE BuildTrue' /\ SortTrue'
    BY <1>1, <1>7 DEF SortElement, given
  <2>1. /\ pc = "sort" /\ pc' = "sort" /\ i < msegs /\ i \in Nat /\ msegs \in 0 .. E820MAX
        /\ UNCHANGED <<firmware, new_bios, msegs>> /\ i' = i + 1 /\ pmap \in Maps
        /\ EntriesBuilt = Len(new_bios) /\ EntriesBuilt' = Len(new_bios)
    BY <1>7 DEF SortElement, given, EntriesBuilt, Counts, Fits, FirmwareKnown, MapTypes, Maps,
                Elements
  <2>2. \A k, l \in K : k < l /\ i <= l => Pair(pmap[k], pmap[l])
    BY <2>1 DEF SortTrue
  <2>3. j \in -1 .. i /\ \A k \in 0 .. i : j <= k => pmap[k].start = pmap[i].start
    <3>1. \A k, l \in 0 .. i : k < l => pmap[k].start <= pmap[l].start
      BY <2>1, FitsBefore DEF OrderInv, SortOrder, Fits
    <3> QED BY <2>1, <3>1, PlaceIs
  <2> HIDE DEF j
  <2>4. ASSUME NEW k \in K
        PROVE  f(k) \in K /\ pmap'[k] = pmap[f(k)] /\ pmap[k].start \in Nat /\ pmap[k].end \in Nat
    <3>1. k \in DOMAIN pmap /\ pmap[k].start \in Nat /\ pmap[k].end \in Nat
      <4>1. k \in -1 .. E820MAX
        BY <2>1
      <4> HIDE DEF K, f
      <4> QED BY <2>1, <4>1 DEF Maps, Elements
    <3>2. pmap' = [n \in DOMAIN pmap |->
                    CASE n = j          -> pmap[i]
                      [] j < n /\ n < i -> pmap[n + 1]
                      [] OTHER          -> pmap[n]]
      BY <1>7 DEF SortElement, j
    <3>3. pmap'[k] = pmap[f(k)]
      <4>1. CASE k = j
        BY <2>3, <3>1, <3>2, <4>1
      <4>2. CASE j < k /\ k < i
        BY <2>3, <3>1, <3>2, <4>2
      <4>3. CASE k # j /\ ~ (j < k /\ k < i)
        BY <3>1, <3>2, <4>3
      <4> QED BY <4>1, <4>2, <4>3
    <3>4. f(k) \in K
      BY <2>1, <2>3
    <3> QED BY <3>1, <3>3, <3>4
  \* An element that may be lost is no whole page.
  <2>5. ASSUME NEW k \in K, j <= k, k < i PROVE PagesOf(k) = {}
    <3>1. i \in K /\ pmap[k].start = pmap[i].start
      BY <2>1, <2>3, <2>5
    <3>2. pmap[k].end <= pmap[k].start
      BY <2>1, <2>2, <2>5, <3>1 DEF Pair
    <3> QED BY <2>4, <3>2 DEF PagesOf
  <2>6. \A k \in K : k < j \/ i <= k => f(k) = k
    BY <2>1, <2>3
  <2>7. \A k, l \in K : k < l /\ i < l => f(k) < l /\ f(l) = l
    BY <2>1, <2>3
  <2> HIDE DEF f
  <2>8. \A k \in K : (PagesOf(k))' = PagesOf(f(k))
    BY <2>4 DEF PagesOf
  <2>9. MapPages' = MapPages
    <3>1. MapPages' \subseteq MapPages
      BY <2>1, <2>4, <2>8 DEF MapPages
    <3>2. ASSUME NEW k \in K, NEW page \in PagesOf(k) PROVE page \in MapPages'
      <4>1. f(k) = k
        BY <2>1, <2>3, <2>5, <2>6, <3>2
      <4>2. page \in (PagesOf(k))'
        BY <2>8, <4>1
      <4> QED BY <2>1, <4>2 DEF MapPages
    <3> QED BY <3>1, <3>2 DEF MapPages
  <2>10. SortTrue'
    <3> SUFFICES ASSUME NEW k \in K, NEW l \in K, k < l, i + 1 <= l
                 PROVE  Pair(pmap'[k], pmap'[l])
      BY <2>1 DEF SortTrue
    <3>1. f(k) < l /\ f(l) = l /\ i <= l
      BY <2>1, <2>7
    <3> QED BY <2>2, <2>4, <3>1
  <2> QED BY <2>1, <2>9, <2>10 DEF BuildTrue
<1>8. CASE Finish
  <2>1. pc = "sort" /\ pc' = "done" /\ UNCHANGED <<firmware, new_bios, pmap, msegs>>
        /\ EntriesBuilt = Len(new_bios) /\ EntriesBuilt' = Len(new_bios)
    BY <1>8 DEF Finish, given, EntriesBuilt
  <2>2. MapPages' = MapPages
    BY <2>1 DEF MapPages, PagesOf
  <2> QED BY <2>1, <2>2 DEF BuildTrue, SortTrue
<1>9. CASE SearchOn \/ query_linuxbios \/ query_pcbios
  BY <1>1, <1>9 DEF SearchOn, query_linuxbios, query_pcbios, ToSize
<1>10. CASE (\E c \in points : Sweep(c)) \/ BuildLinuxbios \/ EndLinuxbios
  BY <1>1, <1>10 DEF Sweep, BuildLinuxbios, EndLinuxbios, given
<1>11. CASE StartProbe \/ Probe \/ ProbeGap \/ EndProbe
  <2>1. firmware # "pcbios"
    BY <1>11 DEF StartProbe, Probe, ProbeGap, EndProbe, FirmwareKnown
  <2>2. firmware' # "pcbios"
    BY <1>11, <2>1 DEF StartProbe, Probe, EndsAt, ProbeGap, EndProbe, given
  <2> QED BY <1>1, <2>2
<1> QED BY <1>2, <1>4, <1>5, <1>6, <1>7, <1>8, <1>9, <1>10, <1>11 DEF Next

LEMMA ExactAlways == Spec => []ExactInv
<1>1. Init => ExactInv
  BY DEF Init, ExactInv, BiosTrue, BuildTrue, SortTrue
<1>2. IInv /\ IInv' /\ ExactInv /\ [Next]_vars => ExactInv'
  BY BiosTrueNext, BuildTrueNext DEF ExactInv, IInv, OrderInv
<1> QED BY <1>1, <1>2, InvAlways, PTL DEF Spec

(* The pages of an entry of the sanitised map.                             *)
LEMMA PageInEntry ==
  ASSUME NEW e \in Entries820, NEW page \in Nat
  PROVE  /\ (\A u \in UnitsOf(page) : Within(e, u)) <=>
              /\ e.addr <= page * PageUnits
              /\ page * PageUnits + PageUnits <= e.addr + e.size
         /\ \A u \in UnitsOf(page) : u \in Nat
<1> DEFINE lo == page * PageUnits
<1>1. /\ lo \in Nat /\ lo \in UnitsOf(page) /\ lo + PageUnits - 1 \in UnitsOf(page)
      /\ \A u \in UnitsOf(page) : u \in Nat /\ lo <= u /\ u < lo + PageUnits
  BY PageBounds
<1>2. e.addr \in Nat /\ e.size \in Nat
  BY DEF Entries820
<1> HIDE DEF lo
<1>3. (\A u \in UnitsOf(page) : Within(e, u)) <=> e.addr <= lo /\ lo + PageUnits <= e.addr + e.size
  BY <1>1, <1>2 DEF Within
<1> QED BY <1>1, <1>3 DEF lo

(* What the BIOS reports is what the map says: the sanitised map tells of  *)
(* each address what the table does, and the pages of v->pmap are those    *)
(* that are usable throughout and not in the hole, whatever the entries    *)
(* are, as long as none is empty or wraps and there is room for the        *)
(* sanitised map; no page is invented even if there is not.                *)
THEOREM BiosMapAlwaysExact == Spec => [](firmware = "pcbios" => MapExact)
<1>1. IInv /\ ExactInv => (firmware = "pcbios" => MapExact)
  <2> SUFFICES ASSUME IInv, ExactInv, firmware = "pcbios" PROVE MapExact
    OBVIOUS
  <2>1. new_bios \in Seq(Entries820) /\ mode # "probe"
    BY DEF IInv, TypesInv, SweepTypes, FirmwareKnown
  <2>2. \A k \in DOMAIN new_bios : new_bios[k] \in Entries820
    BY <2>1
  <2>3. Sanitised
    <3> SUFFICES ASSUME pc = "build", Plain
                 PROVE  /\ \A k \in 1 .. Len(new_bios) - 1 :
                             new_bios[k].addr + new_bios[k].size <= new_bios[k + 1].addr
                        /\ \A u \in Units :
                             LET here == {k \in DOMAIN new_bios : Within(new_bios[k], u)}
                             IN  \/ \E k \in here : new_bios[k].type = TypeAt(u)
                                 \/ here = {} /\ (TypeAt(u) = 0 \/ Len(new_bios) = E820MAX)
      BY DEF Sanitised
    <3>1. ASSUME NEW k \in 1 .. Len(new_bios) - 1
          PROVE  new_bios[k].addr + new_bios[k].size <= new_bios[k + 1].addr
      <4>1. k \in DOMAIN new_bios /\ k + 1 \in DOMAIN new_bios /\ k < k + 1
        BY <2>1
      <4> QED BY <4>1 DEF IInv, OrderInv, SweepOrder, EndAt
    <3>2. /\ \A k \in DOMAIN new_bios, u \in Units :
               Within(new_bios[k], u) => TypeAt(u) = new_bios[k].type
          /\ new_bios # <<>> /\ Len(new_bios) < E820MAX =>
               \A u \in Units : TypeAt(u) # 0 => InClosed(u)
      BY DEF ExactInv, BiosTrue, ClosedTrue
    <3>3. new_bios # <<>>
      BY DEF ExactInv, BiosTrue
    <3>4. Len(new_bios) \in Nat /\ Len(new_bios) <= E820MAX
      BY <2>1 DEF IInv, TypesInv, SweepTypes
    <3> QED BY <3>1, <3>2, <3>3, <3>4 DEF InClosed
  <2>4. BiosExact
    <3> SUFFICES ASSUME pc \in {"sort", "done"}, Plain, new_bios # <<>>, HoleRespected
                 PROVE  /\ MapPages \subseteq UsablePages \ HolePages
                        /\ Len(new_bios) < E820MAX => UsablePages \ HolePages \subseteq MapPages
      BY DEF BiosExact
    <3>1. /\ ClosedTrue
          /\ Len(new_bios) < E820MAX => \A u \in Units : TypeAt(u) # 0 => InClosed(u)
          /\ \A page : page \in MapPages <=>
               \E n \in DOMAIN new_bios : Usable(new_bios[n]) /\ page \in BuiltPages(new_bios[n])
      <4>1. DOMAIN new_bios = 1 .. EntriesBuilt
        BY <2>1 DEF EntriesBuilt
      <4> QED BY <4>1 DEF ExactInv, BiosTrue, BuildTrue
    <3>2. ASSUME NEW page \in MapPages PROVE page \in UsablePages \ HolePages
      <4>1. PICK n \in DOMAIN new_bios : Usable(new_bios[n]) /\ page \in BuiltPages(new_bios[n])
        BY <3>1
      <4> DEFINE e == new_bios[n]
      <4>2. e \in Entries820 /\ e.type \in {RAM, ACPI} /\ EndAt(n) = e.addr + e.size
            /\ ~ (e.addr <= RES_START /\ RES_END <= e.addr + e.size)
        <5>1. e \in Entries820 /\ e.type \in {RAM, ACPI}
          BY <2>2, <4>1 DEF Usable
        <5>2. ~ (e.addr <= RES_START /\ RES_END <= e.addr + e.size)
          BY <5>1 DEF HoleRespected
        <5> QED BY <5>1, <5>2 DEF EndAt
      <4>3. page \in Nat
        <5>1. From(e) \in Nat /\ To(e) \in Nat
          BY <4>2, HoleFacts DEF From, To, ClipHole, Entries820
        <5>2. Up(From(e)) \in Nat /\ Down(To(e)) \in Nat
          BY <5>1, PageTypes
        <5>3. page \in Up(From(e)) .. Down(To(e)) - 1
          BY <4>1 DEF BuiltPages
        <5> HIDE DEF e
        <5> QED BY <5>2, <5>3
      <4>4. /\ \A u \in UnitsOf(page) : Within(e, u) /\ u \in Nat
            /\ page * PageUnits + PageUnits <= e.addr + e.size
            /\ page \notin HolePages
        BY <4>1, <4>2, <4>3, BuiltPagesAre, PageInEntry
      <4>5. EndAt(n) < AddressLimit /\ EndAt(n) \in Nat /\ AddressLimit \in Nat
        BY <3>1, <4>2, ProbeFacts DEF ClosedTrue, Entries820
      <4>6. \A u \in UnitsOf(page) : u \in Units /\ TypeAt(u) = e.type
        <5>1. \A u \in UnitsOf(page) : u < EndAt(n)
          BY <4>2, <4>4 DEF Within
        <5>2. \A u \in UnitsOf(page) : u \in Units
          BY <4>4, <4>5, <5>1 DEF Units
        <5> QED BY <3>1, <4>4, <5>2 DEF ClosedTrue
      <4>7. page \in 0 .. Down(AddressLimit) - 1
        <5>1. (page + 1) * PageUnits <= AddressLimit
          BY <4>2, <4>3, <4>4, <4>5, PageBounds
        <5>2. page + 1 <= Down(AddressLimit) /\ Down(AddressLimit) \in Nat
          BY <4>3, <4>5, <5>1, DownIs, PageTypes
        <5> QED BY <4>3, <5>2
      <4> QED BY <4>2, <4>4, <4>6, <4>7 DEF UsablePages
    <3>3. ASSUME Len(new_bios) < E820MAX, NEW page \in UsablePages \ HolePages
          PROVE  page \in MapPages
      <4>1. PICK t \in {RAM, ACPI} : \A u \in UnitsOf(page) : TypeAt(u) = t
        BY DEF UsablePages
      <4>2. page \in Nat /\ \A u \in UnitsOf(page) : u \in Units
        <5>1. page \in Nat /\ page + 1 \in Nat /\ page + 1 <= Down(AddressLimit)
          <6>1. Down(AddressLimit) \in Nat
            BY ProbeFacts, PageTypes
          <6>2. page \in 0 .. Down(AddressLimit) - 1
            BY DEF UsablePages
          <6> QED BY <6>1, <6>2
        <5>2. (page + 1) * PageUnits <= AddressLimit
          BY <5>1, ProbeFacts, DownIs
        <5>3. /\ (page + 1) * PageUnits = page * PageUnits + PageUnits
              /\ page * PageUnits + PageUnits \in Nat /\ AddressLimit \in Nat
              /\ \A u \in UnitsOf(page) : u \in Nat /\ u < page * PageUnits + PageUnits
          BY <5>1, PageBounds, ProbeFacts
        <5>4. \A u \in UnitsOf(page) : u < AddressLimit
          BY <5>2, <5>3
        <5> QED BY <5>1, <5>3, <5>4 DEF Units
      <4> DEFINE lo == page * PageUnits
      <4>3. /\ lo \in Nat /\ lo \in UnitsOf(page)
            /\ \A u : lo <= u /\ u < lo + PageUnits /\ u \in Nat => u \in UnitsOf(page)
        <5>1. lo \in Nat /\ (page + 1) * PageUnits = lo + PageUnits
          BY <4>2, PageBounds
        <5>2. UnitsOf(page) = lo .. lo + PageUnits - 1
          BY <5>1 DEF UnitsOf
        <5> HIDE DEF lo
        <5> QED BY <5>1, <5>2
      <4>4. PICK n \in DOMAIN new_bios : Within(new_bios[n], lo)
        BY <3>1, <3>3, <4>1, <4>2, <4>3 DEF InClosed, RAM, ACPI
      <4> DEFINE e == new_bios[n]
      <4>5. e \in Entries820 /\ e.addr \in Nat /\ e.size \in Nat /\ EndAt(n) = e.addr + e.size
        BY <2>2 DEF Entries820, EndAt
      <4> HIDE DEF lo
      <4>6. e.type = t
        BY <3>1, <4>1, <4>2, <4>3, <4>4 DEF ClosedTrue
      <4>7. e.addr <= lo /\ lo + PageUnits <= EndAt(n)
        <5>1. EndAt(n) \notin UnitsOf(page)
          BY <3>1, <4>1, <4>6 DEF ClosedTrue
        <5> QED BY <4>3, <4>4, <4>5, <5>1 DEF Within
      <4>8. ~ (e.addr <= RES_START /\ RES_END <= e.addr + e.size)
        BY <4>6 DEF HoleRespected
      <4>9. Usable(e) /\ page \in BuiltPages(e)
        BY <4>2, <4>5, <4>6, <4>7, <4>8, BuiltPagesAre DEF lo
      <4> QED BY <3>1, <4>9
    <3> QED BY <3>2, <3>3
  <2>5. ProbeExact /\ CorebootExact
    BY <2>1 DEF ProbeExact, CorebootExact
  <2> QED BY <2>3, <2>4, <2>5 DEF MapExact
<1> QED BY <1>1, InvAlways, ExactAlways, PTL

-----------------------------------------------------------------------------
(* What a search finds.  The next probe is at the cursor; what it has      *)
(* found are the pages of the probes before it that answer, up to the      *)
(* first long gap; the last ones in vain are its misses.                   *)
Cursor(a) == IF ~ Searching(a) THEN ProbeLimit ELSE IF Reserved(a) THEN RES_END ELSE a
AfterGap(a) == \E t \in Probed : t < a /\ LongGap(t)
FoundBelow(c) == UNION {PagesAt(a) : a \in {b \in Probed \cap ram : b < c /\ ~ AfterGap(b)}}
Misses(c) == {a \in Probed : a < c /\ \A b \in Probed : a <= b /\ b < c => b \notin ram}

(* The pages of the element being filled in, were it to end here.          *)
OpenEnd(a) == IF ~ Searching(a) THEN ProbeLimit ELSE Before0(a)
OpenPages == IF pc = "probe" /\ pmap[msegs].start # 0
             THEN pmap[msegs].start .. Down(OpenEnd(p)) - 1 ELSE {}
ProbeTrue ==
  mode = "probe" /\ Fits =>
    /\ pc \in {"probe", "gap"} => MapPages \cup OpenPages = FoundBelow(Cursor(p))
    /\ pc \in {"probe", "gap"} /\ Searching(p) =>
         /\ Cursor(p) \in Probed \/ ProbeLimit <= Cursor(p)
         /\ ~ AfterGap(Cursor(p))
         /\ Cardinality(Misses(Cursor(p))) = IF pc = "gap" THEN GapSteps - gap ELSE 0
    /\ pc = "sort" /\ i = 0 => MapPages = FoundBelow(ProbeLimit)

(* The probes are whole steps from the first one, or from behind the hole. *)
LEMMA StepsApart ==
  ASSUME NEW k \in Nat, NEW l \in Nat
  PROVE  /\ k * ProbeStep \in Nat /\ k <= k * ProbeStep
         /\ (k + 1) * ProbeStep = k * ProbeStep + ProbeStep
         /\ k * ProbeStep < l * ProbeStep => k * ProbeStep + ProbeStep <= l * ProbeStep
<1>1. ProbeStep \in Nat \ {0}
  BY ProbeFacts
<1> DEFINE s == ProbeStep
<1>2. s \in Nat \ {0}
  BY <1>1
<1> HIDE DEF s
<1>3. k * s \in Nat /\ l * s \in Nat /\ (k + 1) * s = k * s + s
  BY <1>2, SMTT(30)
<1>4. k <= k * s
  BY <1>2, SMTT(30)
<1>5. ASSUME k * s < l * s PROVE k * s + s <= l * s
  <2>1. l > k
    BY <1>2, <1>5, SMTT(30)
  <2>2. l * s >= (k + 1) * s
    BY <1>2, <2>1, SMTT(30)
  <2> QED BY <1>3, <2>2
<1> QED BY <1>3, <1>4, <1>5 DEF s

OnSteps(a) ==
  \E k \in Nat :
    \/ a = FirstProbe + k * ProbeStep /\ (a < RES_START \/ RES_END <= FirstProbe)
    \/ a = RES_END + k * ProbeStep /\ FirstProbe < RES_END
LEMMA ProbedIs ==
  ASSUME NEW a
  PROVE  a \in Probed <=> a \in Nat /\ Searching(a) /\ ~ Reserved(a) /\ OnSteps(a)
<1> DEFINE top == AddressLimit \div ProbeStep
<1>1. FirstProbe \in Nat /\ RES_END \in Nat /\ ProbeLimit \in Nat /\ AddressLimit \in Nat
      /\ ProbeLimit < AddressLimit
  BY ProbeFacts, HoleFacts DEF FirstProbe
<1>2. \A k \in Nat : k * ProbeStep \in Nat /\ (k * ProbeStep < AddressLimit => k \in 0 .. top)
  <2> TAKE k \in Nat
  <2> DEFINE n == k * ProbeStep
  <2>1. n \in Nat
    BY StepsApart
  <2>2. ASSUME n < AddressLimit PROVE k \in 0 .. top
    <3>1. ProbeStep \in Nat \ {0} /\ n \div ProbeStep = k
      BY ProbeFacts, SMTT(30)
    <3> HIDE DEF n
    <3>2. n \div ProbeStep <= top
      BY <1>1, <2>1, <2>2, <3>1, DivMonotone
    <3>3. top \in Nat
      BY <1>1, <2>1, <2>2, <3>1, DivMonotone
    <3> HIDE DEF top
    <3> QED BY <3>1, <3>2, <3>3
  <2> HIDE DEF top
  <2> QED BY <2>1, <2>2
<1> DEFINE Found0(k) == \/ /\ a = FirstProbe + k * ProbeStep
                           /\ a < RES_START \/ RES_END <= FirstProbe
                        \/ a = RES_END + k * ProbeStep /\ FirstProbe < RES_END
<1>3. a \in Probed <=> /\ a \in Units /\ Searching(a) /\ ~ Reserved(a)
                      /\ \E k \in 0 .. top : Found0(k)
  BY DEF Probed
<1>4. OnSteps(a) <=> \E k \in Nat : Found0(k)
  BY DEF OnSteps
<1>5. ASSUME a \in Nat, Searching(a), NEW k \in Nat, Found0(k)
      PROVE  k \in 0 .. top /\ a \in Units
  <2> DEFINE n == k * ProbeStep
  <2>1. /\ n \in Nat /\ (n < AddressLimit => k \in 0 .. top)
        /\ a = FirstProbe + n \/ a = RES_END + n
    BY <1>2, <1>5
  <2> HIDE DEF n, top
  <2> QED BY <1>1, <1>5, <2>1 DEF Searching, Units
<1>6. top \in Nat
  BY <1>1, ProbeFacts, DivMonotone
<1> HIDE DEF top, Found0
<1>7. 0 .. top \subseteq Nat /\ (a \in Units => a \in Nat)
  BY <1>6 DEF Units
<1> QED BY <1>3, <1>4, <1>5, <1>7

(* The cursor comes by the probes one after the other.                     *)
LEMMA CursorSteps ==
  ASSUME NEW a \in Probed
  PROVE  /\ a \in Nat /\ a + ProbeStep \in Nat
         /\ a < Cursor(a + ProbeStep) /\ Cursor(a + ProbeStep) \in Nat
         /\ Cursor(a + ProbeStep) \in Probed \/ ProbeLimit <= Cursor(a + ProbeStep)
         /\ \A b \in Probed : a < b => Cursor(a + ProbeStep) <= b
<1> DEFINE f == FirstProbe
           q == a + ProbeStep
           c == Cursor(q)
<1>1. /\ f \in Nat /\ RES_END \in Nat /\ RES_START \in Nat /\ ProbeLimit \in Nat
      /\ ProbeStep \in Nat \ {0} /\ RES_START < RES_END /\ EndOfProgram \in Nat
      /\ RES_START + ProbeStep <= RES_END /\ RES_START + ProbeStep <= ProbeLimit
  BY ProbeFacts, HoleFacts, StepAssumption DEF FirstProbe
<1>2. a \in Nat /\ Searching(a) /\ ~ Reserved(a) /\ OnSteps(a)
  BY ProbedIs
<1>3. PICK k \in Nat : \/ a = f + k * ProbeStep /\ (a < RES_START \/ RES_END <= f)
                       \/ a = RES_END + k * ProbeStep /\ f < RES_END
  BY <1>2 DEF OnSteps
<1> DEFINE n == k * ProbeStep
<1>4. n \in Nat /\ (k + 1) * ProbeStep = n + ProbeStep
  BY StepsApart
<1> HIDE DEF f, n, c
<1>5. \/ a = f + n /\ (a < RES_START \/ RES_END <= f)
      \/ a = RES_END + n /\ f < RES_END
  BY <1>3 DEF n
<1>6. c = IF ~ Searching(q) THEN ProbeLimit ELSE IF Reserved(q) THEN RES_END ELSE q
  BY DEF c, Cursor
<1>7. a < c /\ c \in Nat
  BY <1>1, <1>2, <1>6 DEF Searching, Reserved
<1>8. ASSUME c < ProbeLimit PROVE c \in Probed
  <2>1. Searching(c) /\ ~ Reserved(c)
    BY <1>1, <1>2, <1>6, <1>8 DEF Searching, Reserved
  <2>2. CASE c = q /\ (q < RES_START \/ RES_START <= a)
    <3>1. \/ c = f + (k + 1) * ProbeStep /\ (c < RES_START \/ RES_END <= f)
          \/ c = RES_END + (k + 1) * ProbeStep /\ f < RES_END
      BY <1>1, <1>2, <1>4, <1>5, <2>2
    <3>2. OnSteps(c)
      BY <3>1 DEF OnSteps, f
    <3> QED BY <1>7, <2>1, <3>2, ProbedIs
  <2>3. CASE c = RES_END /\ f < RES_END
    <3>1. 0 * ProbeStep = 0
      BY <1>1
    <3>2. c = RES_END + 0 * ProbeStep /\ f < RES_END
      BY <1>1, <2>3, <3>1
    <3>3. OnSteps(c)
      BY <3>2 DEF OnSteps, f
    <3> QED BY <1>7, <2>1, <3>3, ProbedIs
  <2> QED BY <1>1, <1>2, <1>4, <1>5, <1>6, <1>8, <2>2, <2>3 DEF Searching, Reserved
<1>9. ASSUME NEW b \in Probed, a < b PROVE c <= b
  <2>1. b \in Nat /\ Searching(b) /\ ~ Reserved(b) /\ OnSteps(b)
    BY ProbedIs
  <2>2. PICK l \in Nat : \/ b = f + l * ProbeStep /\ (b < RES_START \/ RES_END <= f)
                         \/ b = RES_END + l * ProbeStep /\ f < RES_END
    BY <2>1 DEF OnSteps, f
  <2> DEFINE m == l * ProbeStep
  <2>3. m \in Nat /\ (n < m => n + ProbeStep <= m)
    BY StepsApart DEF n
  <2> HIDE DEF m
  <2>4. \/ b = f + m /\ (b < RES_START \/ RES_END <= f)
        \/ b = RES_END + m /\ f < RES_END
    BY <2>2 DEF m
  <2>5. \/ q <= b
        \/ RES_END <= b /\ q < RES_END
    BY <1>1, <1>2, <1>4, <1>5, <1>9, <2>1, <2>3, <2>4 DEF Searching, Reserved
  <2> QED BY <1>1, <1>2, <1>6, <2>1, <2>5 DEF Searching, Reserved
<1> HIDE DEF q
<1>10. q \in Nat
  BY <1>1, <1>2 DEF q
<1> QED BY <1>1, <1>2, <1>7, <1>8, <1>9, <1>10 DEF c, q

(* The first one.                                                          *)
LEMMA FirstCursor ==
  /\ Searching(FirstProbe) => Cursor(FirstProbe) \in Probed \/ ProbeLimit <= Cursor(FirstProbe)
  /\ \A b \in Probed : Cursor(FirstProbe) <= b
<1> DEFINE f == FirstProbe
           c == Cursor(f)
<1>1. /\ f \in Nat /\ RES_END \in Nat /\ RES_START \in Nat /\ ProbeLimit \in Nat
      /\ RES_START < RES_END /\ EndOfProgram \in Nat /\ EndOfProgram <= f
  <2>1. EndOfProgram \in Nat /\ Up(EndOfProgram) * PageUnits >= EndOfProgram
    BY ProbeFacts, UpIs, SMTT(30)
  <2> QED BY <2>1, ProbeFacts, HoleFacts DEF FirstProbe
<1>2. 0 * ProbeStep = 0
  BY ProbeFacts
<1> HIDE DEF f
<1>3. c = IF ~ Searching(f) THEN ProbeLimit ELSE IF Reserved(f) THEN RES_END ELSE f
  BY DEF Cursor, f
<1> HIDE DEF c
<1>4. ASSUME Searching(f), c < ProbeLimit PROVE c \in Probed
  <2>1. c \in Nat /\ Searching(c) /\ ~ Reserved(c)
    BY <1>1, <1>3, <1>4 DEF Searching, Reserved, f
  <2>2. \/ c = f + 0 * ProbeStep /\ (c < RES_START \/ RES_END <= f)
        \/ c = RES_END + 0 * ProbeStep /\ f < RES_END
    BY <1>1, <1>2, <1>3, <1>4 DEF Reserved
  <2>3. OnSteps(c)
    BY <2>2 DEF OnSteps, f
  <2> QED BY <2>1, <2>3, ProbedIs
<1>5. ASSUME NEW b \in Probed PROVE c <= b
  <2>1. b \in Nat /\ Searching(b) /\ ~ Reserved(b) /\ OnSteps(b)
    BY ProbedIs
  <2>2. PICK l \in Nat : \/ b = f + l * ProbeStep /\ (b < RES_START \/ RES_END <= f)
                         \/ b = RES_END + l * ProbeStep /\ f < RES_END
    BY <2>1 DEF OnSteps, f
  <2> DEFINE m == l * ProbeStep
  <2>3. m \in Nat
    BY StepsApart
  <2> HIDE DEF m
  <2>4. \/ b = f + m
        \/ b = RES_END + m /\ f < RES_END
    BY <2>2 DEF m
  <2> QED BY <1>1, <1>3, <2>1, <2>3, <2>4 DEF Reserved, Searching
<1>6. c \in Nat
  BY <1>1, <1>3
<1>7. Searching(f) => c \in Probed \/ ProbeLimit <= c
  BY <1>1, <1>4, <1>6
<1> QED BY <1>5, <1>7 DEF c, f

(* A step that wraps, or comes past the limit, leaves the search where one *)
(* that does not wrap would.                                               *)
LEMMA StepCursor ==
  ASSUME NEW a \in 0 .. AddressLimit - 1, EndOfProgram <= a, a <= ProbeLimit \/ a = RES_END
  PROVE  Cursor(Step(a)) = Cursor(a + ProbeStep) /\ OpenEnd(Step(a)) = OpenEnd(a + ProbeStep)
<1>1. CASE Step(a) = a + ProbeStep
  BY <1>1
<1>2. CASE Step(a) # a + ProbeStep
  <2>1. ~ Searching(Step(a))
    BY <1>2, SearchEnds
  <2>2. a + ProbeStep >= AddressLimit /\ a + ProbeStep \in Nat
    BY <1>2, StepIs, ProbeFacts
  <2>3. ~ Searching(a + ProbeStep)
    BY <2>2, ProbeFacts DEF Searching
  <2> QED BY <2>1, <2>3 DEF Cursor, OpenEnd
<1> QED BY <1>1, <1>2

(* The pages a probe stands for reach to the next one, the hole, or the    *)
(* limit.                                                                  *)
LEMMA PagesReach ==
  ASSUME NEW a \in Probed
  PROVE  /\ PagesAt(a) = Down(a) .. Down(OpenEnd(a + ProbeStep)) - 1
         /\ a <= OpenEnd(a + ProbeStep) /\ OpenEnd(a + ProbeStep) \in Nat
<1> DEFINE q == a + ProbeStep
           m == IF a < RES_START THEN RES_START ELSE ProbeLimit
<1>1. /\ RES_END \in Nat /\ RES_START \in Nat /\ ProbeLimit \in Nat
      /\ ProbeStep \in Nat \ {0} /\ RES_START < RES_END /\ EndOfProgram \in Nat
      /\ RES_START + ProbeStep <= RES_END /\ RES_START + ProbeStep <= ProbeLimit
  BY ProbeFacts, HoleFacts, StepAssumption
<1>2. a \in Nat /\ Searching(a) /\ ~ Reserved(a)
  BY ProbedIs
<1>3. q \in Nat /\ m \in Nat
  BY <1>1, <1>2
<1>4. Min({q, m}) \in {q, m} /\ Min({q, m}) <= q /\ Min({q, m}) <= m
  BY <1>3, MinOfTwo
<1>5. q > a /\ q = a + ProbeStep
  BY <1>1, <1>2
<1>6. m = IF a < RES_START THEN RES_START ELSE ProbeLimit
  OBVIOUS
<1>7. PagesAt(a) = Down(a) .. Down(Min({q, m})) - 1
  BY DEF PagesAt
<1> DEFINE n == Min({q, m})
           e == OpenEnd(q)
<1>8. e = IF ~ Searching(q) THEN ProbeLimit ELSE IF Reserved(q) THEN RES_START ELSE q
  BY DEF OpenEnd, Before0
<1> HIDE DEF q, m, n, e
<1>9. n = IF q < m THEN q ELSE m
  BY <1>3, <1>4 DEF n
<1>10. n = e /\ a <= e /\ e \in Nat
  BY <1>1, <1>2, <1>3, <1>5, <1>6, <1>8, <1>9 DEF Searching, Reserved
<1> QED BY <1>7, <1>10 DEF q, n, e

(* What one more probe adds to what has been found.                        *)
LEMMA NoneBetween ==
  ASSUME NEW c \in Probed, NEW b \in Probed
  PROVE  b < Cursor(c + ProbeStep) <=> b < c \/ b = c
<1>1. /\ b \in Nat /\ c \in Nat /\ c < Cursor(c + ProbeStep)
      /\ Cursor(c + ProbeStep) \in Nat /\ (c < b => Cursor(c + ProbeStep) <= b)
  BY CursorSteps, ProbedIs
<1> QED BY <1>1

LEMMA RamEndsGap == ASSUME NEW c \in ram \cap Probed PROVE ~ LongGap(c)
<1> SUFFICES ASSUME LongGap(c) PROVE FALSE
  OBVIOUS
<1>1. PICK from \in Probed : from <= c /\ ProbedIn(from, c) \cap ram = {}
  BY DEF LongGap
<1>2. c \in Nat
  BY ProbedIs
<1> QED BY <1>1, <1>2 DEF ProbedIn

LEMMA AfterGapIs ==
  ASSUME NEW c \in Probed
  PROVE  AfterGap(Cursor(c + ProbeStep)) <=> AfterGap(c) \/ LongGap(c)
<1>1. \A t \in Probed : t < Cursor(c + ProbeStep) <=> t < c \/ t = c
  BY NoneBetween
<1> QED BY <1>1 DEF AfterGap

LEMMA FoundMore ==
  ASSUME NEW c \in Probed, ~ AfterGap(c)
  PROVE  FoundBelow(Cursor(c + ProbeStep)) =
           FoundBelow(c) \cup (IF c \in ram THEN PagesAt(c) ELSE {})
<1> DEFINE n == Cursor(c + ProbeStep)
           F(x) == {b \in Probed \cap ram : b < x /\ ~ AfterGap(b)}
<1>1. \A b \in Probed : b < n <=> b < c \/ b = c
  BY NoneBetween
<1> HIDE DEF n
<1>2. F(n) = F(c) \cup (IF c \in ram THEN {c} ELSE {})
  BY <1>1
<1>3. \A page : page \in FoundBelow(n) <=>
        page \in FoundBelow(c) \/ (c \in ram /\ page \in PagesAt(c))
  <2>1. \A x, page : page \in FoundBelow(x) <=> \E b \in F(x) : page \in PagesAt(b)
    BY DEF FoundBelow
  <2> HIDE DEF F
  <2> QED BY <1>2, <2>1
<1>4. \A page : page \in FoundBelow(n) <=>
        page \in FoundBelow(c) \cup (IF c \in ram THEN PagesAt(c) ELSE {})
  BY <1>3
<1> QED BY <1>4 DEF n

(* Nothing more is found beyond the limit, or beyond a long gap.           *)
LEMMA FoundBeyond ==
  ASSUME NEW c \in Nat, ProbeLimit <= c
  PROVE  FoundBelow(c) = FoundBelow(ProbeLimit)
<1>1. \A b \in Probed : b \in Nat /\ b < ProbeLimit
  BY ProbedIs DEF Searching
<1>2. \A b \in Probed : b < c <=> b < ProbeLimit
  BY <1>1, ProbeFacts
<1>3. {b \in Probed \cap ram : b < c /\ ~ AfterGap(b)}
        = {b \in Probed \cap ram : b < ProbeLimit /\ ~ AfterGap(b)}
  BY <1>2
<1> QED BY <1>3 DEF FoundBelow

LEMMA FoundBehindGap ==
  ASSUME NEW c \in Probed, LongGap(c)
  PROVE  FoundBelow(c) = FoundBelow(ProbeLimit)
<1>1. c \in Nat /\ c < ProbeLimit /\ c \notin ram
  BY ProbedIs, RamEndsGap DEF Searching
<1>2. \A b \in Probed \cap ram : (b < c /\ ~ AfterGap(b)) <=> (b < ProbeLimit /\ ~ AfterGap(b))
  <2> TAKE b \in Probed \cap ram
  <2>1. b \in Nat /\ b # c
    BY <1>1, ProbedIs
  <2>2. c < b => AfterGap(b)
    BY DEF AfterGap
  <2> QED BY <1>1, <2>1, <2>2, ProbeFacts
<1>3. {b \in Probed \cap ram : b < c /\ ~ AfterGap(b)}
        = {b \in Probed \cap ram : b < ProbeLimit /\ ~ AfterGap(b)}
  BY <1>2
<1> QED BY <1>3 DEF FoundBelow

(* The probes in vain that are counted make the gap.                       *)
LEMMA MissesFinite == ASSUME NEW c PROVE IsFiniteSet(Misses(c)) /\ Misses(c) \subseteq Nat
<1>1. IsFiniteSet(0 .. AddressLimit - 1)
  BY ProbeFacts, FS_Interval
<1>2. Misses(c) \in SUBSET (0 .. AddressLimit - 1)
  BY DEF Misses, Probed, Units
<1> QED BY <1>1, <1>2, FS_Subset

LEMMA MissesMore ==
  ASSUME NEW c \in Probed
  PROVE  /\ c \notin Misses(c)
         /\ Misses(Cursor(c + ProbeStep)) = IF c \in ram THEN {} ELSE Misses(c) \cup {c}
<1> DEFINE n == Cursor(c + ProbeStep)
<1>1. \A b \in Probed : b < n <=> b < c \/ b = c
  BY NoneBetween
<1> HIDE DEF n
<1>2. c \in Nat /\ \A b \in Probed : b \in Nat
  BY ProbedIs
<1>3. c \notin Misses(c)
  BY <1>2 DEF Misses
<1>4. \A a : a \in Misses(n) <=> c \notin ram /\ a \in Misses(c) \cup {c}
  <2> TAKE a
  <2>1. ASSUME a \in Misses(n) PROVE c \notin ram /\ a \in Misses(c) \cup {c}
    BY <1>1, <1>2, <2>1 DEF Misses
  <2>2. ASSUME c \notin ram, a \in Misses(c) \cup {c} PROVE a \in Misses(n)
    BY <1>1, <1>2, <2>2 DEF Misses
  <2> QED BY <2>1, <2>2
<1>5. Misses(n) = IF c \in ram THEN {} ELSE Misses(c) \cup {c}
  BY <1>4
<1> QED BY <1>3, <1>5 DEF n

LEMMA LongGapIs ==
  ASSUME NEW c \in Probed, c \notin ram
  PROVE  LongGap(c) <=> Cardinality(Misses(c)) + 1 >= GapSteps
<1> DEFINE M == Misses(c) \cup {c}
<1>1. c \in Nat /\ \A b \in Probed : b \in Nat
  BY ProbedIs
<1>2. IsFiniteSet(Misses(c)) /\ Misses(c) \subseteq Nat /\ c \notin Misses(c)
  BY MissesFinite, MissesMore
<1>3. IsFiniteSet(M) /\ Cardinality(M) = Cardinality(Misses(c)) + 1 /\ Cardinality(M) \in Nat
  BY <1>2, FS_AddElement, FS_CardinalityType
<1>4. M \in SUBSET Nat /\ M # {} /\ M \subseteq Probed
  BY <1>1, <1>2 DEF Misses
<1>5. \A x \in Probed : x \in M <=> x <= c /\ ProbedIn(x, c) \cap ram = {}
  <2> TAKE x \in Probed
  <2>1. ASSUME x \in M PROVE x <= c /\ ProbedIn(x, c) \cap ram = {}
    <3>1. x <= c /\ \A b \in Probed : x <= b /\ b <= c => b \notin ram
      BY <1>1, <2>1 DEF Misses
    <3> QED BY <3>1 DEF ProbedIn
  <2>2. ASSUME x <= c, ProbedIn(x, c) \cap ram = {} PROVE x \in M
    <3>1. \A b \in Probed : x <= b /\ b < c => b \notin ram
      BY <1>1, <2>2 DEF ProbedIn
    <3> QED BY <1>1, <2>2, <3>1 DEF Misses
  <2> HIDE DEF M
  <2> QED BY <2>1, <2>2
<1> HIDE DEF M
<1>7. ASSUME LongGap(c) PROVE Cardinality(M) >= GapSteps
  <2>1. PICK from \in Probed : /\ from <= c /\ ProbedIn(from, c) \cap ram = {}
                              /\ Cardinality(ProbedIn(from, c)) >= GapSteps
    BY <1>7 DEF LongGap
  <2> DEFINE I == ProbedIn(from, c)
  <2>2. I \in SUBSET M
    <3> SUFFICES ASSUME NEW x \in I PROVE x \in M
      OBVIOUS
    <3>1. x \in Probed /\ from <= x /\ x <= c
      BY DEF ProbedIn
    <3>2. ProbedIn(x, c) \cap ram = {}
      <4>1. \A b \in ProbedIn(x, c) : b \in ProbedIn(from, c)
        BY <1>1, <3>1 DEF ProbedIn
      <4> QED BY <2>1, <4>1
    <3> QED BY <1>5, <3>1, <3>2
  <2>5. Cardinality(I) >= GapSteps
    BY <2>1
  <2> HIDE DEF I
  <2>3. IsFiniteSet(I) /\ Cardinality(I) <= Cardinality(M)
    BY <1>3, <2>2, FS_Subset
  <2>4. Cardinality(I) \in Nat
    BY <2>3, FS_CardinalityType
  <2> QED BY <1>3, <2>5, <2>3, <2>4, ProbeFacts
<1>8. ASSUME Cardinality(M) >= GapSteps PROVE LongGap(c)
  <2>1. PICK from \in M : \A n \in M : from <= n
    BY <1>4, Least
  <2>2. from \in Probed /\ from <= c /\ ProbedIn(from, c) \cap ram = {}
    BY <1>4, <1>5, <2>1
  <2>3. ASSUME NEW x \in M PROVE x \in ProbedIn(from, c)
    BY <1>4, <1>5, <2>1, <2>3 DEF ProbedIn
  <2>4. ASSUME NEW x \in ProbedIn(from, c) PROVE x \in M
    <3>1. x \in Probed /\ from <= x /\ x <= c
      BY DEF ProbedIn
    <3>2. ProbedIn(x, c) \cap ram = {}
      <4>1. \A b \in ProbedIn(x, c) : b \in ProbedIn(from, c)
        BY <1>1, <2>2, <3>1 DEF ProbedIn
      <4> QED BY <2>2, <4>1
    <3> QED BY <1>5, <3>1, <3>2
  <2>5. M = ProbedIn(from, c)
    BY <2>3, <2>4
  <2> QED BY <1>8, <2>2, <2>5 DEF LongGap
<1> QED BY <1>3, <1>7, <1>8

-----------------------------------------------------------------------------
(* A map with the same elements, and with one more.                        *)
LEMMA MapGrows ==
  ASSUME msegs \in Nat, \A k \in 0 .. msegs - 1 : pmap'[k] = pmap[k]
  PROVE  /\ msegs' = msegs => MapPages' = MapPages
         /\ msegs' = msegs + 1 =>
              MapPages' = MapPages \cup (pmap'[msegs].start .. pmap'[msegs].end - 1)
<1> DEFINE M == 0 .. msegs - 1
           pages(k) == pmap'[k].start .. pmap'[k].end - 1
<1>1. \A page : page \in MapPages <=> \E k \in M : page \in pages(k)
  BY DEF MapPages, PagesOf
<1>2. \A page : page \in MapPages' <=> \E k \in 0 .. msegs' - 1 : page \in pages(k)
  BY DEF MapPages, PagesOf
<1>3. ASSUME msegs' = msegs PROVE MapPages' = MapPages
  BY <1>1, <1>2, <1>3
<1>4. ASSUME msegs' = msegs + 1 PROVE MapPages' = MapPages \cup pages(msegs)
  <2>1. 0 .. msegs' - 1 = M \cup {msegs}
    BY <1>4
  <2> HIDE DEF M, pages
  <2>2. \A page : page \in MapPages' <=> page \in MapPages \/ page \in pages(msegs)
    BY <1>1, <1>2, <2>1
  <2> QED BY <2>2
<1> QED BY <1>3, <1>4

(* The memory stays as it is, and with it what a search can find.          *)
LEMMA ProbeTrueIf ==
  ASSUME ram' = ram,
         pc' \in {"probe", "gap"} => MapPages' \cup OpenPages' = FoundBelow(Cursor(p')),
         pc' \in {"probe", "gap"} /\ Searching(p') =>
           /\ Cursor(p') \in Probed \/ ProbeLimit <= Cursor(p')
           /\ ~ AfterGap(Cursor(p'))
           /\ Cardinality(Misses(Cursor(p'))) = IF pc' = "gap" THEN GapSteps - gap' ELSE 0,
         pc' = "sort" /\ i' = 0 => MapPages' = FoundBelow(ProbeLimit)
  PROVE  ProbeTrue'
<1>1. /\ FoundBelow(Cursor(p))' = FoundBelow(Cursor(p'))
      /\ FoundBelow(ProbeLimit)' = FoundBelow(ProbeLimit)
  BY DEF FoundBelow, AfterGap, LongGap, Cursor, Searching, Reserved
<1>2. AfterGap(Cursor(p))' <=> AfterGap(Cursor(p'))
  BY DEF AfterGap, LongGap, Cursor, Searching, Reserved
<1>3. Misses(Cursor(p))' = Misses(Cursor(p'))
  BY DEF Misses, Cursor, Searching, Reserved
<1>4. Cursor(p)' = Cursor(p') /\ (Searching(p)' <=> Searching(p'))
  BY DEF Cursor, Searching, Reserved
<1> QED BY <1>1, <1>2, <1>3, <1>4 DEF ProbeTrue

LEMMA ProbeTrueNext ==
  ASSUME IInv, ProbeTrue, [Next]_vars PROVE ProbeTrue'
<1> USE DEF IInv, TypesInv
<1>1. ASSUME UNCHANGED <<mode, ram, pc, pmap, msegs, p, gap, i>> PROVE ProbeTrue'
  <2>1. MapPages' = MapPages /\ OpenPages' = OpenPages
    BY <1>1 DEF MapPages, PagesOf, OpenPages, OpenEnd, Before0, Searching, Reserved
  <2>2. Cursor(p') = Cursor(p) /\ (Searching(p') <=> Searching(p))
    BY <1>1
  <2>3. CASE mode = "probe" /\ Fits
    BY <1>1, <2>1, <2>2, <2>3, ProbeTrueIf DEF ProbeTrue
  <2>4. CASE ~ (mode = "probe" /\ Fits)
    BY <1>1, <2>4 DEF ProbeTrue, Fits
  <2> QED BY <2>3, <2>4
<1>2. CASE UNCHANGED vars
  BY <1>1, <1>2 DEF vars, given, probing
<1>3. SUFFICES ASSUME mode' = "probe", Fits', Fits, pc' \in {"probe", "gap", "sort"},
                      pc' = "sort" => i' = 0
               PROVE  ProbeTrue'
  BY FitsBefore DEF ProbeTrue
<1>4. /\ pmap \in Maps /\ p \in 0 .. AddressLimit - 1 /\ msegs \in Nat /\ msegs <= E820MAX
      /\ msegs \in -1 .. E820MAX /\ gap \in Nat /\ GapSteps \in Nat \ {0}
      /\ ProbeLimit \in Nat /\ ProbeLimit \in 0 .. AddressLimit - 1
      /\ RES_END \in 0 .. AddressLimit - 1 /\ EndOfProgram \in Nat /\ EndOfProgram <= ProbeLimit
  <2>1. /\ pmap \in Maps /\ p \in 0 .. AddressLimit - 1 /\ msegs \in Nat /\ msegs <= E820MAX
        /\ gap \in 0 .. GapSteps
    BY <1>3 DEF MapTypes, Maps, Elements, Counts, Fits
  <2>2. /\ ProbeLimit \in Nat /\ EndOfProgram \in Nat /\ EndOfProgram <= ProbeLimit
        /\ GapSteps \in Nat \ {0} /\ ProbeLimit < AddressLimit
        /\ RES_END \in Nat /\ RES_END < AddressLimit /\ AddressLimit \in Nat
    BY ProbeFacts, HoleFacts
  <2> QED BY <2>1, <2>2
<1>5. \A k \in 0 .. msegs : pmap[k] \in Elements /\ pmap[k].start \in Nat /\ pmap[k].end \in Nat
  BY <1>4 DEF Maps, Elements
<1> DEFINE c == Cursor(p)
           start == pmap[msegs].start
<1>6. c \in Nat /\ (Searching(p) => /\ c \in 0 .. AddressLimit - 1 /\ EndOfProgram <= c
                                    /\ c <= ProbeLimit \/ c = RES_END
                                    /\ ~ Reserved(c) /\ p <= c)
  BY <1>4, HoleFacts DEF Cursor, Searching, Reserved
<1>7. CASE StartProbe
  <2> DEFINE first == Up(EndOfProgram)
  <2>1. /\ pc = "size" /\ msegs = 0 /\ msegs' = 0 /\ pc' = "probe" /\ ram' = ram
        /\ p' = FirstProbe /\ pmap'[0].start = first
    BY <1>3, <1>4, <1>7 DEF StartProbe, Counts, FirmwareKnown, Maps, Elements, FirstProbe
  <2>2. /\ first \in Nat /\ FirstProbe \in Nat /\ Down(FirstProbe) = first
        /\ EndOfProgram <= FirstProbe
    <3>1. first \in Nat /\ first * PageUnits \in Nat /\ Down(first * PageUnits) = first
      BY ProbeFacts, PageOfProduct
    <3>2. EndOfProgram <= first * PageUnits
      BY <3>1, <1>4, UpIs
    <3> QED BY <3>1, <3>2 DEF FirstProbe
  <2>3. MapPages' = {}
    BY <2>1 DEF MapPages
  <2>4. OpenPages' = {}
    <3> DEFINE e == OpenEnd(FirstProbe)
    <3>1. e \in Nat /\ e <= FirstProbe
      BY <1>4, <2>2, HoleFacts DEF OpenEnd, Before0, Searching, Reserved
    <3> HIDE DEF e
    <3>2. Down(e) \in Nat /\ Down(e) <= first
      BY <2>2, <3>1, DownMonotone
    <3>3. first .. Down(e) - 1 = {}
      BY <2>2, <3>2
    <3>4. OpenEnd(p)' = e
      BY <2>1 DEF e, OpenEnd, Before0, Searching, Reserved
    <3> QED BY <2>1, <3>3, <3>4 DEF OpenPages
  <2> DEFINE d == Cursor(FirstProbe)
  <2>5. d \in Nat /\ \A b \in Probed : d <= b /\ b \in Nat
    BY <1>4, <2>2, FirstCursor, ProbedIs, HoleFacts DEF Cursor
  <2>6. \A b \in Probed : ~ (b < d)
    <3> HIDE DEF d
    <3> QED BY <2>5
  <2>7. FoundBelow(d) = {} /\ ~ AfterGap(d) /\ Misses(d) = {}
    BY <2>6 DEF FoundBelow, AfterGap, Misses
  <2>8. Cardinality(Misses(d)) = 0
    BY <2>7, FS_EmptySet
  <2>9. Searching(FirstProbe) => d \in Probed \/ ProbeLimit <= d
    BY FirstCursor
  <2> QED BY <2>1, <2>3, <2>4, <2>7, <2>8, <2>9, ProbeTrueIf
<1>8. CASE Probe
  <2>1. /\ pc = "probe" /\ Searching(p) /\ ram' = ram /\ mode = "probe"
    BY <1>3, <1>8 DEF Probe, given
  <2>2. start # 0 /\ start <= Down(p)
    BY <1>3, <2>1 DEF OrderInv, ProbeOrder
  <2>3. /\ MapPages \cup (start .. Down(Before0(p)) - 1) = FoundBelow(c)
        /\ c \in Probed \/ ProbeLimit <= c
        /\ ~ AfterGap(c) /\ Cardinality(Misses(c)) = 0
    BY <1>3, <2>1, <2>2 DEF ProbeTrue, OpenPages, OpenEnd
  <2>4. ASSUME EndsAt(Before0(p)), p' = IF Reserved(p) THEN RES_END ELSE p PROVE ProbeTrue'
    <3> DEFINE d == Before0(p)
    <3>1. p' = c /\ msegs' = msegs + 1 /\ pc' = "gap" /\ gap' = GapSteps
      BY <2>1, <2>4 DEF EndsAt, Cursor
    <3>2. Down(d) \in Nat
      BY <1>4, HoleFacts, PageTypes DEF Before0
    <3>3. /\ \A k \in 0 .. msegs - 1 : pmap'[k] = pmap[k]
          /\ pmap'[msegs].start = start /\ pmap'[msegs].end = Down(d)
      <4>1. pmap' = [[pmap EXCEPT ![msegs].end = Down(d)] EXCEPT ![msegs + 1].start = 0]
        BY <2>4 DEF EndsAt
      <4> HIDE DEF d
      <4> DEFINE m == [pmap EXCEPT ![msegs].end = Down(d)]
      <4>2. m \in Maps
        BY <1>4, <3>2, Puts
      <4>3. /\ m[msegs].start = start /\ m[msegs].end = Down(d)
            /\ \A k \in 0 .. msegs - 1 : m[k] = pmap[k]
        BY <1>4, <1>5, <3>2 DEF Maps, Elements
      <4>4. m \in Maps /\ pmap' = [m EXCEPT ![msegs + 1].start = 0]
        BY <4>1, <4>2
      <4> HIDE DEF m
      <4>5. \A k \in 0 .. msegs : pmap'[k] = m[k]
        BY <1>4, <4>4 DEF Maps
      <4> QED BY <1>4, <4>3, <4>5
    <3>4. MapPages' = FoundBelow(c)
      BY <1>4, <2>3, <3>1, <3>3, MapGrows
    <3>5. OpenPages' = {}
      BY <3>1 DEF OpenPages
    <3>6. CASE Searching(c)
      <4>1. Cursor(p') = c
        BY <1>6, <2>1, <3>1, <3>6 DEF Cursor
      <4> HIDE DEF c
      <4> QED BY <1>4, <2>1, <2>3, <3>1, <3>4, <3>5, <4>1, ProbeTrueIf
    <3>7. CASE ~ Searching(c)
      <4>1. Cursor(p') = ProbeLimit /\ ~ Searching(p')
        BY <3>1, <3>7 DEF Cursor
      <4>2. ProbeLimit <= c
        BY <1>4, <1>6, <2>1, <3>7 DEF Searching
      <4>3. FoundBelow(c) = FoundBelow(ProbeLimit)
        BY <1>6, <4>2, FoundBeyond
      <4> HIDE DEF c
      <4> QED BY <2>1, <3>1, <3>4, <3>5, <4>1, <4>3, ProbeTrueIf
    <3> QED BY <3>6, <3>7
  <2>5. ASSUME ~ Reserved(p), check_ram(p), p' = Step(p), UNCHANGED <<pc, pmap, msegs, gap>>
        PROVE  ProbeTrue'
    <3> DEFINE q == p + ProbeStep
    <3>1. c = p /\ p \in Probed /\ p \in ram
      BY <1>4, <2>1, <2>3, <2>5 DEF Cursor, Searching, check_ram
    <3>2. Cursor(p') = Cursor(q) /\ OpenEnd(p') = OpenEnd(q)
      BY <1>4, <1>6, <2>1, <2>5, <3>1, StepCursor
    <3>3. Cursor(q) \in Probed \/ ProbeLimit <= Cursor(q)
      BY <3>1, CursorSteps
    <3>4. ~ AfterGap(Cursor(q))
      BY <2>3, <3>1, AfterGapIs, RamEndsGap
    <3>5. Cardinality(Misses(Cursor(q))) = 0
      BY <3>1, MissesMore, FS_EmptySet
    <3>6. FoundBelow(Cursor(q)) = FoundBelow(p) \cup PagesAt(p)
      BY <2>3, <3>1, FoundMore
    <3>7. /\ PagesAt(p) = Down(p) .. Down(OpenEnd(q)) - 1
          /\ OpenEnd(q) \in Nat /\ p <= OpenEnd(q)
      BY <3>1, PagesReach
    <3>8. /\ Down(p) \in Nat /\ Down(OpenEnd(q)) \in Nat /\ start \in Nat
          /\ Down(p) <= Down(OpenEnd(q))
      <4> DEFINE e == OpenEnd(q)
      <4>1. e \in Nat /\ p <= e /\ p \in Nat
        BY <1>4, <3>7
      <4> HIDE DEF e
      <4>2. Down(p) \in Nat /\ Down(e) \in Nat /\ Down(p) <= Down(e)
        BY <4>1, DownMonotone
      <4>3. start \in Nat
        BY <1>4, <1>5
      <4> QED BY <4>2, <4>3 DEF e
    <3>9. FoundBelow(p) = MapPages \cup (start .. Down(p) - 1)
      BY <2>3, <2>5, <3>1 DEF Before0
    <3>10. MapPages' = MapPages
      BY <2>5 DEF MapPages, PagesOf
    <3>11. OpenPages' = start .. Down(OpenEnd(q)) - 1
      <4>1. OpenEnd(p)' = OpenEnd(p')
        BY DEF OpenEnd, Before0, Searching, Reserved
      <4> QED BY <2>1, <2>2, <2>5, <3>2, <4>1 DEF OpenPages
    <3>12. MapPages' \cup OpenPages' = FoundBelow(Cursor(q))
      <4> DEFINE a == start
                 b == Down(p)
                 e == Down(OpenEnd(q))
      <4>1. a .. e - 1 = (a .. b - 1) \cup (b .. e - 1)
        <5>1. a \in Nat /\ b \in Nat /\ e \in Nat /\ a <= b /\ b <= e
          BY <2>2, <3>8
        <5> HIDE DEF a, b, e
        <5> QED BY <5>1
      <4> HIDE DEF a, b, e
      <4>2. /\ OpenPages' = a .. e - 1 /\ FoundBelow(p) = MapPages \cup (a .. b - 1)
            /\ PagesAt(p) = b .. e - 1
        BY <3>7, <3>9, <3>11 DEF a, b, e
      <4> QED BY <3>6, <3>10, <4>1, <4>2
    <3> HIDE DEF q
    <3> QED BY <2>1, <2>5, <3>2, <3>3, <3>4, <3>5, <3>12, ProbeTrueIf
  <2> QED BY <1>8, <2>4, <2>5 DEF Probe, Before0
<1>9. CASE ProbeGap
  <2>1. /\ pc = "gap" /\ ram' = ram /\ mode = "probe" /\ msegs' = msegs /\ start = 0
        /\ ~ Searching(p) => ~ Searching(Step(p))
    BY <1>3, <1>9 DEF ProbeGap, given, OrderInv, ProbeOrder
  <2>2. /\ MapPages = FoundBelow(c)
        /\ Searching(p) => /\ c \in Probed \/ ProbeLimit <= c
                           /\ ~ AfterGap(c) /\ Cardinality(Misses(c)) = GapSteps - gap
    BY <1>3, <2>1 DEF ProbeTrue, OpenPages
  <2>3. MapPages' = MapPages /\ pc' \in {"probe", "gap"}
    <3>1. /\ pmap' \in {pmap, [pmap EXCEPT ![msegs].start = Found(Cursor(p))]}
          /\ pc' \in {"probe", "gap"}
      BY <1>9, <2>1 DEF ProbeGap, Cursor
    <3>2. \A k \in 0 .. msegs - 1 : pmap'[k] = pmap[k]
      <4>1. \A k \in 0 .. msegs - 1 : k \in -1 .. E820MAX /\ k # msegs
        BY <1>4
      <4>2. DOMAIN pmap = -1 .. E820MAX
        BY <1>4 DEF Maps
      <4> QED BY <3>1, <4>1, <4>2
    <3> QED BY <1>4, <2>1, <3>1, <3>2, MapGrows
  <2>4. ASSUME pmap' = pmap PROVE OpenPages' = {}
    BY <2>1, <2>4 DEF OpenPages
  <2>5. ASSUME ~ Searching(p'), OpenPages' = {}, FoundBelow(c) = FoundBelow(ProbeLimit)
        PROVE  ProbeTrue'
    <3>1. Cursor(p') = ProbeLimit
      BY <2>5 DEF Cursor
    <3> QED BY <2>1, <2>2, <2>3, <2>5, <3>1, ProbeTrueIf
  <2>6. CASE ~ Searching(p)
    <3>1. p' = Step(p) /\ pmap' = pmap
      BY <1>9, <2>6 DEF ProbeGap
    <3>2. c = ProbeLimit
      BY <2>6 DEF Cursor
    <3> QED BY <2>1, <2>4, <2>5, <2>6, <3>1, <3>2
  <2>7. CASE Searching(p) /\ ~ Searching(c)
    <3>1. ProbeLimit <= c /\ c = RES_END
      BY <1>4, <1>6, <2>7 DEF Searching, Cursor
    <3>2. FoundBelow(c) = FoundBelow(ProbeLimit)
      BY <1>6, <3>1, FoundBeyond
    <3>3. ~ Searching(Step(c)) /\ ~ Searching(Step(ProbeLimit))
      <4>1. Step(c) = c + ProbeStep
        BY <1>6, <2>7, <3>1, StepIs, ProbeFacts, HoleFacts
      <4>2. ~ Searching(Step(c))
        BY <1>4, <1>6, <3>1, <4>1, ProbeFacts DEF Searching
      <4> QED BY <1>4, <4>2, SearchEnds
    <3>4. ASSUME pmap' = [pmap EXCEPT ![msegs].start = Found(c)], p' = Step(c), pc' = "probe"
          PROVE  OpenPages' = {}
      <4>1. pmap'[msegs].start = Down(c)
        BY <1>4, <1>5, <3>4 DEF Found, Maps, Elements
      <4>2. OpenEnd(p)' = ProbeLimit
        BY <3>3, <3>4 DEF OpenEnd, Searching
      <4>3. Down(ProbeLimit) <= Down(c) /\ Down(ProbeLimit) \in Nat /\ Down(c) \in Nat
        BY <1>4, <1>6, <3>1, DownMonotone
      <4>4. Down(c) .. Down(ProbeLimit) - 1 = {}
        BY <4>3
      <4> HIDE DEF c
      <4> QED BY <2>1, <4>1, <4>2, <4>4 DEF OpenPages
    <3>5. \/ pmap' = [pmap EXCEPT ![msegs].start = Found(c)] /\ p' = Step(c) /\ pc' = "probe"
          \/ pmap' = pmap /\ p' \in {Step(c), Step(ProbeLimit)}
      BY <1>9, <2>7 DEF ProbeGap, Cursor
    <3> HIDE DEF c
    <3> QED BY <2>4, <2>5, <3>2, <3>3, <3>4, <3>5
  <2>8. CASE Searching(p) /\ Searching(c)
    <3> DEFINE q == c + ProbeStep
    <3>1. c \in Probed /\ ~ AfterGap(c) /\ Cardinality(Misses(c)) = GapSteps - gap
      BY <1>4, <1>6, <2>2, <2>8 DEF Searching
    <3>2. Cursor(Step(c)) = Cursor(q) /\ OpenEnd(Step(c)) = OpenEnd(q)
      BY <1>6, <2>8, StepCursor
    <3>3. Cursor(q) \in Probed \/ ProbeLimit <= Cursor(q)
      BY <3>1, CursorSteps
    <3>4. CASE check_ram(c)
      <4>1. /\ pmap' = [pmap EXCEPT ![msegs].start = Found(c)] /\ p' = Step(c) /\ pc' = "probe"
            /\ c \in ram
        BY <1>9, <2>8, <3>4 DEF ProbeGap, Cursor, check_ram
      <4>2. ~ AfterGap(Cursor(q))
        BY <3>1, <4>1, AfterGapIs, RamEndsGap
      <4>3. Cardinality(Misses(Cursor(q))) = 0
        BY <3>1, <4>1, MissesMore, FS_EmptySet
      <4>4. FoundBelow(Cursor(q)) = FoundBelow(c) \cup PagesAt(c)
        BY <3>1, <4>1, FoundMore
      <4>5. OpenPages' = PagesAt(c)
        <5>1. pmap'[msegs].start = Down(c)
          BY <1>4, <1>5, <4>1 DEF Found, Maps, Elements
        <5>2. OpenEnd(p)' = OpenEnd(q)
          <6>1. OpenEnd(p)' = OpenEnd(p')
            BY DEF OpenEnd, Before0, Searching, Reserved
          <6> QED BY <3>2, <4>1, <6>1
        <5>3. Down(c) # 0
          BY <1>4, <1>6, <2>8, ProbeFacts, DownPositive
        <5>4. PagesAt(c) = Down(c) .. Down(OpenEnd(q)) - 1
          BY <3>1, PagesReach
        <5> HIDE DEF c, q
        <5> QED BY <2>1, <4>1, <5>1, <5>2, <5>3, <5>4 DEF OpenPages
      <4> HIDE DEF c, q
      <4> QED BY <2>1, <2>2, <2>3, <3>2, <3>3, <4>1, <4>2, <4>3, <4>4, <4>5, ProbeTrueIf
    <3>5. CASE ~ check_ram(c)
      <4>1. /\ pmap' = pmap /\ gap' = gap - 1 /\ c \notin ram
            /\ IF gap' <= 0 THEN p' = Step(ProbeLimit) /\ pc' = "probe"
               ELSE p' = Step(c) /\ pc' = "gap"
        BY <1>9, <2>1, <2>8, <3>5 DEF ProbeGap, Cursor, check_ram
      <4>2. LongGap(c) <=> gap' <= 0
        <5>1. LongGap(c) <=> (GapSteps - gap) + 1 >= GapSteps
          BY <3>1, <4>1, LongGapIs
        <5> QED BY <1>4, <4>1, <5>1
      <4>3. OpenPages' = {}
        BY <2>4, <4>1
      <4>4. CASE gap' <= 0
        <5>1. FoundBelow(c) = FoundBelow(ProbeLimit)
          BY <3>1, <4>2, <4>4, FoundBehindGap
        <5>2. ~ Searching(p')
          BY <1>4, <4>1, <4>4, SearchEnds
        <5> QED BY <2>5, <4>3, <5>1, <5>2
      <4>5. CASE ~ (gap' <= 0)
        <5>1. p' = Step(c) /\ pc' = "gap"
          BY <4>1, <4>5
        <5>2. ~ AfterGap(Cursor(q))
          BY <3>1, <4>2, <4>5, AfterGapIs
        <5>3. FoundBelow(Cursor(q)) = FoundBelow(c)
          BY <3>1, <4>1, FoundMore
        <5>4. Cardinality(Misses(Cursor(q))) = GapSteps - gap'
          <6>1. Misses(Cursor(q)) = Misses(c) \cup {c} /\ c \notin Misses(c)
            BY <3>1, <4>1, MissesMore
          <6>2. Cardinality(Misses(c) \cup {c}) = Cardinality(Misses(c)) + 1
            BY <6>1, MissesFinite, FS_AddElement
          <6> QED BY <1>4, <3>1, <4>1, <6>1, <6>2
        <5> HIDE DEF c, q
        <5> QED BY <2>1, <2>2, <2>3, <3>2, <3>3, <4>3, <5>1, <5>2, <5>3, <5>4, ProbeTrueIf
      <4> QED BY <4>4, <4>5
    <3> QED BY <3>4, <3>5
  <2> QED BY <2>6, <2>7, <2>8
<1>10. CASE EndProbe
  <2>1. /\ pc = "probe" /\ ~ Searching(p) /\ pc' = "sort" /\ ram' = ram /\ mode = "probe"
    BY <1>3, <1>10 DEF EndProbe, given, probing
  <2>2. MapPages \cup OpenPages = FoundBelow(ProbeLimit)
    BY <1>3, <2>1 DEF ProbeTrue, Cursor
  <2>3. CASE start # 0
    <3>1. OpenPages = start .. Down(ProbeLimit) - 1
      BY <2>1, <2>3 DEF OpenPages, OpenEnd
    <3>2. pmap' = [pmap EXCEPT ![msegs].end = Down(ProbeLimit)] /\ msegs' = msegs + 1
      BY <1>10, <2>3 DEF EndProbe
    <3>3. /\ pmap'[msegs].start = start /\ pmap'[msegs].end = Down(ProbeLimit)
          /\ \A k \in 0 .. msegs - 1 : pmap'[k] = pmap[k]
      BY <1>4, <1>5, <3>2 DEF Maps, Elements
    <3>4. MapPages' = FoundBelow(ProbeLimit)
      BY <1>4, <2>2, <3>1, <3>2, <3>3, MapGrows
    <3> QED BY <2>1, <3>4, ProbeTrueIf
  <2>4. CASE start = 0
    <3>1. OpenPages = {} /\ UNCHANGED <<pmap, msegs>>
      BY <1>10, <2>4 DEF EndProbe, OpenPages
    <3>2. MapPages' = MapPages
      BY <3>1 DEF MapPages, PagesOf
    <3> QED BY <2>1, <2>2, <3>1, <3>2, ProbeTrueIf
  <2> QED BY <2>3, <2>4
<1>11. CASE SearchOn \/ query_linuxbios \/ query_pcbios \/ StartBios \/ EndSweep \/ EndBuild
  BY <1>3, <1>11 DEF SearchOn, query_linuxbios, query_pcbios, ToSize, StartBios, EndSweep,
    EndBuild, FirmwareKnown, given
<1>12. CASE (\E d \in points : Sweep(d)) \/ BuildEntry \/ BuildLinuxbios \/ EndLinuxbios
  BY <1>3, <1>12 DEF Sweep, BuildEntry, BuildLinuxbios, EndLinuxbios, FirmwareKnown, given
<1>13. CASE SortElement \/ Finish
  BY <1>3, <1>13 DEF SortElement, Finish, Counts
<1> QED BY <1>2, <1>7, <1>8, <1>9, <1>10, <1>11, <1>12, <1>13 DEF Next

(* What a search finds: every page from a probe that answers to the next   *)
(* one, to the hole or to the limit, up to the first long gap, and no      *)
(* other, as long as the pieces fit into v->pmap.                          *)
THEOREM ProbedMapAlwaysExact == Spec => [](mode = "probe" /\ Fits => MapExact)
<1>1. Init => ProbeTrue
  BY DEF Init, ProbeTrue
<1>2. IInv /\ ProbeTrue /\ [Next]_vars => ProbeTrue'
  BY ProbeTrueNext
<1>3. IInv /\ ProbeTrue => (mode = "probe" /\ Fits => MapExact)
  <2> SUFFICES ASSUME IInv, ProbeTrue, mode = "probe", Fits PROVE MapExact
    OBVIOUS
  <2>1. firmware = "unknown" /\ pc # "build"
    BY DEF IInv, TypesInv, FirmwareKnown
  <2>2. Sanitised /\ BiosExact /\ CorebootExact
    BY <2>1 DEF Sanitised, BiosExact, CorebootExact
  <2>3. ProbeExact
    <3> SUFFICES ASSUME pc = "sort", i = 0
                 PROVE  MapPages = UNION {PagesAt(a) : a \in {b \in Probed \cap ram :
                                           ~ \E c \in Probed : c < b /\ LongGap(c)}}
      BY DEF ProbeExact
    <3>1. MapPages = FoundBelow(ProbeLimit)
      BY DEF ProbeTrue
    <3>2. \A b \in Probed : b < ProbeLimit
      BY ProbedIs DEF Searching
    <3>3. {b \in Probed \cap ram : b < ProbeLimit /\ ~ AfterGap(b)}
            = {b \in Probed \cap ram : ~ \E c \in Probed : c < b /\ LongGap(c)}
      BY <3>2 DEF AfterGap
    <3> QED BY <3>1, <3>3 DEF FoundBelow
  <2> QED BY <2>2, <2>3 DEF MapExact
<1> QED BY <1>1, <1>2, <1>3, InvAlways, PTL DEF Spec
=============================================================================
