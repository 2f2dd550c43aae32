------------------------------- MODULE MemMap -------------------------------
(***************************************************************************)
(* The memory map everything else relies on: init() looks for the table of *)
(* coreboot and asks the BIOS (e820) for its own if there is none, and     *)
(* mem_size() of memsize.c makes v->pmap of it, or of what answers when    *)
(* memory is probed.                                                       *)
(*                                                                         *)
(* Addresses are counted in units, PageUnits of them to a page, and wrap   *)
(* at AddressLimit.  The map of the sanitised entries is built one change  *)
(* point at a time, v->pmap one entry at a time, and sorted one entry at a *)
(* time, as the loops of the code do.  The page counts that are only       *)
(* displayed (test_pages, reserved_pages) are left out.                    *)
(***************************************************************************)
EXTENDS Coreboot

CONSTANTS
  PageUnits,    \* units in a page (0x1000)
  RES_START,    \* the hole between 640 KB and 1 MB
  RES_END,
  AddressLimit, \* where addresses wrap (2^64)
  E820MAX,      \* entries of a table (64)
  Tables,       \* the tables the BIOS may supply
  Boards,       \* what memory may hold of coreboot: Header by address
  LowEnd,       \* where the search for it begins and ends: 0 .. LowEnd - 1,
  HighStart,    \* then HighStart .. HighEnd - 1, by the paragraph of 16 bytes
  HighEnd,      \* (0x1000, 0xf0000, 0x100000)
  Modes,        \* of "bios", and "probe" to probe instead
  Memories,     \* sets of units that hold memory
  EndOfProgram, \* _end
  ProbeLimit,   \* m_lim: where addresses begin to repeat, less one
  ProbeStep,    \* between probes (0x4000)
  GapSteps,     \* probes in vain that end the search (32768 >> 2)
  ExtPages      \* extended memory by the e88/e801 calls, the greater one

ASSUME UnitsAssumption == PageUnits \in Nat \ {0} /\ AddressLimit \in Nat
ASSUME HoleAssumption ==
  /\ RES_START \in Nat /\ RES_END \in Nat /\ RES_START < RES_END
  /\ RES_START % PageUnits = 0 /\ RES_END % PageUnits = 0 /\ RES_END < AddressLimit
ASSUME SizeAssumption == ExtPages \in Nat /\ E820MAX \in Nat /\ E820MAX >= 2

RAM      == 1
RESERVED == 2
ACPI     == 3
NVS      == 4
Entry == [addr : 0 .. AddressLimit - 1, size : 0 .. AddressLimit - 1,
          type : {RAM, RESERVED, ACPI, NVS}]

ASSUME ProbeAssumption ==
  /\ EndOfProgram \in Nat /\ PageUnits <= EndOfProgram
  /\ ProbeLimit \in EndOfProgram .. AddressLimit - 1
  /\ ProbeStep \in Nat \ {0} /\ ProbeStep % PageUnits = 0 /\ GapSteps \in Nat \ {0}
  /\ ((EndOfProgram + PageUnits - 1) \div PageUnits) * PageUnits < AddressLimit
  \* A search that wraps is below the end of the program for two steps.
  /\ ProbeLimit + 2 * ProbeStep < AddressLimit + EndOfProgram
  /\ RES_END + 2 * ProbeStep <= AddressLimit
\* No probe steps over the hole, nor the limit when it steps into the hole.
ASSUME StepAssumption ==
  RES_START + ProbeStep <= RES_END /\ RES_START + ProbeStep <= ProbeLimit
ASSUME TableAssumption == \A t \in Tables : t \in Seq(Entry) /\ Len(t) <= E820MAX
\* A table that coreboot forwards to is there.  Its ranges are of this machine.
ASSUME BoardAssumption ==
  /\ 0 < LowEnd /\ LowEnd <= HighStart /\ HighStart < HighEnd
  /\ \A b \in Boards : \A a \in DOMAIN b :
       /\ a \in Nat /\ b[a] \in Header
       /\ \A k \in DOMAIN b[a].recs :
            LET rec == b[a].recs[k]
            IN  /\ rec.tag = "forward" => rec.forward \in DOMAIN b \cup {0}
                /\ rec.tag = "memory" =>
                     RecordSize <= rec.size /\ Entries(rec) <= Len(rec.ranges)
                /\ \A n \in DOMAIN rec.ranges :
                     rec.ranges[n].addr < AddressLimit /\ rec.ranges[n].size < AddressLimit

VARIABLES
  firmware,  \* what supplied the table: "unknown", "pcbios" or "linuxbios"
  mode,      \* memsz_mode
  board,     \* what memory holds of coreboot
  place,     \* where the search for it is
  e820,      \* the table: a sequence of entries
  ram,       \* the units that hold memory
  pc,        \* "search", "pcbios", "size", "sweep", "build", "probe", "gap", "sort", "done"
  p,         \* the address that is probed
  gap,       \* n of memsize_probe(): probes left before the search is given up
  points,    \* the change points not yet passed: <<entry, "from" or "to">>
  overlap,   \* overlap_list: the entries that cover the present address
  last_type, \* the type of the sanitised entry being built, 0 if none
  last_addr, \* and its address
  new_bios,  \* the sanitised map
  i,         \* the loop index of the builders and of sort_pmap()
  pmap,      \* v->pmap; element -1 is what lies before it, the end of v->erri
  msegs,     \* v->msegs, the elements in use (n while they are counted)
  plim_upper \* v->plim_upper

probing == <<ram, p, gap>>
given == <<firmware, mode, board, place>>
vars == <<given, e820, probing, pc, points, overlap, last_type, last_addr, new_bios,
          i, pmap, msegs, plim_upper>>

Up(addr)   == (addr + PageUnits - 1) \div PageUnits
Down(addr) == addr \div PageUnits

Init ==
  /\ mode \in Modes /\ firmware = "unknown" /\ place = 0 /\ e820 = <<>>
  /\ IF mode = "probe" THEN board = <<>> /\ ram \in Memories
     ELSE board \in Boards /\ ram = {}
  /\ p = 0 /\ gap = 0
  /\ pc = IF mode = "probe" THEN "size" ELSE "search"
  /\ points = {} /\ overlap = {} /\ last_type = 0 /\ last_addr = 0
  /\ new_bios = <<>>
  /\ i = 0
  /\ pmap = [k \in -1 .. E820MAX |-> [start |-> 0, end |-> 0]] /\ msegs = 0
  /\ plim_upper = 0

-----------------------------------------------------------------------------
(* query_linuxbios(), one place of its search at a time.                   *)
ToSize(source) == firmware' = source /\ pc' = "size" /\ UNCHANGED place

NextPlace == IF place + 1 = LowEnd THEN HighStart ELSE place + 1
SearchOn ==
  /\ pc = "search" /\ ~ (place \in DOMAIN board /\ Accepted(board[place]))
  /\ place' = NextPlace
  /\ IF place' = HighEnd THEN pc' = "pcbios" ELSE UNCHANGED pc
  /\ UNCHANGED <<firmware, mode, board, e820, probing, points, overlap, last_type,
                 last_addr, new_bios, i, pmap, msegs, plim_upper>>

(* The ranges of the table as entries; all but memory is reserved.  Those  *)
(* there is no room for are left out.                                      *)
Copied(rec) ==
  [k \in 1 .. Min({Entries(rec), E820MAX}) |->
     [addr |-> rec.ranges[k].addr, size |-> rec.ranges[k].size,
      type |-> IF rec.ranges[k].ram THEN RAM ELSE RESERVED]]

(* The table itself, or the one it forwards to, which is not checked.      *)
Forwarded(head) == IF Forwards(head) THEN board[head.recs[1].forward] ELSE head

(* A table without memory is as good as one, but leaves e820 empty.        *)
query_linuxbios ==
  /\ pc = "search" /\ place \in DOMAIN board /\ Accepted(board[place])
  /\ IF Forwards(board[place]) /\ board[place].recs[1].forward = 0
     THEN pc' = "pcbios" /\ UNCHANGED <<firmware, place, e820>>
     ELSE LET head == Forwarded(board[place])
          IN  /\ e820' = IF MemoryRecords(head) = {} THEN e820
                         ELSE Copied(MemoryRecord(head))
              /\ ToSize("linuxbios")
  /\ UNCHANGED <<mode, board, probing, points, overlap, last_type, last_addr, new_bios, i,
                 pmap, msegs, plim_upper>>

query_pcbios ==
  /\ pc = "pcbios" /\ e820' \in Tables /\ ToSize("pcbios")
  /\ UNCHANGED <<mode, board, probing, points, overlap, last_type, last_addr, new_bios, i,
                 pmap, msegs, plim_upper>>

-----------------------------------------------------------------------------
(* sanitize_e820_map(): every entry begins and ends at a change point.     *)
EndOf(k) == (e820[k].addr + e820[k].size) % AddressLimit
Unreasonable == \E k \in DOMAIN e820 : EndOf(k) < e820[k].addr

AddressOf(c) == IF c[2] = "from" THEN e820[c[1]].addr ELSE EndOf(c[1])

(* Either end of an empty entry passes for its beginning.                  *)
IsStart(c) == AddressOf(c) = e820[c[1]].addr

(* The order they are sorted into; which of two equal ones comes first     *)
(* does not matter and is left open.                                       *)
Before(c, d) ==
  \/ AddressOf(c) < AddressOf(d)
  \/ AddressOf(c) = AddressOf(d) /\ IsStart(c) /\ ~IsStart(d)

(* What memsize_801() knows: conventional and extended memory.             *)
memsize_801 ==
  /\ pmap' = [pmap EXCEPT
       ![0] = [start |-> 0, end |-> RES_START \div PageUnits],
       ![1] = [start |-> Up(RES_END), end |-> RES_END \div PageUnits + ExtPages]]
  /\ msegs' = 2
  /\ pc' = "sort" /\ i' = 0

(* The entries are checked and the sweep begins; a table with one that     *)
(* wraps is not used.                                                      *)
StartBios ==
  /\ pc = "size" /\ firmware = "pcbios"
  /\ IF Unreasonable
     THEN memsize_801 /\ UNCHANGED points
     ELSE /\ points' = (DOMAIN e820) \X {"from", "to"}
          /\ pc' = "sweep"
          /\ UNCHANGED <<pmap, msegs, i>>
  /\ UNCHANGED <<given, e820, probing, overlap, last_type, last_addr, new_bios,
                 plim_upper>>

(* Larger types take precedence; 0 where no entry is.                      *)
Covering(entries) == Max({e820[k].type : k \in entries} \cup {0})

(* The sanitised entry that ends at addr, if it is not empty.              *)
Closed(addr) ==
  IF last_type # 0 /\ addr # last_addr
  THEN Append(new_bios, [addr |-> last_addr, size |-> addr - last_addr,
                         type |-> last_type])
  ELSE new_bios

StartsAt_with_first_only(current, addr) ==
  IF current = 0 \/ last_type # 0 THEN last_addr ELSE addr
StartsAt(current, addr) == IF current = 0 THEN last_addr ELSE addr

Full_with_one_more(entries) == Len(entries) > E820MAX
Full(entries) == Len(entries) = E820MAX

(* One round of the loop over the change points.                           *)
Sweep(c) ==
  /\ pc = "sweep" /\ c \in points
  /\ \A d \in points : ~Before(d, c)
  /\ overlap' = IF IsStart(c) THEN overlap \cup {c[1]} ELSE overlap \ {c[1]}
  /\ LET current == Covering(overlap')
     IN  IF current = last_type
         THEN UNCHANGED <<new_bios, last_type, last_addr>>
         ELSE /\ new_bios' = Closed(AddressOf(c))
              /\ last_type' = current
              /\ last_addr' = StartsAt(current, AddressOf(c))
  \* no more space left for new bios entries: the rest is dropped
  /\ points' = IF Full(new_bios') THEN {} ELSE points \ {c}
  /\ UNCHANGED <<given, e820, probing, pc, i, pmap, msegs, plim_upper>>

(* The sweep is over; a map with no entry is no good either.               *)
EndSweep ==
  /\ pc = "sweep" /\ points = {}
  /\ IF new_bios = <<>>
     THEN memsize_801
     ELSE pc' = "build" /\ i' = 0 /\ UNCHANGED <<pmap, msegs>>
  /\ UNCHANGED <<given, e820, probing, points, overlap, last_type, last_addr,
                 new_bios, plim_upper>>

-----------------------------------------------------------------------------
Add(seg) == pmap' = [pmap EXCEPT ![msegs] = seg] /\ msegs' = msegs + 1

InHole(addr) == RES_START < addr /\ addr < RES_END

ClipHole_with_start_kept(from, to) ==
  [from |-> from, to |-> IF InHole(to) THEN RES_START ELSE to]

(* "Don't ever use memory between 640 and 1024k": the bounds that lie in   *)
(* the hole are moved to its ends.                                         *)
ClipHole(from, to) == [from |-> IF InHole(from) THEN RES_END ELSE from,
                       to   |-> IF InHole(to) THEN RES_START ELSE to]

(* One round of memsize_820().                                             *)
BuildEntry ==
  /\ pc = "build" /\ i < Len(new_bios)
  /\ LET e    == new_bios[i + 1]
         clip == ClipHole(e.addr, e.addr + e.size)
     IN  IF \/ e.type \notin {RAM, ACPI}
            \/ InHole(e.addr) /\ e.addr + e.size < RES_END
         THEN UNCHANGED <<pmap, msegs>>
         ELSE Add([start |-> Up(clip.from), end |-> Down(clip.to)])
  /\ i' = i + 1
  /\ UNCHANGED <<given, e820, probing, pc, points, overlap, last_type, last_addr,
                 new_bios, plim_upper>>

EndBuild ==
  /\ pc = "build" /\ i = Len(new_bios)
  /\ pc' = "sort" /\ i' = 0
  /\ UNCHANGED <<given, e820, probing, points, overlap, last_type, last_addr,
                 new_bios, pmap, msegs, plim_upper>>

(* memsize_linuxbios(): the table is taken as it is.                       *)
BuildLinuxbios ==
  /\ pc = "size" /\ firmware = "linuxbios" /\ i < Len(e820)
  /\ LET e == e820[i + 1]
     IN  IF e.type # RAM
         THEN UNCHANGED <<pmap, msegs>>
         ELSE Add([start |-> Up(e.addr), end |-> Down(EndOf(i + 1))])
  /\ i' = i + 1
  /\ UNCHANGED <<given, e820, probing, pc, points, overlap, last_type, last_addr,
                 new_bios, plim_upper>>

EndLinuxbios ==
  /\ pc = "size" /\ firmware = "linuxbios" /\ i = Len(e820)
  /\ pc' = "sort" /\ i' = 0
  /\ UNCHANGED <<given, e820, probing, points, overlap, last_type, last_addr,
                 new_bios, pmap, msegs, plim_upper>>

-----------------------------------------------------------------------------
(* memsize_probe().  Element msegs of pmap is the one being filled in; a   *)
(* start of 0 is none yet.                                                 *)
Searching(a) == EndOfProgram <= a /\ a < ProbeLimit
Reserved(a) == RES_START <= a /\ a < RES_END
check_ram(a) == a \in ram
Step(a) == (a + ProbeStep) % AddressLimit

StartProbe ==
  /\ pc = "size" /\ mode = "probe"
  /\ pmap' = [pmap EXCEPT ![0].start = Up(EndOfProgram)]
  /\ p' = Up(EndOfProgram) * PageUnits
  /\ pc' = "probe"
  /\ UNCHANGED <<given, e820, ram, gap, points, overlap, last_type, last_addr,
                 new_bios, i, msegs, plim_upper>>

(* The element ends at addr and the search for the next one begins.        *)
EndsAt(addr) ==
  /\ pmap' = [pmap EXCEPT ![msegs].end = Down(addr), ![msegs + 1].start = 0]
  /\ msegs' = msegs + 1
  /\ gap' = GapSteps /\ pc' = "gap"

Probe ==
  /\ pc = "probe" /\ Searching(p)
  /\ \/ Reserved(p) /\ EndsAt(RES_START) /\ p' = RES_END
     \/ ~ Reserved(p) /\ ~ check_ram(p) /\ EndsAt(p) /\ UNCHANGED p
     \/ ~ Reserved(p) /\ check_ram(p) /\ p' = Step(p) /\ UNCHANGED <<pc, pmap, msegs, gap>>
  /\ UNCHANGED <<given, e820, ram, points, overlap, last_type, last_addr,
                 new_bios, i, plim_upper>>

Found(a) == Down(a)

(* One round of the loop over a gap.                                       *)
ProbeGap ==
  /\ pc = "gap"
  /\ LET a == IF Reserved(p) THEN RES_END ELSE p
     IN  \/ /\ ~ Searching(p)
            /\ p' = Step(p) /\ pc' = "probe" /\ UNCHANGED <<pmap, gap>>
         \/ /\ Searching(p) /\ check_ram(a)
            /\ pmap' = [pmap EXCEPT ![msegs].start = Found(a)]
            /\ p' = Step(a) /\ pc' = "probe" /\ UNCHANGED gap
         \/ /\ Searching(p) /\ ~ check_ram(a)
            /\ gap' = gap - 1 /\ UNCHANGED pmap
            /\ IF gap' <= 0 THEN p' = Step(ProbeLimit) /\ pc' = "probe"
               ELSE p' = Step(a) /\ UNCHANGED pc
  /\ UNCHANGED <<given, e820, ram, points, overlap, last_type, last_addr,
                 new_bios, i, msegs, plim_upper>>

(* Memory up to the limit: the page the limit is in is left out.           *)
EndProbe ==
  /\ pc = "probe" /\ ~ Searching(p)
  /\ IF pmap[msegs].start # 0
     THEN pmap' = [pmap EXCEPT ![msegs].end = Down(ProbeLimit)] /\ msegs' = msegs + 1
     ELSE UNCHANGED <<pmap, msegs>>
  /\ pc' = "sort" /\ i' = 0
  /\ UNCHANGED <<given, e820, probing, points, overlap, last_type, last_addr,
                 new_bios, plim_upper>>

-----------------------------------------------------------------------------

(* sort_pmap(): where element k is to go, -1 if no smaller one precedes it.*)
Place(k) == LET smaller == {j \in 0 .. k - 1 : pmap[j].start < pmap[k].start}
            IN  IF smaller = {} THEN -1 ELSE Max(smaller) + 1

(* The memmove() takes elements j + 1 .. k down to j .. k - 1, then the    *)
(* element is put at j.                                                    *)
SortElement ==
  /\ pc = "sort" /\ i < msegs
  /\ LET j == Place(i)
     IN  pmap' = [k \in DOMAIN pmap |->
                    CASE k = j         -> pmap[i]
                      [] j < k /\ k < i -> pmap[k + 1]
                      [] OTHER         -> pmap[k]]
  /\ i' = i + 1
  /\ UNCHANGED <<given, e820, probing, pc, points, overlap, last_type, last_addr,
                 new_bios, msegs, plim_upper>>

LastEnd == pmap[msegs - 1].end

(* The limits of the test become those of the map.                         *)
Finish ==
  /\ pc = "sort" /\ i = msegs
  /\ plim_upper' = LastEnd
  /\ pc' = "done"
  /\ UNCHANGED <<given, e820, probing, points, overlap, last_type, last_addr,
                 new_bios, i, pmap, msegs>>

Next ==
  \/ SearchOn \/ query_linuxbios \/ query_pcbios
  \/ StartBios \/ (\E c \in points : Sweep(c)) \/ EndSweep
  \/ BuildEntry \/ EndBuild
  \/ BuildLinuxbios \/ EndLinuxbios
  \/ StartProbe \/ Probe \/ ProbeGap \/ EndProbe
  \/ SortElement \/ Finish

Spec == Init /\ [][Next]_vars

-----------------------------------------------------------------------------
(* What the table says of an address: the largest type of the entries over *)
(* it, 0 where there is none.  A table is Plain when it has no empty entry *)
(* and none that wraps.                                                    *)
Within(e, u) == e.addr <= u /\ u < e.addr + e.size
TypeAt(u) ==
  Max({e820[k].type : k \in {n \in DOMAIN e820 : Within(e820[n], u)}} \cup {0})
Plain == ~Unreasonable /\ \A k \in DOMAIN e820 : e820[k].size # 0
Units == 0 .. AddressLimit - 1

(* The pages of the memory map, and those the table has to offer: of one   *)
(* usable type throughout.                                                 *)
PagesOf(k) == pmap[k].start .. pmap[k].end - 1
MapPages == UNION {PagesOf(k) : k \in 0 .. msegs - 1}
UnitsOf(page) == page * PageUnits .. (page + 1) * PageUnits - 1
UsablePages ==
  {page \in 0 .. Down(AddressLimit) - 1 :
     \E t \in {RAM, ACPI} : \A u \in UnitsOf(page) : TypeAt(u) = t}
HolePages == Down(RES_START) .. Down(RES_END) - 1

(* No usable entry of the sanitised map reaches over the hole.             *)
HoleRespected ==
  \A k \in DOMAIN new_bios :
    LET e == new_bios[k]
    IN  e.type \in {RAM, ACPI} => ~(e.addr <= RES_START /\ RES_END <= e.addr + e.size)

TypeOK ==
  /\ pc \in {"search", "pcbios", "size", "sweep", "build", "probe", "gap", "sort", "done"}
  /\ gap \in 0 .. GapSteps /\ p \in 0 .. AddressLimit - 1
  /\ overlap \subseteq DOMAIN e820 /\ points \subseteq (DOMAIN e820) \X {"from", "to"}
  /\ last_type \in 0 .. NVS /\ last_addr \in Nat
  /\ new_bios \in Seq([addr : Nat, size : Nat \ {0}, type : {RAM, RESERVED, ACPI, NVS}])
  /\ Len(new_bios) <= E820MAX
  /\ msegs \in 0 .. E820MAX /\ i \in 0 .. E820MAX
  /\ pmap \in [-1 .. E820MAX -> [start : Nat, end : Nat]]
  /\ plim_upper \in Nat

(* "Removing overlaps": the sanitised map is in ascending order, without   *)
(* overlaps, and says of every address what the table says, as far as it   *)
(* had room.                                                               *)
Sanitised ==
  pc = "build" /\ Plain =>
    /\ \A k \in 1 .. Len(new_bios) - 1 :
         new_bios[k].addr + new_bios[k].size <= new_bios[k + 1].addr
    /\ \A u \in Units :
         LET here == {k \in DOMAIN new_bios : Within(new_bios[k], u)}
         IN  \/ \E k \in here : new_bios[k].type = TypeAt(u)
             \/ here = {} /\ (TypeAt(u) = 0 \/ Len(new_bios) = E820MAX)

(* What the BIOS reports becomes a map of usable pages only, none of them  *)
(* in the hole; and of all of them, when the sanitised map had room.       *)
BiosExact ==
  pc \in {"sort", "done"} /\ firmware = "pcbios" /\ Plain /\ new_bios # <<>>
    /\ HoleRespected =>
    /\ MapPages \subseteq UsablePages \ HolePages
    /\ Len(new_bios) < E820MAX => UsablePages \ HolePages \subseteq MapPages

(* The units that a search without a gap comes by, and the pages that each *)
(* stands for.                                                             *)
FirstProbe == Up(EndOfProgram) * PageUnits
Probed == {a \in Units : /\ Searching(a) /\ ~ Reserved(a)
                         /\ \E k \in 0 .. AddressLimit \div ProbeStep :
                              \/ /\ a = FirstProbe + k * ProbeStep
                                 /\ a < RES_START \/ RES_END <= FirstProbe
                              \/ a = RES_END + k * ProbeStep /\ FirstProbe < RES_END}
PagesAt(a) ==
  Down(a) .. Down(Min({a + ProbeStep, IF a < RES_START THEN RES_START ELSE ProbeLimit})) - 1
ProbedIn(from, to) == {a \in Probed : from <= a /\ a <= to}
LongGap(to) ==
  \E from \in Probed : /\ from <= to /\ ProbedIn(from, to) \cap ram = {}
                       /\ Cardinality(ProbedIn(from, to)) >= GapSteps

(* Probing finds the pages that answer, none of the hole or below the end  *)
(* of the program, and all of them up to the first long gap.               *)
ProbeExact ==
  pc = "sort" /\ i = 0 /\ mode = "probe" =>
    MapPages = UNION {PagesAt(a) : a \in {b \in Probed \cap ram :
                                           ~ \E c \in Probed : c < b /\ LongGap(c)}}

(* A table of coreboot that was taken is whole, and the map has the pages  *)
(* of its memory, of the first record that tells of it, there or where it  *)
(* forwards to; none is overlooked that lies before.                       *)
SumOf(words) == FoldLeft(LAMBDA a, b : a + b, 0, words)
Whole(head) ==
  /\ head.signature /\ head.header_bytes
  /\ SumOf(head.words) > 0 /\ SumOf(head.words) % WordMask = 0
  /\ (SumOf(head.table_words) + head.table_checksum) % WordMask = 0
RangesOf(head) ==
  UNION {{head.recs[k].ranges[n] : n \in 1 .. Min({Entries(head.recs[k]), E820MAX})} :
           k \in {m \in MemoryRecords(head) : \A n \in MemoryRecords(head) : m <= n}}
CorebootExact ==
  pc = "sort" /\ i = 0 /\ firmware = "linuxbios" =>
    /\ Whole(board[place])
    /\ \A a \in DOMAIN board : (a < LowEnd \/ HighStart <= a) /\ a < place => ~ Accepted(board[a])
    /\ \E a \in DOMAIN board :
         /\ a = IF Forwards(board[place]) THEN board[place].recs[1].forward ELSE place
         /\ (\A r \in RangesOf(board[a]) : r.addr + r.size < AddressLimit) =>
              MapPages = {page \in 0 .. Down(AddressLimit) - 1 :
                            \E r \in RangesOf(board[a]) :
                              r.ram /\ \A u \in UnitsOf(page) : Within(r, u)}

(* The memory map has what the table of the BIOS or of coreboot, or the    *)
(* memory that answers, says and no more, at each stage it goes through.   *)
MapExact == Sanitised /\ BiosExact /\ ProbeExact /\ CorebootExact

(* The sanitised map and the search make disjoint entries in ascending     *)
(* order, after all the rounding and clipping; only one that is no whole   *)
(* page may begin where the next one does.                                 *)
BuiltInOrder ==
  pc = "sort" /\ i = 0 /\ firmware # "linuxbios" =>
    \A k \in 0 .. msegs - 2 :
      /\ pmap[k].start <= pmap[k + 1].start
      /\ pmap[k].end <= pmap[k + 1].start

(* sort_pmap() leaves them in ascending order, although it takes elements  *)
(* that begin at the same page for unsorted ones: it may put one of them   *)
(* over the others, but no page comes to be in two different elements.     *)
StillInOrder ==
  pc = "done" /\ firmware # "linuxbios" =>
    \A k, l \in 0 .. msegs - 1 : k < l =>
      /\ pmap[k].start <= pmap[l].start
      /\ pmap[k] = pmap[l] \/ PagesOf(k) \cap PagesOf(l) = {}

(* The upper limit is the end of memory: nothing of the map is beyond it.  *)
LimitIsEnd ==
  pc = "done" /\ firmware # "linuxbios" => \A page \in MapPages : page < plim_upper

(* What the rest of the program takes for granted of the memory map.       *)
MapInOrder == BuiltInOrder /\ StillInOrder /\ LimitIsEnd
=============================================================================
