------------------------------ MODULE Sequencer ------------------------------
(***************************************************************************)
(* The test sequencer of memtest86+ (main.c), with the parts of config.c,  *)
(* init.c and error.c that change its state.                               *)
(*                                                                         *)
(* do_test() tests one window of memory with one test and then jumps to    *)
(* the copy of the program that is to test the next one; it never returns. *)
(* The windows of a test are run one after the other, the tests of a pass  *)
(* one after the other, for ever.  While a test runs, do_tick() looks at   *)
(* the keyboard; the configuration menu it may open changes the very       *)
(* variables the interrupted test is using, and asks it to give up by      *)
(* setting bail.                                                           *)
(*                                                                         *)
(* pc is the place in the code:                                            *)
(*   "enter"  do_test(), after a jump to a copy of the program             *)
(*   "test"   a test, about to take the next segment of v->map             *)
(*   "tick"   do_tick(), before check_input()                              *)
(*   "poll"   do_tick(), before poll_errors()                              *)
(*   "next"   the label skip_window                                        *)
(*   "close"  the label bail_test                                          *)
(*   "ending" after the check_input() of bail_test                         *)
(*   "menu"   get_config(), called from check_input()                      *)
(***************************************************************************)
EXTENDS Segments

CONSTANTS
  Low,         \* line of LOW_TEST_ADR (0x2000), where the low copy runs
  ImageLen,    \* lines in the program image, _end - _start
  HighBoot,    \* page of the first high_test_adr (0x200000)
  HighBig,     \* page of the high_test_adr of a large machine (0x1000000)
  BigMemory,   \* page the memory must end above for HighBig (0x1100)
  UsbFloor,    \* first line a relocated test may touch (0x500)
  LoadAddrs,   \* lines at which a boot loader may leave the image
  LastTest,    \* the bit fade test, 9; 0 .. LastTest - 1 are the default ones
  Phases,      \* passes over v->map in a test: fill, check, ...
  PassCap,     \* v->pass is not counted beyond this
  Modes,       \* memory sizing modes, "bios" among them
  Machines,    \* what mem_size() finds in each mode, for each machine
  UserOps,     \* what the user may do, a subset of AllOps
  LimitPages,  \* pages the user may enter as a limit
  TestInputs,  \* test numbers the user may enter
  MaxOps,      \* bound on the menu operations of a behaviour
  Faults       \* {TRUE} if the memory may fail a test, {} if it is sound

AllOps == {"default", "skip", "select", "lower", "upper", "all", "refused",
           "sizing", "restart"}

(* The image is larger than a page, the two copies are below 2 GB and more *)
(* than a page apart, a boot loader leaves the image below the high        *)
(* address, and the area of the BIOS is in the first page, before the low  *)
(* copy.                                                                   *)
ASSUME ImageAssumption ==
  /\ Low \in Nat /\ ImageLen \in Nat /\ ImageLen >= PageLines
  /\ HighBoot \in Nat /\ HighBig \in Nat /\ BigMemory \in Nat /\ UsbFloor \in Nat
  /\ UsbFloor <= Low /\ UsbFloor <= PageLines
  /\ Low + ImageLen + PageLines <= HighBoot * PageLines
  /\ HighBoot * PageLines <= HighBig * PageLines
  /\ HighBig * PageLines + ImageLen < WindowPages * PageLines
  /\ LoadAddrs \subseteq Nat
  /\ \A a \in LoadAddrs : a + ImageLen < HighBoot * PageLines

ASSUME SequenceAssumption ==
  /\ LastTest \in Nat \ {0} /\ Phases \in Nat \ {0} /\ PassCap \in Nat \ {0, 1}
  /\ UserOps \subseteq AllOps /\ LimitPages \subseteq Nat /\ TestInputs \subseteq Int
  /\ MaxOps \in Nat /\ Faults \subseteq {TRUE}

(* Every sizing method finds some memory.                                  *)
MemoryMap == Seq([start : Nat, end : Nat]) \ {<<>>}

ASSUME MachinesAssumption ==
  /\ "bios" \in Modes
  /\ \A mach \in Machines : \A m \in Modes : mach[m] \in MemoryMap

-----------------------------------------------------------------------------
VARIABLES
  pc,             \* where the program is
  at,             \* &_start: the line the running copy is at
  run_at_addr,    \* where a relocation is going, or NoAddr
  firsttime,      \* TRUE once init() has run
  window,         \* index into windows[]
  win0_start,     \* windows[0].start
  win1_end,       \* windows[1].end
  high_test_adr,  \* page of the high copy
  mapped_window,  \* the 2 GB slice the upper half of the addresses reaches
  pae, machine,   \* what the program runs on: v->pae, and its memory maps
  mode,           \* memsz_mode
  pmap,           \* v->pmap
  plim_lower, plim_upper, selected_pages,
  map,            \* v->map; segs is Cardinality(DOMAIN map)
  bail,
  test, pass, testsel,
  ecount,         \* v->ecount > 0
  banner,         \* line 23: "none", "clean" (no errors) or "green"
  phase, j,       \* loops of the running test: pass over v->map, segment
  ret,            \* where check_input() returns to when the menu is left
  ops,            \* menu operations so far, at most MaxOps
  covered,        \* history: the lines each phase of this test has touched
  ran             \* history: complete runs of each default test, up to 2

place    == <<at, run_at_addr, firsttime>>
layout   == <<win0_start, win1_end, high_test_adr>>
memory   == <<mode, pmap, plim_lower, plim_upper, selected_pages>>
hardware == <<pae, machine>>
counters == <<test, pass, testsel, ecount, banner>>
loops    == <<phase, j>>
history  == <<covered, ran>>
user     == <<ret, ops>>
vars == <<pc, place, window, layout, mapped_window, hardware, memory, map, bail,
          counters, loops, user, history>>

NoAddr == -1
Untouched == [p \in 0 .. Phases - 1 |-> {}]
AtMost(cap, n) == IF n > cap THEN cap ELSE n

-----------------------------------------------------------------------------
(* Mistakes, as in Segments.                                               *)
Overlap_with_one_side(a, b) == a < b /\ a + ImageLen >= b

(* run_at(): copy the image to addr and jump there.  When the two copies   *)
(* overlap, the program first moves out of the way, to the high address,   *)
(* and do_test() finishes the relocation from there.                       *)
Overlap(a, b) == \/ a < b /\ a + ImageLen >= b
                 \/ b < a /\ b + ImageLen >= a

run_at(addr) ==
  LET high == high_test_adr * PageLines IN
  /\ run_at_addr' = addr
  /\ at' = IF Overlap(at, addr) /\ addr + ImageLen < high THEN high
           ELSE IF Overlap(at, addr) /\ at + ImageLen < addr THEN Low
           ELSE addr
  /\ pc' = "enter"

restart ==
  /\ firsttime' = FALSE
  /\ test' = 0 /\ pass' = 0 /\ ecount' = FALSE /\ banner' = "none"
  /\ run_at(Low)
  /\ UNCHANGED testsel

paging_off == mapped_window' = IF pae THEN 1 ELSE mapped_window

(* map_page(): make the slice of a page reachable.                         *)
Slice(page) == page \div WindowPages
CannotMap(page) ==
  /\ Slice(page) \notin {0, mapped_window}
  /\ ~pae \/ Slice(page) >= NumWindows - 1
map_page_with_low_slice(page) == mapped_window' = Slice(page)
map_page_with_old_slice(page) == UNCHANGED mapped_window
map_page(page) ==
  mapped_window' = IF Slice(page) = 0 THEN mapped_window ELSE Slice(page)

Segs(win, mem, lower, upper) ==
  compute_segments(mem, Window(win, win0_start, win1_end), lower, upper)

(* find_ticks_for_pass(): estimates the length of a pass.  It goes through *)
(* every window, leaves v->map with the segments of the current one and    *)
(* then makes the first window the current one.                            *)
find_ticks_for_pass(mem, lower, upper) ==
  /\ map' = Segs(window, mem, lower, upper)
  /\ window' = 0

-----------------------------------------------------------------------------
Resume_with_no_jump ==
  /\ pc = "enter" /\ run_at_addr \notin {NoAddr, at}
  /\ UNCHANGED vars

(* do_test(), finishing a partial relocation.                              *)
Resume ==
  /\ pc = "enter" /\ run_at_addr \notin {NoAddr, at}
  /\ at' = run_at_addr
  /\ UNCHANGED <<pc, run_at_addr, firsttime, window, layout, mapped_window, hardware,
                 memory, map, bail, counters, loops, user, history>>

Arrived == pc = "enter" /\ run_at_addr \in {NoAddr, at}

(* The boot loader left the image somewhere else: go to LOW_TEST_ADR.      *)
ColdStart ==
  /\ Arrived /\ ~firsttime /\ at # Low
  /\ restart
  /\ UNCHANGED <<window, layout, mapped_window, hardware, memory, map, bail, loops,
                 user, history>>

(* init(), find_ticks_for_pass() and the two windows that depend on where  *)
(* the program is and how much memory there is.                            *)
Initialise ==
  /\ Arrived /\ ~firsttime /\ at = Low
  /\ run_at_addr' = NoAddr /\ firsttime' = TRUE
  /\ LET mem  == machine[mode]
         last == mem[Len(mem)].end IN
       /\ pmap' = mem
       /\ plim_lower' = 0 /\ plim_upper' = last
       /\ selected_pages' = adj_mem(mem, 0, last)
       /\ find_ticks_for_pass(mem, 0, last)
       /\ high_test_adr' = IF last > BigMemory THEN HighBig ELSE high_test_adr
  /\ win0_start' = (Low + ImageLen + PageLines - 1) \div PageLines
  /\ win1_end' = high_test_adr'
  /\ test' = 0 /\ pass' = 0 /\ testsel' = -1
  /\ ecount' = FALSE /\ banner' = "none"
  /\ covered' = Untouched /\ ran' = [t \in 0 .. LastTest - 1 |-> 0]
  /\ UNCHANGED <<pc, at, mapped_window, hardware, mode, bail, loops, user>>

(* A window with nothing to test, or that cannot be reached.               *)
PassOver ==
  /\ Arrived /\ firsttime
  /\ bail' = FALSE /\ run_at_addr' = NoAddr
  /\ LET m == Segs(window, pmap, plim_lower, plim_upper) IN
       /\ \A i \in DOMAIN m : IsFirst(m, i) => CannotMap(m[i].pbase_addr)
       /\ map' = m
  /\ pc' = "next"
  /\ UNCHANGED <<at, firsttime, window, layout, mapped_window, hardware, memory,
                 counters, loops, user, history>>

(* The running copy is the high one: test all selected lower memory, but   *)
(* not the area the BIOS uses.                                             *)
FromLowerLimit(m) ==
  LET lowest == mapping(plim_lower) IN
  [i \in DOMAIN m |->
     IF IsFirst(m, i)
     THEN [m[i] EXCEPT !.start = IF lowest < UsbFloor THEN UsbFloor ELSE lowest]
     ELSE m[i]]

(* Set up a window and start the test on it.  The bit fade test runs in    *)
(* the first window only; a number that is none of a test's reads past the *)
(* table, and whatever it finds there may or may not be a pattern.         *)
OpenWindow ==
  /\ Arrived /\ firsttime
  /\ bail' = FALSE /\ run_at_addr' = NoAddr
  /\ LET m == Segs(window, pmap, plim_lower, plim_upper) IN
       /\ \E i \in DOMAIN m : /\ IsFirst(m, i) /\ ~CannotMap(m[i].pbase_addr)
                              /\ map_page(m[i].pbase_addr)
       /\ map' = IF at > Low THEN FromLowerLimit(m) ELSE m
  /\ test' = IF testsel >= 0 THEN testsel ELSE test
  /\ phase' = 0 /\ j' = 0
  /\ pc' \in CASE test' \in 0 .. LastTest - 1 -> {"test"}
               [] test' = LastTest -> {IF window = 0 THEN "test" ELSE "next"}
               [] OTHER -> {"test", "next"}
  /\ UNCHANGED <<at, firsttime, window, layout, hardware, memory, pass, testsel,
                 ecount, banner, user, history>>

-----------------------------------------------------------------------------
(* The running test: Phases times over v->map, do_tick() after every       *)
(* segment, giving up when the tick leaves bail set.                       *)
Lines(seg) == {page_of(line, mapped_window) : line \in seg.start .. seg.end - 1}

TestSegment ==
  /\ pc = "test"
  /\ \E i \in DOMAIN map :
       /\ Position(map, i) = j
       /\ covered' = [covered EXCEPT ![phase] = @ \cup Lines(map[i])]
  /\ ecount' \in {ecount} \cup Faults
  /\ pc' = "tick"
  /\ UNCHANGED <<place, window, layout, mapped_window, hardware, memory, map, bail,
                 test, pass, testsel, banner, loops, user, ran>>

EndPhase ==
  /\ pc = "test" /\ j >= Cardinality(DOMAIN map)
  /\ phase' = phase + 1 /\ j' = 0
  /\ pc' = IF phase + 1 < Phases THEN "test" ELSE "next"
  /\ UNCHANGED <<place, window, layout, mapped_window, hardware, memory, map, bail,
                 counters, user, history>>

(* check_input(): with no key pressed the caller goes on.                  *)
Caller == IF pc = "tick" THEN "poll" ELSE "ending"

NoKey ==
  /\ pc \in {"tick", "input"}
  /\ pc' = Caller
  /\ UNCHANGED <<place, window, layout, mapped_window, hardware, memory, map, bail,
                 counters, loops, user, history>>

(* poll_errors() may find an ECC error, which is counted like any other.   *)
(* Then BAILR, BAILOUT and skip_test, or the next segment.                 *)
Poll ==
  /\ pc = "poll"
  /\ ecount' \in {ecount} \cup Faults
  /\ IF bail
     THEN /\ test' = test + 1 /\ pc' = "close" /\ covered' = Untouched
          /\ UNCHANGED j
     ELSE /\ j' = j + 1 /\ pc' = "test"
          /\ UNCHANGED <<test, covered>>
  /\ UNCHANGED <<place, window, layout, mapped_window, hardware, memory, map, bail,
                 pass, testsel, banner, phase, user, ran>>

-----------------------------------------------------------------------------
(* skip_window: go on with the next window, in the copy of the program     *)
(* that is not in it.  Every test leaves through skip_test when bail is    *)
(* set, so the code's check of bail never succeeds here.                   *)
HighCopyFits ==
  pmap[Len(pmap)].end > ((high_test_adr * PageLines + ImageLen) \div PageLines) + 1

NextWindow == IF window + 1 >= NumWindows THEN 0 ELSE window + 1

(* The window begins below the end of the running copy.                    *)
WindowHitsCode(win) ==
  Window(win, win0_start, win1_end).start < (at + ImageLen) \div PageLines

RunWindow ==
  /\ pc = "next" /\ ~bail /\ NextWindow # 0
  /\ paging_off /\ window' = NextWindow
  /\ IF ~WindowHitsCode(NextWindow) THEN run_at(Low)
     ELSE IF HighCopyFits THEN run_at(high_test_adr * PageLines)
     ELSE UNCHANGED <<pc, at, run_at_addr>>
  /\ UNCHANGED <<firsttime, layout, hardware, memory, map, bail, counters, loops,
                 user, history>>

(* The test has run in all of the windows.                                 *)
AllWindowsRun ==
  /\ pc = "next" /\ ~bail /\ NextWindow = 0
  /\ paging_off /\ window' = 0
  /\ test' = test + 1 /\ pc' = "close"
  /\ covered' = Untouched
  /\ ran' = [t \in DOMAIN ran |-> IF t = test THEN AtMost(2, ran[t] + 1) ELSE ran[t]]
  /\ UNCHANGED <<place, layout, hardware, memory, map, bail, pass, testsel, ecount,
                 banner, loops, user>>

(* bail_test, up to its check_input().                                     *)
CloseTest ==
  /\ pc = "close" /\ pc' = "input"
  /\ paging_off
  /\ UNCHANGED <<place, window, layout, hardware, memory, map, bail, counters, loops,
                 user, history>>

PassEnds_with_one_less == pc = "ending" /\ (test >= LastTest - 1 \/ testsel >= 0)
PassEnds_with_no_selection == pc = "ending" /\ test >= LastTest

(* The rest of it: the end of a pass after the last test, and after every  *)
(* run of a test the user selected.  The banner keeps its colour.          *)
PassEnds == pc = "ending" /\ (test >= LastTest \/ testsel >= 0)

EndTest ==
  /\ pc = "ending"
  /\ window' = 0
  /\ IF PassEnds
     THEN /\ pass' = AtMost(PassCap, pass + 1)
          /\ test' = 0
          /\ banner' = IF ecount \/ testsel >= 0 THEN banner
                       ELSE IF pass' >= 2 \/ banner = "green" THEN "green"
                       ELSE "clean"
     ELSE UNCHANGED <<pass, test, banner>>
  /\ run_at(Low)
  /\ UNCHANGED <<firsttime, layout, mapped_window, hardware, memory, map, bail,
                 testsel, ecount, loops, user, history>>

-----------------------------------------------------------------------------
(* get_config(): any number of operations until the user continues.        *)
OpenMenu ==
  /\ pc \in {"tick", "input"} /\ ops < MaxOps
  /\ ret' = Caller /\ pc' = "menu"
  /\ UNCHANGED <<place, window, layout, mapped_window, hardware, memory, map, bail,
                 counters, loops, ops, history>>

LeaveMenu ==
  /\ pc = "menu"
  /\ pc' = ret
  /\ UNCHANGED <<place, window, layout, mapped_window, hardware, memory, map, bail,
                 counters, loops, user, history>>

Choose(op) == /\ pc = "menu" /\ op \in UserOps
              /\ ops < MaxOps /\ ops' = ops + 1
              /\ UNCHANGED ret

(* Every menu operation that stays in the menu leaves these alone.         *)
InMenu == UNCHANGED <<pc, place, layout, mapped_window, hardware, mode, pmap, ecount,
                      banner, loops, history>>

DefaultTests ==
  /\ Choose("default")
  /\ bail' = (bail \/ testsel >= LastTest)
  /\ testsel' = -1
  /\ find_ticks_for_pass(pmap, plim_lower, plim_upper)
  /\ InMenu /\ UNCHANGED <<test, pass, plim_lower, plim_upper, selected_pages>>

SkipTest ==
  /\ Choose("skip")
  /\ bail' = TRUE
  /\ InMenu
  /\ UNCHANGED <<window, map, test, pass, testsel, plim_lower, plim_upper, selected_pages>>

(* "Select Test" with the number i, and "Select Bit Fade Test", which does *)
(* the same with LastTest.                                                 *)
SelectTest(i) ==
  /\ Choose("select")
  /\ IF i <= LastTest /\ i # testsel
     THEN test' = -1 /\ pass' = -1 /\ testsel' = i
     ELSE UNCHANGED <<test, pass, testsel>>
  /\ bail' = TRUE
  /\ find_ticks_for_pass(pmap, plim_lower, plim_upper)
  /\ InMenu /\ UNCHANGED <<plim_lower, plim_upper, selected_pages>>

Limit_with_next_test(accepted, lower, upper) ==
  /\ accepted
  /\ plim_lower' = lower /\ plim_upper' = upper /\ bail' = TRUE
  /\ selected_pages' = adj_mem(pmap, lower, upper)
  /\ find_ticks_for_pass(pmap, lower, upper)
  /\ InMenu /\ UNCHANGED <<test, pass, testsel>>

Limit_with_no_bail(accepted, lower, upper) ==
  /\ accepted
  /\ plim_lower' = lower /\ plim_upper' = upper
  /\ selected_pages' = adj_mem(pmap, lower, upper)
  /\ find_ticks_for_pass(pmap, lower, upper)
  /\ InMenu /\ UNCHANGED <<test, pass, testsel, bail>>

(* New limits have the current test run again; adj_mem() and               *)
(* find_ticks_for_pass() are called whether or not they are accepted.      *)
Limit(accepted, lower, upper) ==
  /\ accepted \/ "refused" \in UserOps
  /\ IF accepted
     THEN plim_lower' = lower /\ plim_upper' = upper /\ test' = test - 1 /\ bail' = TRUE
     ELSE UNCHANGED <<plim_lower, plim_upper, test, bail>>
  /\ selected_pages' = adj_mem(pmap, plim_lower', plim_upper')
  /\ find_ticks_for_pass(pmap, plim_lower', plim_upper')
  /\ InMenu /\ UNCHANGED <<pass, testsel>>

LowerLimit(page) ==
  /\ Choose("lower")
  /\ Limit(page + 1 <= plim_upper, page, plim_upper)

(* page - 1 is unsigned: for page 0 it is the largest number there is.     *)
UpperLimit(page) ==
  /\ Choose("upper")
  /\ Limit(page = 0 \/ page - 1 >= plim_lower, plim_lower, page)

AllMemory ==
  /\ Choose("all")
  /\ Limit(TRUE, 0, pmap[Len(pmap)].end)

(* "Memory Sizing" and "Restart" leave the menu by starting all over.      *)
MemorySizing(m) ==
  /\ Choose("sizing")
  /\ mode' = m
  /\ restart
  /\ UNCHANGED <<window, layout, mapped_window, hardware, pmap, plim_lower, plim_upper,
                 selected_pages, map, bail, loops, history>>

Restart ==
  /\ Choose("restart")
  /\ restart
  /\ UNCHANGED <<window, layout, mapped_window, hardware, memory, map, bail, loops, history>>

-----------------------------------------------------------------------------
BiosMode == "bios"   \* memsz_mode is SZ_MODE_BIOS until the user changes it

Init ==
  /\ pc = "enter" /\ at \in LoadAddrs /\ run_at_addr = NoAddr /\ firsttime = FALSE
  /\ window = 0 /\ win0_start = 0 /\ win1_end = 0 /\ high_test_adr = HighBoot
  /\ mapped_window = 1 /\ pae \in BOOLEAN /\ machine \in Machines
  /\ mode = BiosMode /\ pmap = <<>> /\ map = <<>>
  /\ plim_lower = 0 /\ plim_upper = 0 /\ selected_pages = 0
  /\ bail = FALSE /\ test = 0 /\ pass = 0 /\ testsel = 0
  /\ ecount = FALSE /\ banner = "none"
  /\ phase = 0 /\ j = 0 /\ ret = "ending" /\ ops = 0
  /\ covered = Untouched /\ ran = [t \in 0 .. LastTest - 1 |-> 0]

Program == \/ Resume \/ ColdStart \/ Initialise
           \/ PassOver \/ OpenWindow \/ TestSegment \/ EndPhase \/ NoKey \/ Poll
           \/ RunWindow \/ AllWindowsRun \/ CloseTest \/ EndTest

User == \/ OpenMenu \/ LeaveMenu
        \/ DefaultTests \/ SkipTest
        \/ \E i \in TestInputs : SelectTest(i)
        \/ \E page \in LimitPages : LowerLimit(page) \/ UpperLimit(page)
        \/ AllMemory
        \/ \E m \in Modes : MemorySizing(m)
        \/ Restart

Next == Program \/ User

Spec == Init /\ [][Next]_vars

(* The program runs on; nothing is assumed of the user.                    *)
FairSpec == Spec /\ WF_vars(Program)
=============================================================================
