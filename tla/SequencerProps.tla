--------------------------- MODULE SequencerProps ---------------------------
(***************************************************************************)
(* What is claimed of the sequencer: the properties the runs check and the *)
(* proofs establish.  None of them is part of the model.                   *)
(***************************************************************************)
EXTENDS Sequencer

Image == at .. at + ImageLen - 1

(* The lines the running test is about to write.                           *)
NextLines == UNION {Lines(map[i]) : i \in {k \in DOMAIN map : Position(map, k) = j}}

PageOfLine(line) == line \div PageLines
Selected == SelectedPages(pmap, plim_lower, plim_upper)

(* Types, and the loop indices inside their bounds.                        *)
PlaceTypes ==
  /\ pc \in {"enter", "test", "tick", "poll", "next", "close", "input",
             "ending", "menu"}
  /\ ret \in {"poll", "ending"} /\ ops \in 0 .. MaxOps
  /\ at \in Nat /\ run_at_addr \in Nat \cup {NoAddr}
  /\ window \in 0 .. NumWindows - 1
  /\ win0_start \in Nat /\ win1_end \in Nat /\ high_test_adr \in Nat

MemoryTypes ==
  /\ machine \in Machines /\ mode \in Modes
  /\ mapped_window \in Nat \ {0}
  /\ plim_lower \in Nat /\ plim_upper \in Nat
  /\ pmap \in Seq([start : Nat, end : Nat])
  /\ DOMAIN map \subseteq DOMAIN pmap
  /\ \A i \in DOMAIN map : map[i].start \in Nat /\ map[i].end \in Nat

FlagTypes ==
  /\ firsttime \in BOOLEAN /\ pae \in BOOLEAN
  /\ bail \in BOOLEAN /\ ecount \in BOOLEAN

CounterTypes ==
  /\ test \in Int /\ testsel \in Int /\ pass \in -1 .. PassCap
  /\ banner \in {"none", "clean", "green"}
  /\ phase \in 0 .. Phases /\ j \in Nat

HistoryTypes ==
  /\ covered \in [0 .. Phases - 1 -> SUBSET Nat]
  /\ ran \in [0 .. LastTest - 1 -> 0 .. 2]

TypeOK == PlaceTypes /\ MemoryTypes /\ CounterTypes /\ FlagTypes /\ HistoryTypes

(* A test is running, perhaps with the menu open.                          *)
Testing == pc \in {"test", "tick", "poll"} \/ (pc = "menu" /\ ret = "poll")

(* What the types depend on: nothing runs before init() has found some     *)
(* memory, and a test counts its phases up to the last one.                *)
Initialised ==
  /\ pc # "enter" => firsttime
  /\ firsttime => pmap # <<>>
  /\ Testing => phase < Phases

(* Where the program runs: init() has made the place of the copies fixed,  *)
(* and only before it is a relocation ever a partial one.                  *)
HighLineNow == high_test_adr * PageLines

Place ==
  /\ high_test_adr \in {HighBoot, HighBig}
  /\ firsttime => /\ at \in {Low, HighLineNow}
                  /\ pc = "enter" => run_at_addr \in {NoAddr, at}
  /\ ~firsttime => \/ run_at_addr = NoAddr /\ at \in LoadAddrs
                   \/ run_at_addr = Low /\ at \in {Low, HighLineNow}

(* The windows fit the copies: the first begins after the low one, the     *)
(* second ends at the high one and is entered in it, the others in the low *)
(* one.                                                                    *)
Layout ==
  firsttime =>
    /\ win0_start * PageLines >= Low + ImageLen
    /\ win1_end = high_test_adr
    /\ pc = "enter" => at = IF window = 1 THEN HighLineNow ELSE Low

(* A test that has not been told to give up goes over segments that are    *)
(* away from the copy it runs in.                                          *)
Clear ==
  /\ pc = "test" => ~bail
  /\ Testing /\ ~bail =>
       /\ \A i \in DOMAIN map : Lines(map[i]) \cap Image = {}
       /\ at = IF window = 1 THEN win1_end * PageLines ELSE Low

(* What the safety of testing rests on; inductive with the types, as long  *)
(* as no menu operation changes v->map without telling the test to give up *)
(* (config.c's calls of find_ticks_for_pass()).                            *)
Foundation == Initialised /\ Place /\ Layout /\ Clear

-----------------------------------------------------------------------------
(* Safety of testing.                                                      *)

(* A test never writes over the copy of the program that is running it:    *)
(* that is what the windows and the relocation of do_test() are for.       *)
CodeUntouched == pc = "test" => NextLines \cap Image = {}

(* "We must not touch test below 0x500": the area the BIOS's USB support   *)
(* writes to is never tested, relocated or not.                            *)
BiosAreaUntouched == pc = "test" => \A line \in NextLines : line >= UsbFloor

(* Only memory of the memory map that is inside the limits is tested; and, *)
(* by the high copy, what is above the lower limit and below all of it: a  *)
(* hole of the map, when the limit is in one (main.c:230).                 *)
BelowSelected(page) ==
  at > Low /\ plim_lower <= page /\ \A other \in Selected : page < other

OnlySelectedMemory ==
  pc = "test" => \A line \in NextLines :
    PageOfLine(line) \in Selected \/ BelowSelected(PageOfLine(line))

(* The memory map is in order and without overlaps, as mem_size() sorts it *)
(* (MemMap.MapInOrder).                                                    *)
InOrder(mem) == \A i, k \in DOMAIN mem : i < k => mem[i].end <= mem[k].start
MapsInOrder == \A mach \in Machines : \A m \in Modes : InOrder(mach[m])

(* The segments of a test that has not been told to give up begin at the   *)
(* page they are computed for, and are selected memory above the BIOS area.*)
Meant(line) ==
  /\ line >= UsbFloor
  /\ PageOfLine(line) \in Selected \/ BelowSelected(PageOfLine(line))

Aimed ==
  Testing /\ ~bail => \A i \in DOMAIN map :
    /\ page_of(mapping(map[i].pbase_addr), mapped_window) = map[i].pbase_addr * PageLines
    /\ \A line \in Lines(map[i]) : Meant(line)

(* The slice mapped in is the one the segments of v->map were computed     *)
(* for, so that every test address reaches, and every error report names,  *)
(* the page that is meant.                                                 *)
AliasReachesWindow ==
  pc \in {"test", "tick", "poll"} /\ ~bail =>
    \A i \in DOMAIN map :
      page_of(mapping(map[i].pbase_addr), mapped_window) = map[i].pbase_addr * PageLines

(* A test works on the memory that is meant and never on the BIOS area,    *)
(* whatever do_test() has cut, relocated and mapped (main.c, init.c).      *)
RightMemory == BiosAreaUntouched /\ AliasReachesWindow

(* The copy that tests is the low one, but for the window below the high   *)
(* one.                                                                    *)
RightCopy ==
  pc \in {"test", "tick", "poll"} /\ ~bail =>
    at = IF window = 1 THEN win1_end * PageLines ELSE Low

(* A relocation never copies the image over the copy that is executing.    *)
NoSelfOverwrite ==
  [][at' # at => at' + ImageLen <= at \/ at + ImageLen <= at']_vars

(* The table of tests is indexed by one of its entries when a test starts. *)
TestNumberInRange == pc = "test" => test \in 0 .. LastTest

(* adj_mem() is called whenever the limits or the map change, and counts   *)
(* the pages that are in both.                                             *)
SelectedPagesCounted == firsttime => selected_pages = Cardinality(Selected)

(* The memory tested and the pages shown are those that the user selected, *)
(* after any operations of the menu (config.c).                            *)
SelectionKept == OnlySelectedMemory /\ SelectedPagesCounted

(* No entry of the memory map ends before it begins, as one made of less   *)
(* than a page may (memsize.c:163), and 0 is not entered as a limit: as    *)
(* the upper one it is accepted below the lower (config.c:181).            *)
WholePages(mem) == \A i \in DOMAIN mem : mem[i].start <= mem[i].end
MapsOfPages == \A mach \in Machines : \A m \in Modes : WholePages(mach[m])
LimitsOfPages == 0 \notin LimitPages

(* The count is that of the limits and the map there are.                  *)
SelectionSound ==
  firsttime =>
    /\ plim_lower <= plim_upper /\ InOrder(pmap) /\ WholePages(pmap)
    /\ selected_pages = adj_mem(pmap, plim_lower, plim_upper)

-----------------------------------------------------------------------------
(* Completeness of testing.                                                *)

(* The high test address of a machine with this memory.                    *)
FreshHigh == IF pmap[Len(pmap)].end > BigMemory THEN HighBig ELSE HighBoot
RoomForHighCopy ==
  pmap[Len(pmap)].end > ((FreshHigh * PageLines + ImageLen) \div PageLines) + 1

(* The last line of a segment, which emapping() leaves out.                *)
IsTail(line) ==
  LET page == PageOfLine(line) + 1 IN
  /\ line = page * PageLines - 1
  /\ \/ page % WindowPages = 0 \/ page = plim_upper
     \/ \E i \in DOMAIN pmap : page = pmap[i].end

(* The lines a test is to touch in each of its phases: all of the selected *)
(* memory except the BIOS area and the tails, except what only a processor *)
(* with PAE can reach, and except the pages of the low copy on a machine   *)
(* that has no room for the high one.                                      *)
Required ==
  {line \in UNION {page * PageLines .. page * PageLines + PageLines - 1 : page \in Selected} :
     /\ line >= UsbFloor /\ ~IsTail(line)
     /\ pae \/ PageOfLine(line) < 2 * WindowPages
     /\ RoomForHighCopy \/ PageOfLine(line) >= win0_start}

CoversRequired == \A p \in DOMAIN covered : Required \subseteq covered[p]

Defaults == 0 .. LastTest - 1

(* When a default test has run in all of its windows it has been over all  *)
(* of the memory it is to test, in every one of its phases.                *)
Coverage == [][AllWindowsRun /\ test \in Defaults => CoversRequired]_vars

(* No map reaches beyond the last window, and all maps of a machine ask for*)
(* the same high copy (high_test_adr is never lowered again, main.c:210).  *)
HighWanted(mem) == IF mem[Len(mem)].end > BigMemory THEN HighBig ELSE HighBoot
MapsInReach ==
  \A mach \in Machines : \A m \in Modes :
    /\ \A i \in DOMAIN mach[m] : mach[m][i].end <= (NumWindows - 1) * WindowPages
    /\ HighWanted(mach[m]) = HighWanted(mach["bios"])

(* What the coverage rests on.  The windows fit the memory map, and without*)
(* PAE the upper half of the addresses always reaches the second 2 GB.     *)
Sized ==
  /\ ~pae => mapped_window = 1
  /\ high_test_adr \in {HighBoot, HighWanted(machine["bios"])}
  /\ firsttime => /\ pmap \in {machine[m] : m \in Modes}
                  /\ high_test_adr = FreshHigh
                  /\ win0_start = (Low + ImageLen + PageLines - 1) \div PageLines

(* The number of the test that runs in the next window, and the lines that *)
(* belong to the first n windows.                                          *)
Number == IF testsel >= 0 THEN testsel ELSE test

InWindow(line, win) ==
  LET w == Window(win, win0_start, win1_end) IN
  w.start <= PageOfLine(line) /\ PageOfLine(line) < w.end

Due(n) == {line \in Required : \E win \in 0 .. n - 1 : InWindow(line, win)}

(* Between two windows a default test has been, in all of its phases, over *)
(* what is required of the windows before.                                 *)
BetweenWindows ==
  firsttime /\ (Number \in Defaults \/ test # Number) =>
    \A p \in DOMAIN covered : /\ pc = "enter" => Due(window) \subseteq covered[p]
                              /\ pc = "next" => Due(window + 1) \subseteq covered[p]

(* In a window it has besides been over the segments before the next one,  *)
(* and in the phases before the current one over all of them; what is      *)
(* required of the window is in the segments.                              *)
Mapped == \A line \in Due(window + 1) : line \in Due(window) \/ \E i \in DOMAIN map : line \in Lines(map[i])

NextSegment == IF pc = "test" THEN j ELSE j + 1
Gone(p, i) == p < phase \/ (p = phase /\ Position(map, i) < NextSegment)

WithinWindow ==
  firsttime /\ Testing /\ ~bail =>
    /\ test = Number
    /\ test \in Defaults =>
         /\ Mapped
         /\ \A p \in DOMAIN covered :
              /\ Due(window) \subseteq covered[p]
              /\ \A i \in DOMAIN map : Gone(p, i) => Lines(map[i]) \subseteq covered[p]

CoveredSoFar == BetweenWindows /\ WithinWindow

(* The screen goes green, or says that a pass completed without errors,    *)
(* only when every default test has run to its end, twice or once, since   *)
(* the program was started.                                                *)
BannerEarned ==
  /\ banner = "green" => \A t \in DOMAIN ran : ran[t] >= 2
  /\ banner = "clean" => \A t \in DOMAIN ran : ran[t] >= 1

(* The first pass of a run counts as pass 0, the one with half of the      *)
(* iterations.                                                             *)
PassCounted == pc = "test" => pass >= 0

(* What is counted is what was run: the number of the test, the pass and   *)
(* the verdict stay true when the menu interrupts a test and changes them. *)
CountsTrue == TestNumberInRange /\ BannerEarned /\ PassCounted

(* The user changes the settings at most once, to ones there are, or never *)
(* changes the test that runs or the memory it runs over.                  *)
Changes == {"select", "lower", "upper", "all"}
OneChange ==
  /\ "skip" \notin UserOps /\ ("select" \in UserOps => TestInputs \subseteq 0 .. LastTest)
  /\ MaxOps <= 1 \/ UserOps \cap Changes = {}

(* Nothing has been changed yet.                                           *)
Quiet == ops = 0 \/ UserOps \cap Changes = {}

(* The test to go on with: one that has been told to give up by a change   *)
(* of the limits has had its number lowered, for Poll to raise it again.   *)
Reached == IF Testing /\ bail THEN test + 1 ELSE test

Closing == pc \in {"close", "input", "ending"} \/ (pc = "menu" /\ ret = "ending")

(* While no test is selected the tests below the one reached have run once *)
(* more than there have been passes, and all of them once for each pass;   *)
(* while one is, it is that test that runs, in a pass that counts.         *)
Counted ==
  /\ Quiet => ~bail
  /\ pc \in {"test", "tick", "next"} => ~bail
  /\ firsttime =>
       /\ testsel \in -1 .. LastTest
       /\ Quiet => testsel = -1 /\ (Closing => test >= 1)

InTurn ==
  firsttime /\ testsel = -1 =>
    /\ pass >= 0
    /\ Reached >= 0 /\ Reached <= LastTest /\ (~Closing => Reached < LastTest)
    /\ \A t \in DOMAIN ran : /\ AtMost(2, pass) <= ran[t]
                             /\ t < Reached => AtMost(2, pass + 1) <= ran[t]

AsSelected ==
  firsttime /\ testsel >= 0 /\ ~Closing /\ ~(Testing /\ bail) =>
    /\ pass >= 0
    /\ Testing => test \in 0 .. LastTest

Tally == Counted /\ InTurn /\ AsSelected /\ BannerEarned

-----------------------------------------------------------------------------
(* Progress.                                                               *)

(* Memtest86+ executes indefinitely: unless the user leaves the menu open, *)
(* passes keep ending.                                                     *)
PassesRecur == <>[](pc = "menu") \/ []<>PassEnds

(* Every default test is run again and again.                              *)
EveryTestRecurs == \A t \in 0 .. LastTest - 1 : []<>(pc = "test" /\ test = t)
-----------------------------------------------------------------------------
(* The sequencer implements the plan: what a test still has to do is what  *)
(* some phase of it has not been over, and a pass is complete as soon as   *)
(* its last test is, before do_test() comes round to counting it.          *)
Area   == IF firsttime THEN Required ELSE {}
Item   == IF test >= LastTest THEN 0 ELSE test
Todo   == {line \in Area : \E p \in DOMAIN covered : line \notin covered[p]}
Passes == AtMost(PassCap, IF test >= LastTest THEN pass + 1 ELSE pass)

Promise == INSTANCE TestPlan WITH
  NumTests <- LastTest,
  MaxPass  <- PassCap,
  area     <- Area,
  item     <- Item,
  todo     <- Todo,
  passes   <- Passes,
  bad      <- ecount,
  verdict  <- banner

(* The user may look at the menu and start the program over, no more; and  *)
(* every map has a page to test above the low copy and below 4 GB.         *)
Unattended == UserOps \subseteq {"sizing", "restart"}

MemoryToTest ==
  /\ PageLines > 1
  /\ \A mach \in Machines : \A m \in Modes :
       \E page \in SelectedPages(mach[m], 0, mach[m][Len(mach[m])].end) :
         /\ page >= (Low + ImageLen + PageLines - 1) \div PageLines
         /\ page < 2 * WindowPages

(* What the plan rests on, besides the counts and the coverage: a program  *)
(* that is to size the memory knows nothing of an earlier one, all of the  *)
(* memory stays selected, and nothing is left of a test that is over.      *)
Steady ==
  /\ ~firsttime => test = 0 /\ pass = 0 /\ ~ecount /\ banner = "none"
  /\ firsttime => /\ plim_lower = 0 /\ plim_upper = pmap[Len(pmap)].end
                  /\ banner = "green" => pass >= 2
  /\ Closing => covered = Untouched

(* The tests of a pass are run in order, each over all of the memory, and  *)
(* only clean passes are announced (do_test() as a whole).                 *)
KeepsPromise == Promise!Plan
=============================================================================
