# A verification model of memtest86+

These modules model the parts of memtest86+ 4.20 (the fork that paints the
screen green after two clean passes) whose correctness depends on the order in
which things happen. TLC checks them on small machines; TLAPS proves most of
the safety properties of eight of them for every machine.

## 1. The system

memtest86+ runs alone on the processor, in 32-bit protected mode, with no
scheduler and no interrupts but traps and NMIs. It is one loop, written as a
function that never returns: `do_test()` tests one window of memory with one
test, then copies the program to another address and jumps to its beginning.
Everything else is called from there.

| Component | State | Operations | Hard part | Correct when |
|---|---|---|---|---|
| test sequencer (`main.c`) | `window`, `windows[]`, `v->map`, `v->test`, `v->pass`, `v->testsel`, `bail`, `firsttime`, `run_at_addr`, `high_test_adr` | `do_test`, `run_at`, `restart`, `compute_segments`, `find_ticks_for_pass` | where it is running decides what it may test; the menu changes its variables in the middle of a test | it never tests its own code or memory it was not given; every test goes over all the rest; passes and verdicts count only what was run |
| mapping (`init.c`) | `mapped_window`, the page tables | `map_page`, `paging_off`, `mapping`, `emapping`, `page_of` | the second 2 GB are an alias for any other slice | the slice mapped is the one that is meant |
| menu (`config.c`) | `v->plim_lower`, `v->plim_upper`, `v->selected_pages`, `v->testsel`, `memsz_mode`, `v->printmode` | `get_config`, `adj_mem` | called from any tick and from the end of a test | the interrupted test gives up when what it uses has changed |
| memory map (`memsize.c`, `linuxbios.c`) | `v->pmap`, `v->msegs`, the copy of the e820 table | `mem_size` and one function per source | overlapping, unordered, clipped entries | ascending, disjoint, only usable memory |
| memory tests (`test.c`, `random.c`) | pointers, patterns, `SEED_X`, `SEED_Y` | one function per test | loop bounds at the ends of segments and of the address space; each sweep expects what the one before left | sound memory is never reported, bad memory is, and a key stops the writing with the chunk |
| error report (`error.c`) | `v->erri`, `v->ecount`, `tseq[].errors`, the scroll area | `ad_err1`, `ad_err2`, `error`, `common_err`, `print_ecc_err`, `parity_err`, `do_tick` | duplicate suppression, four report modes, reports from an NMI | each error is counted once and summarised correctly |
| BadRAM patterns (`patn.c`) | `v->patn`, `v->numpatn` | `insertaddress` and its cost functions | the table is full and patterns are merged | every error address is covered by some pattern |
| console (`lib.c`, `screen_buffer.c`) | screen, screen buffer, `slock`, serial settings | `get_key`, `check_input`, `wait_keyup`, `getval`, `scroll`, `popup` | three copies of one screen, of which two get differences; codes of keys let go count as keys | the copies agree, a number is what its text says, waiting ends |
| memory controllers (`controller.c`) | `ctrl`, the status registers | `poll_errors`, `set_ecc_polling`, one `setup` and `poll` per chipset | the controller latches errors between the read of a register and the write that clears it | no error is counted twice, what is read is reported, polling is on only where errors are detected |
| DMI (`dmi.c`) | `mem_devs`, `md_maps`, `dmi_err_cnts` | `open_dmi`, `add_dmi_err`, `print_dmi_info` | read when first needed; 32-bit ends of ranges, addresses of a mapped window | a device is blamed for the errors in its memory and no others |
| self relocation (`reloc.c`, `head.S`) | GOT and relocation records | `_dl_relocate` | runs after every jump | the words of the copy that runs are those of its place, by whatever way it came there |
| SPD (`spd.c`), timings (`extra.c`), CPU and PCI detection (`init.c`, `pci.c`), boot (`*.S`), SMP (`smp.c`, not built) | hardware | reading and printing | none that depends on order | out of scope |

How they interact: `do_test` calls `init` once (which calls `mem_size`), then
for each window `compute_segments`, `map_page` and a test function; the test
calls `error` for each bad cell and `do_tick` after each chunk; `do_tick` calls
`check_input`, which may call `get_config`, and then `poll_errors`. `get_config`
writes the sequencer's variables directly, calls `find_ticks_for_pass` (which
overwrites `v->map` and `window`) and asks the test to give up by incrementing
`bail`; or it calls `restart`, which never returns.

The hazards this leads to are listed in `PROJECT.json`, each at its line.

## 2. Modules

| Module | Models |
|---|---|
| `Segments` | the arithmetic: `windows[]`, `compute_segments`, `mapping`, `emapping`, `page_of`, `adj_mem` |
| `Sequencer` | `do_test` and everything that changes its state: relocation, menu, mapping, ticks |
| `SequencerProps` | its properties |
| `TestPlan` | what the sequencer promises, abstractly; `SequencerProps` instantiates it with a refinement mapping |
| `SequencerProofs` | TLAPS proofs, those of `Relocation` included |
| `MCSequencer` | the small machines TLC uses |
| `Relocation` | `_dl_start` of `reloc.c`, as part of each jump of `Sequencer` |
| `MCRelocation` | the records of the image |
| `BadRAM` | `insertaddress` of `patn.c` and all it calls |
| `BadRAMProofs` | TLAPS proofs |
| `MCBadRAM` | the addresses TLC reports errors for |
| `Coreboot` | a coreboot table as `linuxbios.c` reads it: checksums, records, ranges |
| `MemMap` | the search for such a table, and `mem_size` with it, with one from the BIOS, or by probing |
| `MemMapProofs` | TLAPS proofs |
| `MCMemMap` | the tables and the memory TLC supplies |
| `ErrorReport` | `error.c`, with `scroll`, the scroll lock and the printing mode menu |
| `ErrorReportProofs` | TLAPS proofs |
| `MCErrorReport` | the errors TLC reports |
| `MemTests` | the functions of `test.c`, the switch of `do_test` that calls them, `random.c` and the predicted ticks, on memory that may be faulty |
| `MemTestsProofs` | TLAPS proofs |
| `MCMemTests` | the segments and faults TLC supplies |
| `EccPoll` | `controller.c`: set-up and poll of every controller, with the menu and `restart` |
| `EccPollProofs` | TLAPS proofs |
| `MCEccPoll` | the boards: every controller in every mode of its registers |
| `Dmi` | `dmi.c`, with its calls from `common_err`, the menu and `init` |
| `DmiProofs` | TLAPS proofs |
| `MCDmi` | the DMI tables and the addresses of the errors |
| `Console` | `lib.c`, `screen_buffer.c`, the popup and the keys of `config.c` |
| `ConsoleProofs` | TLAPS proofs |
| `MCConsole` | the screen, the keys and the options |

Each module keeps the state of one component and takes from its neighbours what
the code takes: `MemMap` runs once, before the sequencer's main loop, and its
result is what `Machines` stands for in `Sequencer`; `Relocation` adds to each jump of
`Sequencer` what `reloc.c` does after it; the segments `Sequencer`
computes are the `Maps` of `MemTests`, and a tick of `MemTests` is one of
`Sequencer`; `ErrorReport` is what happens in one tick or one bad cell, and
touches only the test number and the restart; `BadRAM` and `Dmi` are called from
the error report and change nothing but their tables; `EccPoll` calls the error
report, whose scroll lock is where a poll can be interrupted; `Console` has the
keyboard under all of them, and the error lines as texts.

### Sequencer

The state is that of the C globals, with the same names. `pc` is the place in
the code (the header of the module lists the values); one action is the code
from one such place to the next. `at` is `&_start`: a copied program keeps all
its variables, so a jump changes only `at`. `map` is `v->map` as a function on
the indices of the memory map entries that reach into the window; `Position`
gives the C index.

Addresses are lines of 256 bytes, the finest unit the code uses (`_end` is
256-byte aligned, `emapping` stops at offset 0xf00, the BIOS area ends at 0x500).

A test is a number of `Phases`, passes over the segments of `v->map`; a segment
is covered at once and followed by a tick. The code has a tick after each chunk
of 4 MB or so; a tick in the middle of a segment does nothing that one at its
end does not, as the code under test reads `v->map` afresh only between segments.
The menu can also be opened in the report of an error (`error.c:215`), before the tick
of its chunk: the chunk is then written to its end, which `MemTests` has. Here the
segment counts as covered before its tick, and that order is the same; only the second
part of the address test, which goes on to other segments without a tick, would read
what such a menu has changed.
An error may be found in any segment (`Faults`), an ECC error in any tick.

The history variables `covered` (the lines each phase has touched) and `ran`
(the complete runs of each test) exist for the properties only.

Menu operations happen in `pc = "menu"`, as many as `MaxOps` allows, and leave
with `LeaveMenu` to the code that called `check_input`. Two of the menu's
answers are one action: "Select Bit Fade Test" is `SelectTest(LastTest)`. Keys
that change nothing here (scroll lock, redraw, ESC, which resets the machine)
are left out. An index outside the table of tests reads past it: then the test
may or may not start (`OpenWindow`).

Names of the form `X_with_...` are mistakes: what X would be after a plausible
slip. None is used by the specification; each breaks a property, which shows
that the property depends on X being right. They are in every module.

### Relocation

A relocation record is the kind, the place and the symbol of a word that holds an
address; `word` is what those words hold, `dynamic` the pointers of the dynamic
section, `last_load_address` the static variable of `reloc.c`. Nothing keeps the
words as they were linked: each jump changes them by the distance from the last
place (`elf_machine_rel`), and a table is read only where the moved pointer says it
is. `Moves` joins `_dl_start` to the jumps of `Sequencer`, whose other steps leave the
image alone. `R_386_COPY` is left out: the program is linked without shared
objects, and has none. So is what `head.S` does around the call.

### BadRAM

A word is the set of the numbers of its one bits. The masks and the bitwise
operators of the code are then sets, intersections and differences, and "the
pattern covers the address" is agreement on the bits of the mask. Costs are the
wrapping 32-bit differences of the code: the empty mask leaves 2^32 addresses
open, which is 0.

One call of `insertaddress` is several actions, its own (`InsertKnown`, `Append`
or `Merge`, by the branch taken) and one for each level of the recursion of
`relocateiffree` (`Relocate`, `RelocationDone`). Nothing else runs between them;
they are apart so that a property can say which of them loses an address. `idx`
is the argument of the next level. The variables `found`, `forced` and `slipped`
are history: the addresses inserted, whether the table was ever full, and whether
a relocation was not well-behaved, because its index was that of an entry just
moved away or because it joined an entry with itself.

### MemMap

The loops are taken one round at a time: `Sweep` passes a change point of
`sanitize_e820_map`, `BuildEntry` and `BuildLinuxbios` make an entry of `v->pmap`
from an entry of the table, `SortElement` puts one in its place. The order of
equal change points is left open, which allows all that the exchange sort of the
code may produce. `pmap` has an element -1 because `sort_pmap` writes there: it
stands for the last words of `v->erri`, which `init` resets after `mem_size`.
Addresses are counted in units, some to a page, so that unaligned ones exist.

`memsize_probe` is one round of its two loops at a time (`Probe`, `ProbeGap`);
memory is the set of units that answer, and the address where they begin to
repeat, which the code looks for first, is a constant. `check_ram` writes to what
it probes; what it leaves there is not modelled.

A coreboot table is looked for first, in the two ranges of `linuxbios.c`
(`0 .. LowEnd` and `HighStart .. HighEnd` here), and taken if the signature, the two
checksums and the number of records are right (`Accepted`). If its first record
forwards to another table that one is read, unchecked, as in the code
(`linuxbios.c:126`). A table without a memory record leaves the e820 table as it was,
empty.

Left out are `test_pages` and `reserved_pages`, which are only displayed.

### ErrorReport

`common_err` and `printpatn` are interrupted in two ways: they call `check_input`
themselves, whose menu may change `v->printmode`, the line and the remembered
error, start another `printpatn` or restart the program; and an NMI may stop them
anywhere, whose handler calls `common_err` for a parity error. So the state has a
stack of the calls in progress, each at a place in the code, and one action is
the code from one place to the next of the innermost call. NMIs are held back
from the interrupt until the handler's `iret`, which a restart never reaches.

Errors are records of the arguments of `common_err`; a word of data is the set of
its failing bits. Addresses and page numbers are numbers of the same kind, since
the code stores either in `eadr` and compares them. `insertaddress` is reduced to
what the report sees of it: whether the table has changed, and how many patterns
it has. `header` and `shown` are what the screen shows; `summed` and `lastline` are
history. Left out are the text of the lines, the red paint, the
confidence score and the counts per memory module. The test of `msg_line` in `scroll`
and its increment are two steps (`Scroll`, `Increment`), and an NMI may come between
them and put lines of its own: the increment is then of the line the test has read, or
of what the NMI has left, as the build may keep the value in a register or read it
again. `raced` is history: that has happened since `msg_line` was last reset.

### MemTests

One action is one chunk of one sweep of one function, from the limit of the chunk
to the tick that ends it; `here` is the place: the sweep, its iteration, segment,
pointer and limit. `ChunkUp` and `ChunkDown` are the chunk loop that every
function of `test.c` has a copy of, upward and downward, with its checks for the
overflow of the pointer; a function is the body of its loop (its line of `Visit`,
which `Sweep` takes from word to word), its stride, and where it goes on in the next
segment and after the last. The names are those of the code: `movinv1` is
`MovInv1Fill`, `MovInv1Up`, `MovInv1Down`. `block_move` and the two parts of
`addr_tst1` have loops of their own, and are so here.

Memory is a function from addresses to words and may have a fault: a bit stuck,
a bit that follows a neighbour, or two addresses of one word. Before a test writes
it, it holds nothing a test writes (`Leftover`), so that a sweep that expects a word
nothing wrote would report it. Words, pointers, chunks, strides and alignments
keep their proportions and are smaller. The assumptions on them are those the code
makes: `WordsAssumption` that an address is a word and that two turns of the block
move are its blocks, `MapsAssumption` that segments end where `emapping()` cuts them,
256 bytes short of a page, so that their last chunk has room for a stride of the
modulo test and for a block.

A key may be taken in a tick, and in each report of an error on the way there:
`common_err` calls `check_input` (`error.c:215`, and `printpatn` and `scroll` do), and
the menu sets `bail`, which the loop looks at only after its tick (`BAILR`). What is
written does not depend on `bail` before that, so a chunk stays one action: `since`
has, for each report of the chunk, the words written after it, and `Tick` chooses
whether a key has been taken, and at which report or in the tick itself. `late` keeps
the words written after it. A menu operation in a report changes nothing else in the
model. In the code it may change `v->map`: a chunk has its limits in variables of its
own, but the second part of `addr_tst1` reads the segments again (`test.c:97`), so that
a report there may have it go on in other segments. That is left out, and so is a
menu in the report of a parity error by an NMI, which may come at any word.

`find_ticks_for_test` is the prediction of `main.c`, compared with the ticks there are.
`errs`, `strays` and `late` are history. Left out are patterns 3 and 4, which no test of the table uses, the inline assembly's choice
of registers, and the seconds of `sleep`.

### EccPoll

A poll is a straight line of reports and clears that its first read of the status
decides, so each `poll_*` is the sequence of what it does for the bits read,
and `todo` what is left of it. Between any two of them the controller may latch
an error (`LatchError`); after a report, which may have to scroll, the program
may stand at the scroll lock (`at = "scroll"`), where the menu is open to the user
and `restart` leaves the poll. Each `setup_*` is what it leaves in `cap` and
`mode` and the bits it clears; `controllers` has the rows of the table that
differ in what they call. `setup_nhm` walks past the end of an array, so the mode
it finds is any. `fresh`, `due`, `owed` and `chosen` are history: errors latched
since the set-up, kinds of error read and not yet reported, kinds latched and
not yet dealt with, and whether the user has set polling. Where an error was is
left out: that is `ErrorReport`'s and `Dmi`'s.

### Dmi

`open_dmi` is the list of devices and of ranges it takes from the structures of a
table; `Ready` is the call of `init_dmi` at the head of everything that uses
them. `add_dmi_err` goes through pairs of a range and a device (`Matches`) in the
order of the two loops, and returns what the last pair made of it. Addresses are
what `common_err` passes: where the mapping makes the physical one appear
(`Mapped`), or, from an ECC report, its page number. `hits` and `ecc` are history.

`StructsAssumption` and `FitsAssumption` say what the code takes for granted of
a table: that what it reads from the system information is no handle of a device,
and that the devices and ranges fit the arrays, which the code does not check.

### Console

There are three copies of the screen, `vga`, `screen_buf` and `tty`, the terminal
on the serial line, and `save`, what the popup hides. `cprint` sends what differs
from the buffer; `ScrollBy`, `popclear`, `popdown` and `Redraw` send regions.
`input` has the codes not read yet, of keys pressed and let go; the serial line
has none of the latter. Each call of `get_key` that finds a code is a step, in
`check_input`, in `wait_keyup`, in the menu and in `getval`, and the user acts
between any two of them. Of the menu there is the way into it, to the address
range and to a number, and out of it; what the numbers do is `Sequencer`'s.
`asked`, `loose` and `scrolled` are history. `ser_map` has the rows of the table in
`lib.c` whose keys are told apart, in the code's order; `uart` is how
`serial_echo_init` programs the port; `inter` is the display of a trap that is no
parity error, after which the program only looks at the keys.

## 3. Runs

The machines of the sequencer: all have pages of 2 lines, windows of 14 pages, 4 windows, the low copy
in lines 2 to 4, the high copy at page 8 or, with more than 12 pages, 10. The
maps of `MCSequencer` have a hole below the second page group as PCs have, and
are too small for a high copy, large enough, large enough for the higher address
with memory in three windows, or with a gap across a window boundary; every
machine is taken with and without PAE. This gives each case of the relocation, of
the windows and of the clipping at least once.

| Run | Question | Bounds |
|---|---|---|
| `SeqUnattended` | left alone, is everything tested, safely and for ever, as `TestPlan` says, in copies that are sound? | records of each kind, 4 machines, 3 load addresses (at, overlapping and away from the low copy), 3 tests of 2 phases |
| `SeqMenu` | do any two menu operations keep testing safe and passes ending? | 2 tests, limits {4, 6, 20}, of which 4 is in the hole, test numbers {-2, 0, 2, 3}, two sizing modes |
| `SeqOneChange` | is the test that one change interrupts run again, and nothing else counted? | 1 operation, all kinds but sizing, limits also 0 and 2, errors |
| `BadPatterns` | are costs exact, is nothing captured in vain before the table is full, and nothing lost but by a slipped relocation? | 6 addresses in any order, words of 5 bits, 3 patterns, restarts |
| `MapTable` | is the memory map exact, ordered and inside its array? | up to 3 entries of 12 kinds in several orders, pages of 3 units, 36 units, arrays of 3; coreboot tables in and out of place, damaged, forwarding and without memory; 8 layouts of probed memory, a probe every two pages, gaps of two probes |
| `ReportModes` | is the summary right and shown as it is, do lines stay in their place and unrepeated, and does each report end? | 3 errors of 5 kinds, parity errors at any step, 2 things the user does, 3 nested calls, 2 lines, 2 patterns |
| `TestsFault` | does each test report what is wrong with memory, only that, in the ticks predicted, and end? | words of 8 bits, 256 of them in chunks of 64, 3 maps, 12 faults, the first and a later pass, a key at any tick and any report |
| `EccPolling` | are errors counted once and reported when read, and is polling on only where it should be? | every controller in every mode of its registers, 3 errors at any step, one restart |
| `DmiDevices` | are the devices blamed those with errors? | 9 tables of up to 6 structures, 13 addresses in three windows, 3 errors between restarts |
| `ConsoleKeys` | do the screens agree, and do keys do what they say wherever they are pressed and let go? | a header and two lines of 2 columns, 2 texts, 13 keys, one code unread when a key is pressed, numbers of 3 characters in words of 10 bits |
| `SeqDefaultTwice`, `BadLost` | each finds one disagreement between the code and what the repository says; see the findings in `PROJECT.json` | the operations needed: two of the menu, four addresses |

The properties of a run are conjunctions of named parts, one for each thing that
can go wrong: `CountsTrue`, for example, is `TestNumberInRange`, `BannerEarned` and
`PassCounted`. The parts are defined, with a comment each, before the whole.

Why the bounds are enough:

* Two menu operations are enough to have one act on what the other left; the pass
  counter is capped at `PassCap` = 2, the largest value the code tells apart, and
  so is `ran`.
* A table of three patterns can be filled, overfilled and shrunk again by
  relocation, and six addresses that differ in three bits give neighbours, pairs
  without a common bit and overlapping merges. With five bits the masks get as
  small as the empty one and the counts wrap; `BadLost` takes seven, so that no
  mask gets so small that an entry could join itself.
* With pages of 3 units an entry can begin or end at any place of a page; the
  tables overlap, touch, nest and reach into the hole from either side, and an
  array of three is filled by two entries that overlap. The layouts probed have
  memory before and behind gaps that are and are not long enough to end the search.
* Three errors are the least for one to be compared with what another two left
  behind, two lines are filled by the second error, and three calls are a report,
  the NMI in it and the patterns shown from its menu.
* The maps of `TestsFault` have segments of less than a chunk, of one and a part,
  and one in the last chunk of the address space, where `pe + SPINSZ` wraps; the
  faults are in the first and last words of segments and on either side of the
  borders of chunks.
* Three errors can set both bits and the mark of a third before, in and after a
  poll; the boards are those of every row of `controllers[]` that differs.
* The addresses of `DmiDevices` are the first and last bytes of the ranges, of
  the last kilobyte of a range and of the windows.
* A screen of three lines scrolls by the third error line. Three characters are
  enough for a prefix, a digit and a suffix, and for a digit to be left standing
  when the base under it changes; a limit of ten bits overflows.

`MapTable` and `ConsoleKeys` do not check for deadlock: `mem_size` returns
(`pc = "done"`), and ESC stops the program (`at = "halted"`).

Fairness. Everywhere it is the processor that goes on executing, which it does:
there is no scheduler. In `Sequencer` and `ErrorReport` it is weak fairness of
`Program`, and nothing is assumed of the user, who may leave the menu open or the
screen locked for ever; `PassesRecur` and `ReportEnds` name that as the other
outcome. In `MemTests` it is that of `Next`, one function calling another. In
`EccPoll` it is that of the set-up, of each step of a poll, since ticks
come as long as a test runs, and of `ScrollOn`: a scroll lock is taken off in the end,
without which a poll in progress stays where it is. In `Console` it is that of
what the program does with a code, and of `Lift`: a key is not held for ever.

What the passing runs do not say:

* `SeqMenu` leaves out "Default Tests" and refused limits, because they change
  `v->map` under a running test without telling it (`SeqDefaultTwice`). It does not check
  `RightMemory`: a lower limit in the hole is taken as an address of memory. A machine
  whose two sizing methods find memory on both sides of 17 MB is not among the
  instances: `high_test_adr` is never lowered again.
* `Sanitised` and `BiosExact` speak of tables without empty entries, and `BiosExact`
  of those in which no usable entry reaches over the whole hole.
* `ReportModes` leaves out one thing the user may do, to choose a printing mode while
  `scroll` waits for the scroll lock (`MenuInWait`): the line is then shown in
  the header. `LinePlaced` allows a line below the region, by one, after an NMI
  between the test and the increment of `msg_line` (`raced`), and only then.
  `ReportEnds` allows a wait at the scroll lock; that the lock can be taken off is
  shown only in `Console` (`WaitsEnd`, `LockAsAsked`).
* `TicksPredicted` is about patterns 0, 6, 7, 9, 10 and 11, and `Confined` is not
  about the first part of the address test. `ErrorsTrue` does not name the place
  of an error of the block move, which moves it, or of the address test, which
  reports the base of its walk. No seed is 0. `LateInChunk` is not about the address
  test, which has no tick before it has walked through all memory.
* `SeenReported` leaves out the AMD 76x, the i440GX and the E7221 with both errors,
  and `UnseenKept` is about the i850, i860, E7520 and E7221, which write back what
  they read.
* `BlameExact` is about memory below 4 GB and errors that tests found.
* `LockAsAsked` is about menus left by "0", and `TerminalTrue` leaves out the bottom
  line and the last column of a screen that has scrolled since it was redrawn.

Met while modelling, and not the subject of a run. The sequencer and its menu:

* "Default Tests" chosen once, in window 0, already puts the BIOS data area under
  test: the segments are those of the window reset by `find_ticks_for_pass`.
* Two changes of the limits during test 0 leave `v->test` below 0.
* A test selected and then unselected during the same pass makes that pass end
  without being counted.
* Passes of a selected test count towards the two after which the screen goes
  green (`main.c:505`); the bit fade test runs in the first window only
  (`main.c:399`).
* "Select Test" leaves `v->test` at -1 for the rest of the tick (`config.c:90`), in
  which an ECC error is charged to `tseq[-1]` (`error.c:336`).

The report and its patterns:

* The first error leaves the highest address at 0: its test is the alternative to
  that of the lowest (`error.c:65`, `error.c:75`).
* `eadr` is set without `exor` for an ECC error (`error.c:250`), so that the next
  data error there may be taken for a repeated one.
* "Only scroll if at the bottom of the screen" (`lib.c:196`): an NMI that puts a line
  between the test and the increment of `msg_line` (`lib.c:197`) leaves the next one on
  line 24, the last of the screen, below the region that scrolls.
* `relocateidx` inverts the entry's address so as to "never select idx"
  (`patn.c:95`); with a mask of one bit or none that is not enough.
* `relocateiffree` acts "only if free of charge" (`patn.c:101`) as judged by the
  sizes of both patterns; when they overlap the result covers addresses that
  neither of them did. `NoSpurious` says this takes a full table.
* `README:207` speaks of five pairs, `test.h:210` has room for ten.

The memory map:

* `sort_pmap` moves elements to the lower address (`memsize.c:104`): a coreboot table
  of two entries in descending order loses one of them.
* An empty e820 entry begins and never ends (`memsize.c:317`): its type applies to
  all that follows. An entry that reaches over the hole is not clipped
  (`memsize.c:154`).
* On a table that is in order already `sort_pmap` can write an element twice, when
  two begin at the same page (`memsize.c:94`); the map stays in order
  (`StillInOrder`). `memsize_probe` adds to `v->pmap` without a look at its length.
* A lower limit in the hole makes the high copy test from there (`main.c:230`).
* The search ends after a gap of 128 MB, not of "32768k" (`memsize.c:411`): `p` is a
  pointer to words. The page the limit is in is left out (`memsize.c:442`).

The memory tests:

* The first part of the address test walks from the first segment to the end of the
  last, over what is between them (`test.c:48`), and its rounded start wraps at the
  top of the address space (`test.c:29`).
* `block_move` fills a remainder of less than a block with a counter that starts at
  0 and wraps (`test.c:1120`), and `movinv32` goes down right only from segments of
  a multiple of 32 words. `emapping` makes both so, by leaving out the last 256
  bytes.
* A seed of 0 keeps the old one, not a default (`random.c:27`): the random test would check
  other numbers than it wrote.
* The ticks predicted for patterns 1, 2, 5 and 8 (`main.c:579`) are not those of the
  loops. With one iteration or less the first pass of the moving inversions is a
  fill without a check.

The controllers:

* `poll_amd76x` reports the multibit error as corrected and the single bit error as
  not (`controller.c:506`).
* `poll_iE7221` clears both errors, when both are there, without a report
  (`controller.c:1119`).
* The polls that clear the whole register (i840, i845, i820, i875, AMD 64) lose an
  error latched after their read.
* `setup_nhm` takes the size of an array for its length (`controller.c:231`),
  `setup_cnb20` leaves `ctrl.mode` at "unknown".
* The menu says "ON" where the controller has no poll; a restart forgets the choice,
  and never takes `fail_safe` back.

The relocation: a program without `DT_PLTREL` would have a NULL pointer followed
(`reloc.c:237`); it is linked with one.

The DMI table:

* `mem_devs` and `md_maps` are filled without a bound (`dmi.c:163`, `dmi.c:176`), one
  structure too many is read (`dmi.c:186`), structures of type 1 are taken for
  ranges (`dmi.c:179`), and a version is refused only if both its parts are too low
  (`dmi.c:164`).
* The end of a range leaves out its last kilobyte, and ranges above 4 GB are cut to
  32 bits (`dmi.c:292`); addresses above 2 GB are those of the mapped window, and ECC
  errors pass a page number (`error.c:39`).

The console:

* Leaving the menu with SP or CR sets or clears the scroll lock when the key is let
  go (`lib.c:679`, `config.c:366`).
* A scrolled screen is sent to the terminal without line 23 and column 79
  (`lib.c:219`); `clear_scroll` clears neither the buffer nor the terminal
  (`lib.c:226`).
* `getval` has a buffer of 16 characters and no bound (`lib.c:728`); sub-menus say
  they are left by CR and take SP (`config.c:340`).

## 4. Proofs

`SequencerProofs` proves, for every value of the constants the assumptions allow
(`ImageAssumption`: the copies are apart and below 2 GB and the image is larger
than a page; `MachinesAssumption`: sizing finds some memory):

* `TypeCorrect`: `TypeOK` is an invariant. It is not inductive alone: that the
  memory map is not empty and a phase is left to run needs `Initialised`.
* `SelfOverwriteNever`: relocations never overlap the executing copy. The
  invariant is `Place`: once initialised the program is at one of two addresses;
  before, it is where the loader left it or on the way to the low address.
* `CodeNeverTested`: `CodeUntouched` and `RightCopy`, when "Default Tests" and
  refused limits are not used. The invariant adds `Layout` (window 0 begins
  after the low copy, window 1 ends at the high one, and each window is entered
  in the copy it does not hold) and `Clear` (the segments of a test that has not
  been told to give up are away from the code). Three arithmetic facts carry it:
  a segment that begins at or above a page is tested at or above its address
  (`SegmentAbove`), one that ends below a page is tested below it
  (`SegmentBelow`), and an alias never means a lower address than itself
  (`PageOfAbove`). The other windows begin above both copies
  (`OnlyTheSecondHits`).

`Foundation` is the conjunction of these invariants. On them rest the results on
what is tested and counted, each under the hypothesis that makes it true:

* `MemoryAlwaysRight` (`RightMemory`), with `SafeOps` (the same two operations are not
  used) and `MapsInOrder` (which `MemMapProofs` proves of what `mem_size` makes). The
  invariant is `Aimed`: each segment of a test that goes on is in the slice mapped
  in, and every line of it is selected memory. It holds before the menu is opened, and
  each operation that could end it either sets `bail` or leaves `v->map` alone.
* `SelectionAlwaysKept` (`SelectionKept`), with `SafeOps`, `MapsInOrder`, `MapsOfPages` and
  `LimitsOfPages`. `SelectionSound` says that `selected_pages` is what `adj_mem` makes of the
  limits and the map there are; `PagesCounted` that its sum over the entries is the number
  of pages in them, one entry after the other. The last two hypotheses are what
  makes the terms of the sum numbers of pages: an entry within one page may be
  left with its start behind its end (`memsize.c:163`), and the menu takes 0 for an upper
  limit, however high the lower one is (`config.c:181`).
* `CountsAlwaysTrue` (`CountsTrue`), with `OneChange`: one operation, no skipping, and
  numbers of tests that exist. Otherwise it is false: two changes of the limits in
  one menu take `v->test` below -1. The invariant `Tally` says how often each test has
  run (`Counted`, `InTurn`), with the test the menu has lowered the number of taken as
  reached already (`Reached`), and so what the banner has been earned by.
* `MemoryAlwaysCovered` (`Coverage`), with `SafeOps` and `MapsInReach`: the map ends
  where the windows do (64 GB in the code), and all sizing methods agree on the high
  copy's place, since `high_test_adr` is never lowered (`main.c:210`). `Sized` says where
  windows 0 and 1 then begin and end. `CoveredSoFar` has two halves: between windows,
  each line of the windows passed is covered; in one, also the segments passed. That no
  page falls between the windows is the argument that the first window to end
  above a page holds it, for which the least such window is taken (`LeastElement`).
* `PlanFollowed` (`KeepsPromise`), with `Unattended` (the user only sizes and restarts),
  `MapsInReach` and `MemoryToTest` (there is a page to test outside the low copy and below
  4 GB; without one `do_test` ends tests of nothing). The refinement is proved step by
  step: a segment tested is `Touch`, the end of a test is `NextItem`, the banner is
  `Announce`, `init` is `Size`, a restart is `StartOver`, and all else stutters. It needs
  the four invariants above and `Steady`: left alone, all of memory stays selected.

It also proves, of `Relocation`, `CopyAlwaysSound` (`CopySound`) for every set of records
(`RecordsAssumption`, `AddressAssumption`: no copy is at address 0, which would look like
the first relocation). The invariant `RelocatedTo` says that the pointers and every
word have the values of the place `last_load_address`, and that is where the program is.
The first relocation adds the value of the symbol, later ones only the distance
(`FirstRelocation`, `NextRelocation`), and from each place the words of any other are had.

`MemMapProofs` proves, for every table, board and memory (`UnitsAssumption` and those
after it):

* `TypesAlways`: `TypeOK`, and that no table of the BIOS or of coreboot is written beyond
  `v->pmap`. A search by probing may be; for it the theorem has the hypothesis `Fits`.
* `MapAlwaysInOrder` (`MapInOrder`): the elements are built in ascending order. The
  invariant `OrderInv` has a part for each stage: what the sweep has emitted ends at or
  before the change point it is at (`SweepOrder`), the map built so far ends before
  the next entry (`BuildOrder`), what is probed ends behind what was found
  (`ProbeOrder`). `SortOrder` is what `sort_pmap` needs: on an ordered map it can
  only put an element over others that begin at the same page.
* `BiosMapAlwaysExact` (`MapExact`, of a table of the BIOS), from `ExactInv`. In the sweep
  the entry that is open spans from the last point passed to the next, where the table's
  type is that of the overlap list (`TypeBetween`), and what lies below a point passed is
  in the open entry, in a closed one, or has no type (`SweepTrue`). A closed entry has the
  table's type throughout, and the table has another type where it ends (`ClosedTrue`):
  starts are taken before ends at the same address (`TypeChanges`). So no usable page is split
  between two entries, and the pages of an entry built are those in it and not in the
  hole (`BuiltPagesAre`, `BuildTrue`). What the sort puts an element over is no whole
  page (`SortTrue`).
* `ProbedMapAlwaysExact` (`MapExact`, of a search), under `Fits`, from `ProbeTrue`: what
  has been found, with the element that is being filled in, are the pages of the
  probes before the `Cursor` that answer; the probes in vain before it are as many as
  the counter says (`Misses`, `LongGapIs`). The cursor comes by the probes one by one,
  and leaves none out (`CursorSteps`); a step that wraps ends the search as one beyond
  the limit does (`StepCursor`). It takes `StepAssumption`: a step is not longer than
  the hole, nor than what is between its beginning and the limit (0x4000, against
  0xa0000 to 0x100000, and a limit from 0xfffff up).

`ErrorReportProofs` proves, for every stack of nested reports (`PlacesAssumption`,
`ErrorsAssumption`: words have 32 bits, and page numbers are less than what `init` puts in
for "none"):

* `TypeCorrect`, from `Nesting`: what an NMI, a menu and a report may be called from, so
  that the stack has no place the code cannot return to; and from `Raised`: only an NMI
  races, and what it interrupts at the increment has read a line above the last, so that
  `msg_line` is never more than one line too low.
* `LinesAlwaysPlaced` (`LinePlaced`), under `~ MenuInWait`: a line is in the region, or
  one below it after such a race. `Placed` says which places have scrolled, and that
  nothing below them on the stack takes that back.
* `SummaryAlwaysTrue` (`SummaryTrue`), from `Summed`: the summary is that of the errors
  told of, less those whose report has not come to it (`Pending`), and the header is
  as old as the innermost report that is to refresh it.
* `LinesAlwaysTellOnce` (`LinesTellOnce`), from `Told`: what is remembered as shown is
  what the last line shows, or has been forgotten by `init` or the menu.

`ConsoleProofs` proves, for every size of the screen and the popup, every set of keys and
a queue of any length (`ScreenAssumption`, `KeysAssumption`: "" is no key;
`BaudsAssumption`; `NumbersAssumption`: no suffix is a digit, and shifts are less than a word):

* `ScreensAlwaysAgree` (`ScreensAgree`): one lemma for each way a part of the screen
  is changed. `PrintScreens` is the one where the copies get different cells: what is left
  out on the terminal and in the buffer is what the buffer has already. Only the
  boot needs an invariant: before there is a terminal it is what the buffer is (`Shape`).
* `LockAlwaysAsAsked` (`LockAsAsked`): the invariant `Queue` says that on the keyboard a key
  pressed is followed by its letting go before any other, and `Lock` that while a key of
  the lock is due to be let go outside the menu (`Owed`), the user's last wish is what
  letting go of it will set.
* `TypesAlwaysRight` (`TypeOK`): a key that is held leaves room for the code of letting it
  go (`Room`), and at the scroll lock, and in the menu opened there, a line waits (`Lines`).
* `EntriesAlwaysTrue` (`EntriesTrue`): an entry is what its text says. The value of a text
  is a recursive function over it; that there is one, which no definition in TLA+
  says by itself, is had from the least argument for which there were none (`Least`,
  `Recursion`). A text that was accepted has a prefix, digits of the base and a
  suffix, in that order (`Shaped`), and the shift of a suffix is a multiplication by a power
  of two, which is the size of a set of subsets here (`Cardinality(SUBSET S)`).

`MemTestsProofs` proves, for every width of a word, size of a chunk, map and fault
(`WordsAssumption` and those after it) and with the hypothesis `BanksInOrder`:

* `TypesAlwaysRight` (`TypeOK`): whatever the memory does, what is written and read by a
  test is a word and what is reported an address. Pointers stay in the segments:
  `PlaceInv` has where they may be at each place in the code, and that what is left of a
  segment is whole chunks and the odd one at its end (`Chunked`), which has room for
  the last stride or block. `ArgInv` has what the switch passes to each function.
  What memory holds before it is written is no word, and the block move writes what it
  reads: `WordsFilled` says that it reads only what it has filled.
* `WritesAlwaysAllowed` (`WritesAllowed`): nothing is written outside the segments but by
  the first part of the address test; after a key that ends a test at most `SPINSZ` + 1
  words are written (`LateInChunk`), and nothing after the tick that ends its chunk.
  `Within` counts, from word to word of a sweep, what is written after each report:
  a sweep that only fills reports nothing, one that only checks writes nothing, and the
  others write a word at each visit; `UpChunk` and `DownChunk` have how many there are.
  Each sweep is a recursive function over its words; that it exists, and that each
  word keeps what the word before had kept (`Kept`, `KeptWalk`), are `Recursion` and
  `Induction`, both from the least counterexample.
* `ErrorsAlwaysTrue` (`ErrorsTrue`): sound memory is never reported, and of bad memory
  only what is bad, but by the block move and the address test. The invariant `ClaimInv`
  says of the next word of a sweep what every healthy word holds: behind it what this
  sweep leaves (`Leaves`), ahead of it what the sweep before left (`Was`), in every
  segment that has words the test is about (`Claimed`: all of them, or one in `MOD_SZ`).
  With it goes what the sweep carries from word to word (`Carried`): the shifting
  pattern is the first one turned as often as there were words (`Turned`, for which
  rotations are shown to add up and to go back), the counter of the modulo test is the
  place in the stride, and the generator is as many numbers on as there are words before
  this one in the map (`Stream`, a recursive function), so that after `rand_seed` the
  second sweep draws the numbers of the first. One lemma for each kind of sweep
  (`...Effect`) has what a word does to this, `Induction` carries it along a chunk, and
  the switch of a sweep to the next segment or phase is a lemma for each (`Successor`).
  A write changes no other word but those of the fault (`StoreHealthy`), and of these
  nothing is claimed.
  The block move is another matter: the check asks only whether each two words are
  equal, and the move writes the words of the other half. `PairClaim` says that they stay
  equal two by two: blocks, chunks and halves are even (`BlocksEven`, `ChunkEven`), so no
  pair is parted, and what the fill leaves out at the end of a segment is written by the
  move before it is checked (`PairHeld`). In sound memory, last, the address walk never
  writes the base it compares with (`Rests`).

Two hypotheses are the code's own conditions. `Seeded`: `rand_seed` keeps an old seed
instead of one that is 0 (`random.c:27`; the comment there speaks of default seeds), and
the check would draw other numbers than the fill did. With `rdtsc` (`test.c:268`) the
second seed is the upper half of the counter, which is 0 in the first 2^32 cycles.
`WalksFrom`: the walk's base is the first segment's start rounded up (`test.c:48`), which
a short first segment does not contain; in a hole it reads back something else and is
reported. The seeds and maps of `TestsFault` satisfy both.

`BanksInOrder`: the first bank of a segment is its start rounded up (`test.c:92`), which
wraps for a segment that begins within the last bank of the address space; the walk
would be from address 0 on. Only the step from bank to bank is checked for that
(`test.c:121`). It takes memory that begins in the last megabyte of a slice of 2 GB.

`BadRAMProofs` proves, for every width above 2, every size of the table and every
set of addresses (`WidthAssumption`, `TableAssumption`, `FaultAssumption`):

* `TypeCorrect`: the table, its count and the index of the recursion stay inside
  their bounds, though the index may lie behind the last entry in use.
* `NothingLost` (`Kept`): the combination of two patterns covers what each of them
  does (`CombineCovers`), so no insertion takes anything away, and a relocation
  does not when its index is an entry of the table other than the one it joins.
  The case to look at is the last entry's move into the free place, when the
  last entry is the one just combined.
* `CapturesUnlessSlipped` follows: `found` is covered until a relocation is not
  well-behaved.
* `CostsAlwaysTrue`, from two halves. `KnownExactly`: an extension costs 0
  exactly when it leaves the mask as it is. A mask of n bits leaves 2^(Width - n)
  addresses open, a smaller one strictly more, and the wrapped difference is
  neither 0 nor ~0 then (`AddressesValue`, `Cost`). The powers of two are had as
  the sizes of sets of subsets, which grow with the set (`PowerGrows`): no induction
  is needed. `PlaceFound`: no cost reaches the limit ~0, so that a merge finds a place.

* `NothingSpurious` (`NoSpurious`): until an address is merged into a full table, the
  patterns stand for addresses found. The invariant `Exact` says that any two of them
  differ in a bit of both masks (`Apart`), so that they have no address in common. Joining
  two such patterns is free of charge only when they have the same mask and differ in one
  bit (`FreeJoin`: a mask with a bit less leaves twice as many addresses, `Doubles`), and
  what comes of it then covers what the two did (`JoinExact`). `Stale` is for the
  ill-behaved relocations: an index behind the table is that of a copy of a pattern, which
  joins it (`CopyJoinsItself`), or of one that is apart from all.

`DmiProofs` proves, for every table that fits (`FitsAssumption`), every size of a
kilobyte, a page and a window (`AddressesAssumption`):

* `TypeCorrect`: `TypeOK`. The lengths are those of `FitsAssumption`, from the first
  use of the table on, and before it everything is empty.
* `BlameAlwaysExact`: the devices blamed are those with errors. The invariant
  `Inv` says in which state of the table the arrays are, and `Counted` that a device
  is marked exactly when one of `hits` was at an address within one of its ranges.
  What remains is arithmetic: below 4 GB a range is not cut by its shift
  (`ShiftLow`), and a mapped address is the physical one (`MappedLow`: the second
  window is mapped to itself), so that being within is being covered (`WithinLow`).
* `ChangeAlwaysSaid`: for an address in one range of one device the last match is
  the only one (`OneVerdict`), and 1 means that the device was not marked before.

`EccPollProofs` proves, for every set of machines and any number of errors and
restarts (`BoardsAssumption`, `BoundsAssumption`):

* `TypeCorrect`: `TypeOK`, for which the report by the error address register must
  not be the last step of a poll (`EapInv`).
* `PollingWarranted` (`PollWarranted`): a controller that is unknown, hidden or passed
  over in fail-safe mode has no mode (`WarrantInv`).
* `SeenAlwaysReported` (`SeenReported`, half of `ReportsTrue`): what a read has seen is
  told of by the rest of the poll until it has been reported (`DueInv`). That is
  so of the sequence each poll begins with (`PollTells`, by the rows of the table), and
  each step keeps it. The AMD 751 reports once for each bank marked, and so needs that
  it marks one with every error (`BankInv`).
* `UnseenNeverLost` (`UnseenKept`): what a poll of these controllers has still to clear
  was set at its read and is cleared once, and what it clears of errors that are
  owed it reports before (`TellsFirst`, `KeepInv`). So no bit is still owed when the
  step that clears it comes, and a kind latched later is not among its bits.

Two more results of `EccPollProofs` complete `ReportsTrue`: `ReportsAlwaysTrue` adds to
`SeenReported` that no error is reported twice (`NoPhantom`). The invariant `CountInv`
bounds what has been counted, the reports the poll still has to make (`Reports`) and the
errors latched and unread (`ToCome`) by the errors there were.

Only model-checked:

* Liveness (`PassesRecur`, `EveryTestRecurs`, `ReportEnds`, `TestEnds`, `Attended`,
  `WaitsEnd`), which is out of the provers' reach.
* That the sweeps of `MemTests` find a fault (`FaultFound`), which needs the values of the
  bad words as well, after each write of a neighbour, and how many sweeps there are
  (`TicksPredicted`), a sum over the segments on both sides.
* `CorebootExact`, the part of `MapExact` for a table of coreboot: its checksums are folds
  over their words. The other parts are trivial then.

## 5. Not modelled, and the plan

Not modelled:

* `poll_fsb_*` and `poll_timings_*`, half of `controller.c`, `extra.c` (which no menu
  of this version reaches), `spd.c`, the rest of `pci.c` and the processor
  detection of `init.c`: they read registers and print, or write timings; nothing
  of them depends on an order.
* The assembly of the start: a jump is assumed to arrive at the new address.
* The search for the address where memory begins to repeat.
* Progress bars, times, the confidence score, `beep` and the printer: what is only
  displayed or sounded.
* `smp.c`, which is not built.
