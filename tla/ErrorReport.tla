----------------------------- MODULE ErrorReport -----------------------------
(***************************************************************************)
(* The error report of memtest86+ (error.c), with what config.c, lib.c and *)
(* init.c do to its state.                                                 *)
(*                                                                         *)
(* A test, or the poll for ECC errors, calls common_err() for each error,  *)
(* which counts it and shows it in the form of the mode selected.  While   *)
(* it shows a line it looks at the keyboard, so that the menu may change   *)
(* the mode, select another test or restart the program in the middle of a *)
(* report.  A parity error is an NMI: its handler calls common_err() too,  *)
(* between any two steps of another report or of itself called from the    *)
(* menu.                                                                   *)
(*                                                                         *)
(* stack holds the calls in progress, the innermost first.  at is the      *)
(* place in the code of each:                                              *)
(*   "count"     common_err(), before update_err_counts()                  *)
(*   "mode"      before the switch on v->printmode                         *)
(*   "input"     at check_input(), before a line is shown                  *)
(*   "scroll"    scroll(), that line: the test of msg_line                 *)
(*   "raise"     the increment that follows it                             *)
(*   "wait"      scroll() at the bottom: loops while the lock is set       *)
(*   "line"      showing the line                                          *)
(*   "patinput", "patscroll", "patraise", "patwait", "patline"             *)
(*               those of printpatn()                                      *)
(*                                                                         *)
(* A word is the set of its one bits; addresses and page numbers are       *)
(* numbers, as the code compares the ones with the others.  Memory is      *)
(* below 2 GB, where page_of() is the page of the address.                 *)
(***************************************************************************)
EXTENDS Integers, Sequences, FiniteSetsExt

CONSTANTS
  WordSize,        \* of an address, 4
  PageSize,        \* 0x1000
  LINE_SCROLL,     \* first line of the scrolling region, 15
  LastLine,        \* and its last one, 23
  BADRAM_MAXPATNS, \* 10
  PatternsPerLine, \* 3
  LastTest,        \* tests are numbered from 0
  NoPatternTests,  \* those whose errors make no patterns, 0 and 5
  DataErrors,      \* <<address, bits>> of data errors; not 0x410 or 0x4e0,
                   \* which error() passes over
  AddressErrors,   \* <<address, mask, bits>> of errors of the address test
  EccErrors,       \* <<page, offset, corrected>> of ECC errors
  ParityErrors,    \* the addresses an NMI may stop the program at
  UserModes,       \* the modes the user may select
  UserOps,         \* what else: "select", "lock", "restart"
  MenuInWait,      \* whether a mode is selected while scroll() waits
  MaxDepth,        \* bound on the calls in progress
  MaxReports,      \* bound on the errors of a behaviour
  MaxOps           \* bound on what the user does in it

PrintModes == {"summary", "addresses", "patterns", "none", "dmi"}

ASSUME PlacesAssumption ==
  /\ WordSize \in Nat \ {0} /\ PageSize \in Nat \ {0}
  /\ LINE_SCROLL \in Nat \ {0} /\ LastLine \in Nat /\ LINE_SCROLL <= LastLine
  /\ BADRAM_MAXPATNS \in Nat \ {0} /\ PatternsPerLine \in Nat \ {0}
  /\ LastTest \in Nat /\ MaxDepth \in Nat \ {0}
ASSUME UserAssumption == UserModes \subseteq PrintModes /\ MenuInWait \in BOOLEAN

VARIABLES
  test,       \* v->test, which the sequencer sets
  printmode,  \* v->printmode
  ecount,     \* v->ecount
  ecc_ecount, \* v->ecc_ecount
  errors,     \* tseq[].errors; element -1 is what lies before the table
  erri,       \* v->erri
  msg_line,   \* v->msg_line
  slock,      \* the scroll lock
  numpatn,    \* v->numpatn
  stack,      \* the calls in progress
  nmi_masked, \* the processor holds NMIs back until an iret
  header,     \* what the scroll area of the screen is headed by
  shown,      \* the values of the summary it shows
  summed,     \* history: the errors in the summary
  lastline,   \* history: <<address, bits>> of the last line, None if of no such error
  raced,      \* history: since msg_line was reset an NMI came between test and increment
  reports,    \* errors so far
  ops         \* what the user has done so far

counts  == <<ecount, ecc_ecount, errors>>
screen  == <<header, shown>>
history == <<summed, lastline, raced>>
bounds  == <<reports, ops>>
vars    == <<test, printmode, counts, erri, msg_line, slock, numpatn, stack,
             nmi_masked, screen, history, bounds>>

None  == <<>>
Blank == <<>>

-----------------------------------------------------------------------------
(* The arguments of common_err(): adr, xor and type, the offset that good  *)
(* stands for in an ECC error, good ^ bad of an address error.             *)
DataError(a, x)       == [type |-> 0, adr |-> a, offset |-> 0, xor |-> x,
                          diff |-> x, corrected |-> FALSE]
AddressError(a, m, d) == [type |-> 1, adr |-> a, offset |-> 0, xor |-> m,
                          diff |-> d, corrected |-> FALSE]
EccError(p, o, c)     == [type |-> 2, adr |-> p, offset |-> o, xor |-> {},
                          diff |-> {}, corrected |-> c]
ParityError(a)        == [type |-> 3, adr |-> a, offset |-> a % PageSize,
                          xor |-> {}, diff |-> {}, corrected |-> FALSE]

Found == {DataError(e[1], e[2]) : e \in DataErrors}
           \cup {AddressError(e[1], e[2], e[3]) : e \in AddressErrors}
           \cup {EccError(e[1], e[2], e[3]) : e \in EccErrors}

(* Where it is, as the summary has it, and the bits that failed.           *)
page_of(adr) == adr \div PageSize
Place(e) == IF e.type = 2 THEN [page |-> e.adr, offset |-> e.offset]
            ELSE [page |-> page_of(e.adr), offset |-> e.adr % PageSize]
Failing(e) == IF e.type = 1 THEN e.diff ELSE e.xor

Below(a, b) == \/ a.page < b.page
               \/ a.page = b.page /\ a.offset < b.offset

(* A word has 32 bits, and a page a number below the 0x7fffffff that       *)
(* init() has for none.                                                    *)
NoPage == 2147483647
Bits == 0 .. 31
IsAddress(adr) == adr \in Nat /\ page_of(adr) < NoPage

ASSUME ErrorsAssumption ==
  /\ \A e \in DataErrors : IsAddress(e[1]) /\ e[2] \subseteq Bits
  /\ \A e \in AddressErrors : /\ IsAddress(e[1])
                             /\ e[2] \subseteq Bits /\ e[3] \subseteq Bits
  /\ \A e \in EccErrors : /\ e[1] \in Nat /\ e[1] < NoPage /\ e[2] \in Nat
                         /\ e[3] \in BOOLEAN
  /\ ParityErrors \subseteq Nat

-----------------------------------------------------------------------------
(* The line above the scrolling region, from which scroll() goes on.       *)
AboveFirst == LINE_SCROLL - 1

(* line is what the test of msg_line in scroll() read.                     *)
Top == stack[1]
At(place) == stack # <<>> /\ Top.at = place
Goto(place) == stack' = [stack EXCEPT ![1].at = place]
Call(place, e) ==
  stack' = <<[at |-> place, err |-> e, idx |-> 0, line |-> AboveFirst]>> \o stack

(* The NMI handler returns by an iret.                                     *)
Return == /\ stack' = Tail(stack)
          /\ nmi_masked' = (nmi_masked /\ Top.err.type # 3)

(* What init() sets; eadr and exor it leaves alone.                        *)
Cleared(er) == [er EXCEPT
  !.low_addr = [page |-> NoPage, offset |-> 4095],
  !.high_addr = [page |-> 0, offset |-> 0],
  !.min_bits = 32, !.max_bits = 0, !.maxl = 0, !.cor_err = 0, !.ebits = {},
  !.hdr_flag = 0, !.tbits = 0]

Init ==
  /\ test = 0 /\ printmode = "addresses"
  /\ ecount = 0 /\ ecc_ecount = 0 /\ errors = [t \in -1 .. LastTest |-> 0]
  /\ erri = Cleared([low_addr |-> [page |-> 0, offset |-> 0],
                     high_addr |-> [page |-> 0, offset |-> 0], min_bits |-> 0,
                     max_bits |-> 0, maxl |-> 0, cor_err |-> 0, ebits |-> {},
                     hdr_flag |-> 0, tbits |-> 0, eadr |-> 0, exor |-> {}])
  /\ msg_line = AboveFirst /\ slock = FALSE /\ numpatn = 0
  /\ stack = <<>> /\ nmi_masked = FALSE
  /\ header = "none" /\ shown = Blank
  /\ summed = {} /\ lastline = None /\ raced = FALSE
  /\ reports = 0 /\ ops = 0

-----------------------------------------------------------------------------
(* error(), ad_err1(), ad_err2() and print_ecc_err().                      *)
Report(e) ==
  /\ stack = <<>> /\ reports < MaxReports
  /\ Call("count", e)
  /\ ecc_ecount' = IF e.type = 2 THEN ecc_ecount + 1 ELSE ecc_ecount
  /\ reports' = reports + 1
  /\ UNCHANGED <<test, printmode, ecount, errors, erri, msg_line, slock, numpatn,
                 nmi_masked, screen, history, ops>>

(* The NMI, and parity_err().                                              *)
Raising == At("raise") \/ At("patraise")
Interrupt(adr) ==
  /\ ~nmi_masked /\ Len(stack) < MaxDepth /\ reports < MaxReports
  /\ Call("count", ParityError(adr))
  /\ nmi_masked' = TRUE
  /\ reports' = reports + 1
  /\ raced' = (raced \/ Raising)
  /\ UNCHANGED <<test, printmode, counts, erri, msg_line, slock, numpatn, screen,
                 summed, lastline, ops>>

(* update_err_counts().                                                    *)
Count ==
  /\ At("count")
  /\ ecount' = ecount + 1
  /\ errors' = [errors EXCEPT ![test] = @ + 1]
  /\ Goto("mode")
  /\ UNCHANGED <<test, printmode, ecc_ecount, erri, msg_line, slock, numpatn,
                 nmi_masked, screen, history, bounds>>

(* The upper and lower error addresses after an error at p.                *)
Lower_with_page_only(er, p) ==
  IF er.low_addr.page > p.page THEN p ELSE er.low_addr
Lower(er, p) == IF Below(p, er.low_addr) THEN p ELSE er.low_addr

Upper(er, p) ==
  LET raised == CASE er.low_addr.page > p.page -> er.high_addr
                  [] Below(p, er.low_addr) /\ er.low_addr.page = p.page ->
                       [er.high_addr EXCEPT !.offset = p.offset]
                  [] ~Below(p, er.low_addr) /\ er.high_addr.page < p.page ->
                       [er.high_addr EXCEPT !.page = p.page]
                  [] OTHER -> er.high_addr
  IN  IF raised.page = p.page /\ raised.offset < p.offset
      THEN [raised EXCEPT !.offset = p.offset]
      ELSE raised

Contiguous(er, e) == IF e.adr \in {er.eadr + WordSize, er.eadr - WordSize} THEN 2 ELSE 1

(* v->erri with one more error in it.                                      *)
Summary(er, e) ==
  LET n == Cardinality(Failing(e))
  IN  [er EXCEPT
        !.low_addr  = Lower(er, Place(e)),
        !.high_addr = Upper(er, Place(e)),
        !.tbits     = @ + n,
        !.max_bits  = Max({@, n}),
        !.min_bits  = Min({@, n}),
        !.ebits     = @ \cup Failing(e),
        !.maxl      = Max({@, Contiguous(er, e)}),
        !.eadr      = e.adr,
        !.cor_err   = IF e.corrected THEN @ + 1 ELSE @,
        !.hdr_flag  = 1]

Values(er) == <<er.low_addr, er.high_addr, er.ebits, er.min_bits, er.max_bits, er.maxl>>

(* flag: whether the values are to be shown anew.                          *)
Changed(er, e) == Values(Summary(er, e)) # Values(er) \/ er.ebits # Failing(e)

(* The first error after a change of the mode clears the area.             *)
Cleared_first(kind) == header' = IF erri.hdr_flag = 0 THEN kind ELSE header

InSummary ==
  /\ At("mode") /\ printmode = "summary"
  /\ LET e == Top.err
     IN  IF e.type = 3
         THEN UNCHANGED <<erri, screen, summed>>
         ELSE /\ erri' = Summary(erri, e)
              /\ summed' = summed \cup {e}
              /\ Cleared_first("summary")
              /\ shown' = IF Changed(erri, e) THEN Values(Summary(erri, e))
                          ELSE IF erri.hdr_flag = 0 THEN Blank ELSE shown
  /\ Return
  /\ UNCHANGED <<test, printmode, counts, msg_line, slock, numpatn,
                 lastline, raced, bounds>>

(* The first line of a case of the switch that does no more than clear.    *)
ClearArea(kind) ==
  /\ Cleared_first(kind)
  /\ shown' = IF erri.hdr_flag = 0 THEN Blank ELSE shown
  /\ erri' = [erri EXCEPT !.hdr_flag = 1]

IsDuplicate(e) == e.adr = erri.eadr /\ e.xor = erri.exor

Suppress ==
  /\ At("mode") /\ printmode = "addresses"
  /\ IsDuplicate(Top.err)
  /\ Return
  /\ UNCHANGED <<test, printmode, counts, erri, msg_line, slock, numpatn, screen,
                 history, bounds>>

BeginLine ==
  /\ At("mode") /\ printmode = "addresses"
  /\ ~IsDuplicate(Top.err)
  /\ ClearArea("addresses")
  /\ Goto("input")
  /\ UNCHANGED <<test, printmode, counts, msg_line, slock, numpatn, nmi_masked,
                 history, bounds>>

(* insertaddress() may leave the table as it is, or change it to have any  *)
(* number of patterns up to one more (see BadRAM).                         *)
InPatterns ==
  /\ At("mode") /\ printmode = "patterns"
  /\ ClearArea("patterns")
  /\ \/ Return /\ UNCHANGED numpatn
     \/ /\ test \notin NoPatternTests /\ Top.err.type = 0
        /\ numpatn' \in 0 .. Min({numpatn + 1, BADRAM_MAXPATNS})
        /\ Goto("patinput") /\ UNCHANGED nmi_masked
  /\ UNCHANGED <<test, printmode, counts, msg_line, slock, history, bounds>>

InOtherMode ==
  /\ At("mode")
  /\ \/ printmode = "none" /\ ClearArea("none")
     \/ printmode = "dmi" /\ UNCHANGED <<erri, screen>>
  /\ Return
  /\ UNCHANGED <<test, printmode, counts, msg_line, slock, numpatn, history, bounds>>

-----------------------------------------------------------------------------
(* check_input() returns; without patterns there is nothing to print.      *)
EndInput ==
  /\ \/ At("input") /\ Goto("scroll") /\ UNCHANGED nmi_masked
     \/ /\ At("patinput")
        /\ IF numpatn = 0 THEN Return ELSE Goto("patscroll") /\ UNCHANGED nmi_masked
  /\ UNCHANGED <<test, printmode, counts, erri, msg_line, slock, numpatn, screen,
                 history, bounds>>

Bottom_with_one_more == LastLine + 1
Bottom == LastLine

(* scroll(): the test of msg_line, and what follows it.  The increment is  *)
(* of the line that the test read or, if msg_line is read again, of what   *)
(* an NMI in between has made of it: the build may do either.              *)
Scroll ==
  /\ At("scroll") \/ At("patscroll")
  /\ IF msg_line < Bottom
     THEN stack' = [stack EXCEPT ![1].at = IF At("scroll") THEN "raise" ELSE "patraise",
                                 ![1].line = msg_line]
     ELSE Goto(IF At("scroll") THEN "wait" ELSE "patwait")
  /\ UNCHANGED <<test, printmode, counts, erri, msg_line, slock, numpatn, nmi_masked,
                 screen, history, bounds>>

Increment ==
  /\ Raising
  /\ \E line \in {Top.line, msg_line} : msg_line' = line + 1
  /\ Goto(IF At("raise") THEN "line" ELSE "patline")
  /\ UNCHANGED <<test, printmode, counts, erri, slock, numpatn, nmi_masked, screen,
                 history, bounds>>

(* "If scroll lock is on, loop till it is cleared."                        *)
Waiting == (At("wait") \/ At("patwait")) /\ slock

EndWait ==
  /\ At("wait") \/ At("patwait")
  /\ ~slock
  /\ Goto(IF At("wait") THEN "line" ELSE "patline")
  /\ UNCHANGED <<test, printmode, counts, erri, msg_line, slock, numpatn, nmi_masked,
                 screen, history, bounds>>

(* The error that duplicates are compared with.                            *)
Remember_with_address_only(e) == [erri EXCEPT !.eadr = e.adr]
Remember(e) == [erri EXCEPT !.eadr = e.adr,
                            !.exor = IF e.type \in {0, 1} THEN e.xor ELSE @]

PrintLine ==
  /\ At("line")
  /\ LET e == Top.err
     IN  /\ erri' = Remember(e)
         /\ IF e.type \in {0, 1}
            THEN lastline' = <<e.adr, e.xor>>
            ELSE lastline' = None
  /\ Return
  /\ UNCHANGED <<test, printmode, counts, msg_line, slock, numpatn, screen, summed,
                 raced, bounds>>

NextOnLine_with_no_step(k) == k
NextOnLine(k) == k + PatternsPerLine

(* A line of printpatn().                                                  *)
PrintPatterns ==
  /\ At("patline")
  /\ IF NextOnLine(Top.idx) < numpatn
     THEN /\ stack' = [stack EXCEPT ![1].at = "patscroll", ![1].idx = NextOnLine(@)]
          /\ UNCHANGED nmi_masked
     ELSE Return
  /\ lastline' = None
  /\ UNCHANGED <<test, printmode, counts, erri, msg_line, slock, numpatn, screen,
                 summed, raced, bounds>>

Program == \/ Count \/ InSummary \/ Suppress \/ BeginLine \/ InPatterns
           \/ InOtherMode \/ EndInput \/ Scroll \/ Increment \/ EndWait
           \/ PrintLine \/ PrintPatterns

-----------------------------------------------------------------------------
AtKeyboard_with_line == stack = <<>> \/ At("line") \/ At("patinput") \/ Waiting

(* check_input() is called from the tick, before a line and in the wait.   *)
AtKeyboard == stack = <<>> \/ At("input") \/ At("patinput") \/ Waiting

UserActs == AtKeyboard /\ ops < MaxOps /\ ops' = ops + 1

(* The printing mode submenu.                                              *)
SetMode(mode) ==
  /\ UserActs /\ (Waiting => MenuInWait)
  /\ printmode' = mode
  /\ erri' = [erri EXCEPT !.hdr_flag = 0,
                          !.eadr = IF mode \in {"summary", "addresses"} THEN 0 ELSE @]
  /\ msg_line' = IF mode = "addresses" THEN AboveFirst ELSE msg_line
  /\ lastline' = IF mode \in {"summary", "addresses"} THEN None ELSE lastline
  /\ raced' = IF mode = "addresses"
              THEN \E k \in DOMAIN stack : stack[k].at \in {"raise", "patraise"}
              ELSE raced
  /\ IF mode = "patterns"
     THEN Len(stack) < MaxDepth /\ Call("patinput", [type |-> -1])
     ELSE UNCHANGED stack
  /\ UNCHANGED <<test, counts, slock, numpatn, nmi_masked, screen, summed,
                 reports>>

(* Selecting a test makes its number -1 until the sequencer moves on.      *)
SelectTest ==
  /\ UserActs /\ "select" \in UserOps
  /\ test' = -1
  /\ UNCHANGED <<printmode, counts, erri, msg_line, slock, numpatn, stack,
                 nmi_masked, screen, history, reports>>

Lock ==
  /\ UserActs /\ "lock" \in UserOps /\ ~slock
  /\ slock' = TRUE
  /\ UNCHANGED <<test, printmode, counts, erri, msg_line, numpatn, stack,
                 nmi_masked, screen, history, reports>>

Unlock ==
  /\ AtKeyboard /\ slock
  /\ slock' = FALSE
  /\ UNCHANGED <<test, printmode, counts, erri, msg_line, numpatn, stack,
                 nmi_masked, screen, history, bounds>>

(* restart() and then init(): no call returns, not even the NMI handler.   *)
Restart ==
  /\ UserActs /\ "restart" \in UserOps
  /\ test' = 0 /\ printmode' = "addresses"
  /\ ecount' = 0 /\ ecc_ecount' = 0
  /\ errors' = [t \in -1 .. LastTest |-> IF t = -1 THEN errors[t] ELSE 0]
  /\ erri' = Cleared(erri)
  /\ msg_line' = AboveFirst /\ numpatn' = 0
  /\ stack' = <<>>
  /\ header' = "none" /\ shown' = Blank
  /\ summed' = {} /\ lastline' = None /\ raced' = FALSE
  /\ UNCHANGED <<slock, nmi_masked, reports>>

(* The sequencer goes on to a test.                                        *)
NextTest(t) ==
  /\ stack = <<>>
  /\ test' = t
  /\ UNCHANGED <<printmode, counts, erri, msg_line, slock, numpatn, stack,
                 nmi_masked, screen, history, bounds>>

Next ==
  \/ Program
  \/ \E e \in Found : Report(e)
  \/ \E adr \in ParityErrors : Interrupt(adr)
  \/ \E mode \in UserModes : SetMode(mode)
  \/ SelectTest \/ Lock \/ Unlock \/ Restart
  \/ \E t \in 0 .. LastTest : NextTest(t)

Spec == Init /\ [][Next]_vars

(* The processor goes on executing.                                        *)
FairSpec == Spec /\ WF_vars(Program)

-----------------------------------------------------------------------------
(* Everything has its type; msg_line is at most one line too low.          *)
TypeOK ==
  /\ test \in -1 .. LastTest /\ printmode \in PrintModes
  /\ ecount \in Nat /\ ecc_ecount \in Nat
  /\ errors \in [-1 .. LastTest -> Nat]
  /\ erri.eadr \in Nat /\ erri.hdr_flag \in {0, 1} /\ erri.maxl \in 0 .. 2
  /\ msg_line \in LINE_SCROLL - 1 .. LastLine + 1
  /\ slock \in BOOLEAN /\ numpatn \in 0 .. BADRAM_MAXPATNS
  /\ Len(stack) <= MaxDepth
  /\ \A k \in DOMAIN stack : /\ stack[k].idx \in 0 .. BADRAM_MAXPATNS
                             /\ stack[k].line \in AboveFirst .. LastLine - 1
  /\ nmi_masked \in BOOLEAN

(* Whatever interrupts the reports, and however often the mode is changed, *)
(* the summary has the least address of all errors it was told of since    *)
(* init(), their failing bits, and the bounds of how many there are; the   *)
(* average of them that is shown is not above the greatest.                *)
SummaryExact ==
  /\ summed # {} => /\ erri.low_addr \in {Place(e) : e \in summed}
                    /\ erri.min_bits = Min({Cardinality(Failing(e)) : e \in summed})
                    /\ erri.max_bits = Max({Cardinality(Failing(e)) : e \in summed})
  /\ \A e \in summed : ~Below(Place(e), erri.low_addr)
  /\ erri.ebits = UNION {Failing(e) : e \in summed}
  /\ erri.tbits <= erri.max_bits * ecount

(* Under the header of the summary are its present values, or none: after  *)
(* a change of the mode they stay away until one of them changes.          *)
SummaryShown == header = "summary" => shown \in {Blank, Values(erri)}

(* The summary on the screen is true of all errors it was told of.         *)
SummaryTrue == SummaryExact /\ SummaryShown

(* No two lines in a row tell of the same error, unless the user asked for *)
(* a new list in between.                                                  *)
NeverTwice ==
  [][PrintLine /\ Top.err.type \in {0, 1} =>
       lastline # <<Top.err.adr, Top.err.xor>>]_vars

(* An error is passed over only for the line above, which tells of it, or  *)
(* above which stands that of a parity or ECC error or a new list: those   *)
(* keep the bits an earlier line was about.                                *)
SuppressedShown ==
  [][Suppress /\ Top.err.type \in {0, 1} =>
       lastline \in {None, <<Top.err.adr, Top.err.xor>>}]_vars

(* The list tells of every error, and once in a row.                       *)
LinesTellOnce == NeverTwice /\ SuppressedShown

(* A line of a report is shown inside the scrolling region, although the   *)
(* menu resets msg_line between the scrolling and the line.  Only an NMI   *)
(* between test and increment (lib.c:197-198) may put it lower, and never  *)
(* by more than one line, which is the last of the screen, however many    *)
(* there are and however deep.                                             *)
LinePlaced ==
  At("line") \/ At("patline") =>
    msg_line \in LINE_SCROLL .. IF raced THEN LastLine + 1 ELSE LastLine

(* The tests go on after each report: it ends, or the scroll lock holds it.*)
ReportEnds == (stack # <<>>) ~> (stack = <<>> \/ Waiting)
=============================================================================
