------------------------------ MODULE EccPoll ------------------------------
(***************************************************************************)
(* Memory controllers and ECC polling: controller.c, the configuration     *)
(* access it goes through (pci.c) and the menu that switches it (config.c).*)
(*                                                                         *)
(* A poll is a straight line of reads, reports and clears that its first   *)
(* read of the error status decides.  The controller goes on latching      *)
(* errors between any two of them, and a report may stop at the scroll     *)
(* lock, where the menu is open to the user and restart() may be chosen.   *)
(* Where an error was is left out: a report is its severity.               *)
(***************************************************************************)
EXTENDS Integers, Sequences, FiniteSets

CONSTANTS
  Boards,      \* the machines considered: see Board
  MaxErrors,   \* bound on the errors latched
  MaxRestarts  \* bound on the starts of the program after the first

(* Capabilities are the sets of the bits __ECC_*.                          *)
NONE     == {}
RESERVED == {"unexpected"}
DETECT   == {"detect"}
CORRECT  == {"detect", "correct"}
CHIPKILL == {"detect", "correct", "chipkill"}
SCRUB    == {"detect", "correct", "scrub"}
UNKNOWN  == RESERVED \cup CHIPKILL \cup SCRUB

(* The rows of controllers[] that differ in what they call.                *)
Row(t, s, p) == [tested |-> t, setup |-> s, poll |-> p]
controllers ==
  [unknown |-> Row(FALSE, "nothing", "nothing"),
   amd751  |-> Row(FALSE, "amd751", "amd751"),
   amd76x  |-> Row(FALSE, "amd76x", "amd76x"),
   cnb20   |-> Row(FALSE, "cnb20", "nothing"),
   i840    |-> Row(FALSE, "i840", "i840"),
   i845    |-> Row(FALSE, "i845", "i845"),
   i820    |-> Row(FALSE, "i820", "i820"),
   i850    |-> Row(FALSE, "i850", "i850"),
   i860    |-> Row(TRUE,  "i860", "i860"),
   i440GX  |-> Row(FALSE, "i440gx", "i440gx"),
   E7500   |-> Row(TRUE,  "iE7xxx", "iE7xxx"),
   E7205   |-> Row(FALSE, "iE7205", "iE7xxx"),
   E7320   |-> Row(FALSE, "iE7520", "iE7520"),
   E7221   |-> Row(TRUE,  "i925", "iE7221"),
   E7520   |-> Row(FALSE, "iE7520", "nothing"),
   i865    |-> Row(FALSE, "i875", "nothing"),
   i875P   |-> Row(FALSE, "i875", "i875"),
   i915    |-> Row(FALSE, "i925", "nothing"),
   i925X   |-> Row(FALSE, "i925", "iE7221"),
   P35     |-> Row(FALSE, "p35", "nothing"),
   i5400   |-> Row(FALSE, "E5400", "nothing"),
   nhm     |-> Row(FALSE, "nhm", "nothing"),
   wmr     |-> Row(FALSE, "wmr", "nothing"),
   K8      |-> Row(FALSE, "amd64", "amd64"),
   K10     |-> Row(FALSE, "k10", "nothing")]

(* A machine: its controller, the value of the field that says how its ECC *)
(* is set up and of the bit read beside it, the mechanism of configuration *)
(* access it has, whether a host bridge shows there, and whether its       *)
(* processor is an AMD of family 15.                                       *)
Board == [chip : DOMAIN controllers, field : 0 .. 3, bit : BOOLEAN,
          mechanism : {"none", "type1", "type2"}, bridge : BOOLEAN, amd15 : BOOLEAN]

ASSUME BoardsAssumption == Boards \subseteq Board
ASSUME BoundsAssumption == MaxErrors \in Nat /\ MaxRestarts \in Nat

Kinds == {"ce", "ue"}          \* correctable, uncorrectable
Eap   == [ce |-> "eap-ce", ue |-> "eap-ue"]
Banks == {"bank0", "bank1"}    \* of the AMD 751, two of the six

VARIABLES
  board,
  fail_safe,
  index, cap, mode, poll,  \* ctrl
  status,      \* the error bits of the controller that are set
  at,          \* "boot", "test", "poll", or "scroll" at the scroll lock
  todo,        \* what the poll in progress still does
  ecc_ecount,  \* v->ecc_ecount
  starts,      \* restarts so far, bounded by MaxRestarts
  errors,      \* errors latched so far, bounded by MaxErrors
  fresh,       \* of those, the ones since the controller was last set up
  due,         \* kinds of error the last read saw that are not reported yet
  owed,        \* kinds of error latched, not reported and not given up
  chosen       \* whether the user has set polling since the set-up

ctrl == <<index, cap, mode, poll>>
ghosts == <<fresh, due, owed, chosen>>
vars == <<board, fail_safe, ctrl, status, at, todo, ecc_ecount, starts, errors, ghosts>>

----------------------------------------------------------------------------
(* Set-up.  What each function leaves in cap and mode, and the error bits  *)
(* it clears, for a board b.                                               *)

Sets(c, m, bits) == [cap |-> c, mode |-> m, clears |-> bits]
All == Kinds \cup {"nerr"}
If(p, m) == IF p THEN m ELSE NONE

setup_nothing    == Sets(NONE, NONE, {})
setup_wmr        == Sets(CORRECT, NONE, {})
setup_amd64(b)   == Sets(CHIPKILL,
                         If(b.bit, <<NONE, CORRECT, RESERVED, CHIPKILL>>[b.field + 1]), All)
setup_k10(b)     == Sets(CHIPKILL,
                         If(b.bit, <<NONE, CORRECT, CHIPKILL, CHIPKILL>>[b.field + 1]), All)
setup_amd751(b)  == Sets(CORRECT, If(b.bit, CORRECT), {})
setup_amd76x(b)  == Sets(CORRECT, <<NONE, DETECT, CORRECT, CORRECT>>[b.field + 1], {})
(* setup_cnb20() leaves mode what it was.                                  *)
setup_cnb20(m)   == Sets(CORRECT, m, {})
setup_E5400(b)   == Sets(SCRUB, If(b.field % 2 = 1, CORRECT) \cup If(b.bit, SCRUB \ CORRECT), {})
setup_iE7205(b)  == Sets(CORRECT, If(b.field = 2, CORRECT), All)
setup_iE7xxx(b)  == Sets(SCRUB, If(b.field = 2, CORRECT) \cup If(b.bit, {"scrub"}), All)
setup_iE7520(b)  == Sets(SCRUB, If(b.field # 0, CORRECT) \cup If(b.bit, {"scrub"}), All)
setup_i440gx(b)  == Sets(CORRECT, <<NONE, DETECT, CORRECT, CORRECT>>[b.field + 1], {})
setup_i840(b)    == Sets(CORRECT, <<NONE, RESERVED, CORRECT, CORRECT>>[b.field + 1], {})
setup_i820(b)    == setup_i840(b)
setup_i845(b)    == Sets(CORRECT, <<NONE, RESERVED, CORRECT, RESERVED>>[b.field + 1], {})
setup_i850(b)    == setup_i845(b)
setup_i860(b)    == Sets(CORRECT, setup_i845(b).mode, Kinds)
setup_i875(b)    == Sets(CORRECT, If(b.bit, CORRECT), Kinds)
setup_i925(b)    == IF b.field = 2 THEN Sets(CORRECT, CORRECT, Kinds) ELSE Sets(CORRECT, NONE, {})
setup_p35(b)     == Sets(If(~ b.bit, CORRECT), NONE, {})
(* setup_nhm() and setup_nhm32() walk possible_nhm_bus[] past its end, the *)
(* size of an array taken for its length: the bus the ECC bits are read    *)
(* from is whatever lies behind, so that they may find any mode.           *)
setup_nhm        == {Sets(SCRUB, m, {}) : m \in {NONE, CORRECT, SCRUB}}

setup_ecc(c, b, m) ==
  CASE controllers[c].setup = "nothing" -> {setup_nothing}
    [] controllers[c].setup = "wmr"     -> {setup_wmr}
    [] controllers[c].setup = "amd64"   -> {setup_amd64(b)}
    [] controllers[c].setup = "k10"     -> {setup_k10(b)}
    [] controllers[c].setup = "amd751"  -> {setup_amd751(b)}
    [] controllers[c].setup = "amd76x"  -> {setup_amd76x(b)}
    [] controllers[c].setup = "cnb20"   -> {setup_cnb20(m)}
    [] controllers[c].setup = "E5400"   -> {setup_E5400(b)}
    [] controllers[c].setup = "iE7205"  -> {setup_iE7205(b)}
    [] controllers[c].setup = "iE7xxx"  -> {setup_iE7xxx(b)}
    [] controllers[c].setup = "iE7520"  -> {setup_iE7520(b)}
    [] controllers[c].setup = "i440gx"  -> {setup_i440gx(b)}
    [] controllers[c].setup = "i840"    -> {setup_i840(b)}
    [] controllers[c].setup = "i845"    -> {setup_i845(b)}
    [] controllers[c].setup = "i820"    -> {setup_i820(b)}
    [] controllers[c].setup = "i850"    -> {setup_i850(b)}
    [] controllers[c].setup = "i860"    -> {setup_i860(b)}
    [] controllers[c].setup = "i875"    -> {setup_i875(b)}
    [] controllers[c].setup = "i925"    -> {setup_i925(b)}
    [] controllers[c].setup = "p35"     -> {setup_p35(b)}
    [] controllers[c].setup = "nhm"     -> setup_nhm

(* The access mechanism found: a trivial check for a host bridge, which an *)
(* AMD of family 15 is spared.                                             *)
pci_check_direct(b) ==
  IF b.amd15 THEN "type1" ELSE IF b.bridge THEN b.mechanism ELSE "none"

(* pci_conf_read() fails without a mechanism, and then even a controller   *)
(* known by its processor is not looked for.                               *)
Identified(b) == IF pci_check_direct(b) = "none" THEN "unknown" ELSE b.chip

----------------------------------------------------------------------------
(* Polls.  What each function does once it has read the bits s.            *)

Report(corrected) == [do |-> "report", corrected |-> corrected]
ReportEap         == [do |-> "report by eap"]
Clear(bits)       == [do |-> "clear", bits |-> bits]

Nothing == <<>>
When(p, steps) == IF p THEN steps ELSE Nothing

(* The shape of most: one report of the worse of two, then the clear.      *)
Once(s, bits) == When(s \cap Kinds # {}, <<Report("ue" \notin s), Clear(bits)>>)

poll_amd64(s)  == When("ce" \in s, <<Report(TRUE), Clear(Kinds)>>)
                    \o When("ue" \in s, <<Report(FALSE), Clear(Kinds)>>)
poll_amd751(s) == When(s \cap Kinds # {},
                       [n \in 1 .. Cardinality(s \cap Banks) |-> Report("ue" \notin s)]
                         \o <<Clear(Kinds \cup Banks)>>)
(* The bit the code calls the multibit error is reported as corrected, and *)
(* the one it calls the single bit error as not.                           *)
poll_amd76x(s) == When("ue" \in s, <<Report(TRUE)>>) \o When("ce" \in s, <<Report(FALSE)>>)
                    \o When(s \cap Kinds # {}, <<Clear(s)>>)
poll_iE7xxx_with_else(s) ==
  IF "ce" \in s THEN <<Report(TRUE), Clear(s \cap Kinds)>>
  ELSE When("ue" \in s, <<Report(FALSE), Clear(s \cap Kinds)>>)
poll_iE7xxx(s) == When("ce" \in s, <<Report(TRUE), Clear(s \cap Kinds)>>)
                    \o When("ue" \in s, <<Report(FALSE), Clear(s \cap Kinds)>>)
                    \o When("nerr" \in s, <<Clear({"nerr"})>>)
poll_i440gx(s) == When(s \cap Kinds # {},
                       <<ReportEap, Clear(Kinds), Clear({Eap.ce, Eap.ue})>>)
poll_i840(s)   == Once(s, Kinds)
poll_i875_with_one_bit(s) == When("ce" \in s, Once(s, Kinds))
poll_i875(s)   == Once(s, Kinds)
poll_i845(s)   == Once(s, Kinds)
poll_i820(s)   == Once(s, Kinds)
poll_i850_with_all(s) == Once(s, Kinds)
poll_i850(s)   == Once(s, s)
poll_i860(s)   == Once(s, s)
(* Both at once are cleared and not reported.                              *)
poll_iE7221(s) == IF Kinds \subseteq s THEN <<Clear(s)>> ELSE Once(s, s)
poll_iE7520(s) == When("ce" \in s, <<Report(TRUE), Clear({"ce"})>>)
                    \o When("ue" \in s, <<Report(FALSE), Clear({"ue"})>>)
                    \o When("nerr" \in s, <<Clear({"nerr"})>>)

poll_of(c, s) ==
  CASE controllers[c].poll = "nothing" -> Nothing
    [] controllers[c].poll = "amd64"   -> poll_amd64(s)
    [] controllers[c].poll = "amd751"  -> poll_amd751(s)
    [] controllers[c].poll = "amd76x"  -> poll_amd76x(s)
    [] controllers[c].poll = "iE7xxx"  -> poll_iE7xxx(s)
    [] controllers[c].poll = "i440gx"  -> poll_i440gx(s)
    [] controllers[c].poll = "i840"    -> poll_i840(s)
    [] controllers[c].poll = "i875"    -> poll_i875(s)
    [] controllers[c].poll = "i845"    -> poll_i845(s)
    [] controllers[c].poll = "i820"    -> poll_i820(s)
    [] controllers[c].poll = "i850"    -> poll_i850(s)
    [] controllers[c].poll = "i860"    -> poll_i860(s)
    [] controllers[c].poll = "iE7221"  -> poll_iE7221(s)
    [] controllers[c].poll = "iE7520"  -> poll_iE7520(s)

----------------------------------------------------------------------------
(* The controller.  An error sets the bit of its kind; one whose bit is    *)
(* set already leaves at most a mark in the second status register.        *)
HasNerr(c) == controllers[c].setup \in {"iE7xxx", "iE7205", "iE7520"}
Latched(c, k, bank) ==
  {k} \cup (IF controllers[c].poll = "amd751" THEN {bank} ELSE {})
      \cup (IF controllers[c].poll = "i440gx" THEN {Eap[k]} ELSE {})
      \cup (IF k \in status /\ HasNerr(c) THEN {"nerr"} ELSE {})

LatchError(k, bank) ==
  /\ errors < MaxErrors
  /\ errors' = errors + 1 /\ fresh' = fresh + 1
  /\ status' = status \cup Latched(board.chip, k, bank)
  /\ owed' = IF k \in status THEN owed ELSE owed \cup {k}
  /\ UNCHANGED <<board, fail_safe, ctrl, at, todo, ecc_ecount, starts, due, chosen>>

(* What a machine may have been left with by its BIOS.                     *)
Leftover(c) == {{}} \cup (IF controllers[c].poll \in {"amd751", "i440gx"} THEN {}
                          ELSE {{"ce"}, Kinds})

Init ==
  /\ board \in Boards
  /\ fail_safe \in BOOLEAN
  /\ index = "unknown" /\ cap = UNKNOWN /\ mode = UNKNOWN /\ poll = FALSE
  /\ status \in Leftover(board.chip)
  /\ at = "boot" /\ todo = Nothing /\ ecc_ecount = 0
  /\ starts = 0 /\ errors = 0 /\ fresh = 0
  /\ due = {} /\ owed = {} /\ chosen = FALSE

(* Errors of before are to be forgotten by these, and count for the others.*)
SetUpClean(c) == controllers[c].setup \in
  {"amd64", "k10", "iE7205", "iE7xxx", "iE7520", "i860", "i875", "i925"}
Outstanding(s) == Cardinality(s \cap IF s \cap Banks = {} THEN Kinds ELSE Banks)

(* set_ecc_polling(val) of a controller c in mode m; -1 is "recommended".  *)
set_ecc_polling_with_no_mode(val, c, m) ==
  IF val = -1 THEN controllers[c].tested ELSE val = 1
set_ecc_polling(val, c, m) ==
  (IF val = -1 THEN controllers[c].tested ELSE val = 1) /\ "detect" \in m

(* Fail-safe mode has a row of its own, which does nothing either.         *)
find_controller ==
  /\ at = "boot"
  /\ index' = IF fail_safe THEN "unknown" ELSE Identified(board)
  /\ \E s \in setup_ecc(index', board, mode) :
       /\ cap' = s.cap /\ mode' = s.mode
       /\ status' = status \ s.clears
  /\ poll' = set_ecc_polling(-1, index', mode')
  /\ owed' = owed \cap status'
  /\ fresh' = IF SetUpClean(index') THEN 0 ELSE Outstanding(status')
  /\ chosen' = FALSE /\ at' = "test"
  /\ UNCHANGED <<board, fail_safe, todo, ecc_ecount, starts, errors, due>>

Polling == controllers[index].poll

(* do_tick() polls after it has looked at the keyboard.                    *)
poll_errors ==
  /\ at = "test" /\ poll
  /\ todo' = poll_of(index, status)
  /\ due' = IF Polling = "nothing" THEN {} ELSE status \cap Kinds
  /\ at' = IF todo' = Nothing THEN "test" ELSE "poll"
  /\ UNCHANGED <<board, fail_safe, ctrl, status, ecc_ecount, starts, errors,
                 fresh, owed, chosen>>

Step(do) == at = "poll" /\ Head(todo).do = do
Proceed_with_no_end == todo' = Tail(todo) /\ at' = "poll"
Proceed == todo' = Tail(todo) /\ at' = IF todo' = Nothing THEN "test" ELSE "poll"

(* print_ecc_err(): the kinds of error that a report of this severity      *)
(* makes known, of those read.                                             *)
Discharge(corrected) ==
  /\ ecc_ecount' = ecc_ecount + 1
  /\ due' = due \ (IF corrected THEN {"ce"} ELSE Kinds)
  /\ owed' = owed \ (due \ due')

(* A report may have to scroll, and the scroll lock to be waited for.      *)
print_ecc_err ==
  /\ Step("report")
  /\ Discharge(Head(todo).corrected)
  /\ todo' = Tail(todo)
  /\ at' = IF todo' = Nothing THEN "test" ELSE "scroll"
  /\ UNCHANGED <<board, fail_safe, ctrl, status, starts, errors, fresh, chosen>>

(* The i440GX has the severity in the register of the location.            *)
ReportByEap ==
  /\ Step("report by eap")
  /\ IF status \cap {Eap.ce, Eap.ue} = {}
     THEN Proceed /\ UNCHANGED <<ecc_ecount, due, owed>>
     ELSE /\ Discharge(Eap.ue \notin status)
          /\ todo' = Tail(todo) /\ at' = "scroll"
  /\ UNCHANGED <<board, fail_safe, ctrl, status, starts, errors, fresh, chosen>>

ClearStatus ==
  /\ Step("clear") /\ Proceed
  /\ status' = status \ Head(todo).bits
  /\ owed' = IF todo' = Nothing THEN owed \cap status'
             ELSE owed \cap (status' \cup due)
  /\ UNCHANGED <<board, fail_safe, ctrl, ecc_ecount, starts, errors, fresh, due, chosen>>

(* The scroll lock is off, or taken off.                                   *)
ScrollOn ==
  /\ at = "scroll" /\ at' = "poll"
  /\ UNCHANGED <<board, fail_safe, ctrl, status, todo, ecc_ecount, starts, errors, ghosts>>

(* check_input() and the menu, between polls or at the scroll lock.        *)
AtKeyboard == at \in {"test", "scroll"}

EccPollingMode(val) ==
  /\ AtKeyboard
  /\ poll' = set_ecc_polling(val, index, mode)
  /\ chosen' = (val # -1)
  /\ UNCHANGED <<board, fail_safe, index, cap, mode, status, at, todo, ecc_ecount,
                 starts, errors, fresh, due, owed>>

(* restart(): the rest of the poll is never done; F1 may be pressed when   *)
(* the program asks for it again, and nothing takes fail_safe back.        *)
restart ==
  /\ AtKeyboard /\ starts < MaxRestarts
  /\ starts' = starts + 1
  /\ fail_safe' \in {fail_safe, TRUE}
  /\ at' = "boot" /\ todo' = Nothing /\ ecc_ecount' = 0 /\ due' = {}
  /\ UNCHANGED <<board, ctrl, status, errors, fresh, owed, chosen>>

PollStep == poll_errors \/ print_ecc_err \/ ReportByEap \/ ClearStatus

Next ==
  \/ find_controller
  \/ PollStep
  \/ ScrollOn
  \/ \E val \in {-1, 0, 1} : EccPollingMode(val)
  \/ restart
  \/ \E k \in Kinds, bank \in Banks : LatchError(k, bank)

(* Ticks come as long as a test runs, and a scroll lock is taken off.      *)
Spec == Init /\ [][Next]_vars /\ WF_vars(find_controller) /\ WF_vars(PollStep)
             /\ WF_vars(ScrollOn)

----------------------------------------------------------------------------
TypeOK ==
  /\ board \in Boards /\ index \in {"unknown", board.chip}
  /\ cap \subseteq UNKNOWN /\ mode \subseteq UNKNOWN
  /\ status \subseteq Kinds \cup Banks \cup {"nerr", Eap.ce, Eap.ue}
  /\ at \in {"boot", "test", "poll", "scroll"}
  /\ \A n \in 1 .. Len(todo) : todo[n].do \in {"report", "report by eap", "clear"}
  /\ (todo # Nothing) = (at \in {"poll", "scroll"})
  /\ ecc_ecount \in Nat /\ starts \in 0 .. MaxRestarts /\ errors \in 0 .. MaxErrors
  /\ due \subseteq Kinds /\ owed \subseteq Kinds
  /\ poll \in BOOLEAN /\ fail_safe \in BOOLEAN /\ chosen \in BOOLEAN

(* Every report stands for an error of its own, latched since the set-up   *)
(* or, where the set-up does not clear, left over from before: neither a   *)
(* restart in the middle of a poll nor a clear that comes too late makes   *)
(* one count twice, and where errors of before are cleared none of them    *)
(* counts (controller.c: "Clear any prexisting error reports").            *)
NoPhantom == at # "boot" => ecc_ecount <= fresh

(* What a poll has seen it has reported when it is over, an uncorrectable  *)
(* error as uncorrected, whatever the user did in between.  Not so for the *)
(* E7221 that saw both kinds, for the AMD 76x, whose two severities are    *)
(* swapped, and for the i440GX, see poll_i440gx().                         *)
SeenReported ==
  at = "test" =>
    \/ due = {}
    \/ Polling = "iE7221" /\ due = Kinds
    \/ Polling \in {"amd76x", "i440gx"}

(* Reports are no more and no fewer than the errors that polls came upon.  *)
ReportsTrue == NoPhantom /\ SeenReported

(* The controllers whose polls write back only the bits they read never    *)
(* clear an error that was latched after the read: it is left to the next  *)
(* poll.  The E7xxx is not one of them: what it read is written twice.     *)
UnseenKept ==
  [][ClearStatus /\ Polling \in {"i850", "i860", "iE7520", "iE7221"}
       /\ ~ (Polling = "iE7221" /\ due = Kinds) => owed' = owed]_vars

(* Polling is on only where errors are detected, and as recommended until  *)
(* the user sets it: a restart forgets what the user chose, and the mode   *)
(* of the controller there was before.                                     *)
PollWarranted ==
  at # "boot" =>
    /\ poll => "detect" \in mode
    /\ ~ chosen => poll = (controllers[index].tested /\ "detect" \in mode)
    /\ fail_safe \/ pci_check_direct(board) = "none" => ~ poll

(* While polling stays on no latched error waits for ever: it is reported, *)
(* or cleared with one that was.  Not where there is nothing to poll with, *)
(* and where the menu says ON all the same.                                *)
Attended == (owed # {} /\ poll /\ Polling # "nothing") ~> (owed = {} \/ ~ poll)
=============================================================================
