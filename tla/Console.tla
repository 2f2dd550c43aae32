------------------------------ MODULE Console ------------------------------
(***************************************************************************)
(* The console: keys from the keyboard and the serial line, the scroll     *)
(* lock, the menu's wait for a key to be let go, the entry of a number,    *)
(* and the copies of the screen: lib.c, screen_buffer.c and the parts of   *)
(* config.c that are about keys and the popup.                             *)
(*                                                                         *)
(* Every call of get_key() is a step of its own, and so the user may press *)
(* or let go of a key between any two of them.  Of the menu only the way   *)
(* into and out of it and to a number is here.                             *)
(***************************************************************************)
EXTENDS Integers, Sequences, FiniteSets

CONSTANTS
  Rows, Cols,    \* of the screen, from 0; rows 1 .. Rows - 1 scroll
  PopRows, PopCols,  \* of the popup, from 0
  Texts,         \* error lines
  Keys,          \* keys the user presses
  Chars,         \* characters the user sends on the serial line
  Typists,       \* where from: "keyboard" or "serial"
  Options,       \* values of console= on the command line: see Option
  TTYs,          \* lines supported, 0 .. 3
  Bauds,         \* baud rates that divide 115200
  MaxText,       \* bound on the length of a number entered, 15
  NumberLines,   \* bound on the lines printed when a number is asked for
  NumberKeys,    \* bound: keys pressed only while a number is entered
  MaxInput,      \* bound on the codes not read when a key is pressed
  WordBits,      \* of an unsigned long, 32
  Shifts,        \* of the suffixes: g 30, m 20, p 12, k 10
  ResultShifts   \* of the numbers asked for: 12 for an address, 0 for a test

Bottom == Rows - 1
Grid == (0 .. Rows - 1) \X (0 .. Cols - 1)
Blank == " "

ASSUME ScreenAssumption ==
  /\ Rows \in Nat \ {0, 1} /\ Cols \in Nat \ {0}
  /\ PopRows < Rows /\ PopCols < Cols
  /\ \A t \in Texts : Len(t) \in 1 .. Cols
(* No suffix is a digit or the x of a base, and no shift clears a word.    *)
ASSUME NumbersAssumption ==
  /\ WordBits \in Nat \ {0} /\ MaxText \in Nat /\ ResultShifts \subseteq 0 .. WordBits - 1
  /\ \A s \in DOMAIN Shifts :
       Shifts[s] \in 0 .. WordBits - 1 /\ s \notin {"0", "1", "2", "8", "f", "x"}
ASSUME BaudsAssumption == \A b \in Bauds : b \in Nat \ {0} /\ 115200 % b = 0
ASSUME KeysAssumption == "" \notin Keys /\ MaxInput \in Nat

VARIABLES
  settings,  \* serial_cons, serial_tty, serial_baud_rate, serial_parity, serial_bits
  uart,      \* how the serial port is programmed
  typist,    \* what the user types on
  input,     \* scan codes, or characters, not read yet
  held,      \* the key that is held down, "" if none
  vga,       \* the screen
  screen_buf,
  tty,       \* the screen of the terminal on the serial line
  save,      \* save[]: what the popup hides
  msg_line,
  line,      \* the error line to be printed
  slock,
  at,        \* "boot", "test", "scroll", "keyup", "menu", "range", "getval", "limit", "trap", "halted"
  back,      \* where the menu was opened: "test", "scroll" or "trap"
  next,      \* what wait_keyup() is followed by
  text,      \* buf[] of getval()
  base, result_shift,
  value,     \* of the number entered
  asked,     \* history: the scroll lock the user asked for last
  loose,     \* history: a menu was left by the key of the scroll lock
  scrolled   \* history: the screen has scrolled since it was last redrawn

screens == <<vga, screen_buf, tty, save>>
number == <<text, base, result_shift, value>>
keys == <<input, held>>
control == <<at, back, next>>
history == <<asked, loose, scrolled>>
vars == <<settings, uart, typist, keys, screens, msg_line, line, slock, control, number, history>>

----------------------------------------------------------------------------
(* The option console=ttyS<tty>,<baud><parity><bits>: each part may be     *)
(* missing with all that follow it, and the first that is wrong refuses    *)
(* all of them.                                                            *)
Missing == -1
NoParity == ""
Option == [tty : Int, baud : Int, parity : {NoParity, "n", "o", "e", "bad"}, bits : Int]
Default == [cons |-> FALSE, tty |-> 0, baud |-> 9600, parity |-> "n", bits |-> 8]

Given(part, default) == IF part = Missing THEN default ELSE part
Saved(o) == [cons |-> TRUE, tty |-> o.tty, baud |-> Given(o.baud, Default.baud),
             parity |-> IF o.parity = NoParity THEN Default.parity ELSE o.parity,
             bits |-> Given(o.bits, Default.bits)]
serial_console_setup(o) ==
  IF /\ o.tty \in TTYs
     /\ o.baud \in Bauds \cup {Missing}
     /\ o.parity # "bad"
     /\ o.bits \in {7, 8, Missing}
  THEN Saved(o) ELSE Default

(* serial_echo_init(): the rate is that of 115200 divided.                 *)
serial_echo_init(s) == [div |-> 115200 \div s.baud, parity |-> s.parity, bits |-> s.bits]

----------------------------------------------------------------------------
(* Screens.  A text is sent from the first character on that differs from  *)
(* the buffer; the terminal gets it only where there is one.               *)
At(y, x, t) == {c \in Grid : c[1] = y /\ c[2] \in x .. x + Len(t) - 1}
Put(s, cells, f(_)) == [c \in Grid |-> IF c \in cells THEN f(c) ELSE s[c]]
Send(cells, f(_)) == IF settings.cons THEN Put(tty, cells, f) ELSE tty

PrintAt(screen, y, x, t) ==
  LET Char(c) == t[c[2] - x + 1]
      differ  == {c \in At(y, x, t) : Char(c) # screen_buf[c]}
      From    == {c \in At(y, x, t) : \E d \in differ : d[2] <= c[2]}
  IN  /\ vga' = Put(screen, At(y, x, t), Char)
      /\ screen_buf' = Put(screen_buf, From, Char)
      /\ tty' = Send(From, Char)
cprint(y, x, t) == PrintAt(vga, y, x, t)

(* The bottom and the right edge are not in the region.                    *)
Region(top, left, bottom, right) ==
  {c \in Grid : c[1] \in top .. bottom - 1 /\ c[2] \in left .. right - 1}
tty_print_region(top, left, bottom, right) ==
  LET Char(c) == screen_buf'[c] IN tty' = Send(Region(top, left, bottom, right), Char)

tty_print_screen(buf) == Region(0, 0, Rows, Cols)
Redraw ==
  LET Char(c) == screen_buf[c]
  IN  /\ tty' = Send(tty_print_screen(screen_buf), Char)
      /\ scrolled' = FALSE
      /\ UNCHANGED <<vga, screen_buf, save>>

(* The scroll region and then the line itself, which the caller prints.    *)
Moved(s) == [c \in Grid |-> IF c[1] = 0 THEN s[c]
                            ELSE IF c[1] = Bottom THEN Blank ELSE s[<<c[1] + 1, c[2]>>]]
ScrollBy ==
  /\ vga' = Moved(vga) /\ screen_buf' = Moved(screen_buf)
  /\ tty_print_region(1, 0, Bottom, Cols - 1)

Pop == Region(0, 0, PopRows, PopCols)
BlankAt(c) == Blank
popclear ==
  /\ vga' = Put(vga, Pop, BlankAt) /\ screen_buf' = Put(screen_buf, Pop, BlankAt)
  /\ tty_print_region(0, 0, PopRows, PopCols)
(* What popdown() leaves in save[] is not used again, and is forgotten.    *)
popup == popclear /\ save' = vga
popdown_with_buffer_kept(s) == screen_buf
popdown_buffer(s) == LET Char(c) == s[c] IN Put(screen_buf, Pop, Char)
popdown ==
  LET Char(c) == save[c]
  IN  /\ vga' = Put(vga, Pop, Char)
      /\ screen_buf' = popdown_buffer(save)
      /\ tty_print_region(0, 0, PopRows, PopCols)
      /\ save' = [c \in Grid |-> Blank]

----------------------------------------------------------------------------
(* Keys.  A code is a key pressed or let go; a character of the serial     *)
(* line is the code of its key pressed, and there is none of letting go.   *)
(* Of ser_map here are the rows of the keys that are told apart; the first *)
(* row of a character counts, so that BS, NL and CR are no letters.        *)
ser_map ==
  << <<"^[", "esc">>, <<"DEL", "bs">>, <<"^H", "bs">>, <<"^J", "cr">>, <<"^M", "cr">>,
     <<"^S", "sp">>, <<"^Q", "cr">>, <<" ", "sp">>,
     <<"c", "c">>, <<"C", "c">>, <<"^C", "c">>, <<"f", "f">>, <<"F", "f">>, <<"^F", "f">>,
     <<"k", "k">>, <<"K", "k">>, <<"^K", "k">>, <<"l", "l">>, <<"L", "l">>, <<"^L", "l">>,
     <<"m", "m">>, <<"M", "m">>, <<"^M", "m">>, <<"x", "x">>, <<"X", "x">>, <<"^X", "x">>,
     <<"2", "2">>, <<"@", "2">>, <<"8", "8">>, <<"*", "8">>, <<"0", "0">>, <<")", "0">> >>
ascii_to_keycode(ch) ==
  LET rows == {n \in DOMAIN ser_map : ser_map[n][1] = ch}
  IN  ser_map[CHOOSE n \in rows : \A m \in rows : n <= m][2]

Press(k) == [key |-> k, up |-> FALSE]
LetGo(k) == [key |-> k, up |-> TRUE]
NoKey == [key |-> "", up |-> FALSE]

Listening == typist = "keyboard" \/ settings.cons
get_key == IF input # <<>> /\ Listening THEN Head(input) ELSE NoKey
Take == input' = IF get_key = NoKey THEN input ELSE Tail(input)

CanType(k) ==
  /\ held = "" /\ Len(input) < MaxInput
  /\ k \in NumberKeys => at = "getval"
  /\ input' = Append(input, Press(k))
  /\ UNCHANGED <<settings, uart, typist, screens, msg_line, line, slock, control, number, history>>
Type(k) == typist = "keyboard" /\ CanType(k) /\ held' = k
Receive(ch) == typist = "serial" /\ CanType(ascii_to_keycode(ch)) /\ UNCHANGED held
Lift ==
  /\ held # ""
  /\ input' = Append(input, LetGo(held)) /\ held' = ""
  /\ UNCHANGED <<settings, uart, typist, screens, msg_line, line, slock, control, number, history>>

Goto(place) == at' = place /\ UNCHANGED <<back, next>>
WaitKeyup(place) == at' = "keyup" /\ next' = place /\ UNCHANGED back

----------------------------------------------------------------------------
Init ==
  /\ settings = Default /\ uart = serial_echo_init(Default)
  /\ typist \in Typists /\ input = <<>> /\ held = ""
  /\ vga = [c \in Grid |-> Blank] /\ screen_buf = vga /\ tty = vga /\ save = vga
  /\ msg_line = 0 /\ line = <<>> /\ slock = FALSE
  /\ at = "boot" /\ back = "test" /\ next = "menu"
  /\ text = <<>> /\ base = 10 /\ result_shift = 0 /\ value = 0
  /\ asked = FALSE /\ loose = FALSE /\ scrolled = FALSE

(* The option is read before init(), which programs the serial port.       *)
Boot(o) ==
  /\ at = "boot" /\ settings' = serial_console_setup(o)
  /\ uart' = serial_echo_init(settings')
  /\ Goto("test")
  /\ UNCHANGED <<typist, keys, screens, msg_line, line, slock, number, history>>

(* check_input(), in a tick or at the scroll lock; a key let go counts as  *)
(* the key.                                                                *)
CheckInput(place) ==
  /\ at = place /\ get_key # NoKey
  /\ Take /\ UNCHANGED <<settings, uart, typist, held, msg_line, line, number>>

SetLock_with_toggle(k, to) ==
  /\ get_key.key = k
  /\ slock' = ~ slock
  /\ asked' = IF get_key.up THEN asked ELSE to
  /\ UNCHANGED <<screens, control, loose, scrolled>>
SetLock(k, to) ==
  /\ get_key.key = k
  /\ slock' = to
  /\ asked' = IF get_key.up THEN asked ELSE to
  /\ UNCHANGED <<screens, control, loose, scrolled>>

check_input(place) ==
  /\ CheckInput(place)
  /\ \/ SetLock("sp", TRUE)
     \/ SetLock("cr", FALSE)
     \/ /\ get_key.key = "c" /\ popup
        /\ at' = "keyup" /\ next' = "menu" /\ back' = place
        /\ UNCHANGED <<slock, history>>
     \/ /\ get_key.key = "l" /\ Redraw
        /\ UNCHANGED <<slock, control, asked, loose>>
     \/ /\ get_key.key = "esc" /\ Goto("halted")
        /\ UNCHANGED <<screens, slock, history>>
     \/ /\ get_key.key \notin {"sp", "cr", "c", "l", "esc"}
        /\ UNCHANGED <<screens, slock, control, history>>

(* An error line: scroll() and cprint().  At the bottom of the screen the  *)
(* scroll lock is waited for.                                              *)
PrintOn(y, t) == cprint(y, 0, t) /\ UNCHANGED save
NewLine_with_one_more(t) ==
  /\ at = "test" /\ msg_line <= Bottom
  /\ msg_line' = msg_line + 1
  /\ PrintOn(msg_line', t)
  /\ UNCHANGED <<settings, uart, typist, keys, line, slock, control, number, history>>
NewLine(t) ==
  /\ at = "test" /\ msg_line < Bottom
  /\ msg_line' = msg_line + 1
  /\ PrintOn(msg_line', t)
  /\ UNCHANGED <<settings, uart, typist, keys, line, slock, control, number, history>>
Scroll(t) ==
  /\ at = "test" /\ msg_line = Bottom
  /\ line' = t /\ Goto("scroll")
  /\ UNCHANGED <<settings, uart, typist, keys, screens, msg_line, slock, number, history>>
Unlocked ==
  /\ at = "scroll" /\ ~ slock
  /\ ScrollBy /\ scrolled' = TRUE /\ Goto("print")
  /\ UNCHANGED <<settings, uart, typist, keys, save, msg_line, line, slock, number, asked, loose>>
PrintLine ==
  /\ at = "print" /\ PrintOn(msg_line, line)
  /\ line' = <<>> /\ Goto("test")
  /\ UNCHANGED <<settings, uart, typist, keys, msg_line, slock, number, history>>

(* clear_scroll() clears the screen only.                                  *)
clear_scroll ==
  /\ at = "test"
  /\ vga' = [c \in Grid |-> IF c[1] = 0 THEN vga[c] ELSE Blank]
  /\ UNCHANGED <<settings, uart, typist, keys, screen_buf, tty, save, msg_line, line, slock,
                 control, number, history>>

(* inter(): a trap that is not a parity error.  It clears the screen only, *)
(* tells of itself and then does nothing but look at the keys, for ever.   *)
inter(t) ==
  /\ at = "test"
  /\ PrintAt([c \in Grid |-> IF c[1] = 0 THEN vga[c] ELSE Blank], 1, 0, t)
  /\ Goto("trap")
  /\ UNCHANGED <<settings, uart, typist, keys, save, msg_line, line, slock, number, history>>

(* With a serial console a call takes a code and does not wait.            *)
IsUp_with_own_key(code) == code = LetGo("c")
IsUp(code) == code.up
wait_keyup ==
  /\ at = "keyup" /\ Take
  /\ IF IsUp(get_key) \/ settings.cons THEN Goto(next) ELSE UNCHANGED control
  /\ UNCHANGED <<settings, uart, typist, held, screens, msg_line, line, slock, number, history>>

(* The menu: on to the address range, out of it, or out with a redraw.     *)
Menu ==
  /\ Take /\ UNCHANGED <<settings, uart, typist, held, msg_line, line, slock, asked>>
Is(k) == get_key = Press(k)

Settings ==
  /\ at = "menu" /\ get_key # NoKey /\ Menu /\ UNCHANGED number
  /\ \/ /\ Is("2") /\ msg_line <= NumberLines
        /\ popclear /\ UNCHANGED <<save, loose, scrolled>>
        /\ WaitKeyup("range")
     \/ /\ \E k \in {"0", "sp", "cr"} : Is(k)
        /\ loose' = (loose \/ get_key.key # "0")
        /\ popdown /\ Goto(back) /\ UNCHANGED scrolled
     \/ /\ Is("8") /\ popdown /\ Goto("redraw") /\ UNCHANGED <<loose, scrolled>>
     \/ /\ ~ \E k \in {"0", "sp", "cr", "8"} : Is(k)
        /\ ~ (Is("2") /\ msg_line <= NumberLines)
        /\ UNCHANGED <<screens, control, loose, scrolled>>
RedrawAfter ==
  /\ at = "redraw" /\ Redraw /\ Goto(back)
  /\ UNCHANGED <<settings, uart, typist, keys, msg_line, line, slock, number, asked, loose>>

(* A sub-menu; it is not left by CR.                                       *)
AddressRange ==
  /\ at = "range" /\ get_key # NoKey /\ Menu /\ UNCHANGED <<loose, scrolled>>
  /\ \/ /\ Is("2")
        /\ popclear /\ WaitKeyup("getval")
        /\ \E s \in ResultShifts : result_shift' = s
        /\ text' = <<>> /\ base' = 10 /\ UNCHANGED <<save, value>>
     \/ /\ \E k \in {"0", "sp"} : Is(k)
        /\ popclear /\ Goto("menu") /\ UNCHANGED <<save, number>>
     \/ /\ ~ \E k \in {"2", "0", "sp"} : Is(k)
        /\ UNCHANGED <<screens, control, number>>

----------------------------------------------------------------------------
(* getval().                                                               *)
Digit == [c \in {"0", "1", "2", "8", "f"} |->
            IF c = "0" THEN 0 ELSE IF c = "1" THEN 1 ELSE IF c = "2" THEN 2
            ELSE IF c = "8" THEN 8 ELSE 15]
Suffixes == DOMAIN Shifts
Last(t) == t[Len(t)]

Legal_with_any_digit(k) ==
  \/ k \in Suffixes \/ k \in DOMAIN Digit
  \/ k = "x" /\ text = <<"0">>
Legal(k) ==
  \/ k \in Suffixes
  \/ k = "x" /\ text = <<"0">>
  \/ k \in DOMAIN Digit /\ base >= Digit[k] + 1

Edited(k) ==
  IF k = "bs" THEN SubSeq(text, 1, Len(text) - 1)
  ELSE IF Legal(k) /\ ~ (text # <<>> /\ Last(text) \in Suffixes) THEN Append(text, k)
  ELSE text

BaseOf(t) == IF Len(t) >= 2 /\ t[1] = "0" /\ t[2] = "x" THEN 16
             ELSE IF Len(t) >= 1 /\ t[1] = "0" THEN 8 ELSE 10

(* The digits there are, up to the first character that is none.           *)
Skip(t, b) == IF b = 16 THEN SubSeq(t, 3, Len(t)) ELSE t
simple_strtoul(t, b) ==
  LET s == Skip(t, b)
      n == CHOOSE m \in 0 .. Len(s) :
             /\ \A i \in 1 .. m : s[i] \in DOMAIN Digit /\ Digit[s[i]] < b
             /\ m < Len(s) => (s[m + 1] \notin DOMAIN Digit \/ Digit[s[m + 1]] >= b)
      v[i \in 0 .. n] ==
        IF i = 0 THEN 0 ELSE (v[i - 1] * b + Digit[s[i]]) % 2 ^ WordBits
  IN  v[n]

Shifted(v, shift) ==
  IF shift > 0 THEN IF shift >= WordBits THEN 2 ^ WordBits - 1 ELSE (v * 2 ^ shift) % 2 ^ WordBits
  ELSE IF - shift >= WordBits THEN 0 ELSE v \div 2 ^ (- shift)

ShiftOf(t) == IF Last(t) \in Suffixes THEN Shifts[Last(t)] ELSE 0
Result(t) == Shifted(simple_strtoul(t, base), ShiftOf(t) - result_shift)

EnterKey ==
  /\ at = "getval" /\ get_key # NoKey /\ Menu /\ UNCHANGED <<loose, control, result_shift>>
  /\ ~ (Is("cr") /\ text # <<>>)
  /\ IF get_key.up \/ Is("l") THEN UNCHANGED <<text, base>>
     ELSE text' = Edited(get_key.key) /\ base' = BaseOf(text') /\ Len(text') <= MaxText
  /\ IF Is("l") THEN Redraw ELSE UNCHANGED <<screens, scrolled>>
  /\ UNCHANGED value
EnterDone ==
  /\ at = "getval" /\ Is("cr") /\ text # <<>> /\ Menu
  /\ value' = Result(text) /\ Goto("limit")
  /\ UNCHANGED <<screens, text, base, result_shift, loose, scrolled>>

(* The limit is set from the number, and nothing of getval() is left.      *)
NoNumber == text' = <<>> /\ base' = 10 /\ result_shift' = 0 /\ value' = 0
SetLimit ==
  /\ at = "limit" /\ popclear /\ Goto("menu") /\ NoNumber
  /\ UNCHANGED <<settings, uart, typist, keys, save, msg_line, line, slock, history>>

Ticks == \E place \in {"test", "scroll", "trap"} : check_input(place)
InMenu == wait_keyup \/ Settings \/ RedrawAfter \/ AddressRange \/ EnterKey \/ EnterDone \/ SetLimit

Next ==
  \/ \E o \in Options : Boot(o)
  \/ \E k \in Keys : Type(k)
  \/ \E ch \in Chars : Receive(ch)
  \/ Lift
  \/ Ticks
  \/ \E t \in Texts : NewLine(t) \/ Scroll(t) \/ inter(t)
  \/ Unlocked
  \/ PrintLine
  \/ clear_scroll
  \/ InMenu

(* The program goes on reading keys, and a key is not held for ever.       *)
Spec == Init /\ [][Next]_vars
          /\ WF_vars(Ticks) /\ WF_vars(InMenu) /\ WF_vars(Unlocked) /\ WF_vars(PrintLine)
          /\ WF_vars(Lift)

----------------------------------------------------------------------------
TypeOK ==
  /\ \A s \in {vga, screen_buf, tty, save} : DOMAIN s = Grid
  /\ msg_line \in 0 .. Bottom /\ Len(input) <= MaxInput + 1
  /\ at \in {"boot", "test", "scroll", "print", "keyup", "menu", "range", "getval",
             "limit", "redraw", "trap", "halted"}
  /\ back \in {"test", "scroll", "trap"} /\ next \in {"menu", "range", "getval"}
  /\ slock \in BOOLEAN /\ Len(text) <= MaxText /\ base \in {8, 10, 16}
  /\ value \in 0 .. 2 ^ WordBits - 1
  /\ at = "scroll" \/ (back = "scroll" /\ at \in {"keyup", "menu", "range", "getval", "limit", "redraw"})
       => line # <<>> /\ msg_line = Bottom

(* The terminal shows what the buffer holds, but for the bottom line and   *)
(* the last column of lines that have scrolled, and everywhere once the    *)
(* screen is redrawn: nothing that only differences were sent for, and no  *)
(* popup, is left standing on it.                                          *)
TerminalTrue ==
  settings.cons =>
    \A c \in Grid : tty[c] = screen_buf[c] \/ (scrolled /\ (c[1] = Bottom \/ c[2] = Cols - 1))

(* All that stands on the screen is in the buffer a redraw is made from,   *)
(* also after lines have been cleared behind its back and a popup has been *)
(* put up and taken down over them.                                        *)
NothingMissing == \A c \in Grid : vga[c] # Blank => screen_buf[c] = vga[c]

(* The screen, the buffer and the terminal agree.                          *)
ScreensAgree == NothingMissing /\ TerminalTrue

(* The scroll lock is as the user last asked, as long as no menu is left   *)
(* by the key of the scroll lock: that key, when it is let go, sets or     *)
(* clears it.                                                              *)
LockAsAsked == ~ loose => slock = asked

(* A number is what its text says, in units of the result, where neither   *)
(* it nor its value in bytes is too large for a word: every digit that     *)
(* could be entered counts in the base that stands when the number ends.   *)
Meaning(t) ==
  LET b == BaseOf(t)
      n == IF Last(t) \in Suffixes THEN Len(t) - 1 ELSE Len(t)
      d == [i \in 1 .. n |-> IF b = 16 /\ i <= 2 THEN 0 ELSE Digit[t[i]]]
      v[i \in 0 .. n] == IF i = 0 THEN 0 ELSE v[i - 1] * b + d[i]
  IN  v[n] * 2 ^ ShiftOf(t)
NumberExact ==
  at = "limit" /\ Meaning(text) < 2 ^ WordBits =>
    value = Meaning(text) \div 2 ^ result_shift

(* An option is taken as a whole or not at all, and the port works at the  *)
(* rate that was asked for.                                                *)
OptionWhole ==
  settings # Default =>
    \E o \in Options :
      /\ settings.cons /\ settings.tty = o.tty
      /\ o.baud \in {Missing, settings.baud} /\ o.parity \in {NoParity, settings.parity}
      /\ o.bits \in {Missing, settings.bits}
      /\ o.baud # Missing => uart.div * o.baud = 115200

(* What the user enters, a number in the menu or an option on the command  *)
(* line, means what its text says.                                         *)
EntriesTrue == NumberExact /\ OptionWhole

(* CR that is typed at the scroll lock ends the wait.                      *)
CrReleases ==
  (at = "scroll" /\ input # <<>> /\ Listening /\ Last(input) = Press("cr"))
    ~> (at # "scroll" \/ ~ slock)

(* wait_keyup() ends whichever way it was come to: the key that led to it  *)
(* has not been let go and read before.                                    *)
KeyupEnds == at = "keyup" ~> at # "keyup"

(* The program never waits for ever for a key that was pressed or let go.  *)
WaitsEnd == CrReleases /\ KeyupEnds
=============================================================================
