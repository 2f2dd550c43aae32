---------------------------- MODULE ConsoleProofs ----------------------------
(***************************************************************************)
(* Theorems about the console, for every size of the screen and the popup, *)
(* every set of keys and options, and queues of any length.                *)
(***************************************************************************)
EXTENDS Console, SequenceTheorems, TLAPS, FiniteSetTheorems, WellFoundedInduction

-----------------------------------------------------------------------------
(* Where wait_keyup() and the menu go on.                                  *)
Places == back \in {"test", "scroll", "trap"} /\ next \in {"menu", "range", "getval"}

LEMMA PlacesStep == Places /\ [Next]_vars => Places'
<1> SUFFICES ASSUME Places, [Next]_vars PROVE Places'
  OBVIOUS
<1> USE DEF Places, control, Goto, WaitKeyup
<1>1. ASSUME NEW o, Boot(o) PROVE Places'
  BY <1>1 DEF Boot
<1>2. CASE Lift \/ (\E k \in Keys : Type(k)) \/ (\E ch \in Chars : Receive(ch))
  BY <1>2 DEF Lift, Type, Receive, CanType
<1>3. ASSUME NEW place \in {"test", "scroll", "trap"}, check_input(place) PROVE Places'
  BY <1>3 DEF check_input, SetLock
<1>4. ASSUME NEW t, NewLine(t) \/ Scroll(t) \/ inter(t) PROVE Places'
  BY <1>4 DEF NewLine, Scroll, inter
<1>5. CASE Unlocked \/ PrintLine \/ clear_scroll
  BY <1>5 DEF Unlocked, PrintLine, clear_scroll
<1>6. CASE wait_keyup
  BY <1>6 DEF wait_keyup
<1>7. CASE Settings
  BY <1>7 DEF Settings
<1>8. CASE RedrawAfter \/ AddressRange \/ SetLimit
  BY <1>8 DEF RedrawAfter, AddressRange, SetLimit
<1>9. CASE EnterKey \/ EnterDone
  BY <1>9 DEF EnterKey, EnterDone
<1>10. CASE UNCHANGED vars
  BY <1>10 DEF vars
<1> QED BY <1>1, <1>2, <1>3, <1>4, <1>5, <1>6, <1>7, <1>8, <1>9, <1>10 DEF Next, Ticks, InMenu

-----------------------------------------------------------------------------
(* The screens.                                                            *)
Shape ==
  /\ DOMAIN vga = Grid /\ DOMAIN screen_buf = Grid /\ DOMAIN tty = Grid
  /\ at = "boot" => \A c \in Grid : tty[c] = screen_buf[c]

Screens == Shape /\ ScreensAgree

(* A text on the screen, which may have been cleared before.               *)
LEMMA PrintScreens ==
  ASSUME Screens, NEW screen, NEW y, NEW x, NEW t, PrintAt(screen, y, x, t),
         \A c \in Grid : screen[c] \in {Blank, vga[c]},
         UNCHANGED <<settings, scrolled>>, at' # "boot"
  PROVE  Screens'
<1> DEFINE cells == At(y, x, t)
           Char(c) == t[c[2] - x + 1]
           differ == {c \in At(y, x, t) : Char(c) # screen_buf[c]}
           From == {c \in At(y, x, t) : \E d \in differ : d[2] <= c[2]}
<1>1. /\ vga' = [c \in Grid |-> IF c \in cells THEN Char(c) ELSE screen[c]]
      /\ screen_buf' = [c \in Grid |-> IF c \in From THEN Char(c) ELSE screen_buf[c]]
      /\ tty' = IF settings.cons THEN [c \in Grid |-> IF c \in From THEN Char(c) ELSE tty[c]]
                ELSE tty
  BY DEF PrintAt, Put, Send
<1>2. cells \subseteq Grid /\ From \subseteq cells
  BY DEF At
<1>3. \A c \in cells : c \notin From => Char(c) = screen_buf[c]
  <2> SUFFICES ASSUME NEW c \in cells, Char(c) # screen_buf[c] PROVE c \in From
    OBVIOUS
  <2>1. c[2] \in Int
    BY DEF At, Grid
  <2> QED BY <2>1
<1> HIDE DEF cells, Char, From
<1> QED BY <1>1, <1>2, <1>3 DEF Screens, Shape, ScreensAgree, NothingMissing, TerminalTrue

(* A region of the screen and of the buffer is replaced by the same cells  *)
(* and sent.                                                               *)
LEMMA RegionScreens ==
  ASSUME Screens, NEW cells, NEW new,
         vga' = [c \in Grid |-> IF c \in cells THEN new[c] ELSE vga[c]],
         screen_buf' = [c \in Grid |-> IF c \in cells THEN new[c] ELSE screen_buf[c]],
         tty' = IF settings.cons
                THEN [c \in Grid |-> IF c \in cells THEN screen_buf'[c] ELSE tty[c]] ELSE tty,
         UNCHANGED settings, scrolled' = scrolled, at' # "boot"
  PROVE  Screens'
BY DEF Screens, Shape, ScreensAgree, NothingMissing, TerminalTrue

LEMMA PopclearScreens ==
  ASSUME Screens, popclear, UNCHANGED <<settings, scrolled>>, at' # "boot"
  PROVE  Screens'
<1> DEFINE new == [c \in Grid |-> Blank]
<1>1. /\ vga' = [c \in Grid |-> IF c \in Pop THEN new[c] ELSE vga[c]]
      /\ screen_buf' = [c \in Grid |-> IF c \in Pop THEN new[c] ELSE screen_buf[c]]
  BY DEF popclear, Put, BlankAt
<1>2. tty' = IF settings.cons
             THEN [c \in Grid |-> IF c \in Pop THEN screen_buf'[c] ELSE tty[c]] ELSE tty
  BY DEF popclear, tty_print_region, Send, Put, Pop
<1> HIDE DEF new
<1> QED BY <1>1, <1>2, RegionScreens

LEMMA PopdownScreens ==
  ASSUME Screens, popdown, UNCHANGED <<settings, scrolled>>, at' # "boot"
  PROVE  Screens'
<1>1. /\ vga' = [c \in Grid |-> IF c \in Pop THEN save[c] ELSE vga[c]]
      /\ screen_buf' = [c \in Grid |-> IF c \in Pop THEN save[c] ELSE screen_buf[c]]
  BY DEF popdown, popdown_buffer, Put
<1>2. tty' = IF settings.cons
             THEN [c \in Grid |-> IF c \in Pop THEN screen_buf'[c] ELSE tty[c]] ELSE tty
  BY DEF popdown, tty_print_region, Send, Put, Pop
<1> QED BY <1>1, <1>2, RegionScreens

LEMMA RedrawScreens ==
  ASSUME Screens, Redraw, UNCHANGED settings, at' # "boot"
  PROVE  Screens'
<1>1. UNCHANGED <<vga, screen_buf>>
  BY DEF Redraw
<1>2. tty' = IF settings.cons THEN [c \in Grid |-> screen_buf[c]] ELSE tty
  <2>1. \A c \in Grid : c \in Region(0, 0, Rows, Cols)
    BY ScreenAssumption DEF Grid, Region
  <2> QED BY <2>1 DEF Redraw, Send, Put, tty_print_screen
<1> QED BY <1>1, <1>2 DEF Screens, Shape, ScreensAgree, NothingMissing, TerminalTrue

(* The header stays, and the rest moves up; the bottom line is not sent,   *)
(* nor is the last column.                                                 *)
LEMMA ScrollScreens ==
  ASSUME Screens, ScrollBy, UNCHANGED settings, scrolled' = TRUE, at' # "boot"
  PROVE  Screens'
<1>1. vga' = Moved(vga) /\ screen_buf' = Moved(screen_buf)
  BY DEF ScrollBy
<1> DEFINE R == Region(1, 0, Bottom, Cols - 1)
<1>2. tty' = IF settings.cons THEN [c \in Grid |-> IF c \in R THEN screen_buf'[c] ELSE tty[c]]
             ELSE tty
  BY DEF ScrollBy, tty_print_region, Send, Put
<1>3. \A c \in Grid : c[1] # 0 /\ c[1] # Bottom => <<c[1] + 1, c[2]>> \in Grid
  <2> SUFFICES ASSUME NEW c \in Grid, c[1] # 0, c[1] # Bottom PROVE <<c[1] + 1, c[2]>> \in Grid
    OBVIOUS
  <2>1. c[1] \in 0 .. Rows - 1 /\ c[2] \in 0 .. Cols - 1
    BY DEF Grid
  <2>2. c[1] + 1 \in 0 .. Rows - 1
    BY <2>1, ScreenAssumption DEF Bottom
  <2> QED BY <2>1, <2>2 DEF Grid
<1>4. \A c \in Grid : c \notin R => c[1] = 0 \/ c[1] = Bottom \/ c[2] = Cols - 1
  <2> SUFFICES ASSUME NEW c \in Grid, c[1] # 0, c[1] # Bottom, c[2] # Cols - 1 PROVE c \in R
    OBVIOUS
  <2>1. c[1] \in 0 .. Rows - 1 /\ c[2] \in 0 .. Cols - 1
    BY DEF Grid
  <2>2. c[1] \in 1 .. Bottom - 1 /\ c[2] \in 0 .. (Cols - 1) - 1
    BY <2>1, ScreenAssumption DEF Bottom
  <2> QED BY <2>2 DEF Region
<1>5. NothingMissing'
  BY <1>1, <1>3 DEF Screens, ScreensAgree, NothingMissing, Moved
<1>6. TerminalTrue'
  <2> SUFFICES ASSUME settings.cons, NEW c \in Grid, c[1] # Bottom, c[2] # Cols - 1
               PROVE  tty'[c] = screen_buf'[c]
    BY DEF TerminalTrue
  <2>1. CASE c \in R
    BY <1>2, <2>1
  <2>2. CASE c \notin R
    <3>1. c[1] = 0
      BY <1>4, <2>2
    <3>2. tty'[c] = tty[c] /\ screen_buf'[c] = screen_buf[c]
      BY <1>1, <1>2, <2>2, <3>1 DEF Moved
    <3> QED BY <3>2 DEF Screens, ScreensAgree, TerminalTrue
  <2> QED BY <2>1, <2>2
<1>7. Shape'
  BY <1>1, <1>2 DEF Shape, Screens, Moved
<1> QED BY <1>5, <1>6, <1>7 DEF Screens, ScreensAgree

LEMMA SameScreens ==
  ASSUME Screens, UNCHANGED <<settings, vga, screen_buf, tty, scrolled>>, at' = "boot" => at = "boot"
  PROVE  Screens'
BY DEF Screens, Shape, ScreensAgree, NothingMissing, TerminalTrue

LEMMA ScreensStep == Screens /\ Places /\ [Next]_vars => Screens'
<1> SUFFICES ASSUME Screens, Places, [Next]_vars PROVE Screens'
  OBVIOUS
<1> USE DEF screens, history, control, Goto
<1>1. ASSUME NEW o, Boot(o) PROVE Screens'
  <2>1. UNCHANGED <<vga, screen_buf, tty, scrolled>> /\ at = "boot" /\ at' = "test"
    BY <1>1 DEF Boot
  <2> QED BY <2>1 DEF Screens, Shape, ScreensAgree, NothingMissing, TerminalTrue
<1>2. CASE Lift \/ (\E k \in Keys : Type(k)) \/ (\E ch \in Chars : Receive(ch))
  BY <1>2, SameScreens DEF Lift, Type, Receive, CanType
<1>3. ASSUME NEW place \in {"test", "scroll", "trap"}, check_input(place) PROVE Screens'
  <2>1. UNCHANGED settings /\ at = place /\ place # "boot"
    BY <1>3 DEF check_input, CheckInput
  <2>2. CASE \E k, to : SetLock(k, to)
    BY <2>1, <2>2, SameScreens DEF SetLock
  <2>3. CASE popup /\ at' = "keyup" /\ UNCHANGED history
    BY <2>1, <2>3, PopclearScreens DEF popup
  <2>4. CASE Redraw /\ UNCHANGED control
    BY <2>1, <2>4, RedrawScreens
  <2>5. CASE UNCHANGED <<screens, history>> /\ (at' = "halted" \/ UNCHANGED control)
    BY <2>1, <2>5, SameScreens
  <2> QED BY <1>3, <2>2, <2>3, <2>4, <2>5 DEF check_input
<1>4. ASSUME NEW t, NewLine(t) PROVE Screens'
  <2>1. PrintAt(vga, msg_line', 0, t) /\ UNCHANGED <<settings, scrolled>> /\ at' = "test"
    BY <1>4 DEF NewLine, PrintOn, cprint
  <2> QED BY <2>1, PrintScreens
<1>5. ASSUME NEW t, Scroll(t) PROVE Screens'
  BY <1>5, SameScreens DEF Scroll
<1>6. CASE Unlocked
  BY <1>6, ScrollScreens DEF Unlocked
<1>7. CASE PrintLine
  <2>1. PrintAt(vga, msg_line, 0, line) /\ UNCHANGED <<settings, scrolled>> /\ at' = "test"
    BY <1>7 DEF PrintLine, PrintOn, cprint
  <2> QED BY <2>1, PrintScreens
<1>8. CASE clear_scroll
  <2>1. /\ vga' = [c \in Grid |-> IF c[1] = 0 THEN vga[c] ELSE Blank]
        /\ UNCHANGED <<settings, screen_buf, tty, scrolled, at>>
    BY <1>8 DEF clear_scroll
  <2> QED BY <2>1 DEF Screens, Shape, ScreensAgree, NothingMissing, TerminalTrue
<1>9. ASSUME NEW t, inter(t) PROVE Screens'
  <2> DEFINE cleared == [c \in Grid |-> IF c[1] = 0 THEN vga[c] ELSE Blank]
  <2>1. PrintAt(cleared, 1, 0, t) /\ UNCHANGED <<settings, scrolled>> /\ at' = "trap"
    BY <1>9 DEF inter
  <2>2. \A c \in Grid : cleared[c] \in {Blank, vga[c]}
    OBVIOUS
  <2> HIDE DEF cleared
  <2> QED BY <2>1, <2>2, PrintScreens
<1>10. CASE wait_keyup
  <2>1. at' = at \/ at' = next
    BY <1>10 DEF wait_keyup
  <2>2. UNCHANGED <<settings, vga, screen_buf, tty, scrolled>>
    BY <1>10 DEF wait_keyup
  <2> QED BY <2>1, <2>2, SameScreens DEF Places
<1>11. CASE Settings
  <2>1. UNCHANGED <<settings, scrolled>> /\ at' # "boot"
    BY <1>11 DEF Settings, Menu, WaitKeyup, Places
  <2>2. popclear \/ popdown \/ UNCHANGED screens
    BY <1>11 DEF Settings
  <2> QED BY <2>1, <2>2, PopclearScreens, PopdownScreens, SameScreens
<1>12. CASE RedrawAfter
  <2>1. Redraw /\ UNCHANGED settings /\ at' # "boot"
    BY <1>12 DEF RedrawAfter, Places
  <2> QED BY <2>1, RedrawScreens
<1>13. CASE AddressRange
  <2>1. UNCHANGED <<settings, scrolled>> /\ at' # "boot"
    BY <1>13 DEF AddressRange, Menu, WaitKeyup
  <2>2. popclear \/ UNCHANGED screens
    BY <1>13 DEF AddressRange
  <2> QED BY <2>1, <2>2, PopclearScreens, SameScreens
<1>14. CASE EnterKey \/ EnterDone
  <2>1. UNCHANGED settings /\ at' # "boot"
    BY <1>14 DEF EnterKey, EnterDone, Menu
  <2>2. Redraw \/ UNCHANGED <<screens, scrolled>>
    BY <1>14 DEF EnterKey, EnterDone
  <2> QED BY <2>1, <2>2, RedrawScreens, SameScreens
<1>15. CASE SetLimit
  BY <1>15, PopclearScreens DEF SetLimit
<1>16. CASE UNCHANGED vars
  BY <1>16, SameScreens DEF vars
<1> QED BY <1>1, <1>2, <1>3, <1>4, <1>5, <1>6, <1>7, <1>8, <1>9, <1>10, <1>11, <1>12, <1>13,
           <1>14, <1>15, <1>16 DEF Next, Ticks, InMenu

LEMMA ScreensInit == Init => Screens
BY DEF Init, Screens, Shape, ScreensAgree, NothingMissing, TerminalTrue

(* The terminal, the buffer and the screen agree for ever.                 *)
THEOREM ScreensAlwaysAgree == Spec => []ScreensAgree
<1>1. Init => Screens /\ Places
  BY ScreensInit DEF Init, Places
<1>2. Screens /\ Places /\ [Next]_vars => (Screens /\ Places)'
  BY ScreensStep, PlacesStep
<1>3. Screens => ScreensAgree
  BY DEF Screens
<1> QED BY <1>1, <1>2, <1>3, PTL DEF Spec

(* The keys.  What is not read is, on the keyboard, each key pressed and   *)
(* let go in turn, up to the one that is held; on the serial line no key   *)
(* is ever let go.                                                         *)
Named == Keys \cup {ascii_to_keycode(ch) : ch \in Chars}
Codes == [key : Named, up : BOOLEAN]

After(code) == IF code.up THEN held = "" ELSE held = code.key
Follows(code, later) == IF code.up THEN ~later.up ELSE later = LetGo(code.key)

InTurn ==
  /\ \A n \in 1 .. Len(input) : input[n].key \in Keys
  /\ \A n \in 1 .. Len(input) - 1 : Follows(input[n], input[n + 1])
  /\ input # <<>> => After(input[Len(input)])
Queue ==
  /\ input \in Seq(Codes) /\ held \in Keys \cup {""}
  /\ typist = "keyboard" => InTurn
  /\ typist # "keyboard" => held = "" /\ \A n \in 1 .. Len(input) : ~input[n].up

LEMMA KeySteps ==
  ASSUME [Next]_vars
  PROVE  /\ UNCHANGED typist
         /\ \/ \E k \in Keys : Type(k)
            \/ \E ch \in Chars : Receive(ch)
            \/ Lift
            \/ Take /\ UNCHANGED held
            \/ UNCHANGED <<input, held>>
<1> USE DEF keys
<1>1. CASE (\E k \in Keys : Type(k)) \/ (\E ch \in Chars : Receive(ch)) \/ Lift
  BY <1>1 DEF Type, Receive, Lift, CanType
<1>2. CASE (\E o \in Options : Boot(o)) \/ Unlocked \/ PrintLine \/ clear_scroll
  BY <1>2 DEF Boot, Unlocked, PrintLine, clear_scroll
<1>3. ASSUME NEW t \in Texts, NewLine(t) \/ Scroll(t) \/ inter(t) PROVE UNCHANGED <<typist, input, held>>
  BY <1>3 DEF NewLine, Scroll, inter
<1>4. CASE Ticks
  BY <1>4 DEF Ticks, check_input, CheckInput
<1>5. CASE InMenu
  <2>1. CASE wait_keyup
    BY <2>1 DEF wait_keyup
  <2>2. CASE Settings \/ AddressRange \/ EnterKey \/ EnterDone
    BY <2>2 DEF Settings, AddressRange, EnterKey, EnterDone, Menu
  <2>3. CASE RedrawAfter \/ SetLimit
    BY <2>3 DEF RedrawAfter, SetLimit
  <2> QED BY <1>5, <2>1, <2>2, <2>3 DEF InMenu
<1>6. CASE UNCHANGED vars
  BY <1>6 DEF vars
<1> QED BY <1>1, <1>2, <1>3, <1>4, <1>5, <1>6 DEF Next

LEMMA Appended ==
  ASSUME NEW S, NEW s \in Seq(S), NEW code \in S, NEW t, t = Append(s, code)
  PROVE  /\ t \in Seq(S) /\ Len(t) = Len(s) + 1 /\ t[Len(s) + 1] = code
         /\ \A n \in 1 .. Len(s) : t[n] = s[n]
BY AppendProperties

LEMMA QueueStep == Queue /\ [Next]_vars => Queue'
<1> SUFFICES ASSUME Queue, [Next]_vars PROVE Queue'
  OBVIOUS
<1>0. input \in Seq(Codes) /\ Len(input) \in Nat
  <2>1. input \in Seq(Codes)
    BY DEF Queue
  <2> QED BY <2>1, LenProperties
<1>1. ASSUME NEW k \in Keys, Type(k) PROVE Queue'
  <2>1. /\ typist = "keyboard" /\ typist' = typist /\ held = "" /\ held' = k
        /\ input' = Append(input, Press(k))
    BY <1>1 DEF Type, CanType
  <2>2. Press(k) \in Codes /\ Press(k).key = k /\ ~Press(k).up
    BY DEF Codes, Named, Press
  <2>3. input' \in Seq(Codes)
    BY <1>0, <2>1, <2>2, Appended
  <2>4. /\ Len(input') = Len(input) + 1 /\ input'[Len(input) + 1] = Press(k)
        /\ \A n \in 1 .. Len(input) : input'[n] = input[n]
    <3>1. \A code \in Codes : input' = Append(input, code) =>
            /\ Len(input') = Len(input) + 1 /\ input'[Len(input) + 1] = code
            /\ \A n \in 1 .. Len(input) : input'[n] = input[n]
      BY <1>0, Appended
    <3> QED BY <2>1, <2>2, <3>1
  <2>5. Len(input) \in Nat /\ InTurn
    BY <1>0, <2>1 DEF Queue
  <2>6. \A n \in 1 .. Len(input') : input'[n].key \in Keys
    BY <2>2, <2>4, <2>5 DEF InTurn
  <2>7. ASSUME NEW n \in 1 .. Len(input') - 1 PROVE Follows(input[n], input'[n + 1])
    <3>1. CASE n < Len(input)
      BY <2>4, <2>5, <3>1 DEF InTurn
    <3>2. CASE n = Len(input)
      <4>1. input # <<>> /\ n \in 1 .. Len(input)
        BY <1>0, <2>4, <3>2, EmptySeq
      <4>3. input[n].key \in Keys
        BY <2>5, <4>1 DEF InTurn
      <4>2. input[n].up
        BY <2>1, <2>5, <3>2, <4>1, <4>3, KeysAssumption DEF InTurn, After
      <4> QED BY <2>2, <2>4, <3>2, <4>2 DEF Follows
    <3> QED BY <2>4, <2>5, <3>1, <3>2
  <2>8. InTurn'
    <3>1. \A n \in 1 .. Len(input') - 1 : input'[n] = input[n]
      BY <2>4, <2>5
    <3>2. After(input[Len(input)])'
      BY <2>1, <2>2, <2>4 DEF After
    <3> QED BY <2>6, <2>7, <3>1, <3>2 DEF InTurn, Follows
  <2> QED BY <2>1, <2>3, <2>8 DEF Queue
<1>2. ASSUME NEW ch \in Chars, Receive(ch) PROVE Queue'
  <2> DEFINE k == ascii_to_keycode(ch)
  <2>1. /\ typist = "serial" /\ typist' = typist /\ held' = held
        /\ input' = Append(input, Press(k))
    BY <1>2 DEF Receive, CanType
  <2>2. Press(k) \in Codes /\ ~Press(k).up
    BY DEF Codes, Named, Press
  <2> HIDE DEF k
  <2>3. input' \in Seq(Codes)
    BY <1>0, <2>1, <2>2, Appended
  <2>4. /\ Len(input') = Len(input) + 1 /\ input'[Len(input) + 1] = Press(k)
        /\ \A n \in 1 .. Len(input) : input'[n] = input[n]
    BY <1>0, <2>1, <2>2, Appended
  <2>5. Len(input) \in Nat
    BY <1>0
  <2>6. \A n \in 1 .. Len(input') : ~input'[n].up
    <3>1. \A n \in 1 .. Len(input) : ~input[n].up
      BY <2>1 DEF Queue
    <3> QED BY <2>2, <2>4, <2>5, <3>1
  <2> QED BY <2>1, <2>3, <2>6 DEF Queue
<1>3. CASE Lift
  <2>1. /\ typist' = typist /\ held # "" /\ held' = ""
        /\ input' = Append(input, LetGo(held))
    BY <1>3 DEF Lift
  <2>2. LetGo(held) \in Codes /\ LetGo(held).key = held /\ LetGo(held).up /\ held \in Keys
    BY <2>1 DEF Codes, Named, Queue, LetGo
  <2>3. input' \in Seq(Codes)
    BY <1>0, <2>1, <2>2, Appended
  <2>4. /\ Len(input') = Len(input) + 1 /\ input'[Len(input) + 1] = LetGo(held)
        /\ \A n \in 1 .. Len(input) : input'[n] = input[n]
    <3>1. \A code \in Codes : input' = Append(input, code) =>
            /\ Len(input') = Len(input) + 1 /\ input'[Len(input) + 1] = code
            /\ \A n \in 1 .. Len(input) : input'[n] = input[n]
      BY <1>0, Appended
    <3> QED BY <2>1, <2>2, <3>1
  <2>5. Len(input) \in Nat /\ InTurn /\ typist = "keyboard"
    BY <1>0, <2>1 DEF Queue
  <2>6. \A n \in 1 .. Len(input') : input'[n].key \in Keys
    BY <2>2, <2>4, <2>5 DEF InTurn
  <2>7. ASSUME NEW n \in 1 .. Len(input') - 1 PROVE Follows(input[n], input'[n + 1])
    <3>1. CASE n < Len(input)
      BY <2>4, <2>5, <3>1 DEF InTurn
    <3>2. CASE n = Len(input)
      <4>1. input # <<>>
        BY <1>0, <2>4, <3>2, EmptySeq
      <4>2. ~input[n].up /\ held = input[n].key
        BY <2>1, <2>5, <3>2, <4>1 DEF InTurn, After
      <4> QED BY <2>2, <2>4, <3>2, <4>2 DEF Follows
    <3> QED BY <2>4, <2>5, <3>1, <3>2
  <2>8. InTurn'
    <3>1. \A n \in 1 .. Len(input') - 1 : input'[n] = input[n]
      BY <2>4, <2>5
    <3>2. After(input[Len(input)])'
      BY <2>1, <2>2, <2>4 DEF After
    <3> QED BY <2>6, <2>7, <3>1, <3>2 DEF InTurn, Follows
  <2> QED BY <2>1, <2>3, <2>5, <2>8 DEF Queue
<1>4. CASE UNCHANGED <<typist, input, held>>
  BY <1>4 DEF Queue, InTurn, After
<1>5. CASE Take /\ UNCHANGED <<typist, held>> /\ input' # input
  <2>1. input # <<>> /\ input' = Tail(input)
    BY <1>5 DEF Take, get_key
  <2>2. /\ input' \in Seq(Codes) /\ Len(input') = Len(input) - 1
        /\ \A n \in 1 .. Len(input') : input'[n] = input[n + 1]
    BY <1>0, <2>1, HeadTailProperties
  <2>3. Len(input) \in Nat \ {0}
    BY <1>0, <2>1, EmptySeq
  <2>4. CASE typist = "keyboard"
    <3>1. InTurn
      BY <2>4 DEF Queue
    <3>2. \A n \in 1 .. Len(input') : input'[n].key \in Keys
      BY <2>2, <2>3, <3>1 DEF InTurn
    <3>3. \A n \in 1 .. Len(input') - 1 : Follows(input'[n], input'[n + 1])
      BY <2>2, <2>3, <3>1 DEF InTurn
    <3>4. ASSUME input' # <<>> PROVE input'[Len(input')] = input[Len(input)]
      <4>1. Len(input') \in 1 .. Len(input')
        BY <1>0, <2>2, <3>4, EmptySeq
      <4> QED BY <2>2, <2>3, <4>1
    <3>5. InTurn'
      BY <1>5, <2>1, <3>1, <3>2, <3>3, <3>4 DEF InTurn, After, Follows
    <3> QED BY <1>5, <2>2, <2>4, <3>5 DEF Queue
  <2>5. CASE typist # "keyboard"
    <3>1. \A n \in 1 .. Len(input) : ~input[n].up
      BY <2>5 DEF Queue
    <3>2. \A n \in 1 .. Len(input') : ~input'[n].up
      BY <2>2, <2>3, <3>1
    <3> QED BY <1>5, <2>2, <2>5, <3>2 DEF Queue
  <2> QED BY <2>4, <2>5
<1> QED BY <1>1, <1>2, <1>3, <1>4, <1>5, KeySteps
-----------------------------------------------------------------------------
(* The scroll lock.  A key of it that was read on the screen has set it,   *)
(* and what was asked for, the way letting go of it will set it again; one *)
(* that was read in the menu is let go there, or has left the menu.        *)
Owed(k) == \/ input = <<>> /\ held = k
           \/ input # <<>> /\ Head(input) = LetGo(k)
Outside == at \notin {"keyup", "menu", "range", "getval", "limit"}

Lock ==
  /\ slock \in BOOLEAN /\ asked \in BOOLEAN
  /\ ~loose => /\ slock = asked
               /\ Outside => (Owed("sp") => asked) /\ (Owed("cr") => ~asked)

LEMMA HeadIsFirst ==
  ASSUME NEW S, NEW s \in Seq(S), s # <<>>
  PROVE  Len(s) \in Nat \ {0} /\ Head(s) = s[1] /\ s[1] \in S
<1>1. Len(s) \in Nat \ {0}
  BY EmptySeq
<1> QED BY <1>1

LEMMA SeqWider ==
  ASSUME NEW S, NEW T, S \subseteq T, NEW s \in Seq(S)
  PROVE  s \in Seq(T)
BY IsASeq, LenProperties

LEMMA HeadAppended ==
  ASSUME NEW S, NEW s \in Seq(S), NEW code \in S, NEW t, t = Append(s, code)
  PROVE  t # <<>> /\ Head(t) = IF s = <<>> THEN code ELSE Head(s)
<1>1. /\ t \in Seq(S) /\ t # <<>> /\ Len(t) = Len(s) + 1 /\ t[Len(s) + 1] = code
      /\ \A n \in 1 .. Len(s) : t[n] = s[n]
  BY AppendProperties
<1>2. Head(t) = t[1]
  BY <1>1, HeadIsFirst
<1>3. CASE s = <<>>
  BY <1>1, <1>2, <1>3, EmptySeq
<1>4. CASE s # <<>>
  BY <1>1, <1>2, <1>4, HeadIsFirst
<1> QED BY <1>1, <1>3, <1>4

LEMMA FirstFollows ==
  ASSUME InTurn, 1 \in 1 .. Len(input) - 1
  PROVE  Follows(input[1], input[2])
<1>1. \A n \in 1 .. Len(input) - 1 : \A m : m = n + 1 => Follows(input[n], input[m])
  BY DEF InTurn
<1>2. 2 = 1 + 1
  OBVIOUS
<1> QED BY <1>1, <1>2, Zenon

(* The key that is pressed first has its letting go next, or is held.      *)
LEMMA Taken ==
  ASSUME Queue, input # <<>>, input' = Tail(input), UNCHANGED held, NEW k, k # "", Owed(k)'
  PROVE  Head(input) = Press(k)
<1>1. input \in Seq(Codes)
  BY DEF Queue
<1>2. Len(input) \in Nat \ {0} /\ Head(input) = input[1] /\ input[1] \in Codes
  BY <1>1, HeadIsFirst
<1>3. /\ input' \in Seq(Codes) /\ Len(input') = Len(input) - 1
      /\ \A n \in 1 .. Len(input') : input'[n] = input[n + 1]
  BY <1>1, HeadTailProperties
<1> DEFINE first == input[1]
<1>4. typist = "keyboard" /\ InTurn /\ ~first.up /\ first.key = k
  <2>1. CASE input' = <<>>
    <3>1. held' = k
      BY <2>1 DEF Owed
    <3>2. held = k
      BY <3>1
    <3>3. Len(input) = 1
      <4>1. Len(input') = 0
        BY <2>1, EmptySeq
      <4> QED BY ONLY <1>2, <1>3, <4>1
    <3>4. typist = "keyboard" /\ InTurn
      BY <3>2 DEF Queue
    <3>5. After(first)
      BY <3>3, <3>4 DEF InTurn
    <3> QED BY <3>2, <3>4, <3>5 DEF After
  <2>2. CASE input' # <<>>
    <3>1. Len(input') \in Nat \ {0} /\ Head(input') = input'[1]
      BY <1>3, <2>2, HeadIsFirst
    <3>2. 2 \in 1 .. Len(input) /\ 1 \in 1 .. Len(input) - 1 /\ input'[1] = input[2]
      BY ONLY <1>2, <1>3, <3>1
    <3> DEFINE second == input[2]
    <3>3. second = LetGo(k)
      BY <2>2, <3>1, <3>2 DEF Owed
    <3>4. typist # "keyboard" => ~second.up
      BY <3>2 DEF Queue
    <3>5. InTurn => Follows(first, second)
      BY <3>2, FirstFollows
    <3> HIDE DEF first, second
    <3>6. second.up /\ second.key = k
      BY <3>3 DEF LetGo
    <3>7. typist = "keyboard" /\ InTurn
      BY <3>4, <3>6 DEF Queue
    <3>8. ~first.up /\ second = LetGo(first.key)
      BY <3>5, <3>6, <3>7 DEF Follows
    <3>9. second.key = first.key
      BY <3>8 DEF LetGo
    <3> QED BY <3>6, <3>7, <3>8, <3>9
  <2> QED BY <2>1, <2>2
<1>5. first \in Codes
  BY <1>2
<1> HIDE DEF first
<1>6. first = Press(k)
  BY <1>4, <1>5 DEF Codes, Press
<1> QED BY <1>2, <1>6 DEF first

(* What becomes due to be let go has just been read.                       *)
LEMMA OwedStep ==
  ASSUME Queue, [Next]_vars, NEW k, k # "", Owed(k)', ~Owed(k)
  PROVE  Take /\ get_key = Press(k)
<1>0. input \in Seq(Codes)
  BY DEF Queue
<1>1. ASSUME NEW code, input' = Append(input, code), input = <<>> => code # LetGo(k)
      PROVE  FALSE
  <2>1. input \in Seq(Codes \cup {code})
    BY <1>0, SeqWider
  <2> DEFINE S == Codes \cup {code}
  <2>2. input \in Seq(S) /\ code \in S
    BY <2>1
  <2> HIDE DEF S
  <2>3. input' # <<>> /\ Head(input') = IF input = <<>> THEN code ELSE Head(input)
    BY <1>1, <2>2, HeadAppended
  <2> QED BY <1>1, <2>3 DEF Owed
<1>2. ASSUME NEW j, input' = Append(input, Press(j)) PROVE FALSE
  <2>1. Press(j) # LetGo(k)
    BY DEF Press, LetGo
  <2> QED BY <1>1, <1>2, <2>1
<1>3. CASE (\E j \in Keys : Type(j)) \/ (\E ch \in Chars : Receive(ch))
  BY <1>2, <1>3 DEF Type, Receive, CanType
<1>4. CASE Lift
  <2>1. input' = Append(input, LetGo(held))
    BY <1>4 DEF Lift
  <2>2. input = <<>> => held # k
    BY DEF Owed
  <2>3. input = <<>> => LetGo(held) # LetGo(k)
    BY <2>2 DEF LetGo
  <2> QED BY <1>1, <2>1, <2>3
<1>5. CASE UNCHANGED <<input, held>>
  BY <1>5 DEF Owed
<1>6. CASE Take /\ UNCHANGED held /\ input' # input
  <2>1. input # <<>> /\ input' = Tail(input) /\ get_key = Head(input)
    BY <1>6 DEF Take, get_key
  <2> QED BY <1>6, <2>1, Taken
<1> QED BY <1>3, <1>4, <1>5, <1>6, KeySteps

(* What has been read is due no longer.                                    *)
LEMMA OwedOnce ==
  ASSUME Queue, get_key # NoKey, Take, UNCHANGED held, NEW k, k # "", Owed(k)'
  PROVE  get_key = Press(k)
<1>1. input # <<>> /\ input' = Tail(input) /\ get_key = Head(input)
  BY DEF Take, get_key
<1> QED BY <1>1, Taken

(* A key that is let go was due.                                           *)
LEMMA UpIsOwed ==
  ASSUME Queue, get_key # NoKey, get_key.up
  PROVE  Owed(get_key.key)
<1>1. input # <<>> /\ get_key = Head(input) /\ input \in Seq(Codes)
  BY DEF get_key, Queue
<1>2. get_key \in Codes
  BY <1>1, HeadIsFirst
<1>3. get_key = LetGo(get_key.key)
  <2> DEFINE code == get_key
  <2>1. code \in Codes /\ code.up
    BY <1>2
  <2> HIDE DEF code
  <2>2. code = LetGo(code.key)
    BY <2>1 DEF Codes, LetGo
  <2> QED BY <2>2 DEF code
<1> QED BY <1>1, <1>3 DEF Owed

(* The lock keys that are due stay as they are, or one has just been read. *)
LEMMA LockKept ==
  ASSUME Queue, Lock, [Next]_vars, UNCHANGED <<slock, asked>>, ~loose' => ~loose,
         Outside' => \/ Outside /\ (\A k \in {"sp", "cr"} : get_key = Press(k) => ~Take)
                     \/ Outside /\ UNCHANGED <<input, held>>
                     \/ Take /\ UNCHANGED held /\ get_key # NoKey
                          /\ (get_key.key \in {"sp", "cr"} => loose')
  PROVE  Lock'
<1>1. ASSUME ~loose', Outside', NEW k \in {"sp", "cr"}, Owed(k)' PROVE Outside /\ Owed(k)
  <2>1. CASE Outside /\ UNCHANGED <<input, held>>
    BY <1>1, <2>1 DEF Owed
  <2>2. CASE Outside /\ (get_key = Press(k) => ~Take)
    BY <1>1, <2>2, OwedStep
  <2>3. CASE Take /\ UNCHANGED held /\ get_key # NoKey /\ (get_key.key \in {"sp", "cr"} => loose')
    <3>1. get_key = Press(k)
      BY <1>1, <2>3, OwedOnce
    <3> QED BY <1>1, <2>3, <3>1 DEF Press
  <2> QED BY <1>1, <2>1, <2>2, <2>3
<1> QED BY <1>1 DEF Lock

LEMMA LockStep == Queue /\ Places /\ Lock /\ [Next]_vars => Lock'
<1> SUFFICES ASSUME Queue, Places, Lock, [Next]_vars PROVE Lock'
  OBVIOUS
<1> USE DEF history, control, Goto
<1>1. CASE (\E k \in Keys : Type(k)) \/ (\E ch \in Chars : Receive(ch)) \/ Lift
  <2>1. UNCHANGED <<slock, asked, loose, at>>
    BY <1>1 DEF Type, Receive, Lift, CanType
  <2>2. \E code : input' = Append(input, code)
    BY <1>1 DEF Type, Receive, Lift, CanType
  <2>3. ~Take
    <3>1. input \in Seq(Codes)
      BY DEF Queue
    <3>2. PICK code : input' = Append(input, code)
      BY <2>2
    <3>3. input \in Seq(Codes \cup {code}) /\ Len(input) \in Nat
      BY <3>1, SeqWider, LenProperties
    <3>4. Len(input') = Len(input) + 1
      BY <3>2, <3>3, AppendProperties
    <3>5. ASSUME input # <<>> PROVE Len(Tail(input)) = Len(input) - 1
      BY <3>1, <3>5, HeadTailProperties
    <3>6. ASSUME Take PROVE input' = input \/ (input # <<>> /\ input' = Tail(input))
      BY <3>6 DEF Take, get_key
    <3> QED BY <3>3, <3>4, <3>5, <3>6
  <2> QED BY <2>1, <2>3, LockKept DEF Outside
<1>2. CASE UNCHANGED <<slock, asked, loose, input, held>> /\ (Outside' => Outside)
  BY <1>2, LockKept
<1>3. CASE (\E o \in Options : Boot(o)) \/ Unlocked \/ PrintLine \/ clear_scroll
  BY <1>2, <1>3 DEF Boot, Unlocked, PrintLine, clear_scroll, Outside, keys
<1>4. ASSUME NEW t, NewLine(t) \/ Scroll(t) \/ inter(t) PROVE Lock'
  BY <1>2, <1>4 DEF NewLine, Scroll, inter, Outside, keys
<1>5. ASSUME NEW place \in {"test", "scroll", "trap"}, check_input(place) PROVE Lock'
  <2>1. Outside /\ get_key # NoKey /\ Take /\ UNCHANGED held
    BY <1>5 DEF check_input, CheckInput, Outside
  <2>2. ASSUME NEW k, NEW to, (k = "sp" /\ to = TRUE) \/ (k = "cr" /\ to = FALSE),
               SetLock(k, to)
        PROVE  Lock'
    <3>1. /\ k \in {"sp", "cr"} /\ k # "" /\ to \in BOOLEAN /\ (k = "sp" <=> to)
          /\ get_key.key = k /\ slock' = to /\ asked' = (IF get_key.up THEN asked ELSE to)
          /\ UNCHANGED loose
      BY <2>2 DEF SetLock
    <3>2. asked' \in BOOLEAN
      BY <3>1 DEF Lock
    <3>3. ~loose => asked' = to
      <4>1. CASE get_key.up
        <5>1. Owed(k)
          BY <2>1, <3>1, <4>1, UpIsOwed
        <5>2. ~loose => (asked <=> to) /\ asked \in BOOLEAN
          BY <2>1, <3>1, <5>1 DEF Lock
        <5> QED BY <3>1, <4>1, <5>2
      <4>2. CASE ~get_key.up
        BY <3>1, <4>2
      <4> QED BY <4>1, <4>2
    <3>4. ASSUME NEW j \in {"sp", "cr"}, Owed(j)' PROVE j = k
      <4>1. get_key = Press(j)
        BY <2>1, <3>4, OwedOnce
      <4> QED BY <3>1, <4>1 DEF Press
    <3> QED BY <3>1, <3>2, <3>3, <3>4 DEF Lock
  <2>3. CASE UNCHANGED <<slock, asked, loose>> /\ get_key.key \notin {"sp", "cr"}
    BY <2>1, <2>3, LockKept
  <2>4. CASE SetLock("sp", TRUE) \/ SetLock("cr", FALSE)
    <3>1. SetLock("sp", TRUE) => Lock'
      BY <2>2, Zenon
    <3>2. SetLock("cr", FALSE) => Lock'
      BY <2>2, Zenon
    <3> QED BY <2>4, <3>1, <3>2
  <2>5. \/ SetLock("sp", TRUE) \/ SetLock("cr", FALSE)
        \/ UNCHANGED <<slock, asked, loose>> /\ get_key.key \notin {"sp", "cr"}
    BY <1>5 DEF check_input
  <2> QED BY <2>3, <2>4, <2>5
<1>6. CASE wait_keyup
  <2>1. ~Outside /\ ~Outside' /\ UNCHANGED <<slock, asked, loose>>
    BY <1>6 DEF wait_keyup, Outside, Places
  <2> QED BY <2>1, LockKept
<1>7. CASE Settings
  <2>1. ~Outside /\ get_key # NoKey /\ Take /\ UNCHANGED <<held, slock, asked>>
    BY <1>7 DEF Settings, Menu, Outside
  <2>2. CASE Outside'
    <3>4. at' # "keyup" /\ ~(UNCHANGED at)
      BY <2>1, <2>2 DEF Outside
    <3>1. Is("0") \/ Is("8") \/ loose'
      <4>1. \/ WaitKeyup("range")
            \/ Is("8")
            \/ loose' = (loose \/ get_key.key # "0") /\ (Is("0") \/ Is("sp") \/ Is("cr"))
            \/ UNCHANGED control
        BY <1>7 DEF Settings
      <4>2. loose' = (loose \/ get_key.key # "0") => loose' \/ get_key.key = "0"
        OBVIOUS
      <4>3. Is("sp") \/ Is("cr") => get_key.key # "0"
        BY DEF Is, Press
      <4> QED BY <3>4, <4>1, <4>2, <4>3, Zenon DEF WaitKeyup
    <3>2. get_key.key \in {"sp", "cr"} => loose'
      BY <3>1 DEF Is, Press
    <3>3. ~loose' => ~loose
      BY <1>7 DEF Settings
    <3> QED BY <2>1, <3>2, <3>3, LockKept
  <2>3. CASE ~Outside'
    <3>1. ~loose' => ~loose
      BY <1>7 DEF Settings
    <3> QED BY <2>1, <2>3, <3>1, LockKept
  <2> QED BY <2>2, <2>3
<1>8. CASE RedrawAfter
  BY <1>2, <1>8 DEF RedrawAfter, Outside, Places, keys
<1>9. CASE AddressRange \/ EnterKey \/ EnterDone \/ SetLimit
  <2>1. ~Outside /\ ~Outside' /\ UNCHANGED <<slock, asked, loose>>
    <3>1. CASE AddressRange
      BY <3>1 DEF AddressRange, Menu, WaitKeyup, Outside
    <3>2. CASE EnterKey \/ EnterDone
      BY <3>2 DEF EnterKey, EnterDone, Menu, Outside
    <3>3. CASE SetLimit
      BY <3>3 DEF SetLimit, Outside
    <3> QED BY <1>9, <3>1, <3>2, <3>3
  <2> QED BY <2>1, LockKept
<1>10. CASE UNCHANGED vars
  BY <1>2, <1>10 DEF vars, keys, Outside
<1> QED BY <1>1, <1>3, <1>4, <1>5, <1>6, <1>7, <1>8, <1>9, <1>10 DEF Next, Ticks, InMenu

LEMMA QueueInit == Init => Queue
<1> SUFFICES ASSUME Init PROVE Queue
  OBVIOUS
<1>1. input = <<>> /\ held = ""
  BY DEF Init
<1>2. Len(input) = 0 /\ input \in Seq(Codes)
  BY <1>1, EmptySeq
<1>3. \A n \in 1 .. Len(input) : FALSE
  BY <1>2
<1>4. \A n \in 1 .. Len(input) - 1 : FALSE
  BY <1>2
<1> QED BY <1>1, <1>2, <1>3, <1>4 DEF Queue, InTurn

(* For ever, the scroll lock is as the user last asked, as long as no menu *)
(* is left by the key of the scroll lock.                                  *)
THEOREM LockAlwaysAsAsked == Spec => []LockAsAsked
<1>1. Init => Queue /\ Places /\ Lock
  <2> SUFFICES ASSUME Init PROVE Queue /\ Places /\ Lock
    OBVIOUS
  <2>1. input = <<>> /\ held = "" /\ slock = FALSE /\ asked = FALSE /\ loose = FALSE /\ Places
    BY DEF Init, Places
  <2>2. Queue
    BY QueueInit
  <2>3. Lock
    BY <2>1 DEF Lock, Owed
  <2> QED BY <2>1, <2>2, <2>3
<1>2. Queue /\ Places /\ Lock /\ [Next]_vars => (Queue /\ Places /\ Lock)'
  BY QueueStep, PlacesStep, LockStep
<1>3. Lock => LockAsAsked
  BY DEF Lock, LockAsAsked
<1> QED BY <1>1, <1>2, <1>3, PTL DEF Spec

-----------------------------------------------------------------------------
(* A set of numbers has a least one: with it, what holds of 0 and of n + 1 *)
(* when it holds of n holds of every number.                               *)
LEMMA Least ==
  ASSUME NEW S \in SUBSET Nat, S # {}
  PROVE  \E k \in S : \A n \in S : k <= n
<1>1. PICK k \in S : \A n \in S : ~ (<<n, k>> \in OpToRel(<, Nat))
  BY WFMin, NatLessThanWellFounded
<1>2. \A n \in S : ~ (n < k)
  BY <1>1 DEF OpToRel
<1> QED BY <1>2

(* A recursion over numbers has a solution.                                *)
LEMMA Recursion ==
  ASSUME NEW n \in Nat, NEW step \in [1 .. n -> [Nat -> Nat]]
  PROVE  \E g \in [0 .. n -> Nat] : g[0] = 0 /\ \A i \in 1 .. n : g[i] = step[i][g[i - 1]]
<1> DEFINE Solved(m) ==
      \E g \in [0 .. m -> Nat] : g[0] = 0 /\ \A i \in 1 .. m : g[i] = step[i][g[i - 1]]
<1>1. Solved(0)
  <2> DEFINE g == [i \in 0 .. 0 |-> 0]
  <2>1. g \in [0 .. 0 -> Nat] /\ g[0] = 0 /\ \A i \in 1 .. 0 : FALSE
    OBVIOUS
  <2> HIDE DEF g
  <2> QED BY <2>1
<1>2. ASSUME NEW m \in 0 .. n - 1, Solved(m) PROVE Solved(m + 1)
  <2>1. PICK g \in [0 .. m -> Nat] : g[0] = 0 /\ \A i \in 1 .. m : g[i] = step[i][g[i - 1]]
    BY <1>2
  <2> DEFINE h == [i \in 0 .. m + 1 |-> IF i = m + 1 THEN step[m + 1][g[m]] ELSE g[i]]
  <2>2. step[m + 1][g[m]] \in Nat
    <3>1. m + 1 \in 1 .. n /\ m \in 0 .. m
      OBVIOUS
    <3> QED BY <2>1, <3>1
  <2>3. h \in [0 .. m + 1 -> Nat] /\ h[0] = 0
    <3>1. \A i \in 0 .. m + 1 : i # m + 1 => i \in 0 .. m
      OBVIOUS
    <3>2. \A i \in 0 .. m + 1 : (IF i = m + 1 THEN step[m + 1][g[m]] ELSE g[i]) \in Nat
      BY <2>2, <3>1
    <3>3. 0 \in 0 .. m + 1 /\ 0 # m + 1
      OBVIOUS
    <3> QED BY <2>1, <3>2, <3>3
  <2>4. ASSUME NEW i \in 1 .. m + 1 PROVE h[i] = step[i][h[i - 1]]
    <3>1. i - 1 \in 0 .. m /\ h[i - 1] = g[i - 1]
      OBVIOUS
    <3>2. CASE i = m + 1
      BY <3>1, <3>2
    <3>3. CASE i \in 1 .. m
      <4>1. h[i] = g[i]
        BY <3>3
      <4> QED BY <2>1, <3>1, <3>3, <4>1
    <3> QED BY <3>2, <3>3
  <2> HIDE DEF h
  <2> QED BY <2>3, <2>4
<1> DEFINE Bad == {m \in 0 .. n : ~ Solved(m)}
<1> HIDE DEF Solved
<1>3. Bad = {}
  <2> SUFFICES ASSUME Bad # {} PROVE FALSE
    OBVIOUS
  <2>1. PICK m \in Bad : \A k \in Bad : m <= k
    <3>1. Bad \in SUBSET Nat
      OBVIOUS
    <3> HIDE DEF Bad
    <3> QED BY <3>1, Least
  <2>2. m # 0 /\ m \in 0 .. n /\ ~ Solved(m)
    BY <1>1, <2>1
  <2>3. m - 1 \in 0 .. n - 1 /\ m - 1 \notin Bad
    BY <2>1, <2>2
  <2>4. Solved(m - 1) /\ (m - 1) + 1 = m
    BY <2>2, <2>3
  <2> QED BY <1>2, <2>2, <2>3, <2>4
<1>4. Solved(n)
  <2>1. n \in 0 .. n
    OBVIOUS
  <2>2. n \notin Bad
    <3> HIDE DEF Bad
    <3> QED BY <1>3
  <2> QED BY <2>1, <2>2
<1> QED BY <1>4 DEF Solved

-----------------------------------------------------------------------------
(* Powers of two.                                                          *)
LEMMA PowerIs ==
  ASSUME NEW S, IsFiniteSet(S)
  PROVE  2 ^ Cardinality(S) = Cardinality(SUBSET S) /\ IsFiniteSet(SUBSET S)
BY FS_SUBSET

LEMMA PowerPositive ==
  ASSUME NEW n \in Nat
  PROVE  2 ^ n \in Nat \ {0}
<1> DEFINE S == 1 .. n
           P == SUBSET S
<1>1. IsFiniteSet(S) /\ Cardinality(S) = n
  BY FS_Interval
<1>2. {} \in P
  OBVIOUS
<1>3. 2 ^ n = Cardinality(P) /\ IsFiniteSet(P)
  <2> HIDE DEF S
  <2> QED BY <1>1, PowerIs
<1> HIDE DEF P
<1>4. Cardinality(P) \in Nat /\ (Cardinality(P) = 0 <=> P = {})
  BY <1>3, FS_EmptySet, FS_CardinalityType
<1> QED BY <1>2, <1>3, <1>4

LEMMA PowerDoubles ==
  ASSUME NEW n \in Nat
  PROVE  2 ^ (n + 1) = 2 * 2 ^ n
<1> DEFINE S == 1 .. n
           b == n + 1
           T == {A \cup {b} : A \in SUBSET S}
           f == [A \in SUBSET S |-> A \cup {b}]
           U == SUBSET S
           V == SUBSET (S \cup {b})
<1>1. /\ IsFiniteSet(S) /\ Cardinality(S) = n /\ b \notin S
      /\ IsFiniteSet(S \cup {b}) /\ Cardinality(S \cup {b}) = n + 1
  <2>1. IsFiniteSet(S) /\ Cardinality(S) = n /\ b \notin S
    BY FS_Interval
  <2> HIDE DEF S, b
  <2> QED BY <2>1, FS_AddElement
<1> HIDE DEF S, b
<1>2. V = U \cup T
  <2>1. ASSUME NEW B \in V, b \in B PROVE B \in T
    <3>1. B \ {b} \in SUBSET S /\ B = (B \ {b}) \cup {b}
      BY <2>1
    <3> QED BY <3>1
  <2>2. ASSUME NEW B \in V, b \notin B PROVE B \in U
    BY <2>2
  <2>3. ASSUME NEW A \in SUBSET S PROVE A \cup {b} \in V
    BY <2>3
  <2>4. T \subseteq V
    BY <2>3
  <2>5. U \subseteq V
    OBVIOUS
  <2> HIDE DEF T, U, V
  <2>6. \A B \in V : B \in T \/ B \in U
    BY <2>1, <2>2
  <2> QED BY <2>4, <2>5, <2>6
<1>3. U \cap T = {}
  <2>1. ASSUME NEW B \in U, B \in T PROVE FALSE
    <3>1. PICK A \in SUBSET S : B = A \cup {b}
      BY <2>1
    <3>2. b \in B
      BY <3>1
    <3> QED BY <1>1, <2>1, <3>2
  <2> HIDE DEF T, U
  <2> QED BY <2>1
<1>4. f \in Bijection(U, T)
  <2>1. \A A, B \in SUBSET S : A \cup {b} = B \cup {b} => A = B
    BY <1>1
  <2>2. f \in [SUBSET S -> T] /\ \A t \in T : \E A \in SUBSET S : f[A] = t
    OBVIOUS
  <2>3. \A A, B \in SUBSET S : f[A] = f[B] => A = B
    BY <2>1
  <2> HIDE DEF f, T
  <2> QED BY <2>2, <2>3 DEF Bijection, Injection, Surjection, IsInjective
<1>5. 2 ^ n = Cardinality(U) /\ IsFiniteSet(U) /\ 2 ^ (n + 1) = Cardinality(V)
  BY <1>1, PowerIs
<1> HIDE DEF f, T, U, V
<1>6. IsFiniteSet(T) /\ Cardinality(T) = Cardinality(U)
  BY <1>4, <1>5, FS_Bijection DEF ExistsBijection
<1>7. Cardinality(V) = Cardinality(U) + Cardinality(T) - Cardinality(U \cap T)
  BY <1>2, <1>5, <1>6, FS_Union
<1>8. Cardinality(U \cap T) = 0 /\ Cardinality(U) \in Nat
  BY <1>3, <1>5, FS_EmptySet, FS_CardinalityType
<1> QED BY <1>5, <1>6, <1>7, <1>8

LEMMA PowerSum ==
  ASSUME NEW a \in Nat, NEW c \in Nat
  PROVE  2 ^ (a + c) = 2 ^ a * 2 ^ c
<1> DEFINE Bad == {m \in Nat : 2 ^ (a + m) # 2 ^ a * 2 ^ m}
<1>1. Bad = {}
  <2> SUFFICES ASSUME Bad # {} PROVE FALSE
    OBVIOUS
  <2>1. PICK m \in Bad : \A k \in Bad : m <= k
    BY Least
  <2>2. m # 0
    <3>1. 2 ^ 0 = 1 /\ 2 ^ a \in Nat /\ 2 ^ (a + 0) = 2 ^ a
      BY PowerPositive
    <3>2. 2 ^ (a + 0) = 2 ^ a * 2 ^ 0
      BY <3>1
    <3> QED BY <2>1, <3>2
  <2>3. PICK k \in Nat : m = k + 1
    <3>1. m - 1 \in Nat /\ m = (m - 1) + 1
      BY <2>2
    <3> QED BY <3>1
  <2>4. k \notin Bad
    BY <2>1, <2>3
  <2>5. 2 ^ (a + k) = 2 ^ a * 2 ^ k
    BY <2>4
  <2>6. 2 ^ (a + m) = 2 * 2 ^ (a + k)
    <3>1. a + m = (a + k) + 1
      BY <2>3
    <3> QED BY <3>1, PowerDoubles
  <2>7. 2 ^ m = 2 * 2 ^ k
    BY <2>3, PowerDoubles
  <2>8. 2 * (2 ^ a * 2 ^ k) = 2 ^ a * (2 * 2 ^ k)
    <3>1. \A x, y \in Nat : 2 * (x * y) = x * (2 * y)
      OBVIOUS
    <3> QED BY <3>1, PowerPositive
  <2> QED BY <2>1, <2>5, <2>6, <2>7, <2>8
<1> QED BY <1>1
-----------------------------------------------------------------------------
(* The two ways a number is read: as it is meant, and in words.            *)
Exact(d, b, n) == LET v[i \in 0 .. n] == IF i = 0 THEN 0 ELSE v[i - 1] * b + d[i] IN v
Wrapped(s, b, n) ==
  LET v[i \in 0 .. n] == IF i = 0 THEN 0 ELSE (v[i - 1] * b + Digit[s[i]]) % 2 ^ WordBits IN v

(* A function that solves the equation of a recursion in numbers is one to *)
(* the numbers.                                                            *)
StepsBy(v, step, n) == \A i \in 1 .. n : v[i - 1] \in Nat => v[i] = step[i][v[i - 1]]

LEMMA Solves ==
  ASSUME NEW n \in Nat, NEW step \in [1 .. n -> [Nat -> Nat]], NEW T, NEW v \in [0 .. n -> T],
         v[0] = 0, StepsBy(v, step, n)
  PROVE  v \in [0 .. n -> Nat] /\ v[0] = 0 /\ \A i \in 1 .. n : v[i] = step[i][v[i - 1]]
<1>1. v[0] = 0
  OBVIOUS
<1> DEFINE Bad == {i \in 0 .. n : v[i] \notin Nat}
<1>2. Bad = {}
  <2> SUFFICES ASSUME Bad # {} PROVE FALSE
    OBVIOUS
  <2>1. PICK i \in Bad : \A k \in Bad : i <= k
    <3>1. Bad \in SUBSET Nat
      OBVIOUS
    <3> HIDE DEF Bad
    <3> QED BY <3>1, Least
  <2>2. i \in 0 .. n /\ v[i] \notin Nat /\ i # 0
    BY <1>1, <2>1
  <2>3. i \in 1 .. n /\ i - 1 \in 0 .. n /\ i - 1 < i
    BY <2>2
  <2>4. v[i - 1] \in Nat
    <3>1. i - 1 \notin Bad
      <4> HIDE DEF Bad
      <4> QED BY <2>1, <2>2, <2>3
    <3> QED BY <2>3, <3>1
  <2>5. v[i] = step[i][v[i - 1]]
    BY <2>3, <2>4 DEF StepsBy
  <2>6. step[i] \in [Nat -> Nat]
    BY <2>3
  <2> HIDE DEF Bad
  <2> QED BY <2>2, <2>4, <2>5, <2>6
<1>3. \A i \in 0 .. n : v[i] \in Nat
  BY <1>2
<1> HIDE DEF Bad
<1>4. v \in [0 .. n -> Nat]
  BY <1>3
<1>5. \A i \in 1 .. n : i - 1 \in 0 .. n
  OBVIOUS
<1> QED BY <1>1, <1>3, <1>4, <1>5 DEF StepsBy

LEMMA ExactIs ==
  ASSUME NEW n \in Nat, NEW b \in Nat, NEW d \in [1 .. n -> Nat]
  PROVE  /\ Exact(d, b, n) \in [0 .. n -> Nat] /\ Exact(d, b, n)[0] = 0
         /\ \A i \in 1 .. n : Exact(d, b, n)[i] = Exact(d, b, n)[i - 1] * b + d[i]
<1> DEFINE v == Exact(d, b, n)
           step == [i \in 1 .. n |-> [x \in Nat |-> x * b + d[i]]]
           Solution(g) == g = [i \in 0 .. n |-> IF i = 0 THEN 0 ELSE g[i - 1] * b + d[i]]
<1>1. step \in [1 .. n -> [Nat -> Nat]]
  <2>1. \A i \in 1 .. n : \A x \in Nat : x * b + d[i] \in Nat
    OBVIOUS
  <2> QED BY <2>1
<1>2. PICK g \in [0 .. n -> Nat] : g[0] = 0 /\ \A i \in 1 .. n : g[i] = step[i][g[i - 1]]
  <2> HIDE DEF step
  <2> QED BY <1>1, Recursion
<1>3. Solution(g)
  <2>1. \A i \in 1 .. n : i - 1 \in 0 .. n
    OBVIOUS
  <2>2. \A i \in 1 .. n : g[i] = g[i - 1] * b + d[i]
    BY <1>2, <2>1
  <2>3. \A i \in 0 .. n : g[i] = IF i = 0 THEN 0 ELSE g[i - 1] * b + d[i]
    <3>1. \A i \in 0 .. n : i = 0 \/ i \in 1 .. n
      OBVIOUS
    <3> HIDE DEF step
    <3> QED BY <1>2, <2>2, <3>1
  <2> HIDE DEF step
  <2> QED BY <2>3
<1>4. v = CHOOSE f : Solution(f)
  BY DEF Exact
<1> HIDE DEF Solution, v
<1>5. Solution(v)
  BY <1>3, <1>4
<1>6. v = [i \in 0 .. n |-> IF i = 0 THEN 0 ELSE v[i - 1] * b + d[i]]
  BY <1>5 DEF Solution
<1>7. \A i \in 1 .. n : v[i] = v[i - 1] * b + d[i]
  <2>1. \A i \in 1 .. n : i \in 0 .. n /\ i # 0
    OBVIOUS
  <2> QED BY <1>6, <2>1
<1>8. v \in [0 .. n -> {v[i] : i \in 0 .. n}] /\ v[0] = 0
  BY <1>6
<1>9. StepsBy(v, step, n)
  BY <1>7 DEF StepsBy
<1> HIDE DEF step
<1> HIDE DEF Solution
<1>10. v \in [0 .. n -> Nat] /\ v[0] = 0
  BY <1>1, <1>8, <1>9, Solves
<1> QED BY <1>7, <1>10 DEF v

LEMMA WrappedIs ==
  ASSUME NEW n \in Nat, NEW b \in Nat, NEW s, \A i \in 1 .. n : Digit[s[i]] \in Nat
  PROVE  /\ Wrapped(s, b, n) \in [0 .. n -> Nat] /\ Wrapped(s, b, n)[0] = 0
         /\ \A i \in 1 .. n :
              Wrapped(s, b, n)[i] = (Wrapped(s, b, n)[i - 1] * b + Digit[s[i]]) % 2 ^ WordBits
<1> DEFINE v == Wrapped(s, b, n)
           M == 2 ^ WordBits
<1>0. M \in Nat \ {0}
  BY PowerPositive, NumbersAssumption
<1> HIDE DEF M
<1> DEFINE step == [i \in 1 .. n |-> [x \in Nat |-> (x * b + Digit[s[i]]) % M]]
           Solution(g) ==
             g = [i \in 0 .. n |-> IF i = 0 THEN 0 ELSE (g[i - 1] * b + Digit[s[i]]) % M]
<1>1. step \in [1 .. n -> [Nat -> Nat]]
  <2>1. \A i \in 1 .. n : \A x \in Nat : x * b + Digit[s[i]] \in Nat
    OBVIOUS
  <2>2. \A x \in Nat : x % M \in Nat
    BY <1>0
  <2> QED BY <2>1, <2>2
<1>2. PICK g \in [0 .. n -> Nat] : g[0] = 0 /\ \A i \in 1 .. n : g[i] = step[i][g[i - 1]]
  <2> HIDE DEF step
  <2> QED BY <1>1, Recursion
<1>3. Solution(g)
  <2>1. \A i \in 1 .. n : i - 1 \in 0 .. n
    OBVIOUS
  <2>2. \A i \in 1 .. n : g[i] = (g[i - 1] * b + Digit[s[i]]) % M
    BY <1>2, <2>1
  <2>3. \A i \in 0 .. n : g[i] = IF i = 0 THEN 0 ELSE (g[i - 1] * b + Digit[s[i]]) % M
    <3>1. \A i \in 0 .. n : i = 0 \/ i \in 1 .. n
      OBVIOUS
    <3> HIDE DEF step
    <3> QED BY <1>2, <2>2, <3>1
  <2> HIDE DEF step
  <2> QED BY <2>3
<1>4. v = CHOOSE f : Solution(f)
  BY DEF Wrapped, M
<1> HIDE DEF Solution, v
<1>5. Solution(v)
  BY <1>3, <1>4
<1>6. v = [i \in 0 .. n |-> IF i = 0 THEN 0 ELSE (v[i - 1] * b + Digit[s[i]]) % M]
  BY <1>5 DEF Solution
<1>7. \A i \in 1 .. n : v[i] = (v[i - 1] * b + Digit[s[i]]) % M
  <2>1. \A i \in 1 .. n : i \in 0 .. n /\ i # 0
    OBVIOUS
  <2> QED BY <1>6, <2>1
<1>8. v \in [0 .. n -> {v[i] : i \in 0 .. n}] /\ v[0] = 0
  BY <1>6
<1>9. StepsBy(v, step, n)
  BY <1>7 DEF StepsBy
<1> HIDE DEF step
<1>10. v \in [0 .. n -> Nat] /\ v[0] = 0
  BY <1>1, <1>8, <1>9, Solves
<1> QED BY <1>7, <1>10 DEF M, v
-----------------------------------------------------------------------------
(* What a text of a number looks like while it is entered: a suffix is the *)
(* last character, an x the second after 0, and digits are of the base.    *)
Entered == Suffixes \cup DOMAIN Digit \cup {"x"}
Shaped(t) ==
  /\ t \in Seq(Entered)
  /\ \A i \in 1 .. Len(t) :
       /\ t[i] \in Suffixes => i = Len(t)
       /\ t[i] = "x" => i = 2 /\ t[1] = "0"
       /\ t[i] \in DOMAIN Digit => Digit[t[i]] < BaseOf(t)

LEMMA DigitIs ==
  /\ DOMAIN Digit = {"0", "1", "2", "8", "f"} /\ Digit["0"] = 0
  /\ \A c \in DOMAIN Digit : Digit[c] \in Nat /\ Digit[c] <= 15
BY DEF Digit

LEMMA SuffixIs == \A s \in Suffixes : s \notin DOMAIN Digit /\ s # "x" /\ Shifts[s] \in 0 .. WordBits - 1
BY NumbersAssumption, DigitIs DEF Suffixes

(* The digits of a text begin after 0x, and end at the suffix.             *)
DigitsIn(t)  == IF Last(t) \in Suffixes THEN Len(t) - 1 ELSE Len(t)
PrefixOf(t)  == IF BaseOf(t) = 16 THEN 2 ELSE 0

LEMMA DigitsAre ==
  ASSUME NEW t, Shaped(t), t # <<>>, NEW n, n = DigitsIn(t), NEW o, o = PrefixOf(t)
  PROVE  /\ n \in Nat /\ o \in Nat /\ o <= n /\ n <= Len(t) /\ Len(t) \in Nat
         /\ \A i \in o + 1 .. n : t[i] \in DOMAIN Digit /\ Digit[t[i]] < BaseOf(t)
         /\ n < Len(t) => n = Len(t) - 1 /\ t[Len(t)] \in Suffixes
<1>1. Len(t) \in Nat /\ Len(t) # 0
  BY EmptySeq, LenProperties DEF Shaped
<1>2. \A i \in 1 .. Len(t) : t[i] \in Entered
  BY <1>1, ElementOfSeq DEF Shaped
<1>3. n \in Nat /\ n <= Len(t) /\ (n < Len(t) => n = Len(t) - 1 /\ t[Len(t)] \in Suffixes)
  BY <1>1 DEF DigitsIn, Last
<1>4. \A i \in 1 .. n : t[i] \notin Suffixes
  <2> SUFFICES ASSUME NEW i \in 1 .. n, t[i] \in Suffixes PROVE FALSE
    OBVIOUS
  <2>1. i \in 1 .. Len(t) /\ i = Len(t)
    BY <1>1, <1>3 DEF Shaped
  <2> QED BY <1>3, <2>1 DEF DigitsIn, Last
<1>5. CASE BaseOf(t) = 16
  <2>1. o = 2 /\ Len(t) >= 2 /\ t[1] = "0" /\ t[2] = "x"
    BY <1>1, <1>5 DEF PrefixOf, BaseOf
  <2>2. "x" \notin Suffixes
    BY SuffixIs
  <2>3. Len(t) = 2 => n = 2
    BY <1>3, <2>1, <2>2
  <2>4. n >= 2
    <3>1. n = Len(t) \/ n = Len(t) - 1
      BY <1>1, <1>3
    <3>2. \A L \in Nat : L >= 2 /\ L # 2 => L - 1 >= 2
      OBVIOUS
    <3>3. CASE Len(t) = 2
      BY <2>3, <3>3
    <3>4. CASE Len(t) # 2
      <4>1. Len(t) - 1 >= 2 /\ Len(t) >= 2
        BY <1>1, <2>1, <3>2, <3>4
      <4> QED BY <3>1, <4>1
    <3> QED BY <3>3, <3>4
  <2>5. ASSUME NEW i \in o + 1 .. n PROVE t[i] \in DOMAIN Digit /\ Digit[t[i]] < BaseOf(t)
    <3>1. i \in 1 .. Len(t) /\ i \in 1 .. n /\ i # 2
      BY <1>1, <1>3, <2>1
    <3> QED BY <1>2, <1>4, <3>1 DEF Shaped, Entered
  <2> QED BY <1>1, <1>3, <2>1, <2>4, <2>5
<1>6. CASE BaseOf(t) # 16
  <2>1. o = 0
    BY <1>6 DEF PrefixOf
  <2>2. ASSUME NEW i \in o + 1 .. n PROVE t[i] \in DOMAIN Digit /\ Digit[t[i]] < BaseOf(t)
    <3>1. i \in 1 .. Len(t) /\ i \in 1 .. n
      BY <1>1, <1>3, <2>1
    <3>2. t[i] # "x"
      BY <1>1, <1>6, <3>1 DEF Shaped, BaseOf
    <3> QED BY <1>2, <1>4, <3>1, <3>2 DEF Shaped, Entered
  <2> QED BY <1>1, <1>3, <2>1, <2>2
<1> QED BY <1>5, <1>6

LEMMA SkipIs ==
  ASSUME NEW t, Shaped(t), t # <<>>, NEW s, s = Skip(t, BaseOf(t)), NEW o, o = PrefixOf(t)
  PROVE  Len(s) = Len(t) - o /\ \A i \in 1 .. Len(s) : s[i] = t[i + o]
<1>1. Len(t) \in Nat /\ o \in Nat /\ o <= Len(t)
  BY DigitsAre
<1>2. CASE BaseOf(t) = 16
  <2>1. o = 2 /\ s = SubSeq(t, 3, Len(t))
    BY <1>2 DEF PrefixOf, Skip
  <2>2. t \in Seq(Entered)
    BY DEF Shaped
  <2>3. \A i \in 3 .. Len(t) : t[i] \in Entered
    BY <1>1, <2>2, ElementOfSeq
  <2>4. Len(s) = IF 3 <= Len(t) THEN Len(t) - 3 + 1 ELSE 0
    BY <1>1, <2>1, <2>3, SubSeqProperties
  <2>5. \A i \in 1 .. Len(t) - 3 + 1 : s[i] = t[3 + i - 1]
    BY <1>1, <2>1, <2>3, SubSeqProperties
  <2>6. Len(s) = Len(t) - 2
    <3>1. \A L \in Nat : L >= 2 => (IF 3 <= L THEN L - 3 + 1 ELSE 0) = L - 2
      OBVIOUS
    <3> QED BY <1>1, <2>1, <2>4, <3>1
  <2>7. ASSUME NEW i \in 1 .. Len(s) PROVE s[i] = t[i + o]
    <3>1. i \in 1 .. Len(t) - 3 + 1 /\ 3 + i - 1 = i + o
      BY <1>1, <2>1, <2>6
    <3> QED BY <2>5, <3>1
  <2> QED BY <2>1, <2>6, <2>7
<1>3. CASE BaseOf(t) # 16
  BY <1>1, <1>3 DEF PrefixOf, Skip
<1> QED BY <1>2, <1>3

(* simple_strtoul() stops at the first character that is no digit, which   *)
(* is the suffix.                                                          *)
LEMMA ReadIs ==
  ASSUME NEW t, Shaped(t), t # <<>>, NEW n, n = DigitsIn(t), NEW o, o = PrefixOf(t)
  PROVE  simple_strtoul(t, BaseOf(t)) = Wrapped(Skip(t, BaseOf(t)), BaseOf(t), n - o)[n - o]
<1> DEFINE b == BaseOf(t)
           s == Skip(t, b)
           Stops(m) == /\ \A i \in 1 .. m : s[i] \in DOMAIN Digit /\ Digit[s[i]] < b
                       /\ m < Len(s) => (s[m + 1] \notin DOMAIN Digit \/ Digit[s[m + 1]] >= b)
<1>1. /\ n \in Nat /\ o \in Nat /\ o <= n /\ n <= Len(t) /\ Len(t) \in Nat
      /\ \A i \in o + 1 .. n : t[i] \in DOMAIN Digit /\ Digit[t[i]] < b
      /\ n < Len(t) => n = Len(t) - 1 /\ t[Len(t)] \in Suffixes
  BY DigitsAre
<1>2. Len(s) = Len(t) - o /\ \A i \in 1 .. Len(s) : s[i] = t[i + o]
  BY SkipIs
<1> HIDE DEF s, b
<1>3. \A i \in 1 .. n - o : s[i] \in DOMAIN Digit /\ Digit[s[i]] < b
  <2> SUFFICES ASSUME NEW i \in 1 .. n - o PROVE s[i] \in DOMAIN Digit /\ Digit[s[i]] < b
    OBVIOUS
  <2>1. i \in 1 .. Len(s) /\ i + o \in o + 1 .. n
    BY <1>1, <1>2
  <2> QED BY <1>1, <1>2, <2>1
<1>4. n - o < Len(s) => s[n - o + 1] \notin DOMAIN Digit
  <2> SUFFICES ASSUME n - o < Len(s) PROVE s[n - o + 1] \notin DOMAIN Digit
    OBVIOUS
  <2>1. n < Len(t) /\ n - o + 1 \in 1 .. Len(s) /\ (n - o + 1) + o = n + 1
    BY <1>1, <1>2
  <2>2. s[n - o + 1] = t[n + 1] /\ n + 1 = Len(t)
    BY <1>1, <1>2, <2>1
  <2> QED BY <1>1, <2>1, <2>2, SuffixIs
<1>5. n - o \in 0 .. Len(s) /\ Stops(n - o)
  BY <1>1, <1>2, <1>3, <1>4
<1>6. ASSUME NEW m \in 0 .. Len(s), Stops(m) PROVE m = n - o
  <2>0. Len(s) \in Nat /\ n - o \in Nat
    BY <1>1, <1>2
  <2>1. CASE m < n - o
    <3>1. m + 1 \in 1 .. n - o /\ m < Len(s)
      BY <1>1, <1>2, <2>0, <2>1
    <3>2. s[m + 1] \in DOMAIN Digit /\ Digit[s[m + 1]] < b
      BY <1>3, <3>1
    <3>3. Digit[s[m + 1]] \in Int /\ b \in Int
      BY <3>2, DigitIs DEF b, BaseOf
    <3> QED BY <1>6, <3>1, <3>2, <3>3
  <2>2. CASE n - o < m
    <3>1. (n - o) + 1 \in 1 .. m /\ n - o < Len(s)
      BY <2>0, <2>2
    <3>2. s[n - o + 1] \in DOMAIN Digit
      BY <1>6, <3>1
    <3> QED BY <1>4, <3>1, <3>2
  <2> QED BY <2>0, <2>1, <2>2
<1> DEFINE k == CHOOSE m \in 0 .. Len(s) : Stops(m)
<1>7. k = n - o
  <2> HIDE DEF Stops
  <2> QED BY <1>5, <1>6
<1>8. simple_strtoul(t, b) = Wrapped(s, b, k)[k]
  BY DEF simple_strtoul, Wrapped, s
<1> HIDE DEF k
<1> QED BY <1>7, <1>8 DEF b, s

(* A recursion with a base of one or more does not decrease.               *)
LEMMA Grows ==
  ASSUME NEW n \in Nat, NEW b \in Nat \ {0}, NEW d \in [1 .. n -> Nat], NEW v, v = Exact(d, b, n),
         NEW i \in 0 .. n
  PROVE  v[i] <= v[n]
<1>0. b \in Nat
  OBVIOUS
<1>1. v \in [0 .. n -> Nat] /\ \A j \in 1 .. n : v[j] = v[j - 1] * b + d[j]
  BY <1>0, ExactIs
<1>2. ASSUME NEW j \in 1 .. n PROVE v[j - 1] <= v[j]
  <2>1. j - 1 \in 0 .. n /\ v[j - 1] \in Nat /\ d[j] \in Nat /\ v[j] = v[j - 1] * b + d[j]
    BY <1>1
  <2>2. \A x, y \in Nat : x <= x * b + y
    OBVIOUS
  <2> QED BY <2>1, <2>2
<1> DEFINE Bad == {k \in 0 .. n : ~ (v[n - k] <= v[n])}
<1>3. Bad = {}
  <2> SUFFICES ASSUME Bad # {} PROVE FALSE
    OBVIOUS
  <2>1. PICK k \in Bad : \A m \in Bad : k <= m
    <3>1. Bad \in SUBSET Nat
      OBVIOUS
    <3> HIDE DEF Bad
    <3> QED BY <3>1, Least
  <2>2. k \in 0 .. n /\ ~ (v[n - k] <= v[n])
    BY <2>1
  <2>3. k # 0
    <3>1. n - 0 = n /\ n \in 0 .. n
      OBVIOUS
    <3>2. v[n] \in Nat
      BY <1>1, <3>1
    <3>3. v[n] <= v[n]
      BY <3>2
    <3> QED BY <2>2, <3>1, <3>3
  <2>4. k - 1 \in 0 .. n /\ k - 1 < k /\ n - (k - 1) \in 1 .. n /\ n - (k - 1) - 1 = n - k
    BY <2>2, <2>3
  <2>5. v[n - (k - 1)] <= v[n]
    <3>1. k - 1 \notin Bad
      <4> HIDE DEF Bad
      <4> QED BY <2>1, <2>2, <2>4
    <3> QED BY <2>4, <3>1
  <2>6. v[n - k] <= v[n - (k - 1)]
    BY <1>2, <2>4
  <2>7. v[n - k] \in Nat /\ v[n - (k - 1)] \in Nat /\ v[n] \in Nat
    <3>1. n - k \in 0 .. n /\ n - (k - 1) \in 0 .. n /\ n \in 0 .. n
      BY <2>2, <2>4
    <3> QED BY <1>1, <3>1
  <2> HIDE DEF Bad
  <2> QED BY <2>2, <2>5, <2>6, <2>7
<1>4. n - i \in 0 .. n /\ n - (n - i) = i
  OBVIOUS
<1> QED BY <1>3, <1>4

(* Read modulo the size of a word, a number that is no larger than a word  *)
(* comes to what it means.                                                 *)
LEMMA ReadExact ==
  ASSUME NEW t, Shaped(t), t # <<>>
  PROVE  /\ simple_strtoul(t, BaseOf(t)) \in 0 .. 2 ^ WordBits - 1
         /\ \E y \in Nat :
              /\ Meaning(t) = y * 2 ^ ShiftOf(t)
              /\ y < 2 ^ WordBits => simple_strtoul(t, BaseOf(t)) = y
<1> DEFINE b == BaseOf(t)
           x == simple_strtoul(t, b)
           n == DigitsIn(t)
           o == PrefixOf(t)
           s == Skip(t, b)
           d == [i \in 1 .. n |-> IF b = 16 /\ i <= 2 THEN 0 ELSE Digit[t[i]]]
           e == Exact(d, b, n)
           M == 2 ^ WordBits
           w == Wrapped(s, b, n - o)
<1>1. /\ n \in Nat /\ o \in Nat /\ o <= n /\ n <= Len(t) /\ Len(t) \in Nat
      /\ \A i \in o + 1 .. n : t[i] \in DOMAIN Digit /\ Digit[t[i]] < b
  BY DigitsAre
<1>2. Len(s) = Len(t) - o /\ \A i \in 1 .. Len(s) : s[i] = t[i + o]
  BY SkipIs
<1>3. b \in {8, 10, 16} /\ (o = 2 <=> b = 16) /\ o \in {0, 2}
  BY DEF BaseOf, PrefixOf
<1>4. x = w[n - o]
  BY ReadIs
<1> HIDE DEF x
<1>5. Meaning(t) = e[n] * 2 ^ ShiftOf(t)
  BY DEF Meaning, Exact, DigitsIn
<1>6. M \in Nat \ {0}
  BY PowerPositive, NumbersAssumption
<1>7. \A i \in o + 1 .. n : Digit[t[i]] \in Nat
  <2> HIDE DEF b, n, o
  <2> QED BY <1>1, DigitIs
<1>8. d \in [1 .. n -> Nat] /\ \A i \in o + 1 .. n : d[i] = Digit[t[i]]
  <2> HIDE DEF n, o, b
  <2>1. \A i \in 1 .. n : (b = 16 /\ i <= 2) \/ i \in o + 1 .. n
    BY <1>1, <1>3
  <2>2. \A i \in o + 1 .. n : i \in 1 .. n /\ ~ (b = 16 /\ i <= 2)
    BY <1>1, <1>3
  <2> QED BY <1>7, <2>1, <2>2
<1>9. \A i \in 1 .. n - o : s[i] = t[i + o] /\ i + o \in o + 1 .. n
  <2> HIDE DEF n, o, b, s
  <2>1. \A i \in 1 .. n - o : i \in 1 .. Len(s) /\ i + o \in o + 1 .. n
    BY <1>1, <1>2
  <2> QED BY <1>2, <2>1
<1>10. (b = 16 => d[1] = 0 /\ d[2] = 0)
  <2> HIDE DEF b, o, n
  <2>1. b = 16 => 1 \in 1 .. n /\ 2 \in 1 .. n
    BY <1>1, <1>3
  <2> QED BY <2>1
<1> HIDE DEF n, o, b, s, d, M, x
<1>11. e \in [0 .. n -> Nat] /\ e[0] = 0 /\ \A i \in 1 .. n : e[i] = e[i - 1] * b + d[i]
  <2>1. b \in Nat
    BY <1>3
  <2> HIDE DEF e
  <2>2. e = Exact(d, b, n)
    BY DEF e
  <2> QED BY <1>1, <1>8, <2>1, <2>2, ExactIs
<1> HIDE DEF e
<1>17. ASSUME NEW j \in 1 .. n PROVE e[j] = e[j - 1] * b + d[j]
  BY <1>11
<1>12. /\ w \in [0 .. n - o -> Nat] /\ w[0] = 0
       /\ \A i \in 1 .. n - o : w[i] = (w[i - 1] * b + Digit[s[i]]) % M
  <2>1. b \in Nat /\ n - o \in Nat
    BY <1>1, <1>3
  <2>2. \A i \in 1 .. n - o : Digit[s[i]] \in Nat
    BY <1>7, <1>9
  <2>3. /\ Wrapped(s, b, n - o) \in [0 .. n - o -> Nat] /\ Wrapped(s, b, n - o)[0] = 0
        /\ \A i \in 1 .. n - o :
             Wrapped(s, b, n - o)[i] = (Wrapped(s, b, n - o)[i - 1] * b + Digit[s[i]]) % 2 ^ WordBits
    BY <2>1, <2>2, WrappedIs
  <2> QED BY <2>3 DEF M
<1> HIDE DEF e, w
<1>13. x \in 0 .. M - 1
  <2>1. n - o \in 0 .. n - o
    BY <1>1
  <2>2. CASE n - o = 0
    BY <1>4, <1>6, <1>12, <2>2
  <2>3. CASE n - o # 0
    <3>1. n - o \in 1 .. n - o /\ n - o - 1 \in 0 .. n - o
      BY <1>1, <2>3
    <3>2. w[n - o - 1] \in Nat /\ Digit[s[n - o]] \in Nat /\ b \in Nat
      <4>1. w[n - o - 1] \in Nat
        BY <1>12, <3>1
      <4>2. Digit[s[n - o]] \in Nat
        BY <1>7, <1>9, <3>1
      <4> QED BY <1>3, <4>1, <4>2
    <3>3. w[n - o - 1] * b + Digit[s[n - o]] \in Nat
      BY <3>2
    <3>4. x = (w[n - o - 1] * b + Digit[s[n - o]]) % M
      BY <1>4, <1>12, <3>1
    <3>5. \A y \in Nat : y % M \in 0 .. M - 1
      BY <1>6
    <3> QED BY <3>3, <3>4, <3>5
  <2> QED BY <2>2, <2>3
<1>14. e[o] = 0
  <2>1. CASE o = 0
    BY <1>11, <2>1
  <2>2. CASE o = 2
    <3>1. 1 \in 1 .. n /\ 2 \in 1 .. n /\ 1 - 1 = 0 /\ 2 - 1 = 1
      BY <1>1, <2>2
    <3>2. e[1] = e[0] * b + d[1] /\ e[2] = e[1] * b + d[2]
      BY <1>11, <3>1
    <3>3. 0 * b + 0 = 0
      BY <1>3
    <3> QED BY <1>3, <1>10, <1>11, <2>2, <3>2, <3>3
  <2> QED BY <1>3, <2>1, <2>2
<1>15. ASSUME e[n] < M PROVE \A i \in 0 .. n - o : w[i] = e[i + o]
  <2> DEFINE Bad == {i \in 0 .. n - o : w[i] # e[i + o]}
  <2>1. Bad = {}
    <3> SUFFICES ASSUME Bad # {} PROVE FALSE
      OBVIOUS
    <3>1. PICK i \in Bad : \A k \in Bad : i <= k
      <4>1. Bad \in SUBSET Nat
        BY <1>1
      <4> HIDE DEF Bad
      <4> QED BY <4>1, Least
    <3>2. i \in 0 .. n - o /\ w[i] # e[i + o]
      BY <3>1
    <3>3. i # 0
      BY <1>1, <1>12, <1>14, <3>2
    <3>4. /\ i \in 1 .. n - o /\ i - 1 \in 0 .. n - o /\ i - 1 < i
          /\ i + o \in 1 .. n /\ i + o \in 0 .. n /\ i + o - 1 \in 0 .. n /\ i - 1 + o = i + o - 1
      BY <1>1, <3>2, <3>3
    <3>5. w[i - 1] = e[i + o - 1]
      <4>1. i - 1 \notin Bad
        <5> HIDE DEF Bad
        <5> QED BY <3>1, <3>4
      <4> QED BY <3>4, <4>1
    <3> HIDE DEF Bad
    <3>6. e[i + o] = e[i + o - 1] * b + d[i + o]
      <4>1. PICK j \in 1 .. n : j = i + o
        BY <3>4
      <4>2. e[j] = e[j - 1] * b + d[j]
        BY <1>17
      <4>3. j - 1 = i + o - 1
        BY <1>1, <3>2, <4>1
      <4> QED BY <4>1, <4>2, <4>3
    <3>7. d[i + o] = Digit[s[i]]
      BY <1>8, <1>9, <3>4
    <3>8. w[i] = e[i + o] % M
      BY <1>12, <3>4, <3>5, <3>6, <3>7
    <3>9. e[i + o] <= e[n]
      <4>1. b \in Nat \ {0}
        BY <1>3
      <4>2. e = Exact(d, b, n)
        BY DEF e
      <4> QED BY <1>1, <1>8, <3>4, <4>1, <4>2, Grows
    <3>10. e[i + o] \in Nat /\ e[n] \in Nat
      <4>1. n \in 0 .. n
        BY <1>1
      <4> QED BY <1>11, <3>4, <4>1
    <3>11. e[i + o] \in 0 .. M - 1
      BY <1>6, <1>15, <3>9, <3>10
    <3>12. \A y \in 0 .. M - 1 : y % M = y
      BY <1>6
    <3> QED BY <3>2, <3>8, <3>11, <3>12
  <2> QED BY <2>1
<1>16. e[n] \in Nat /\ (e[n] < M => x = e[n])
  <2>1. n \in 0 .. n /\ n - o \in 0 .. n - o /\ n - o + o = n
    BY <1>1
  <2> QED BY <1>4, <1>11, <1>15, <2>1
<1> QED BY <1>5, <1>13, <1>16 DEF M, x, b

LEMMA DivisionScales ==
  ASSUME NEW x \in Nat, NEW c \in Nat \ {0}, NEW d \in Nat \ {0}
  PROVE  (x * c) \div (d * c) = x \div d
<1> DEFINE q == x \div d
           r == x % d
<1>1. q \in Nat /\ r \in 0 .. d - 1 /\ x = d * q + r
  OBVIOUS
<1> HIDE DEF q, r
<1>2. r * c \in Nat /\ r * c < d * c /\ d * c \in Nat \ {0}
  <2>1. r \in Nat /\ r < d
    BY <1>1
  <2> QED BY <2>1, SMTT(30)
<1>3. x * c = (d * c) * q + r * c
  BY <1>1, SMTT(30)
<1> DEFINE D == d * c
           R == r * c
           X == x * c
<1>4. X = D * q + R /\ R \in 0 .. D - 1 /\ D \in Nat \ {0}
  BY <1>2, <1>3
<1> HIDE DEF D, R, X
<1>5. X \div D = q
  BY <1>1, <1>4, SMTT(30)
<1> QED BY <1>5 DEF X, D, q

LEMMA ShiftedIs ==
  ASSUME NEW x \in 0 .. 2 ^ WordBits - 1, NEW up \in 0 .. WordBits - 1,
         NEW down \in 0 .. WordBits - 1
  PROVE  /\ Shifted(x, up - down) \in 0 .. 2 ^ WordBits - 1
         /\ x * 2 ^ up < 2 ^ WordBits => Shifted(x, up - down) = (x * 2 ^ up) \div 2 ^ down
<1> DEFINE M == 2 ^ WordBits
<1>1. M \in Nat \ {0} /\ 2 ^ up \in Nat \ {0} /\ 2 ^ down \in Nat \ {0}
  BY PowerPositive, NumbersAssumption
<1>2. WordBits \in Nat
  BY NumbersAssumption
<1>3. CASE up > down
  <2> DEFINE k == up - down
             P == 2 ^ k
             D == 2 ^ down
             U == 2 ^ up
  <2>1. k \in Nat /\ k > 0 /\ ~ (k >= WordBits) /\ up = k + down /\ down \in Nat
    BY <1>2, <1>3
  <2> HIDE DEF k
  <2>2. U = P * D /\ P \in Nat \ {0}
    BY <2>1, PowerSum, PowerPositive
  <2>3. Shifted(x, k) = (x * P) % M
    BY <2>1 DEF Shifted
  <2> HIDE DEF P, U, D, M
  <2>4. x \in Nat /\ D \in Nat \ {0} /\ x * P \in Nat
    BY <1>1, <2>2 DEF D, M
  <2>5. (x * P) % M \in 0 .. M - 1
    BY <1>1, <2>4
  <2>6. ASSUME x * U < M PROVE (x * P) % M = (x * U) \div D
    <3>1. x * U = (x * P) * D /\ x * P <= (x * P) * D
      BY <2>2, <2>4, SMTT(30)
    <3>2. (x * P) * D < M
      BY <2>6, <3>1
    <3>3. \A y \in Nat : y <= y * D /\ y * D < M => y % M = y
      <4>1. \A y \in Nat : y * D \in Nat
        BY <2>4
      <4>2. \A y \in Nat : y < M => y % M = y
        BY <1>1
      <4> QED BY <1>1, <4>1, <4>2
    <3>4. \A y \in Nat : (y * D) \div D = y
      BY <2>4, SMTT(30)
    <3> QED BY <2>4, <3>1, <3>2, <3>3, <3>4
  <2> QED BY <2>3, <2>5, <2>6 DEF k, M, U, D
<1>4. CASE ~ (up > down)
  <2> DEFINE k == down - up
             P == 2 ^ k
             D == 2 ^ down
             U == 2 ^ up
  <2>1. k \in Nat /\ ~ (k >= WordBits) /\ down = k + up /\ up - down = - k /\ up \in Nat
    BY <1>2, <1>4
  <2> HIDE DEF k
  <2>2. D = P * U /\ P \in Nat \ {0}
    BY <2>1, PowerSum, PowerPositive
  <2>3. Shifted(x, - k) = x \div P
    <3>1. ~ (- k > 0) /\ - (- k) = k
      BY <2>1
    <3> QED BY <2>1, <3>1 DEF Shifted
  <2> HIDE DEF P, U, D, M
  <2>4. x \in Nat /\ x \in 0 .. M - 1
    BY <1>1 DEF M
  <2>5. x \div P \in 0 .. M - 1
    <3>1. x \div P \in Nat /\ x \div P <= x
      BY <2>2, <2>4, SMTT(30)
    <3> QED BY <1>1, <2>4, <3>1
  <2>6. x \div P = (x * U) \div D
    <3>1. U \in Nat \ {0}
      BY <1>1 DEF U
    <3> QED BY <2>2, <2>4, <3>1, DivisionScales
  <2> QED BY <2>1, <2>3, <2>5, <2>6 DEF M, U, D
<1> QED BY <1>3, <1>4

(* What getval() returns is what the text says, where that fits in a word. *)
LEMMA ResultIs ==
  ASSUME Shaped(text), text # <<>>, base = BaseOf(text), result_shift \in 0 .. WordBits - 1
  PROVE  /\ Result(text) \in 0 .. 2 ^ WordBits - 1
         /\ Meaning(text) < 2 ^ WordBits => Result(text) = Meaning(text) \div 2 ^ result_shift
<1> DEFINE M == 2 ^ WordBits
           x == simple_strtoul(text, BaseOf(text))
           up == ShiftOf(text)
           U == 2 ^ up
           D == 2 ^ result_shift
<1>1. up \in 0 .. WordBits - 1
  BY NumbersAssumption DEF ShiftOf, Suffixes
<1>2. Result(text) = Shifted(x, up - result_shift)
  BY DEF Result
<1>3. /\ x \in 0 .. M - 1
      /\ \E y \in Nat : Meaning(text) = y * U /\ (y < M => x = y)
  <2> HIDE DEF x, up, U, M, D
  <2> QED BY ReadExact DEF x, up, U, M
<1> HIDE DEF x, up
<1>4. PICK y \in Nat : Meaning(text) = y * U /\ (y < M => x = y)
  BY <1>3
<1>5. /\ Shifted(x, up - result_shift) \in 0 .. M - 1
      /\ x * U < M => Shifted(x, up - result_shift) = (x * U) \div D
  BY <1>1, <1>3, ShiftedIs
<1>6. U \in Nat \ {0} /\ M \in Nat \ {0}
  BY <1>1, PowerPositive, NumbersAssumption
<1> HIDE DEF U, D, M
<1>7. ASSUME y * U < M PROVE y = x
  <2>1. y <= y * U /\ y * U \in Nat
    BY <1>6, SMTT(30)
  <2>2. y < M
    BY <1>6, <1>7, <2>1
  <2> QED BY <1>4, <2>2
<1> QED BY <1>2, <1>4, <1>5, <1>7 DEF D, M
-----------------------------------------------------------------------------
(* Editing keeps the shape.                                                *)
LEMMA ShapedFacts ==
  ASSUME NEW t, Shaped(t)
  PROVE  /\ Len(t) \in Nat /\ (Len(t) = 0 <=> t = <<>>) /\ t \in Seq(Entered)
         /\ \A i \in 1 .. Len(t) : t[i] \in Entered
BY EmptySeq, LenProperties, ElementOfSeq DEF Shaped

LEMMA BackspaceShaped ==
  ASSUME NEW t, Shaped(t)
  PROVE  Shaped(SubSeq(t, 1, Len(t) - 1)) /\ Len(SubSeq(t, 1, Len(t) - 1)) <= Len(t)
<1> DEFINE u == SubSeq(t, 1, Len(t) - 1)
<1>1. Len(t) \in Nat /\ \A i \in 1 .. Len(t) - 1 : t[i] \in Entered
  BY ShapedFacts
<1>2. u \in Seq(Entered) /\ Len(u) = IF 1 <= Len(t) - 1 THEN (Len(t) - 1) - 1 + 1 ELSE 0
  BY <1>1, SubSeqProperties
<1>3. \A i \in 1 .. (Len(t) - 1) - 1 + 1 : u[i] = t[1 + i - 1]
  BY <1>1, SubSeqProperties
<1> HIDE DEF u
<1>4. Len(u) \in Nat /\ Len(u) <= Len(t) /\ (Len(u) > 0 => Len(t) = Len(u) + 1)
  <2>1. \A n \in Nat : LET m == IF 1 <= n - 1 THEN (n - 1) - 1 + 1 ELSE 0
                       IN  m \in Nat /\ m <= n /\ (m > 0 => n = m + 1)
    OBVIOUS
  <2> QED BY <1>1, <1>2, <2>1
<1>5. ASSUME NEW i \in 1 .. Len(u) PROVE u[i] = t[i] /\ i \in 1 .. Len(t) /\ i # Len(t)
  <2>1. Len(t) = Len(u) + 1
    BY <1>4
  <2>2. i \in 1 .. (Len(t) - 1) - 1 + 1 /\ 1 + i - 1 = i
    BY <1>4, <2>1
  <2> QED BY <1>3, <1>4, <2>1, <2>2
<1>6. ASSUME NEW i \in 1 .. Len(u), u[i] \in DOMAIN Digit PROVE Digit[u[i]] < BaseOf(u)
  <2>1. u[i] = t[i] /\ Digit[t[i]] < BaseOf(t) /\ Digit[t[i]] \in Nat
    BY <1>5, <1>6, DigitIs DEF Shaped
  <2>2. 1 \in 1 .. Len(u) /\ u[1] = t[1] /\ Len(u) >= 1 /\ Len(t) >= 2
    BY <1>4, <1>5
  <2>3. CASE Len(u) >= 2
    <3>1. u[2] = t[2]
      BY <1>4, <1>5, <2>3
    <3> QED BY <2>1, <2>2, <2>3, <3>1 DEF BaseOf
  <2>4. CASE ~ (Len(u) >= 2)
    <3>1. i = 1 /\ Len(u) = 1
      BY <1>4, <2>2, <2>4
    <3>2. CASE t[1] = "0"
      BY <2>2, <2>4, <3>1, <3>2, DigitIs DEF BaseOf
    <3>3. CASE t[1] # "0"
      BY <2>1, <2>2, <2>4, <3>1, <3>3 DEF BaseOf
    <3> QED BY <3>2, <3>3
  <2> QED BY <2>3, <2>4
<1>7. ASSUME NEW i \in 1 .. Len(u)
      PROVE  u[i] \notin Suffixes /\ (u[i] = "x" => i = 2 /\ u[1] = "0")
  <2>1. u[i] = t[i] /\ i # Len(t) /\ i \in 1 .. Len(t)
    BY <1>5
  <2>2. 1 \in 1 .. Len(u)
    BY <1>4
  <2>3. u[1] = t[1]
    BY <1>5, <2>2
  <2> QED BY <2>1, <2>3 DEF Shaped
<1>8. Shaped(u)
  BY <1>2, <1>6, <1>7 DEF Shaped
<1> QED BY <1>4, <1>8 DEF u

LEMMA AppendShaped ==
  ASSUME NEW t, Shaped(t), NEW k,
         \/ k \in Suffixes
         \/ k = "x" /\ t = <<"0">>
         \/ k \in DOMAIN Digit /\ BaseOf(t) >= Digit[k] + 1,
         t = <<>> \/ Last(t) \notin Suffixes
  PROVE  Shaped(Append(t, k))
<1> DEFINE L == Len(t)
<1> DEFINE u == Append(t, k)
<1>1. L \in Nat /\ (L = 0 <=> t = <<>>) /\ t \in Seq(Entered) /\ k \in Entered
  BY ShapedFacts DEF Entered
<1>2. u \in Seq(Entered) /\ Len(u) = L + 1 /\ u[L + 1] = k /\ \A i \in 1 .. L : u[i] = t[i]
  BY <1>1, Appended
<1> HIDE DEF u, L
<1>0. u \in Seq(Entered)
  BY <1>2
<1>3. ASSUME NEW i \in 1 .. L
      PROVE  /\ u[i] = t[i] /\ t[i] \notin Suffixes /\ (t[i] = "x" => i = 2 /\ t[1] = "0")
             /\ t[i] \in DOMAIN Digit => Digit[t[i]] < BaseOf(t)
  <2>1. t[i] \in Suffixes => i = L
    BY DEF Shaped, L
  <2>2. t # <<>> /\ Last(t) = t[L]
    BY <1>1 DEF Last, L
  <2> QED BY <1>2, <2>1, <2>2 DEF Shaped, L
<1>4. k # "x" => k # "x" /\ (L >= 1 => BaseOf(u) = BaseOf(t))
  <2> SUFFICES ASSUME k # "x", L >= 1 PROVE BaseOf(u) = BaseOf(t)
    OBVIOUS
  <2>1. u[1] = t[1] /\ Len(u) = L + 1 /\ Len(u) >= 2
    BY <1>1, <1>2
  <2>2. CASE L >= 2
    <3>1. u[2] = t[2]
      BY <1>1, <1>2, <2>2
    <3> QED BY <1>1, <2>1, <2>2, <3>1 DEF BaseOf, L
  <2>3. CASE ~ (L >= 2)
    <3>1. L = 1
      BY <1>1, <2>3
    <3>2. u[2] = k
      <4>1. L + 1 = 2
        BY <3>1
      <4> QED BY <1>2, <4>1
    <3> QED BY <2>1, <3>1, <3>2 DEF BaseOf, L
  <2> QED BY <2>2, <2>3
<1>5. CASE k = "x"
  <2>1. t = <<"0">> /\ L = 1 /\ t[1] = "0"
    <3>1. "x" \notin Suffixes /\ "x" \notin DOMAIN Digit
      BY SuffixIs, DigitIs
    <3> QED BY <1>5, <3>1 DEF L
  <2>2. Len(u) = 2 /\ u[1] = "0" /\ u[2] = "x" /\ BaseOf(u) = 16
    BY <1>2, <1>5, <2>1 DEF BaseOf
  <2>3. \A i \in 1 .. Len(u) : i = 1 \/ i = 2
    BY <2>2
  <2>4. "0" \notin Suffixes /\ "x" \notin Suffixes /\ "x" \notin DOMAIN Digit /\ Digit["0"] = 0
    BY SuffixIs, DigitIs
  <2>5. ASSUME NEW i \in 1 .. Len(u)
        PROVE  /\ u[i] \in Suffixes => i = Len(u)
               /\ u[i] = "x" => i = 2 /\ u[1] = "0"
               /\ u[i] \in DOMAIN Digit => Digit[u[i]] < BaseOf(u)
    <3>1. CASE i = 1
      BY <2>2, <2>4, <3>1
    <3>2. CASE i = 2
      BY <2>2, <2>4, <3>2
    <3> QED BY <2>3, <3>1, <3>2
  <2> QED BY <1>0, <2>5 DEF Shaped, u
<1>6. CASE k # "x"
  <2>1. ASSUME NEW i \in 1 .. L + 1
        PROVE  /\ u[i] \in Suffixes => i = L + 1
               /\ u[i] = "x" => i = 2 /\ u[1] = "0"
               /\ u[i] \in DOMAIN Digit => Digit[u[i]] < BaseOf(u)
    <3>1. CASE i \in 1 .. L
      <4>1. L >= 1 /\ 1 \in 1 .. L
        BY <1>1, <3>1
      <4>2. u[1] = t[1] /\ BaseOf(u) = BaseOf(t)
        BY <1>2, <1>4, <1>6, <4>1
      <4> QED BY <1>3, <3>1, <4>2
    <3>2. CASE i = L + 1
      <4>1. u[i] = k
        BY <1>2, <3>2
      <4>2. ASSUME k \in DOMAIN Digit PROVE Digit[k] < BaseOf(u)
        <5>1. k \notin Suffixes /\ BaseOf(t) >= Digit[k] + 1 /\ Digit[k] \in Nat /\ Digit[k] <= 15
          BY <1>6, <4>2, SuffixIs, DigitIs
        <5>2. CASE L >= 1
          <6>1. BaseOf(u) = BaseOf(t) /\ BaseOf(t) \in Nat
            BY <1>4, <1>6, <5>2 DEF BaseOf
          <6> QED BY <5>1, <6>1
        <5>3. CASE L = 0
          <6>1. BaseOf(t) = 10 /\ u[1] = k /\ Len(u) = 1
            BY <1>2, <5>3 DEF BaseOf, L
          <6>2. BaseOf(u) = IF k = "0" THEN 8 ELSE 10
            BY <6>1 DEF BaseOf
          <6> QED BY <5>1, <6>1, <6>2, DigitIs
        <5> QED BY <1>1, <5>2, <5>3
      <4> QED BY <1>6, <3>2, <4>1, <4>2
    <3> QED BY <1>1, <3>1, <3>2
  <2>2. Len(u) = L + 1
    BY <1>2
  <2> QED BY <1>0, <2>1, <2>2 DEF Shaped, u
<1> QED BY <1>5, <1>6
-----------------------------------------------------------------------------
(* The number entered, and the one that has been.                          *)
Word == 0 .. 2 ^ WordBits - 1
Text ==
  /\ Shaped(text) /\ base = BaseOf(text) /\ Len(text) <= MaxText
  /\ result_shift \in 0 .. WordBits - 1
Entry ==
  /\ Text /\ value \in Word
  /\ at = "limit" => text # <<>> /\ value = Result(text)

LEMMA EmptyShaped == Shaped(<<>>) /\ Len(<<>>) = 0 /\ BaseOf(<<>>) = 10 /\ 0 \in Word
<1>1. 2 ^ WordBits \in Nat \ {0}
  BY PowerPositive, NumbersAssumption
<1>2. <<>> \in Seq(Entered) /\ Len(<<>>) = 0
  BY EmptySeq
<1> QED BY <1>1, <1>2 DEF Shaped, BaseOf, Word

LEMMA TextSame == Text /\ UNCHANGED <<text, base, result_shift>> => Text'
<1> SUFFICES ASSUME Text, UNCHANGED <<text, base, result_shift>> PROVE Text'
  OBVIOUS
<1> QED BY DEF Text

LEMMA EntrySame ==
  ASSUME Entry, UNCHANGED number, at' = "limit" => at = "limit"
  PROVE  Entry'
<1>1. UNCHANGED <<text, base, result_shift, value>>
  BY DEF number
<1>2. Text' /\ Result(text)' = Result(text)
  BY <1>1, TextSame DEF Entry, Result
<1> QED BY <1>1, <1>2 DEF Entry

LEMMA EntryStep == Entry /\ Places /\ [Next]_vars => Entry'
<1> SUFFICES ASSUME Entry, Places, [Next]_vars PROVE Entry'
  OBVIOUS
<1> USE DEF control, Goto
<1>1. ASSUME NEW o, Boot(o) PROVE Entry'
  BY <1>1, EntrySame DEF Boot
<1>2. CASE Lift \/ (\E k \in Keys : Type(k)) \/ (\E ch \in Chars : Receive(ch))
  BY <1>2, EntrySame DEF Lift, Type, Receive, CanType
<1>3. ASSUME NEW place \in {"test", "scroll", "trap"}, check_input(place) PROVE Entry'
  BY <1>3, EntrySame DEF check_input, CheckInput, SetLock
<1>4. ASSUME NEW t, NewLine(t) \/ Scroll(t) \/ inter(t) PROVE Entry'
  BY <1>4, EntrySame DEF NewLine, Scroll, inter
<1>5. CASE Unlocked \/ PrintLine \/ clear_scroll
  BY <1>5, EntrySame DEF Unlocked, PrintLine, clear_scroll
<1>6. CASE wait_keyup
  BY <1>6, EntrySame DEF wait_keyup, Places
<1>7. CASE Settings \/ RedrawAfter
  BY <1>7, EntrySame DEF Settings, RedrawAfter, WaitKeyup, Places
<1>8. CASE AddressRange
  <2>1. CASE UNCHANGED number
    BY <1>8, <2>1, EntrySame DEF AddressRange, WaitKeyup
  <2>2. CASE ~ UNCHANGED number
    <3>1. /\ result_shift' \in ResultShifts /\ text' = <<>> /\ base' = 10 /\ value' = value
          /\ at' = "keyup"
      BY <1>8, <2>2 DEF AddressRange, WaitKeyup
    <3>2. Text'
      <4>1. result_shift' \in 0 .. WordBits - 1
        BY <3>1, NumbersAssumption
      <4> QED BY <3>1, <4>1, EmptyShaped, NumbersAssumption DEF Text
    <3> QED BY <3>1, <3>2 DEF Entry
  <2> QED BY <2>1, <2>2
<1>9. CASE EnterKey
  <2>1. /\ at' # "limit" /\ UNCHANGED <<result_shift, value>>
        /\ \/ UNCHANGED <<text, base>>
           \/ /\ text' = Edited(get_key.key) /\ base' = BaseOf(text') /\ Len(text') <= MaxText
    BY <1>9 DEF EnterKey
  <2>2. ASSUME NEW k, text' = Edited(k) PROVE Shaped(text')
    <3>1. CASE text' = SubSeq(text, 1, Len(text) - 1)
      BY <3>1, BackspaceShaped DEF Entry, Text
    <3>2. CASE text' = Append(text, k) /\ Legal(k) /\ ~ (text # <<>> /\ Last(text) \in Suffixes)
      BY <3>2, AppendShaped DEF Entry, Text, Legal
    <3>3. CASE text' = text
      BY <3>3 DEF Entry, Text
    <3> QED BY <2>2, <3>1, <3>2, <3>3 DEF Edited
  <2>3. Text'
    BY <2>1, <2>2 DEF Text, Entry
  <2> QED BY <2>1, <2>3 DEF Entry
<1>10. CASE EnterDone
  <2>1. text # <<>> /\ value' = Result(text) /\ UNCHANGED <<text, base, result_shift>>
    BY <1>10 DEF EnterDone
  <2>2. Result(text) \in Word
    BY <2>1, ResultIs DEF Entry, Text, Word
  <2>3. Result(text)' = Result(text)
    BY <2>1 DEF Result
  <2> QED BY <2>1, <2>2, <2>3, TextSame DEF Entry
<1>11. CASE SetLimit
  <2>1. text' = <<>> /\ base' = 10 /\ result_shift' = 0 /\ value' = 0 /\ at' # "limit"
    BY <1>11 DEF SetLimit, NoNumber
  <2>2. 0 \in 0 .. WordBits - 1
    BY NumbersAssumption
  <2> QED BY <2>1, <2>2, EmptyShaped, NumbersAssumption DEF Entry, Text
<1>12. CASE UNCHANGED vars
  BY <1>12, EntrySame DEF vars
<1> QED BY <1>1, <1>2, <1>3, <1>4, <1>5, <1>6, <1>7, <1>8, <1>9, <1>10, <1>11, <1>12
        DEF Next, Ticks, InMenu

LEMMA EntryInit == Init => Entry
<1> SUFFICES ASSUME Init PROVE Entry
  OBVIOUS
<1>1. text = <<>> /\ base = 10 /\ result_shift = 0 /\ value = 0 /\ at = "boot"
  BY DEF Init
<1>2. 0 \in 0 .. WordBits - 1
  BY NumbersAssumption
<1> QED BY <1>1, <1>2, EmptyShaped, NumbersAssumption DEF Entry, Text

(* The option: only the boot reads it.                                     *)
OptionRead == OptionWhole /\ (at = "boot" => settings = Default)

LEMMA OptionSame ==
  ASSUME OptionRead, settings' = settings, uart' = uart, at' = at \/ at' # "boot"
  PROVE  OptionRead'
<1>1. ASSUME settings' # Default PROVE OptionWhole'
  <2>1. PICK o \in Options :
          /\ settings.cons /\ settings.tty = o.tty
          /\ o.baud \in {Missing, settings.baud} /\ o.parity \in {NoParity, settings.parity}
          /\ o.bits \in {Missing, settings.bits}
          /\ o.baud # Missing => uart.div * o.baud = 115200
    BY <1>1 DEF OptionRead, OptionWhole
  <2>2. /\ settings'.cons /\ settings'.tty = o.tty
        /\ o.baud \in {Missing, settings'.baud} /\ o.parity \in {NoParity, settings'.parity}
        /\ o.bits \in {Missing, settings'.bits}
        /\ o.baud # Missing => uart'.div * o.baud = 115200
    BY <2>1
  <2> QED BY <2>2 DEF OptionWhole
<1>2. settings' = Default => OptionWhole'
  BY DEF OptionWhole
<1> QED BY <1>1, <1>2 DEF OptionRead

LEMMA OptionStep == OptionRead /\ Places /\ [Next]_vars => OptionRead'
<1> SUFFICES ASSUME OptionRead, Places, [Next]_vars PROVE OptionRead'
  OBVIOUS
<1>1. ASSUME NEW o \in Options, Boot(o) PROVE OptionRead'
  <2>1. /\ settings' = serial_console_setup(o) /\ uart' = serial_echo_init(settings') /\ at' = "test"
    BY <1>1 DEF Boot, Goto
  <2>2. CASE settings' = Default
    BY <2>1, <2>2 DEF OptionRead, OptionWhole
  <2>3. CASE settings' # Default
    <3>1. settings' = Saved(o) /\ o.baud \in Bauds \cup {Missing} /\ o.parity # "bad"
      BY <2>1, <2>3 DEF serial_console_setup
    <3>2. /\ settings'.cons /\ settings'.tty = o.tty
          /\ settings'.baud = Given(o.baud, 9600) /\ settings'.bits = Given(o.bits, 8)
          /\ settings'.parity = IF o.parity = NoParity THEN "n" ELSE o.parity
      BY <3>1 DEF Saved, Default
    <3>3. /\ o.baud \in {Missing, settings'.baud} /\ o.parity \in {NoParity, settings'.parity}
          /\ o.bits \in {Missing, settings'.bits}
      BY <3>2 DEF Given
    <3>4. ASSUME o.baud # Missing PROVE uart'.div * o.baud = 115200
      <4>1. o.baud \in Nat \ {0} /\ 115200 % o.baud = 0
        BY <3>1, <3>4, BaudsAssumption
      <4>2. uart'.div = 115200 \div o.baud
        BY <2>1, <3>2, <3>4 DEF serial_echo_init, Given
      <4>3. \A b \in Nat \ {0} : 115200 % b = 0 => (115200 \div b) * b = 115200
        BY SMTT(30)
      <4> QED BY <4>1, <4>2, <4>3
    <3> QED BY <2>1, <3>2, <3>3, <3>4 DEF OptionRead, OptionWhole
  <2> QED BY <2>2, <2>3
<1> USE DEF control, Goto
<1>3. CASE Lift \/ (\E k \in Keys : Type(k)) \/ (\E ch \in Chars : Receive(ch))
  <2>1. settings' = settings /\ uart' = uart /\ at' = at
    BY <1>3 DEF Lift, Type, Receive, CanType
  <2> QED BY <2>1, OptionSame
<1>4. ASSUME NEW place \in {"test", "scroll", "trap"}, check_input(place) PROVE OptionRead'
  <2>1. settings' = settings /\ uart' = uart
    BY <1>4 DEF check_input, CheckInput
  <2>2. at' # "boot"
    BY <1>4 DEF check_input, CheckInput, SetLock
  <2> QED BY <2>1, <2>2, OptionSame
<1>5. ASSUME NEW t, NewLine(t) \/ Scroll(t) \/ inter(t) PROVE OptionRead'
  <2>1. settings' = settings /\ uart' = uart /\ (at' = at \/ at' # "boot")
    BY <1>5 DEF NewLine, Scroll, inter
  <2> QED BY <2>1, OptionSame
<1>6. CASE Unlocked \/ PrintLine \/ clear_scroll
  <2>1. settings' = settings /\ uart' = uart /\ (at' = at \/ at' # "boot")
    BY <1>6 DEF Unlocked, PrintLine, clear_scroll
  <2> QED BY <2>1, OptionSame
<1>7. CASE wait_keyup
  <2>1. settings' = settings /\ uart' = uart /\ (at' = at \/ at' # "boot")
    BY <1>7 DEF wait_keyup, Places
  <2> QED BY <2>1, OptionSame
<1>8. CASE Settings \/ AddressRange
  <2>1. settings' = settings /\ uart' = uart
    BY <1>8 DEF Settings, AddressRange, Menu
  <2>2. at' # "boot"
    BY <1>8 DEF Settings, AddressRange, WaitKeyup, Places
  <2> QED BY <2>1, <2>2, OptionSame
<1>9. CASE EnterKey \/ EnterDone \/ SetLimit \/ RedrawAfter
  <2>1. settings' = settings /\ uart' = uart
    BY <1>9 DEF EnterKey, EnterDone, SetLimit, RedrawAfter, Menu
  <2>2. at' # "boot"
    BY <1>9 DEF EnterKey, EnterDone, SetLimit, RedrawAfter, Places
  <2> QED BY <2>1, <2>2, OptionSame
<1>10. CASE UNCHANGED vars
  <2>1. settings' = settings /\ uart' = uart /\ at' = at
    BY <1>10 DEF vars
  <2> QED BY <2>1, OptionSame
<1> QED BY <1>1, <1>3, <1>4, <1>5, <1>6, <1>7, <1>8, <1>9, <1>10 DEF Next, Ticks, InMenu

(* For ever, a number that has been entered is what its text says, and an  *)
(* option is taken as a whole.                                             *)
THEOREM EntriesAlwaysTrue == Spec => []EntriesTrue
<1>1. Init => Entry /\ OptionRead /\ Places
  <2>1. Init => settings = Default /\ at = "boot" /\ Places
    BY DEF Init, Places
  <2> QED BY <2>1, EntryInit DEF OptionRead, OptionWhole
<1>2. Entry /\ OptionRead /\ Places /\ [Next]_vars => (Entry /\ OptionRead /\ Places)'
  BY EntryStep, OptionStep, PlacesStep
<1>3. Entry => NumberExact
  BY ResultIs DEF Entry, Text, NumberExact
<1>4. Entry /\ OptionRead => EntriesTrue
  BY <1>3 DEF OptionRead, EntriesTrue
<1> QED BY <1>1, <1>2, <1>4, PTL DEF Spec
-----------------------------------------------------------------------------
(* Types.  A key that is held leaves room for the code of letting go.      *)
Untouched == held = ""
Room == Len(input) <= MaxInput + 1 /\ (~ Untouched => Len(input) <= MaxInput)

LEMMA RoomStep == Queue /\ Room /\ [Next]_vars => Room'
<1> SUFFICES ASSUME Queue, Room, [Next]_vars PROVE Room'
  OBVIOUS
<1>0. input \in Seq(Codes) /\ Len(input) \in Nat /\ MaxInput \in Nat
  BY LenProperties, KeysAssumption DEF Queue
<1>1. ASSUME NEW code, input' = Append(input, code) PROVE Len(input') = Len(input) + 1
  <2>1. input \in Seq(Codes \cup {code})
    BY <1>0, SeqWider
  <2> QED BY <1>1, <2>1, AppendProperties
<1>2. ASSUME NEW k, CanType(k) PROVE Len(input') <= MaxInput
  <2>1. input' = Append(input, Press(k)) /\ Len(input) < MaxInput
    BY <1>2 DEF CanType
  <2>2. Len(input') = Len(input) + 1
    BY <1>1, <2>1
  <2> QED BY <1>0, <2>1, <2>2
<1>3. CASE (\E k \in Keys : Type(k)) \/ (\E ch \in Chars : Receive(ch))
  <2>1. PICK k : CanType(k)
    BY <1>3 DEF Type, Receive
  <2>2. Len(input') = Len(input) + 1
    BY <1>1, <2>1 DEF CanType
  <2> QED BY <1>0, <1>2, <2>1, <2>2 DEF Room
<1>4. CASE Lift
  <2>1. ~ Untouched /\ Untouched'
    BY <1>4, Zenon DEF Lift, Untouched
  <2>2. Len(input') = Len(input) + 1
    BY <1>1, <1>4 DEF Lift
  <2> QED BY <1>0, <2>1, <2>2 DEF Room
<1>5. CASE UNCHANGED held /\ (input' = input \/ (input # <<>> /\ input' = Tail(input)))
  <2>1. Untouched' <=> Untouched
    BY <1>5, Zenon DEF Untouched
  <2>2. input # <<>> => Len(Tail(input)) = Len(input) - 1
    BY <1>0, HeadTailProperties
  <2>3. Len(input') = Len(input) \/ Len(input') = Len(input) - 1
    BY <1>5, <2>2
  <2> QED BY <1>0, <2>1, <2>3 DEF Room
<1>6. Take => input' = input \/ (input # <<>> /\ input' = Tail(input))
  BY DEF Take, get_key
<1> QED BY <1>3, <1>4, <1>5, <1>6, KeySteps

(* Where the program is; at the scroll lock, and in a menu opened there, a *)
(* line waits to be printed at the bottom of the screen.                   *)
Whereabouts == {"boot", "test", "scroll", "print", "keyup", "menu", "range", "getval",
                "limit", "redraw", "trap", "halted"}
Away == {"keyup", "menu", "range", "getval", "limit", "redraw"}
Waiting == at = "scroll" \/ (back = "scroll" /\ at \in Away)
Lines ==
  /\ at \in Whereabouts /\ slock \in BOOLEAN /\ msg_line \in 0 .. Bottom
  /\ Waiting => line # <<>> /\ msg_line = Bottom

LEMMA LinesSame ==
  ASSUME Lines, at' \in Whereabouts, slock' \in BOOLEAN, msg_line' = msg_line,
         Waiting' => Waiting /\ line' = line
  PROVE  Lines'
BY DEF Lines, Bottom

LEMMA LinesStep == Lines /\ Places /\ [Next]_vars => Lines'
<1> SUFFICES ASSUME Lines, Places, [Next]_vars PROVE Lines'
  OBVIOUS
<1> USE DEF control, Goto
<1>1. CASE (\E o \in Options : Boot(o)) \/ PrintLine \/ Unlocked \/ clear_scroll
  <2>1. /\ slock' = slock /\ msg_line' = msg_line /\ ~ Waiting'
        /\ at' \in {"test", "print"}
    BY <1>1 DEF Boot, PrintLine, Unlocked, clear_scroll, Waiting, Away
  <2> QED BY <2>1, LinesSame DEF Lines, Whereabouts
<1>2. CASE Lift \/ (\E k \in Keys : Type(k)) \/ (\E ch \in Chars : Receive(ch))
  <2>1. slock' = slock /\ msg_line' = msg_line /\ line' = line /\ at' = at /\ back' = back
    BY <1>2 DEF Lift, Type, Receive, CanType
  <2> QED BY <2>1, LinesSame DEF Lines, Waiting
<1>3. ASSUME NEW place \in {"test", "scroll", "trap"}, check_input(place) PROVE Lines'
  <2>1. msg_line' = msg_line /\ line' = line /\ at = place
    BY <1>3 DEF check_input, CheckInput
  <2>2. slock' \in BOOLEAN
    BY <1>3 DEF check_input, SetLock, Lines
  <2>3. at' = "halted" \/ (at' = at /\ back' = back) \/ (at' = "keyup" /\ back' = place)
    BY <1>3 DEF check_input, SetLock
  <2>4. at' \in Whereabouts
    BY <2>1, <2>3 DEF Whereabouts
  <2>5. Waiting' => Waiting
    BY <2>1, <2>3 DEF Waiting, Away
  <2> QED BY <2>1, <2>2, <2>4, <2>5, LinesSame
<1>4. ASSUME NEW t \in Texts, NewLine(t) PROVE Lines'
  <2>1. slock' = slock /\ at' = at /\ at = "test" /\ msg_line < Bottom /\ msg_line' = msg_line + 1
    BY <1>4 DEF NewLine
  <2>2. Bottom \in Nat
    BY ScreenAssumption DEF Bottom
  <2>3. ~ Waiting'
    BY <2>1 DEF Waiting, Away
  <2>4. Bottom' = Bottom
    BY DEF Bottom
  <2> QED BY <2>1, <2>2, <2>3, <2>4 DEF Lines, Whereabouts
<1>5. ASSUME NEW t \in Texts, Scroll(t) PROVE Lines'
  <2>1. /\ slock' = slock /\ at' = "scroll" /\ msg_line' = msg_line /\ msg_line = Bottom
        /\ line' = t
    BY <1>5 DEF Scroll
  <2>2. t # <<>>
    <3>1. Len(t) \in 1 .. Cols
      BY ScreenAssumption
    <3>2. Len(<<>>) = 0
      BY EmptySeq
    <3> QED BY <3>1, <3>2
  <2>3. Bottom' = Bottom
    BY DEF Bottom
  <2> QED BY <2>1, <2>2, <2>3 DEF Lines, Whereabouts
<1>6. ASSUME NEW t \in Texts, inter(t) PROVE Lines'
  <2>1. slock' = slock /\ at' = "trap" /\ msg_line' = msg_line
    BY <1>6 DEF inter
  <2> QED BY <2>1, LinesSame DEF Lines, Whereabouts, Waiting, Away
<1>7. CASE InMenu
  <2>1. slock' = slock /\ msg_line' = msg_line /\ line' = line
    <3>1. CASE wait_keyup
      BY <3>1 DEF wait_keyup
    <3>2. CASE Settings \/ AddressRange \/ EnterKey \/ EnterDone
      BY <3>2 DEF Settings, AddressRange, EnterKey, EnterDone, Menu
    <3>3. CASE RedrawAfter \/ SetLimit
      BY <3>3 DEF RedrawAfter, SetLimit
    <3> QED BY <1>7, <3>1, <3>2, <3>3 DEF InMenu
  <2>2. at \in Away /\ back' = back /\ at' \in Away \cup {back}
    <3>1. CASE wait_keyup
      BY <3>1 DEF wait_keyup, Places, Away
    <3>2. CASE Settings
      BY <3>2 DEF Settings, WaitKeyup, Places, Away
    <3>3. CASE AddressRange
      BY <3>3 DEF AddressRange, WaitKeyup, Places, Away
    <3>4. CASE EnterKey \/ EnterDone
      BY <3>4 DEF EnterKey, EnterDone, Away
    <3>5. CASE RedrawAfter \/ SetLimit
      BY <3>5 DEF RedrawAfter, SetLimit, Away
    <3> QED BY <1>7, <3>1, <3>2, <3>3, <3>4, <3>5 DEF InMenu
  <2>3. back \in {"test", "scroll", "trap"}
    BY DEF Places
  <2>4. at' \in Whereabouts
    BY <2>2, <2>3 DEF Whereabouts, Away
  <2>5. Waiting' => Waiting
    BY <2>2, <2>3 DEF Waiting, Away
  <2> QED BY <2>1, <2>4, <2>5, LinesSame DEF Lines
<1>8. CASE UNCHANGED vars
  <2>1. slock' = slock /\ msg_line' = msg_line /\ line' = line /\ at' = at /\ back' = back
    BY <1>8 DEF vars
  <2> QED BY <2>1, LinesSame DEF Lines, Waiting
<1> QED BY <1>1, <1>2, <1>3, <1>4, <1>5, <1>6, <1>7, <1>8 DEF Next, Ticks

(* The screen the popup hides.                                             *)
LEMMA SaveStep == DOMAIN save = Grid /\ Shape /\ [Next]_vars => DOMAIN save' = Grid
<1> SUFFICES ASSUME DOMAIN save = Grid, Shape, [Next]_vars PROVE DOMAIN save' = Grid
  OBVIOUS
<1>1. popup => DOMAIN save' = Grid
  BY DEF popup, Shape
<1>2. popdown => DOMAIN save' = Grid
  BY DEF popdown
<1>3. Redraw => save' = save
  BY DEF Redraw
<1> USE DEF screens
<1>4. CASE \/ \E o \in Options : Boot(o)
           \/ Lift \/ (\E k \in Keys : Type(k)) \/ (\E ch \in Chars : Receive(ch))
  BY <1>4 DEF Boot, Lift, Type, Receive, CanType
<1>5. ASSUME NEW place \in {"test", "scroll", "trap"}, check_input(place) PROVE DOMAIN save' = Grid
  <2>1. save' = save \/ popup \/ Redraw
    BY <1>5 DEF check_input, SetLock
  <2> QED BY <1>1, <1>3, <2>1
<1>6. ASSUME NEW t \in Texts, NewLine(t) \/ Scroll(t) \/ inter(t) PROVE DOMAIN save' = Grid
  BY <1>6 DEF NewLine, Scroll, inter, PrintOn
<1>7. CASE Unlocked \/ PrintLine \/ clear_scroll
  BY <1>7 DEF Unlocked, PrintLine, PrintOn, clear_scroll
<1>8. CASE InMenu
  <2>1. save' = save \/ popdown \/ Redraw
    <3>1. CASE wait_keyup
      BY <3>1 DEF wait_keyup
    <3>2. CASE Settings
      BY <3>2 DEF Settings
    <3>3. CASE AddressRange
      BY <3>3 DEF AddressRange
    <3>4. CASE EnterKey \/ EnterDone
      BY <3>4 DEF EnterKey, EnterDone
    <3>5. CASE RedrawAfter \/ SetLimit
      BY <3>5 DEF RedrawAfter, SetLimit
    <3> QED BY <1>8, <3>1, <3>2, <3>3, <3>4, <3>5 DEF InMenu
  <2> QED BY <1>2, <1>3, <2>1
<1>9. CASE UNCHANGED vars
  BY <1>9 DEF vars
<1> QED BY <1>4, <1>5, <1>6, <1>7, <1>8, <1>9 DEF Next, Ticks

(* For ever the console is in a state its code knows: no more codes wait   *)
(* than there is room for, a number is no wider than a word, and a line is *)
(* printed at the bottom once the scroll lock, or a menu opened there, is  *)
(* left.                                                                   *)
THEOREM TypesAlwaysRight == Spec => []TypeOK
<1> DEFINE IInv ==
      Screens /\ Places /\ Queue /\ Room /\ Lines /\ Entry /\ DOMAIN save = Grid
<1>1. Init => IInv
  <2> SUFFICES ASSUME Init PROVE IInv
    OBVIOUS
  <2>1. Screens /\ Places /\ Queue
    BY ScreensInit, QueueInit DEF Init, Places
  <2>2. Room
    <3>1. input = <<>>
      BY DEF Init
    <3>2. Len(input) = 0
      BY <3>1, EmptySeq
    <3>3. MaxInput \in Nat
      BY KeysAssumption
    <3> QED BY <3>2, <3>3 DEF Room
  <2>3. Lines
    <3>1. at = "boot" /\ back = "test" /\ slock = FALSE /\ msg_line = 0
      BY DEF Init
    <3>2. Bottom \in Nat
      BY ScreenAssumption DEF Bottom
    <3>3. at \in Whereabouts /\ ~ Waiting /\ msg_line \in 0 .. Bottom
      BY <3>1, <3>2 DEF Whereabouts, Waiting, Away
    <3>4. slock \in BOOLEAN
      BY <3>1
    <3> QED BY <3>3, <3>4 DEF Lines
  <2>4. Entry
    BY EntryInit
  <2>5. DOMAIN save = Grid
    BY DEF Init
  <2> QED BY <2>1, <2>2, <2>3, <2>4, <2>5
<1>2. IInv /\ [Next]_vars => IInv'
  <2>1. Grid' = Grid
    BY DEF Grid, Bottom
  <2> QED BY <2>1, ScreensStep, PlacesStep, QueueStep, RoomStep, LinesStep, EntryStep, SaveStep
          DEF Screens
<1>3. IInv => TypeOK
  <2> SUFFICES ASSUME IInv PROVE TypeOK
    OBVIOUS
  <2>1. \A s \in {vga, screen_buf, tty, save} : DOMAIN s = Grid
    BY DEF Screens, Shape
  <2>2. msg_line \in 0 .. Bottom /\ Len(input) <= MaxInput + 1
    BY DEF Lines, Room
  <2>3. at \in Whereabouts /\ slock \in BOOLEAN
    BY DEF Lines
  <2>4. Len(text) <= MaxText /\ base \in {8, 10, 16} /\ value \in 0 .. 2 ^ WordBits - 1
    BY DEF Entry, Text, BaseOf, Word
  <2>5. back \in {"test", "scroll", "trap"} /\ next \in {"menu", "range", "getval"}
    BY DEF Places
  <2>6. Waiting => line # <<>> /\ msg_line = Bottom
    BY DEF Lines
  <2> QED BY <2>1, <2>2, <2>3, <2>4, <2>5, <2>6 DEF TypeOK, Waiting, Away, Whereabouts
<1> QED BY <1>1, <1>2, <1>3, PTL DEF Spec
=============================================================================
