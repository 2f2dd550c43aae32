----------------------------- MODULE MCConsole -----------------------------
(***************************************************************************)
(* A screen of a header and two lines that scroll, of two columns, with a  *)
(* popup over the first column of the first two; words of ten bits.        *)
(***************************************************************************)
EXTENDS Console, TLC

TwoTexts == {<<"a">>, <<"b", "b">>}
AllKeys == {"c", "sp", "cr", "l", "esc", "0", "2", "8", "x", "f", "m", "k", "bs"}
AllChars == {ser_map[n][1] : n \in DOMAIN ser_map}
SmallShifts == "m" :> 4 @@ "k" :> 2
NoOption == [tty |-> Missing, baud |-> Missing, parity |-> NoParity, bits |-> Missing]
SomeOptions ==
  {NoOption, [NoOption EXCEPT !.tty = 1, !.baud = 300],
   [tty |-> 0, baud |-> 115200, parity |-> "e", bits |-> 9],
   [tty |-> 9, baud |-> 9600, parity |-> "n", bits |-> 8]}
=============================================================================
