------------------------------ MODULE MCBadRAM ------------------------------
(***************************************************************************)
(* Words of 5 or 7 bits, of which addresses use all but the lower two.     *)
(***************************************************************************)
EXTENDS BadRAM

(* Addresses that differ in three bits only: some are neighbours, and some *)
(* share no bit.                                                           *)
SixWords == {{}, {2}, {3}, {2, 3}, {2, 4}, {3, 4}}
=============================================================================
