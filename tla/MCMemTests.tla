----------------------------- MODULE MCMemTests -----------------------------
(***************************************************************************)
(* Words of 8 bits and an address space of 256 of them in chunks of 64,    *)
(* pages of 32 words of which the last 16 are not tested.                  *)
(***************************************************************************)
EXTENDS MemTests, TLC

Seg(s, e) == [start |-> s, end |-> e]

(* Two chunks and a part of one; two segments that end within a chunk; one *)
(* that ends in the last chunk of the address space, where pe + SPINSZ     *)
(* wraps.                                                                  *)
LowMap  == <<Seg(0, 112)>>
HoleMap == <<Seg(0, 48), Seg(64, 112)>>
HighMap == <<Seg(160, 240)>>

None == [kind |-> "none", cell |-> 0, other |-> 0, bit |-> 0, value |-> 0]
Stuck(c, b, v) == [None EXCEPT !.kind = "stuck", !.cell = c, !.other = c,
                               !.bit = b, !.value = v]
Couple(c, o, b) == [None EXCEPT !.kind = "couple", !.cell = c, !.other = o, !.bit = b]
Alias(c, o) == [None EXCEPT !.kind = "alias", !.cell = c, !.other = o]

AllMaps == {LowMap, HoleMap, HighMap}
NoFault == {None}
SomeFaults ==
  {None, Stuck(0, 0, 1), Stuck(47, 7, 0), Stuck(64, 3, 1), Stuck(111, 0, 0),
   Stuck(160, 2, 0), Stuck(223, 0, 1), Stuck(239, 5, 1),
   Couple(65, 64, 1), Couple(20, 21, 6), Couple(223, 224, 0),
   Alias(40, 104), Alias(196, 228)}

FullIter == 0 :> 4 @@ 1 :> 2 @@ 2 :> 2 @@ 5 :> 4 @@ 6 :> 4 @@ 7 :> 4 @@ 8 :> 1
              @@ 9 :> 4 @@ 10 :> 2 @@ 11 :> 2
SomeSeeds == {<<163, 92>>, <<17, 201>>}
=============================================================================
