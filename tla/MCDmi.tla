------------------------------- MODULE MCDmi -------------------------------
(***************************************************************************)
(* Kilobytes of 2 bytes, windows of 16, and memory in the first three.     *)
(***************************************************************************)
EXTENDS Dmi

Device(h) == [type |-> 17, handle |-> h, start |-> 0, end |-> 0, md_handle |-> 0]
Map(s, e, h) == [type |-> 20, handle |-> 50 + h, start |-> s, end |-> e, md_handle |-> h]
(* The system information, and what a mapped address reads in it.          *)
System == [type |-> 1, handle |-> 60, start |-> 1, end |-> 9, md_handle |-> 99]
Other == [type |-> 4, handle |-> 61, start |-> 0, end |-> 0, md_handle |-> 0]

Holds(n, structs) == [anchor |-> TRUE, checksum |-> TRUE, major |-> 2, minor |-> 1,
                      numstructs |-> n, structs |-> structs]

(* Two devices, the second over a window's end.                            *)
Plain == Holds(6, <<System, Device(1), Map(0, 3, 1), Device(2), Map(4, 11, 2), Other>>)
(* Ranges before the devices; two structures too many.                     *)
Short == Holds(3, <<Map(4, 11, 2), Device(1), Map(0, 3, 1), Device(2), Device(3)>>)
(* Two devices that interleave, one of them mapped twice.                  *)
Interleaved == Holds(7, <<Device(1), Device(2), Map(0, 3, 2), Map(0, 3, 1),
                          Map(2, 5, 2), Map(8, 11, 1)>>)
(* A device above 4 GB.                                                    *)
Large == Holds(4, <<Device(1), Map(0, 7, 1), Device(2), Map(16, 19, 2)>>)

AllTables ==
  {Plain, Short, Interleaved, Large,
   [Plain EXCEPT !.anchor = FALSE], [Plain EXCEPT !.checksum = FALSE],
   [Plain EXCEPT !.major = 1, !.minor = 0], [Plain EXCEPT !.major = 1],
   Holds(9, <<System, Other>>)}
AllStructs ==
  {Device(1), Device(2), Device(3), System, Other, Map(0, 3, 1), Map(4, 11, 2), Map(0, 3, 2),
   Map(2, 5, 2), Map(8, 11, 1), Map(0, 7, 1), Map(16, 19, 2)}
SomePhysical == {0, 3, 5, 6, 7, 8, 15, 16, 22, 23, 33, 39, 44}
=============================================================================
