----------------------------- MODULE MCSequencer -----------------------------
(***************************************************************************)
(* A small machine: pages of two lines, windows of 14 pages, the low copy  *)
(* in lines 2 .. 4, the high one at page 8 or 10.                          *)
(***************************************************************************)
EXTENDS SequencerProps, TLC

Seg(s, e) == [start |-> s, end |-> e]

(* Conventional memory, a hole, and extended memory: too small for a high  *)
(* copy, large enough for one, large enough for the higher address with    *)
(* memory in three windows, and with a gap across a window boundary.       *)
Small  == <<Seg(0, 4), Seg(5, 9)>>
Medium == <<Seg(0, 4), Seg(5, 12)>>
Big    == <<Seg(0, 4), Seg(5, 30)>>
Gap    == <<Seg(0, 4), Seg(5, 13), Seg(16, 40)>>
(* A probed map begins behind the program.                                 *)
Probed == <<Seg(3, 4), Seg(5, 13)>>

AllMachines  == {"bios" :> m : m \in {Small, Medium, Big, Gap}}
MenuMachines == {"bios" :> Gap @@ "probe" :> Probed}
GapMachine   == {"bios" :> Gap}
BigMachine   == {"bios" :> Big}

(* The hypotheses of SequencerProofs about the memory hold here.           *)
ASSUME MachinesMeant == MapsInOrder /\ MapsOfPages /\ MapsInReach /\ MemoryToTest

(* A negative number (the input is an unsigned long put in an int), the    *)
(* first test, the bit fade test, and one that does not exist.             *)
MenuTests == {-2, 0, 2, 3}
TestMenu  == {0, 2}
NoTests   == {}
=============================================================================
