------------------------------ MODULE TestPlan ------------------------------
(***************************************************************************)
(* What the sequencer promises when nobody changes its settings, with the  *)
(* windows, the relocation and the loops over segments left out: the tests *)
(* of a pass are run in order, each of them goes over all of the area      *)
(* before the next one begins, passes follow one another for ever, and the *)
(* screen says that passes were clean only when they were.                 *)
(***************************************************************************)
EXTENDS Integers

CONSTANTS
  NumTests,   \* tests in a pass
  MaxPass     \* passes are not counted beyond this

VARIABLES
  area,       \* the memory to test; empty until it has been sized
  item,       \* the test being run
  todo,       \* the part of the area it has not been over yet
  passes,     \* complete passes
  bad,        \* an error has been found
  verdict     \* what the screen says: "none", "clean" or "green"

plan == <<area, item, todo, passes, bad, verdict>>

Idle == /\ area = {} /\ item = 0 /\ todo = {} /\ passes = 0
        /\ bad = FALSE /\ verdict = "none"

Size == /\ area = {}
        /\ todo' = area'
        /\ UNCHANGED <<item, passes, bad, verdict>>

(* Some of the area is tested, possibly with errors.                       *)
Touch == /\ todo' \subseteq todo
         /\ bad => bad'
         /\ UNCHANGED <<area, item, passes, verdict>>

NextItem == /\ area # {} /\ todo = {}
            /\ todo' = area
            /\ item' = (item + 1) % NumTests
            /\ passes' = IF item' = 0 /\ passes < MaxPass THEN passes + 1 ELSE passes
            /\ UNCHANGED <<area, bad, verdict>>

Announce == /\ item = 0 /\ passes >= 1 /\ ~bad /\ todo = area
            /\ verdict' = IF passes >= 2 THEN "green" ELSE "clean"
            /\ UNCHANGED <<area, item, todo, passes, bad>>

StartOver == /\ area' = {} /\ item' = 0 /\ todo' = {} /\ passes' = 0
             /\ bad' = FALSE /\ verdict' = "none"

Follow == Size \/ Touch \/ NextItem \/ Announce \/ StartOver

Plan == Idle /\ [][Follow]_plan
=============================================================================
