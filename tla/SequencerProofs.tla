-------------------------- MODULE SequencerProofs --------------------------
(***************************************************************************)
(* Theorems about the sequencer, for every machine, image size, number of  *)
(* tests and sequence of menu operations the assumptions allow; and, at    *)
(* the end, about the relocation of the image it moves, for every image.   *)
(* The theorems about the sequencer cite no assumption of Relocation.      *)
(***************************************************************************)
EXTENDS Relocation, SequenceTheorems, FiniteSetTheorems, WellFoundedInduction, TLAPS

USE PageLinesAssumption, WindowPagesAssumption, NumWindowsAssumption

-----------------------------------------------------------------------------
(* Arithmetic: a product grows with its factors, and div rounds down.      *)
LEMMA ProductMonotone ==
  ASSUME NEW a \in Nat, NEW b \in Nat, NEW c \in Nat, a <= b
  PROVE  a * c <= b * c
<1>1. (b - a) * c >= 0
  OBVIOUS
<1> QED BY <1>1

LEMMA RoundUp ==
  ASSUME NEW x \in Nat, NEW p \in Nat \ {0}
  PROVE  /\ (x + p - 1) \div p \in Nat
         /\ ((x + p - 1) \div p) * p >= x
  OBVIOUS

LEMMA RoundDown ==
  ASSUME NEW x \in Nat, NEW p \in Nat \ {0}, NEW n \in Nat
  PROVE  /\ x \div p \in Nat
         /\ x < n * p => x \div p < n
         /\ x >= p => x \div p > 0
  OBVIOUS

-----------------------------------------------------------------------------
(* The address functions of init.c return lines.                           *)
LEMMA MappingType ==
  ASSUME NEW page \in Nat
  PROVE  /\ mapping(page) \in Nat
         /\ page > 0 => emapping(page) \in Nat
<1>1. \A n \in Nat : n % WindowPages \in Nat /\ n * PageLines \in Nat
  OBVIOUS
<1>2. \A n \in Nat : mapping(n) \in Nat
  BY <1>1 DEF mapping
<1>3. page > 0 => page - 1 \in Nat
  OBVIOUS
<1> QED BY <1>2, <1>3 DEF emapping

LEMMA PageOfAbove ==
  ASSUME NEW line \in Nat, NEW mw \in Nat \ {0}
  PROVE  page_of(line, mw) \in Nat /\ page_of(line, mw) >= line
<1> DEFINE w == WindowPages * PageLines
<1>1. w \in Nat /\ mw * WindowPages * PageLines = mw * w
  OBVIOUS
<1>2. mw * w >= w
  BY <1>1, ProductMonotone
<1> QED BY <1>1, <1>2 DEF page_of

(* A segment lies inside its window, and is not empty.                     *)
LEMMA SegmentInWindow ==
  ASSUME NEW mem \in Seq([start : Nat, end : Nat]),
         NEW win \in [start : Nat, end : Nat],
         NEW lower \in Nat, NEW upper \in Nat,
         NEW i \in DOMAIN compute_segments(mem, win, lower, upper)
  PROVE  LET c == Clip(mem[i], win, lower, upper)
             s == compute_segments(mem, win, lower, upper)[i]
         IN  /\ i \in DOMAIN mem
             /\ c.start \in Nat /\ c.end \in Nat /\ c.start < c.end
             /\ c.start >= win.start /\ c.end <= win.end
             /\ s = [pbase_addr |-> c.start, start |-> mapping(c.start),
                     end |-> emapping(c.end)]
             /\ s.start \in Nat /\ s.end \in Nat
<1> DEFINE c == Clip(mem[i], win, lower, upper)
           s == compute_segments(mem, win, lower, upper)[i]
<1>1. i \in DOMAIN mem /\ c.start < c.end
  BY DEF compute_segments
<1>2. mem[i] \in [start : Nat, end : Nat]
  <2>1. i \in DOMAIN mem
    BY <1>1
  <2>2. DOMAIN mem = 1 .. Len(mem)
    OBVIOUS
  <2> QED BY <2>1, <2>2, ElementOfSeq
<1>3. /\ c.start \in Nat /\ c.end \in Nat
      /\ c.start >= win.start /\ c.end <= win.end
  <2> DEFINE wstart == IF win.start < lower THEN lower ELSE win.start
             wend   == IF win.end > upper THEN upper ELSE win.end
  <2>1. mem[i].start \in Nat /\ mem[i].end \in Nat /\ win.start \in Nat /\ win.end \in Nat
    BY <1>2
  <2>2. /\ wstart \in Nat /\ wstart >= win.start
        /\ wend \in Nat /\ wend <= win.end
    BY SMTT(30), <2>1
  <2>3. /\ c.start = IF mem[i].start <= wstart THEN wstart ELSE mem[i].start
        /\ c.end = IF mem[i].end >= wend THEN wend ELSE mem[i].end
    BY DEF Clip
  <2> QED BY SMTT(30), <2>1, <2>2, <2>3
<1>4. s = [pbase_addr |-> c.start, start |-> mapping(c.start), end |-> emapping(c.end)]
  BY <1>1 DEF compute_segments
<1>5. mapping(c.start) \in Nat /\ emapping(c.end) \in Nat
  <2> HIDE DEF c
  <2>1. c.start \in Nat /\ c.end \in Nat /\ c.end > 0
    BY <1>1, <1>3
  <2> QED BY <2>1, MappingType
<1> QED BY <1>1, <1>3, <1>4, <1>5

LEMMA WindowRange ==
  ASSUME NEW win \in 0 .. NumWindows - 1, win0_start \in Nat, win1_end \in Nat
  PROVE  Window(win, win0_start, win1_end) \in [start : Nat, end : Nat]
<1>1. CASE win \in {0, 1}
  BY <1>1 DEF Window
<1>2. CASE win \notin {0, 1}
  <2>1. (win - 1) * WindowPages \in Nat /\ win * WindowPages \in Nat
    BY <1>2
  <2> QED BY <1>2, <2>1 DEF Window
<1> QED BY <1>1, <1>2

(* m lists segments of the memory map mem.                                 *)
SegmentsOf(m, mem) ==
  /\ DOMAIN m \subseteq DOMAIN mem
  /\ \A i \in DOMAIN m : m[i].start \in Nat /\ m[i].end \in Nat /\ m[i].pbase_addr \in Nat
  /\ m = [i \in DOMAIN m |-> m[i]]

LEMMA SegsType ==
  ASSUME NEW mem \in Seq([start : Nat, end : Nat]),
         NEW win \in 0 .. NumWindows - 1,
         NEW lower \in Nat, NEW upper \in Nat,
         win0_start \in Nat, win1_end \in Nat
  PROVE  SegmentsOf(Segs(win, mem, lower, upper), mem)
<1> DEFINE w == Window(win, win0_start, win1_end)
           m == Segs(win, mem, lower, upper)
<1>1. w \in [start : Nat, end : Nat]
  BY WindowRange
<1>2. m = compute_segments(mem, w, lower, upper)
  BY DEF Segs
<1> HIDE DEF w, m
<1>3. ASSUME NEW i \in DOMAIN m
      PROVE  /\ i \in DOMAIN mem
             /\ m[i].start \in Nat /\ m[i].end \in Nat /\ m[i].pbase_addr \in Nat
  <2> DEFINE c == Clip(mem[i], w, lower, upper)
             s == compute_segments(mem, w, lower, upper)[i]
  <2>1. i \in DOMAIN compute_segments(mem, w, lower, upper) /\ m[i] = s
    BY <1>2, <1>3
  <2>2. /\ i \in DOMAIN mem /\ c.start \in Nat
        /\ s = [pbase_addr |-> c.start, start |-> mapping(c.start), end |-> emapping(c.end)]
        /\ s.start \in Nat /\ s.end \in Nat
    BY SMTT(30), <2>1, <1>1, SegmentInWindow
  <2> HIDE DEF s, c
  <2>3. s.pbase_addr = c.start
    BY <2>2
  <2> QED BY <2>1, <2>2, <2>3
<1>4. m = [i \in DOMAIN m |-> m[i]]
  BY <1>2 DEF compute_segments
<1> QED BY <1>3, <1>4 DEF m, SegmentsOf

-----------------------------------------------------------------------------
(* The types are inductive together with Initialised.                      *)
TypeInv == TypeOK /\ Initialised

LEMMA PlainConstants ==
  /\ Low \in Nat /\ ImageLen \in Nat /\ HighBoot \in Nat /\ HighBig \in Nat
  /\ LoadAddrs \subseteq Nat
BY ImageAssumption

LEMMA InitType == Init => TypeInv
<1> SUFFICES ASSUME Init PROVE TypeInv
  OBVIOUS
<1>1. PlaceTypes
  BY PlainConstants, SequenceAssumption DEF Init, PlaceTypes, NoAddr
<1>2. MemoryTypes
  BY MachinesAssumption DEF Init, BiosMode, MemoryTypes
<1>3. CounterTypes
  BY SequenceAssumption DEF Init, CounterTypes
<1>4. HistoryTypes
  BY DEF Init, HistoryTypes, Untouched
<1>5. FlagTypes
  BY DEF Init, FlagTypes
<1>6. Initialised
  BY DEF Init, Initialised, Testing
<1> QED BY <1>1, <1>2, <1>3, <1>4, <1>5, <1>6 DEF TypeInv, TypeOK

(* run_at() goes to a line, and keeps its destination.                     *)
LEMMA RunAtType ==
  ASSUME TypeInv, NEW addr \in Nat, run_at(addr)
  PROVE  pc' = "enter" /\ at' \in Nat /\ run_at_addr' \in Nat
BY PlainConstants DEF run_at, TypeInv, TypeOK, PlaceTypes

LEMMA PagingType ==
  ASSUME TypeInv, paging_off
  PROVE  mapped_window' \in Nat \ {0}
BY DEF paging_off, TypeInv, TypeOK, MemoryTypes

LEMMA HighLine ==
  TypeInv => high_test_adr * PageLines \in Nat
BY DEF TypeInv, TypeOK, PlaceTypes

LEMMA LastEntry ==
  ASSUME NEW mem \in Seq([start : Nat, end : Nat]), mem # <<>>
  PROVE  mem[Len(mem)].end \in Nat
<1>1. Len(mem) \in 1 .. Len(mem)
  OBVIOUS
<1>2. mem[Len(mem)] \in [start : Nat, end : Nat]
  BY <1>1, ElementOfSeq
<1> QED BY <1>2

LEMMA CurrentSegs ==
  ASSUME TypeInv
  PROVE  SegmentsOf(Segs(window, pmap, plim_lower, plim_upper), pmap)
<1>1. /\ window \in 0 .. NumWindows - 1 /\ win0_start \in Nat /\ win1_end \in Nat
      /\ pmap \in Seq([start : Nat, end : Nat]) /\ plim_lower \in Nat /\ plim_upper \in Nat
  BY DEF TypeInv, TypeOK, PlaceTypes, MemoryTypes
<1> QED BY <1>1, SegsType

LEMMA FromLowerLimitType ==
  ASSUME NEW m, m = [i \in DOMAIN m |-> m[i]], plim_lower \in Nat,
         \A i \in DOMAIN m : m[i].start \in Nat /\ m[i].end \in Nat
  PROVE  /\ DOMAIN FromLowerLimit(m) = DOMAIN m
         /\ \A i \in DOMAIN m : /\ FromLowerLimit(m)[i].start \in Nat
                               /\ FromLowerLimit(m)[i].end = m[i].end
<1>1. mapping(plim_lower) \in Nat
  BY MappingType
<1>2. UsbFloor \in Nat
  BY ImageAssumption
<1> QED BY <1>1, <1>2 DEF FromLowerLimit

LEMMA EnterType ==
  TypeInv /\ (Resume \/ ColdStart \/ Initialise \/ PassOver \/ OpenWindow) => TypeInv'
<1> SUFFICES ASSUME TypeInv, Resume \/ ColdStart \/ Initialise \/ PassOver \/ OpenWindow
             PROVE  TypeInv'
  OBVIOUS
<1> USE DEF TypeInv, TypeOK
<1> USE DEF place, layout, hardware, memory, counters, loops, user, history
<1>1. CASE Resume
  <2>1. PlaceTypes' /\ Initialised'
    BY <1>1 DEF Resume, PlaceTypes, Initialised, Testing
  <2>2. MemoryTypes'
    BY <1>1 DEF Resume, MemoryTypes
  <2>3. CounterTypes'
    BY <1>1 DEF Resume, CounterTypes
  <2>4. HistoryTypes'
    BY <1>1 DEF Resume, HistoryTypes
  <2>5. FlagTypes'
    BY <1>1 DEF Resume, FlagTypes
  <2> QED BY <2>1, <2>2, <2>3, <2>4, <2>5
<1>2. CASE ColdStart
  <2>1. pc' = "enter" /\ at' \in Nat /\ run_at_addr' \in Nat
    BY <1>2, RunAtType, PlainConstants DEF ColdStart, restart
  <2>2. PlaceTypes' /\ Initialised'
    BY <1>2, <2>1 DEF ColdStart, restart, PlaceTypes, Initialised, Testing
  <2>3. MemoryTypes'
    BY <1>2 DEF ColdStart, restart, MemoryTypes
  <2>4. CounterTypes'
    BY <1>2, SequenceAssumption DEF ColdStart, restart, CounterTypes
  <2>5. HistoryTypes'
    BY <1>2 DEF ColdStart, HistoryTypes
  <2>6. FlagTypes'
    BY <1>2 DEF ColdStart, restart, FlagTypes
  <2> QED BY <2>2, <2>3, <2>4, <2>5, <2>6
<1>3. CASE Initialise
  <2> DEFINE mem  == machine[mode]
             last == mem[Len(mem)].end
  <2>1. mem \in Seq([start : Nat, end : Nat]) /\ mem # <<>>
    BY MachinesAssumption DEF MemoryTypes, MemoryMap
  <2>2. last \in Nat
    BY <2>1, LastEntry
  <2>3. /\ pmap' = mem /\ plim_lower' = 0 /\ plim_upper' = last
        /\ map' = Segs(window, mem, 0, last) /\ window' = 0
        /\ high_test_adr' \in {HighBig, high_test_adr}
    BY <1>3 DEF Initialise, find_ticks_for_pass
  <2>4. /\ DOMAIN map' \subseteq DOMAIN mem
        /\ \A i \in DOMAIN map' : map'[i].start \in Nat /\ map'[i].end \in Nat
    BY <2>1, <2>2, <2>3, SegsType DEF PlaceTypes, SegmentsOf
  <2>5. (Low + ImageLen + PageLines - 1) \div PageLines \in Nat
    BY PlainConstants, RoundUp
  <2>6. PlaceTypes' /\ Initialised'
    BY <1>3, <2>1, <2>3, <2>5, PlainConstants
    DEF Initialise, Arrived, PlaceTypes, Initialised, Testing
  <2>7. MemoryTypes'
    BY SMTT(30), <1>3, <2>1, <2>2, <2>3, <2>4 DEF Initialise, MemoryTypes
  <2>8. CounterTypes'
    BY <1>3, SequenceAssumption DEF Initialise, CounterTypes
  <2>9. HistoryTypes'
    BY <1>3 DEF Initialise, HistoryTypes, Untouched
  <2>10. FlagTypes'
    BY <1>3 DEF Initialise, FlagTypes
  <2> QED BY <2>6, <2>7, <2>8, <2>9, <2>10
<1>4. CASE PassOver
  <2> DEFINE m == Segs(window, pmap, plim_lower, plim_upper)
  <2>1. SegmentsOf(m, pmap)
    BY CurrentSegs
  <2>2. map' = m
    BY <1>4 DEF PassOver
  <2> HIDE DEF m
  <2>3. PlaceTypes'
    BY <1>4 DEF PassOver, Arrived, PlaceTypes, NoAddr
  <2>4. MemoryTypes'
    BY <1>4, <2>1, <2>2 DEF PassOver, Arrived, MemoryTypes, SegmentsOf
  <2>5. CounterTypes'
    BY <1>4 DEF PassOver, Arrived, CounterTypes
  <2>6. FlagTypes'
    BY <1>4 DEF PassOver, Arrived, FlagTypes
  <2>7. HistoryTypes'
    BY <1>4 DEF PassOver, Arrived, HistoryTypes
  <2>8. Initialised'
    BY <1>4 DEF PassOver, Arrived, Initialised, Testing, PlaceTypes, CounterTypes
  <2> QED BY <2>3, <2>4, <2>5, <2>6, <2>7, <2>8
<1>5. CASE OpenWindow
  <2> DEFINE m == Segs(window, pmap, plim_lower, plim_upper)
  <2>1. SegmentsOf(m, pmap)
    BY CurrentSegs
  <2>2. /\ \E i \in DOMAIN m : map_page(m[i].pbase_addr)
        /\ map' = IF at > Low THEN FromLowerLimit(m) ELSE m
    BY <1>5 DEF OpenWindow
  <2> HIDE DEF m
  <2>3. mapped_window' \in Nat \ {0}
    <3>1. PICK i \in DOMAIN m : map_page(m[i].pbase_addr)
      BY <2>2
    <3>2. m[i].pbase_addr \div WindowPages \in Nat
      BY <2>1, RoundDown DEF SegmentsOf
    <3> QED BY <3>1, <3>2 DEF map_page, Slice, MemoryTypes
  <2>4. /\ DOMAIN map' = DOMAIN m
        /\ \A i \in DOMAIN map' : map'[i].start \in Nat /\ map'[i].end \in Nat
    BY SMTT(30), <2>1, <2>2, FromLowerLimitType DEF MemoryTypes, SegmentsOf
  <2>5. PlaceTypes'
    BY <1>5 DEF OpenWindow, Arrived, PlaceTypes, NoAddr
  <2>6. MemoryTypes'
    BY <1>5, <2>1, <2>3, <2>4 DEF OpenWindow, Arrived, MemoryTypes, SegmentsOf
  <2>7. CounterTypes'
    BY <1>5, SequenceAssumption DEF OpenWindow, Arrived, CounterTypes
  <2>8. FlagTypes'
    BY <1>5 DEF OpenWindow, Arrived, FlagTypes
  <2>9. HistoryTypes'
    BY <1>5 DEF OpenWindow, Arrived, HistoryTypes
  <2>10. Initialised'
    BY SMTT(30), <1>5, SequenceAssumption DEF OpenWindow, Arrived, Initialised, Testing, PlaceTypes, CounterTypes
  <2> QED BY <2>5, <2>6, <2>7, <2>8, <2>9, <2>10
<1> QED BY <1>1, <1>2, <1>3, <1>4, <1>5

(* The running test and its do_tick().                                     *)
LEMMA TestType ==
  TypeInv /\ (TestSegment \/ EndPhase \/ NoKey \/ Poll) => TypeInv'
<1> SUFFICES ASSUME TypeInv, TestSegment \/ EndPhase \/ NoKey \/ Poll
             PROVE  TypeInv'
  OBVIOUS
<1> USE DEF TypeInv, TypeOK
<1> USE DEF place, layout, hardware, memory, counters, loops, user, history
<1>1. CASE TestSegment
  <2>1. PICK i \in DOMAIN map :
          covered' = [covered EXCEPT ![phase] = @ \cup Lines(map[i])]
    BY <1>1 DEF TestSegment
  <2>2. Lines(map[i]) \subseteq Nat
    <3>1. /\ map[i].start \in Nat /\ map[i].end \in Nat
          /\ mapped_window \in Nat \ {0}
      BY DEF MemoryTypes
    <3>2. \A line \in map[i].start .. map[i].end - 1 : page_of(line, mapped_window) \in Nat
      BY <3>1, PageOfAbove
    <3> QED BY <3>2 DEF Lines
  <2>3. PlaceTypes'
    BY <1>1 DEF TestSegment, PlaceTypes, NoAddr
  <2>4. MemoryTypes'
    BY <1>1 DEF TestSegment, MemoryTypes
  <2>5. CounterTypes'
    BY <1>1 DEF TestSegment, CounterTypes
  <2>6. FlagTypes'
    BY <1>1, SequenceAssumption DEF TestSegment, FlagTypes
  <2>7. HistoryTypes'
    BY <1>1, <2>1, <2>2 DEF TestSegment, HistoryTypes
  <2>8. Initialised'
    BY <1>1 DEF TestSegment, Initialised, Testing, PlaceTypes, CounterTypes
  <2> QED BY <2>3, <2>4, <2>5, <2>6, <2>7, <2>8
<1>2. CASE EndPhase
  <2>1. phase + 1 \in 0 .. Phases
    <3>1. phase < Phases
      BY <1>2 DEF EndPhase, Initialised, Testing
    <3> QED BY <3>1, SequenceAssumption DEF CounterTypes
  <2>2. PlaceTypes'
    BY <1>2 DEF EndPhase, PlaceTypes, NoAddr
  <2>3. MemoryTypes'
    BY <1>2 DEF EndPhase, MemoryTypes
  <2>4. CounterTypes'
    BY <1>2, <2>1 DEF EndPhase, CounterTypes
  <2>5. FlagTypes'
    BY <1>2 DEF EndPhase, FlagTypes
  <2>6. HistoryTypes'
    BY <1>2 DEF EndPhase, HistoryTypes
  <2>7. Initialised'
    BY <1>2 DEF EndPhase, Initialised, Testing, PlaceTypes, CounterTypes
  <2> QED BY <2>2, <2>3, <2>4, <2>5, <2>6, <2>7
<1>3. CASE NoKey
  <2>1. PlaceTypes'
    BY <1>3 DEF NoKey, Caller, PlaceTypes, NoAddr
  <2>2. MemoryTypes'
    BY <1>3 DEF NoKey, Caller, MemoryTypes
  <2>3. CounterTypes'
    BY <1>3 DEF NoKey, Caller, CounterTypes
  <2>4. FlagTypes'
    BY <1>3 DEF NoKey, Caller, FlagTypes
  <2>5. HistoryTypes'
    BY <1>3 DEF NoKey, Caller, HistoryTypes
  <2>6. Initialised'
    BY <1>3 DEF NoKey, Caller, Initialised, Testing, PlaceTypes, CounterTypes
  <2> QED BY <2>1, <2>2, <2>3, <2>4, <2>5, <2>6
<1>4. CASE Poll
  <2>1. PlaceTypes'
    BY <1>4 DEF Poll, Untouched, PlaceTypes, NoAddr
  <2>2. MemoryTypes'
    BY <1>4 DEF Poll, Untouched, MemoryTypes
  <2>3. CounterTypes'
    BY <1>4 DEF Poll, Untouched, CounterTypes
  <2>4. FlagTypes'
    BY <1>4, SequenceAssumption DEF Poll, Untouched, FlagTypes
  <2>5. HistoryTypes'
    BY <1>4 DEF Poll, Untouched, HistoryTypes
  <2>6. Initialised'
    BY <1>4 DEF Poll, Untouched, Initialised, Testing, PlaceTypes, CounterTypes
  <2> QED BY <2>1, <2>2, <2>3, <2>4, <2>5, <2>6
<1> QED BY <1>1, <1>2, <1>3, <1>4

(* The end of a window and of a test.                                      *)
LEMMA WindowType ==
  TypeInv /\ (RunWindow \/ AllWindowsRun \/ CloseTest \/ EndTest) => TypeInv'
<1> SUFFICES ASSUME TypeInv, RunWindow \/ AllWindowsRun \/ CloseTest \/ EndTest
             PROVE  TypeInv'
  OBVIOUS
<1> USE DEF TypeInv, TypeOK
<1> USE DEF place, layout, hardware, memory, counters, loops, user, history
<1>1. CASE RunWindow
  <2>1. mapped_window' \in Nat \ {0}
    BY <1>1, PagingType DEF RunWindow
  <2>2. /\ at' \in Nat /\ run_at_addr' \in Nat \cup {NoAddr}
        /\ pc' \in {"enter", "next"}
    BY <1>1, RunAtType, HighLine, PlainConstants DEF RunWindow, PlaceTypes
  <2>3. PlaceTypes'
    BY <1>1, <2>2 DEF RunWindow, NextWindow, PlaceTypes, NoAddr
  <2>4. MemoryTypes'
    BY <1>1, <2>1 DEF RunWindow, NextWindow, MemoryTypes
  <2>5. CounterTypes'
    BY <1>1 DEF RunWindow, NextWindow, CounterTypes
  <2>6. FlagTypes'
    BY <1>1 DEF RunWindow, NextWindow, FlagTypes
  <2>7. HistoryTypes'
    BY <1>1 DEF RunWindow, NextWindow, HistoryTypes
  <2>8. Initialised'
    BY <1>1, <2>2 DEF RunWindow, NextWindow, Initialised, Testing, PlaceTypes, CounterTypes
  <2> QED BY <2>3, <2>4, <2>5, <2>6, <2>7, <2>8
<1>2. CASE AllWindowsRun
  <2>1. mapped_window' \in Nat \ {0}
    BY <1>2, PagingType DEF AllWindowsRun
  <2>2. \A n \in 0 .. 2 : AtMost(2, n + 1) \in 0 .. 2
    BY DEF AtMost
  <2>3. PlaceTypes'
    BY <1>2 DEF AllWindowsRun, Untouched, PlaceTypes, NoAddr
  <2>4. MemoryTypes'
    BY <1>2, <2>1 DEF AllWindowsRun, Untouched, MemoryTypes
  <2>5. CounterTypes'
    BY <1>2 DEF AllWindowsRun, Untouched, CounterTypes
  <2>6. FlagTypes'
    BY <1>2 DEF AllWindowsRun, Untouched, FlagTypes
  <2>7. HistoryTypes'
    BY <1>2, <2>2 DEF AllWindowsRun, Untouched, HistoryTypes
  <2>8. Initialised'
    BY <1>2 DEF AllWindowsRun, Untouched, Initialised, Testing, PlaceTypes, CounterTypes
  <2> QED BY <2>3, <2>4, <2>5, <2>6, <2>7, <2>8
<1>3. CASE CloseTest
  <2>1. mapped_window' \in Nat \ {0}
    BY <1>3, PagingType DEF CloseTest
  <2>2. PlaceTypes'
    BY <1>3 DEF CloseTest, PlaceTypes, NoAddr
  <2>3. MemoryTypes'
    BY <1>3, <2>1 DEF CloseTest, MemoryTypes
  <2>4. CounterTypes'
    BY <1>3 DEF CloseTest, CounterTypes
  <2>5. FlagTypes'
    BY <1>3 DEF CloseTest, FlagTypes
  <2>6. HistoryTypes'
    BY <1>3 DEF CloseTest, HistoryTypes
  <2>7. Initialised'
    BY <1>3 DEF CloseTest, Initialised, Testing, PlaceTypes, CounterTypes
  <2> QED BY <2>2, <2>3, <2>4, <2>5, <2>6, <2>7
<1>4. CASE EndTest
  <2>1. at' \in Nat /\ run_at_addr' \in Nat /\ pc' = "enter"
    BY <1>4, RunAtType, PlainConstants DEF EndTest
  <2>2. PlaceTypes'
    BY <1>4, <2>1 DEF EndTest, PassEnds, AtMost, PlaceTypes, NoAddr
  <2>3. MemoryTypes'
    BY <1>4 DEF EndTest, PassEnds, AtMost, MemoryTypes
  <2>4. CounterTypes'
    BY <1>4, SequenceAssumption DEF EndTest, PassEnds, AtMost, CounterTypes
  <2>5. FlagTypes'
    BY <1>4 DEF EndTest, PassEnds, AtMost, FlagTypes
  <2>6. HistoryTypes'
    BY <1>4 DEF EndTest, PassEnds, AtMost, HistoryTypes
  <2>7. Initialised'
    BY <1>4, <2>1 DEF EndTest, PassEnds, AtMost, Initialised, Testing, PlaceTypes, CounterTypes
  <2> QED BY <2>2, <2>3, <2>4, <2>5, <2>6, <2>7
<1> QED BY <1>1, <1>2, <1>3, <1>4

-----------------------------------------------------------------------------
(* The menu.  An operation that stays in it changes the window, the limits *)
(* and v->map together, and the counters.                                  *)
LEMMA InMenuType ==
  ASSUME TypeInv, NEW op, Choose(op), InMenu,
         window' \in 0 .. NumWindows - 1, plim_lower' \in Nat, plim_upper' \in Nat,
         DOMAIN map' \subseteq DOMAIN pmap,
         \A i \in DOMAIN map' : map'[i].start \in Nat /\ map'[i].end \in Nat,
         bail' \in BOOLEAN, test' \in Int, testsel' \in Int, pass' \in -1 .. PassCap
  PROVE  TypeInv'
<1> USE DEF TypeInv, TypeOK, InMenu, place, layout, hardware, loops, history
<1>1. ops' \in 0 .. MaxOps
  BY SequenceAssumption DEF Choose, PlaceTypes
<1>2. PlaceTypes'
  BY <1>1 DEF Choose, PlaceTypes, NoAddr
<1>3. MemoryTypes'
  BY DEF MemoryTypes
<1>4. CounterTypes'
  BY DEF CounterTypes
<1>5. FlagTypes'
  BY DEF FlagTypes
<1>6. HistoryTypes'
  BY DEF HistoryTypes
<1>7. Initialised'
  BY DEF Choose, Initialised, Testing
<1> QED BY <1>2, <1>3, <1>4, <1>5, <1>6, <1>7

LEMMA RecomputeType ==
  ASSUME TypeInv, NEW lower \in Nat, NEW upper \in Nat,
         find_ticks_for_pass(pmap, lower, upper)
  PROVE  /\ window' \in 0 .. NumWindows - 1
         /\ DOMAIN map' \subseteq DOMAIN pmap
         /\ \A i \in DOMAIN map' : map'[i].start \in Nat /\ map'[i].end \in Nat
<1>1. /\ window \in 0 .. NumWindows - 1 /\ win0_start \in Nat /\ win1_end \in Nat
      /\ pmap \in Seq([start : Nat, end : Nat])
  BY DEF TypeInv, TypeOK, PlaceTypes, MemoryTypes
<1>2. SegmentsOf(map', pmap) /\ window' = 0
  BY <1>1, SegsType DEF find_ticks_for_pass
<1> QED BY <1>2 DEF SegmentsOf

LEMMA LimitType ==
  ASSUME TypeInv, NEW op, Choose(op),
         NEW accepted, NEW lower \in Nat, NEW upper \in Nat, Limit(accepted, lower, upper)
  PROVE  TypeInv'
<1>1. plim_lower' \in Nat /\ plim_upper' \in Nat
  BY DEF Limit, TypeInv, TypeOK, MemoryTypes
<1>2. bail' \in BOOLEAN
  BY DEF Limit, TypeInv, TypeOK, FlagTypes
<1>3. test' \in Int /\ testsel' \in Int /\ pass' \in -1 .. PassCap
  BY DEF Limit, TypeInv, TypeOK, CounterTypes
<1>4. find_ticks_for_pass(pmap, plim_lower', plim_upper') /\ InMenu
  BY DEF Limit
<1> QED BY <1>1, <1>2, <1>3, <1>4, RecomputeType, InMenuType

(* Both ways of starting over from the menu.                               *)
LEMMA RestartType ==
  ASSUME TypeInv, NEW op, Choose(op), restart, mode' \in Modes,
         UNCHANGED <<window, layout, mapped_window, hardware, pmap, plim_lower,
                     plim_upper, map, bail, loops, history>>
  PROVE  TypeInv'
<1> USE DEF TypeInv, TypeOK, layout, hardware, loops, history
<1>1. ops' \in 0 .. MaxOps
  BY SequenceAssumption DEF Choose, PlaceTypes
<1>2. pc' = "enter" /\ at' \in Nat /\ run_at_addr' \in Nat
  BY RunAtType, PlainConstants DEF restart
<1>3. PlaceTypes' /\ Initialised'
  BY <1>1, <1>2 DEF restart, Choose, PlaceTypes, Initialised, Testing
<1>4. MemoryTypes'
  BY DEF MemoryTypes
<1>5. CounterTypes'
  BY SequenceAssumption DEF restart, CounterTypes
<1>6. FlagTypes'
  BY DEF restart, FlagTypes
<1>7. HistoryTypes'
  BY DEF HistoryTypes
<1> QED BY <1>3, <1>4, <1>5, <1>6, <1>7

LEMMA UserType == TypeInv /\ User => TypeInv'
<1> SUFFICES ASSUME TypeInv, User PROVE TypeInv'
  OBVIOUS
<1> USE DEF TypeInv, TypeOK
<1> USE DEF place, layout, hardware, memory, counters, loops, user, history
<1>0. /\ plim_lower \in Nat /\ plim_upper \in Nat /\ window \in 0 .. NumWindows - 1
      /\ test \in Int /\ testsel \in Int /\ pass \in -1 .. PassCap
      /\ DOMAIN map \subseteq DOMAIN pmap
      /\ \A i \in DOMAIN map : map[i].start \in Nat /\ map[i].end \in Nat
  BY DEF PlaceTypes, MemoryTypes, CounterTypes
<1>1. CASE OpenMenu
  <2>1. PlaceTypes'
    BY <1>1 DEF OpenMenu, Caller, PlaceTypes, NoAddr
  <2>2. MemoryTypes' /\ CounterTypes'
    BY <1>1 DEF OpenMenu, MemoryTypes, CounterTypes
  <2>3. FlagTypes' /\ HistoryTypes'
    BY <1>1 DEF OpenMenu, FlagTypes, HistoryTypes
  <2>4. Initialised'
    BY <1>1 DEF OpenMenu, Caller, Initialised, Testing
  <2> QED BY <2>1, <2>2, <2>3, <2>4
<1>2. CASE LeaveMenu
  <2>1. PlaceTypes'
    BY <1>2 DEF LeaveMenu, PlaceTypes, NoAddr
  <2>2. MemoryTypes' /\ CounterTypes'
    BY <1>2 DEF LeaveMenu, MemoryTypes, CounterTypes
  <2>3. FlagTypes' /\ HistoryTypes'
    BY <1>2 DEF LeaveMenu, FlagTypes, HistoryTypes
  <2>4. Initialised'
    BY <1>2 DEF LeaveMenu, Initialised, Testing, PlaceTypes
  <2> QED BY <2>1, <2>2, <2>3, <2>4
<1>3. CASE DefaultTests
  <2>1. /\ Choose("default") /\ InMenu
        /\ find_ticks_for_pass(pmap, plim_lower, plim_upper)
        /\ plim_lower' = plim_lower /\ plim_upper' = plim_upper
        /\ test' = test /\ pass' = pass /\ testsel' = -1
    BY <1>3 DEF DefaultTests
  <2>2. bail' \in BOOLEAN
    BY <1>3 DEF DefaultTests, FlagTypes
  <2>3. testsel' \in Int
    BY <2>1
  <2> QED BY <1>0, <2>1, <2>2, <2>3, RecomputeType, InMenuType
<1>4. CASE SkipTest
  <2>1. /\ Choose("skip") /\ InMenu /\ bail' = TRUE
        /\ UNCHANGED <<window, map, test, pass, testsel, plim_lower, plim_upper>>
    BY <1>4 DEF SkipTest
  <2> QED BY <1>0, <2>1, InMenuType
<1>5. ASSUME NEW i \in TestInputs, SelectTest(i)
      PROVE  TypeInv'
  <2>1. /\ Choose("select") /\ InMenu /\ bail' = TRUE
        /\ find_ticks_for_pass(pmap, plim_lower, plim_upper)
        /\ plim_lower' = plim_lower /\ plim_upper' = plim_upper
    BY <1>5 DEF SelectTest
  <2>2. test' \in Int /\ testsel' \in Int /\ pass' \in -1 .. PassCap
    BY <1>0, <1>5, SequenceAssumption DEF SelectTest
  <2> QED BY <1>0, <2>1, <2>2, RecomputeType, InMenuType
<1>6. ASSUME NEW page \in LimitPages, LowerLimit(page) \/ UpperLimit(page)
      PROVE  TypeInv'
  <2>1. page \in Nat
    BY SequenceAssumption
  <2>2. CASE LowerLimit(page)
    BY <1>0, <2>1, <2>2, LimitType DEF LowerLimit
  <2>3. CASE UpperLimit(page)
    BY <1>0, <2>1, <2>3, LimitType DEF UpperLimit
  <2> QED BY <1>6, <2>2, <2>3
<1>7. CASE AllMemory
  <2>1. pmap \in Seq([start : Nat, end : Nat]) /\ pmap # <<>>
    BY <1>7 DEF AllMemory, Choose, Initialised, MemoryTypes
  <2>2. pmap[Len(pmap)].end \in Nat
    BY <2>1, LastEntry
  <2> QED BY <1>7, <2>2, LimitType DEF AllMemory
<1>8. ASSUME NEW m \in Modes, MemorySizing(m)
      PROVE  TypeInv'
  BY <1>8, RestartType DEF MemorySizing
<1>9. CASE Restart
  <2>1. mode' \in Modes
    BY <1>9 DEF Restart, MemoryTypes
  <2> QED BY <1>9, <2>1, RestartType DEF Restart
<1> QED BY <1>1, <1>2, <1>3, <1>4, <1>5, <1>6, <1>7, <1>8, <1>9 DEF User

LEMMA NextType == TypeInv /\ [Next]_vars => TypeInv'
<1> SUFFICES ASSUME TypeInv, [Next]_vars PROVE TypeInv'
  OBVIOUS
<1>1. CASE Program
  BY <1>1, EnterType, TestType, WindowType DEF Program
<1>2. CASE User
  BY <1>2, UserType
<1>3. CASE UNCHANGED vars
  <2> USE DEF TypeInv, TypeOK, vars, place, layout, hardware, memory, counters, loops, user, history
  <2>1. PlaceTypes'
    BY <1>3 DEF PlaceTypes, NoAddr
  <2>2. MemoryTypes' /\ CounterTypes'
    BY <1>3 DEF MemoryTypes, CounterTypes
  <2>3. FlagTypes' /\ HistoryTypes'
    BY <1>3 DEF FlagTypes, HistoryTypes
  <2>4. Initialised'
    BY <1>3 DEF Initialised, Testing
  <2> QED BY <2>1, <2>2, <2>3, <2>4
<1> QED BY <1>1, <1>2, <1>3 DEF Next

(* Every variable keeps its type, whatever the user does: among other      *)
(* things init() has run before anything else does, the window is always   *)
(* one of windows[], and a test is never past its last phase.              *)
THEOREM TypeCorrect == Spec => []TypeOK
<1>1. TypeInv => TypeOK
  BY DEF TypeInv
<1> QED BY <1>1, InitType, NextType, PTL DEF Spec

-----------------------------------------------------------------------------
(* The two copies and the images a boot loader leaves are apart.           *)
LEMMA CopiesApart ==
  ASSUME NEW h \in {HighBoot, HighBig}
  PROVE  /\ h \in Nat /\ h * PageLines \in Nat
         /\ Low + ImageLen < h * PageLines
         /\ h * PageLines + ImageLen < WindowPages * PageLines
         /\ \A a \in LoadAddrs : a + ImageLen < h * PageLines
<1>1. /\ HighBoot * PageLines \in Nat /\ HighBig * PageLines \in Nat
      /\ WindowPages * PageLines \in Nat
  BY ImageAssumption
<1>2. CASE h = HighBoot
  BY <1>1, <1>2, ImageAssumption
<1>3. CASE h = HighBig
  BY <1>1, <1>3, ImageAssumption
<1> QED BY <1>2, <1>3

LEMMA HighBelowWindow ==
  ASSUME NEW h \in {HighBoot, HighBig}
  PROVE  h <= WindowPages
<1>1. /\ h \in Nat /\ h * PageLines \in Nat /\ ImageLen \in Nat
      /\ h * PageLines + ImageLen < WindowPages * PageLines
  BY CopiesApart, PlainConstants
<1>2. ASSUME h > WindowPages PROVE FALSE
  <2>1. WindowPages * PageLines <= h * PageLines
    BY <1>1, <1>2, ProductMonotone
  <2> QED BY <1>1, <2>1
<1> QED BY <1>1, <1>2

(* Between the two copies a relocation is a plain copy and jump.           *)
LEMMA RunAtCopy ==
  ASSUME TypeInv, Place, at \in {Low, HighLineNow}, NEW addr \in {Low, HighLineNow},
         run_at(addr)
  PROVE  /\ pc' = "enter" /\ at' = addr /\ run_at_addr' = addr
         /\ at' # at => at' + ImageLen <= at \/ at + ImageLen <= at'
<1>1. /\ HighLineNow \in Nat /\ Low + ImageLen < HighLineNow
      /\ Low \in Nat /\ ImageLen \in Nat
  BY CopiesApart, PlainConstants DEF Place, HighLineNow
<1>2. ~Overlap(at, addr)
  BY <1>1 DEF Overlap
<1> QED BY <1>1, <1>2 DEF run_at, HighLineNow

(* The first relocation may start anywhere the image may be loaded.        *)
LEMMA RunAtLow ==
  ASSUME TypeInv, Place, at \in LoadAddrs, run_at(Low)
  PROVE  /\ pc' = "enter" /\ at' \in {Low, HighLineNow} /\ run_at_addr' = Low
         /\ at' # at => at' + ImageLen <= at \/ at + ImageLen <= at'
<1>1. /\ HighLineNow \in Nat /\ Low + ImageLen < HighLineNow
      /\ at + ImageLen < HighLineNow
      /\ at \in Nat /\ Low \in Nat /\ ImageLen \in Nat
  BY CopiesApart, PlainConstants DEF Place, HighLineNow
<1>2. CASE Overlap(at, Low)
  BY <1>1, <1>2 DEF run_at, HighLineNow
<1>3. CASE ~Overlap(at, Low)
  BY <1>1, <1>3 DEF run_at, Overlap
<1> QED BY <1>2, <1>3

Apart == at' # at => at' + ImageLen <= at \/ at + ImageLen <= at'

LEMMA StayPut ==
  ASSUME Place, UNCHANGED <<at, run_at_addr, firsttime, high_test_adr>>,
         pc' # "enter" \/ pc' = pc
  PROVE  Place' /\ Apart
BY DEF Place, HighLineNow, Apart

LEMMA PlaceStep == TypeInv /\ Place /\ [Next]_vars => Place' /\ Apart
<1> SUFFICES ASSUME TypeInv, Place, [Next]_vars PROVE Place' /\ Apart
  OBVIOUS
<1> USE DEF place, layout
<1>0. pc # "enter" => firsttime /\ at \in {Low, HighLineNow}
  BY DEF TypeInv, Initialised, Place
<1>1. CASE Resume
  <2>1. ~firsttime /\ run_at_addr = Low /\ at = HighLineNow /\ at' = Low
    BY <1>1 DEF Resume, Place
  <2>2. Apart
    BY <2>1, CopiesApart, PlainConstants DEF Apart, Place, HighLineNow
  <2> QED BY <1>1, <2>1, <2>2 DEF Resume, Place
<1>2. CASE ColdStart
  <2>1. at \in LoadAddrs
    BY <1>2, PlainConstants DEF ColdStart, Arrived, Place, NoAddr
  <2>2. run_at(Low) /\ ~firsttime' /\ UNCHANGED high_test_adr
    BY <1>2 DEF ColdStart, restart
  <2>3. at' \in {Low, HighLineNow} /\ run_at_addr' = Low /\ Apart
    BY <2>1, <2>2, RunAtLow DEF Apart
  <2> QED BY <2>2, <2>3 DEF Place, HighLineNow
<1>3. CASE Initialise
  <2>1. high_test_adr' \in {HighBoot, HighBig} /\ at' = Low /\ at' = at
    BY <1>3 DEF Initialise, Place
  <2> QED BY <1>3, <2>1 DEF Initialise, Place, Apart
<1>4. CASE PassOver \/ OpenWindow
  <2>1. firsttime /\ pc' # "enter" /\ UNCHANGED <<at, firsttime, high_test_adr>>
    BY <1>4 DEF PassOver, OpenWindow
  <2> QED BY <2>1 DEF Place, HighLineNow, Apart
<1>5. CASE TestSegment \/ EndPhase \/ NoKey \/ Poll
  BY <1>5, StayPut DEF TestSegment, EndPhase, NoKey, Poll, Caller
<1>6. CASE RunWindow
  <2>1. /\ UNCHANGED <<firsttime, high_test_adr>> /\ firsttime
        /\ at \in {Low, HighLineNow}
    BY <1>0, <1>6 DEF RunWindow
  <2>2. CASE UNCHANGED <<pc, at, run_at_addr>>
    BY <2>1, <2>2, StayPut
  <2>3. CASE run_at(Low) \/ run_at(high_test_adr * PageLines)
    BY <2>1, <2>3, RunAtCopy DEF Place, Apart, HighLineNow
  <2> QED BY <1>6, <2>2, <2>3 DEF RunWindow
<1>7. CASE AllWindowsRun \/ CloseTest
  BY <1>7, StayPut DEF AllWindowsRun, CloseTest
<1>8. CASE EndTest
  <2>1. /\ UNCHANGED <<firsttime, high_test_adr>> /\ firsttime /\ run_at(Low)
        /\ at \in {Low, HighLineNow}
    BY <1>0, <1>8 DEF EndTest, PassEnds
  <2> QED BY <2>1, RunAtCopy DEF Place, Apart, HighLineNow
<1>9. CASE User
  <2>1. CASE OpenMenu \/ LeaveMenu
    BY <2>1, StayPut DEF OpenMenu, LeaveMenu, Caller, TypeInv, TypeOK, PlaceTypes
  <2>2. ASSUME InMenu PROVE Place' /\ Apart
    BY <2>2, StayPut DEF InMenu
  <2>3. ASSUME NEW op, Choose(op), restart, UNCHANGED high_test_adr
        PROVE  Place' /\ Apart
    <3>1. run_at(Low) /\ ~firsttime' /\ at \in {Low, HighLineNow}
      BY <1>0, <2>3 DEF Choose, restart
    <3> QED BY <2>3, <3>1, RunAtCopy DEF Place, Apart, HighLineNow
  <2> QED BY <1>9, <2>1, <2>2, <2>3
          DEF User, DefaultTests, SkipTest, SelectTest, LowerLimit, UpperLimit,
              AllMemory, Limit, MemorySizing, Restart
<1>10. CASE UNCHANGED vars
  BY <1>10, StayPut DEF vars
<1> QED BY <1>1, <1>2, <1>3, <1>4, <1>5, <1>6, <1>7, <1>8, <1>9, <1>10 DEF Next, Program

LEMMA InitPlace == Init => Place
BY DEF Init, Place

(* run_at() never copies the image over the code that is copying it.       *)
THEOREM SelfOverwriteNever == Spec => NoSelfOverwrite
<1>1. TypeInv /\ Place /\ [Next]_vars =>
        [at' # at => at' + ImageLen <= at \/ at + ImageLen <= at']_vars
  BY PlaceStep DEF Apart
<1> QED BY <1>1, InitType, InitPlace, NextType, PlaceStep, PTL DEF Spec, NoSelfOverwrite

-----------------------------------------------------------------------------
(* The windows keep to what init() laid out, and are entered in the copy   *)
(* they do not touch.                                                      *)
LEMMA LayoutKept ==
  ASSUME Layout, UNCHANGED <<layout, firsttime>>, pc' # "enter"
  PROVE  Layout'
BY DEF Layout, layout

(* Of the windows after the first, only the one below the high copy begins *)
(* below the end of the running copy.                                      *)
LEMMA OnlyTheSecondHits ==
  ASSUME Place, firsttime, at \in {Low, HighLineNow}, NEW w \in 1 .. NumWindows - 1
  PROVE  WindowHitsCode(w) <=> w = 1
<1>1. /\ HighLineNow \in Nat /\ Low \in Nat /\ ImageLen \in Nat
      /\ Low + ImageLen < HighLineNow
      /\ HighLineNow + ImageLen < WindowPages * PageLines
      /\ ImageLen >= PageLines
  BY CopiesApart, PlainConstants, ImageAssumption DEF Place, HighLineNow
<1>2. /\ at + ImageLen \in Nat /\ at + ImageLen < WindowPages * PageLines
      /\ at + ImageLen >= PageLines
  BY <1>1
<1> DEFINE top == (at + ImageLen) \div PageLines
<1>3. top \in Nat /\ top < WindowPages /\ top > 0
  BY <1>2, RoundDown
<1> HIDE DEF top
<1>4. WindowHitsCode(w) <=> Window(w, win0_start, win1_end).start < top
  BY DEF WindowHitsCode, top
<1>5. CASE w = 1
  BY <1>3, <1>4, <1>5 DEF Window
<1>6. CASE w # 1
  <2>1. (w - 1) * WindowPages >= WindowPages
    <3>1. w - 1 \in Nat /\ 1 <= w - 1
      BY <1>6
    <3> QED BY <3>1, ProductMonotone
  <2>2. Window(w, win0_start, win1_end).start = (w - 1) * WindowPages
    BY <1>6 DEF Window
  <2> QED BY <1>3, <1>4, <1>6, <2>1, <2>2
<1> QED BY <1>5, <1>6

LEMMA LayoutStep == TypeInv /\ Place /\ Layout /\ [Next]_vars => Layout'
<1> SUFFICES ASSUME TypeInv, Place, Layout, [Next]_vars PROVE Layout'
  OBVIOUS
<1> USE DEF place
<1>0. pc # "enter" => firsttime /\ at \in {Low, HighLineNow}
  BY DEF TypeInv, Initialised, Place
<1>1. CASE Resume
  <2>1. ~firsttime /\ firsttime' = firsttime
    BY <1>1 DEF Resume, Place
  <2> QED BY <2>1 DEF Layout
<1>2. CASE ColdStart
  BY <1>2 DEF ColdStart, restart, Layout
<1>3. CASE Initialise
  <2>1. win0_start' * PageLines >= Low + ImageLen
    <3>1. Low + ImageLen \in Nat
      BY PlainConstants
    <3> QED BY <1>3, <3>1, RoundUp DEF Initialise
  <2>2. win1_end' = high_test_adr' /\ window' = 0 /\ at' = Low
    BY <1>3 DEF Initialise, find_ticks_for_pass
  <2> QED BY <2>1, <2>2 DEF Layout
<1>4. CASE PassOver \/ OpenWindow
  BY <1>4, LayoutKept DEF PassOver, OpenWindow
<1>5. CASE TestSegment \/ EndPhase \/ NoKey \/ Poll
  BY <1>5, LayoutKept DEF TestSegment, EndPhase, NoKey, Poll, Caller
<1>6. CASE RunWindow
  <2> DEFINE w == NextWindow
  <2>1. /\ UNCHANGED <<layout, firsttime>> /\ firsttime /\ window' = w /\ w # 0
        /\ at \in {Low, HighLineNow}
    BY <1>0, <1>6 DEF RunWindow
  <2>2. w \in 1 .. NumWindows - 1
    BY <2>1 DEF NextWindow, TypeInv, TypeOK, PlaceTypes
  <2>3. WindowHitsCode(w) <=> w = 1
    BY <2>1, <2>2, OnlyTheSecondHits
  <2>4. CASE ~WindowHitsCode(w)
    <3>1. run_at(Low)
      BY <1>6, <2>4 DEF RunWindow
    <3>2. at' = Low
      BY <2>1, <3>1, RunAtCopy
    <3> QED BY <2>1, <2>3, <2>4, <3>2 DEF Layout, layout
  <2>5. CASE WindowHitsCode(w) /\ HighCopyFits
    <3>1. run_at(HighLineNow)
      BY <1>6, <2>5 DEF RunWindow, HighLineNow
    <3>2. at' = HighLineNow
      BY <2>1, <3>1, RunAtCopy
    <3> QED BY <2>1, <2>3, <2>5, <3>2 DEF Layout, layout, HighLineNow
  <2>6. CASE WindowHitsCode(w) /\ ~HighCopyFits
    BY <1>6, <2>1, <2>6, LayoutKept DEF RunWindow
  <2> QED BY <2>4, <2>5, <2>6
<1>7. CASE AllWindowsRun \/ CloseTest
  BY <1>7, LayoutKept DEF AllWindowsRun, CloseTest
<1>8. CASE EndTest
  <2>1. /\ UNCHANGED <<layout, firsttime>> /\ firsttime /\ run_at(Low) /\ window' = 0
        /\ at \in {Low, HighLineNow}
    BY <1>0, <1>8 DEF EndTest, PassEnds
  <2>2. at' = Low
    BY <2>1, RunAtCopy
  <2> QED BY <2>1, <2>2 DEF Layout, layout
<1>9. CASE User
  <2>1. CASE OpenMenu \/ LeaveMenu
    BY <2>1, LayoutKept DEF OpenMenu, LeaveMenu, Caller, TypeInv, TypeOK, PlaceTypes
  <2>2. ASSUME NEW op, Choose(op), InMenu PROVE Layout'
    BY <2>2, LayoutKept DEF Choose, InMenu
  <2>3. ASSUME restart PROVE Layout'
    BY <2>3 DEF restart, Layout
  <2> QED BY <1>9, <2>1, <2>2, <2>3
          DEF User, DefaultTests, SkipTest, SelectTest, LowerLimit, UpperLimit,
              AllMemory, Limit, MemorySizing, Restart
<1>10. CASE UNCHANGED vars
  BY <1>10 DEF vars, layout, Layout, HighLineNow
<1> QED BY <1>1, <1>2, <1>3, <1>4, <1>5, <1>6, <1>7, <1>8, <1>9, <1>10 DEF Next, Program

LEMMA InitLayout == Init => Layout
BY DEF Init, Layout

-----------------------------------------------------------------------------
(* A segment that begins at or above a page is tested above its address,   *)
(* one that ends at or below a page below the address of that page.        *)
LEMMA SegmentAbove ==
  ASSUME NEW page \in Nat, NEW floor \in Nat, floor <= page, floor <= WindowPages
  PROVE  mapping(page) >= floor * PageLines
<1>1. CASE page < WindowPages
  BY <1>1, ProductMonotone DEF mapping
<1>2. CASE ~(page < WindowPages)
  <2>1. (page % WindowPages) + WindowPages \in Nat /\ floor <= (page % WindowPages) + WindowPages
    BY WindowPagesAssumption
  <2> QED BY <1>2, <2>1, ProductMonotone DEF mapping
<1> QED BY <1>1, <1>2

LEMMA SegmentBelow ==
  ASSUME NEW page \in Nat \ {0}, NEW top \in Nat, page <= top, top <= WindowPages
  PROVE  emapping(page) < top * PageLines
<1>1. page * PageLines <= top * PageLines
  BY ProductMonotone
<1>2. emapping(page) = (page - 1) * PageLines + (PageLines - 1)
  BY DEF emapping, mapping
<1>3. (page - 1) * PageLines + PageLines = page * PageLines
  OBVIOUS
<1> QED BY <1>1, <1>2, <1>3

(* The windows of init() and the relocation keep the code out of the       *)
(* segments, those that FromLowerLimit() extends included.                 *)
LEMMA SegmentsClear ==
  ASSUME TypeInv, Place, Layout, firsttime, pc = "enter",
         NEW m, m = Segs(window, pmap, plim_lower, plim_upper),
         NEW i \in DOMAIN m, NEW mw \in Nat \ {0},
         NEW first \in Nat, at = Low => first = m[i].start,
         NEW line \in first .. m[i].end - 1
  PROVE  page_of(line, mw) \notin Image
<1> DEFINE w == Window(window, win0_start, win1_end)
           c == Clip(pmap[i], w, plim_lower, plim_upper)
<1>1. /\ HighLineNow \in Nat /\ Low \in Nat /\ ImageLen \in Nat
      /\ Low + ImageLen < HighLineNow
      /\ HighLineNow + ImageLen < WindowPages * PageLines
      /\ high_test_adr \in Nat /\ HighLineNow = high_test_adr * PageLines
  BY CopiesApart, PlainConstants DEF Place, HighLineNow
<1>2. /\ window \in 0 .. NumWindows - 1 /\ win0_start \in Nat /\ win1_end \in Nat
      /\ pmap \in Seq([start : Nat, end : Nat]) /\ plim_lower \in Nat /\ plim_upper \in Nat
  BY DEF TypeInv, TypeOK, PlaceTypes, MemoryTypes
<1>3. w \in [start : Nat, end : Nat]
  BY <1>2, WindowRange
<1>4. i \in DOMAIN compute_segments(pmap, w, plim_lower, plim_upper)
  BY DEF Segs
<1>5. m[i] = compute_segments(pmap, w, plim_lower, plim_upper)[i]
  BY DEF Segs
<1>6. /\ c.start \in Nat /\ c.end \in Nat /\ c.start < c.end
      /\ c.start >= w.start /\ c.end <= w.end
      /\ m[i] = [pbase_addr |-> c.start, start |-> mapping(c.start), end |-> emapping(c.end)]
      /\ m[i].start \in Nat /\ m[i].end \in Nat
  <2> DEFINE s == compute_segments(pmap, w, plim_lower, plim_upper)[i]
  <2> HIDE DEF w
  <2>1. /\ c.start \in Nat /\ c.end \in Nat /\ c.start < c.end
        /\ c.start >= w.start /\ c.end <= w.end
        /\ s = [pbase_addr |-> c.start, start |-> mapping(c.start), end |-> emapping(c.end)]
        /\ s.start \in Nat /\ s.end \in Nat
    BY SMTT(30), <1>2, <1>3, <1>4, SegmentInWindow
  <2> HIDE DEF s, c
  <2> QED BY <1>5, <2>1 DEF s
<1> HIDE DEF c
<1>7. m[i].start = mapping(c.start) /\ m[i].end = emapping(c.end)
  BY <1>6
<1>8. line \in Nat /\ line >= first /\ line < m[i].end
  BY <1>6
<1>9. page_of(line, mw) \in Nat /\ page_of(line, mw) >= line
  BY <1>8, PageOfAbove
<1>10. at = IF window = 1 THEN HighLineNow ELSE Low
  BY DEF Layout
<1>11. CASE window = 0
  <2>1. w.start = win0_start /\ w.end = WindowPages
    BY <1>11 DEF Window
  <2>2. mapping(c.start) >= win0_start * PageLines
    BY SMTT(30), <1>2, <1>6, <2>1, SegmentAbove
  <2>3. line >= Low + ImageLen
    <3>1. win0_start * PageLines >= Low + ImageLen /\ win0_start * PageLines \in Nat
      BY <1>2 DEF Layout
    <3>2. first = mapping(c.start)
      BY <1>1, <1>7, <1>10, <1>11
    <3> QED BY <1>1, <1>8, <2>2, <3>1, <3>2
  <2> QED BY <1>1, <1>9, <1>8, <1>10, <1>11, <2>3 DEF Image
<1>12. CASE window = 1
  <2>1. w.end = high_test_adr
    BY <1>12 DEF Window, Layout
  <2>2. high_test_adr <= WindowPages
    BY <1>1, HighBelowWindow DEF Place
  <2>3. emapping(c.end) < HighLineNow
    BY <1>1, <1>6, <2>1, <2>2, SegmentBelow
  <2>4. line < HighLineNow
    BY <1>1, <1>6, <1>7, <1>8, <2>3
  <2>5. page_of(line, mw) = line
    BY <1>1, <1>8, <2>4 DEF page_of
  <2> QED BY <1>1, <1>8, <1>10, <1>12, <2>4, <2>5 DEF Image
<1>13. CASE window \notin {0, 1}
  <2>1. w.start >= WindowPages
    <3>1. w.start = (window - 1) * WindowPages
      BY <1>13 DEF Window
    <3>2. window - 1 \in Nat /\ 1 <= window - 1
      BY <1>2, <1>13
    <3> QED BY <3>1, <3>2, ProductMonotone
  <2>2. mapping(c.start) >= WindowPages * PageLines
    <3>1. WindowPages <= c.start
      BY <1>3, <1>6, <2>1
    <3> QED BY <1>6, <3>1, SegmentAbove
  <2>3. first = mapping(c.start)
    BY <1>1, <1>7, <1>10, <1>13
  <2>4. line >= WindowPages * PageLines
    BY <1>8, <2>2, <2>3
  <2>5. Low + ImageLen < WindowPages * PageLines
    BY <1>1
  <2> QED BY <1>1, <1>8, <1>9, <1>10, <1>13, <2>4, <2>5 DEF Image
<1> QED BY <1>2, <1>11, <1>12, <1>13

LEMMA ClearKept ==
  ASSUME Clear, UNCHANGED <<at, map, mapped_window, window, win1_end, bail>>,
         Testing' => Testing, pc' = "test" => ~bail
  PROVE  Clear'
BY DEF Clear, Image, Lines

LEMMA ClearOtherwise ==
  ASSUME pc' \notin {"test", "tick", "poll", "menu"} \/ (pc' = "menu" /\ bail' = TRUE)
  PROVE  Clear'
BY DEF Clear, Testing

LEMMA OpenWindowClear ==
  ASSUME TypeInv, Place, Layout, OpenWindow
  PROVE  Clear'
<1> DEFINE m == Segs(window, pmap, plim_lower, plim_upper)
<1>1. /\ firsttime /\ pc = "enter" /\ bail' = FALSE /\ pc' \in {"test", "next"}
      /\ UNCHANGED <<at, window, win1_end>>
      /\ map' = IF at > Low THEN FromLowerLimit(m) ELSE m
      /\ \E i \in DOMAIN m : map_page(m[i].pbase_addr)
  BY DEF OpenWindow, Arrived, layout
<1>2. SegmentsOf(m, pmap)
  BY CurrentSegs
<1>3. plim_lower \in Nat /\ at \in Nat /\ Low \in Nat
  BY PlainConstants DEF TypeInv, TypeOK, MemoryTypes, PlaceTypes
<1>4. mapped_window' \in Nat \ {0}
  <2>1. PICK i \in DOMAIN m : map_page(m[i].pbase_addr)
    BY <1>1
  <2>2. m[i].pbase_addr \div WindowPages \in Nat
    BY <1>2, RoundDown DEF SegmentsOf
  <2> QED BY <2>1, <2>2 DEF map_page, Slice, TypeInv, TypeOK, MemoryTypes
<1> HIDE DEF m
<1>5. /\ DOMAIN FromLowerLimit(m) = DOMAIN m
      /\ \A i \in DOMAIN m : /\ FromLowerLimit(m)[i].start \in Nat
                            /\ FromLowerLimit(m)[i].end = m[i].end
  BY <1>2, <1>3, FromLowerLimitType DEF SegmentsOf
<1>6. DOMAIN map' = DOMAIN m
  BY <1>1, <1>5
<1>7. ASSUME NEW i \in DOMAIN m
      PROVE  /\ map'[i].start \in Nat /\ map'[i].end = m[i].end
             /\ at = Low => map'[i].start = m[i].start
  BY <1>1, <1>2, <1>3, <1>5 DEF SegmentsOf
<1>8. ASSUME NEW i \in DOMAIN map', NEW line \in map'[i].start .. map'[i].end - 1
      PROVE  page_of(line, mapped_window') \notin Image
  <2>1. i \in DOMAIN m /\ map'[i].end = m[i].end /\ map'[i].start \in Nat
        /\ (at = Low => map'[i].start = m[i].start)
    BY <1>6, <1>7
  <2>2. line \in map'[i].start .. m[i].end - 1
    BY <2>1
  <2>3. m = Segs(window, pmap, plim_lower, plim_upper)
    BY DEF m
  <2> QED BY <1>1, <1>4, <2>1, <2>2, <2>3, SegmentsClear
<1>9. \A i \in DOMAIN map' : Lines(map[i])' \cap Image' = {}
  <2>1. Image' = Image
    BY <1>1 DEF Image
  <2> QED BY <1>8, <2>1 DEF Lines
<1>10. at' = IF window' = 1 THEN win1_end' * PageLines ELSE Low
  BY <1>1 DEF Layout, HighLineNow
<1> QED BY <1>1, <1>9, <1>10 DEF Clear

(* Unless the user sets the default tests, or has a limit refused, with a  *)
(* test running: then v->map changes and the test is not told to give up.  *)
SafeOps == UserOps \cap {"default", "refused"} = {}

LEMMA ClearStep ==
  SafeOps /\ TypeInv /\ Place /\ Layout /\ Clear /\ [Next]_vars => Clear'
<1> SUFFICES ASSUME SafeOps, TypeInv, Place, Layout, Clear, [Next]_vars PROVE Clear'
  OBVIOUS
<1> USE DEF place, layout, memory, loops, counters
<1>1. CASE Resume \/ ColdStart \/ Initialise \/ PassOver
  BY <1>1, ClearOtherwise
  DEF Resume, ColdStart, restart, run_at, Initialise, PassOver, Arrived
<1>2. CASE OpenWindow
  BY <1>2, OpenWindowClear
<1>3. CASE TestSegment
  BY <1>3, ClearKept DEF TestSegment, Testing
<1>4. CASE EndPhase
  <2>1. pc = "test" /\ ~bail /\ UNCHANGED <<at, map, mapped_window, window, win1_end, bail>>
    BY <1>4 DEF EndPhase, Clear
  <2> QED BY <2>1, ClearKept DEF Testing
<1>5. CASE NoKey
  <2>1. CASE pc = "tick"
    BY <1>5, <2>1, ClearKept DEF NoKey, Testing, Caller
  <2>2. CASE pc # "tick"
    BY <1>5, <2>2, ClearOtherwise DEF NoKey, Caller
  <2> QED BY <2>1, <2>2
<1>6. CASE Poll
  <2>1. CASE bail
    BY <1>6, <2>1, ClearOtherwise DEF Poll
  <2>2. CASE ~bail
    BY <1>6, <2>2, ClearKept DEF Poll, Testing
  <2> QED BY <2>1, <2>2
<1>7. CASE RunWindow \/ AllWindowsRun \/ CloseTest \/ EndTest
  BY <1>7, ClearOtherwise DEF RunWindow, AllWindowsRun, CloseTest, EndTest, run_at
<1>8. CASE OpenMenu
  <2>1. CASE pc = "tick"
    BY <1>8, <2>1, ClearKept DEF OpenMenu, Testing
  <2>2. CASE pc # "tick"
    <3>1. pc' = "menu" /\ ret' = "ending"
      BY <1>8, <2>2 DEF OpenMenu, Caller
    <3> QED BY <3>1 DEF Clear, Testing
  <2> QED BY <2>1, <2>2
<1>9. CASE LeaveMenu
  <2>1. ret \in {"poll", "ending"}
    BY DEF TypeInv, TypeOK, PlaceTypes
  <2> QED BY <1>9, <2>1, ClearKept DEF LeaveMenu, Testing
<1>10. ASSUME NEW op, Choose(op), InMenu, bail' = TRUE PROVE Clear'
  BY <1>10, ClearOtherwise DEF Choose, InMenu
<1>11. ~DefaultTests
  BY DEF DefaultTests, Choose, SafeOps
<1>12. CASE SkipTest \/ \E i \in TestInputs : SelectTest(i)
  BY <1>10, <1>12 DEF SkipTest, SelectTest
<1>13. ASSUME NEW op, Choose(op), NEW accepted, NEW lower, NEW upper,
              Limit(accepted, lower, upper)
       PROVE  Clear'
  <2>1. accepted
    BY <1>13 DEF Limit, SafeOps
  <2> QED BY <1>10, <1>13, <2>1 DEF Limit
<1>14. CASE AllMemory \/ \E page \in LimitPages : LowerLimit(page) \/ UpperLimit(page)
  BY <1>13, <1>14 DEF AllMemory, LowerLimit, UpperLimit
<1>15. CASE Restart \/ \E m \in Modes : MemorySizing(m)
  BY <1>15, ClearOtherwise DEF Restart, MemorySizing, restart, run_at
<1>16. CASE UNCHANGED vars
  BY <1>16, ClearKept DEF vars, Clear, Testing, user
<1> QED BY <1>1, <1>2, <1>3, <1>4, <1>5, <1>6, <1>7, <1>8, <1>9, <1>11, <1>12, <1>14,
           <1>15, <1>16 DEF Next, Program, User

LEMMA InitClear == Init => Clear
BY DEF Init, Clear, Testing

LEMMA ClearImplies == Clear => CodeUntouched /\ RightCopy
<1> SUFFICES ASSUME Clear PROVE CodeUntouched /\ RightCopy
  OBVIOUS
<1>1. CodeUntouched
  BY DEF Clear, CodeUntouched, NextLines, Testing
<1>2. RightCopy
  BY DEF Clear, RightCopy, Testing
<1> QED BY <1>1, <1>2

(* No test writes over the copy of the program that runs it, and each      *)
(* window is tested by the copy it does not touch: do_test() with its      *)
(* windows and relocation, the menu included, but for the two operations   *)
(* that change v->map under a running test.                                *)
THEOREM CodeNeverTested ==
  ASSUME SafeOps
  PROVE  Spec => [](CodeUntouched /\ RightCopy)
<1>1. TypeInv /\ Place /\ [Next]_vars => Place'
  BY PlaceStep
<1>2. TypeInv /\ Place /\ Layout /\ Clear /\ [Next]_vars => Clear'
  BY ClearStep
<1> QED
  BY <1>1, <1>2, InitType, InitPlace, InitLayout, InitClear, NextType, LayoutStep,
     ClearImplies, PTL DEF Spec

-----------------------------------------------------------------------------
(* The pages of slice k begin at k windows.                                *)
LEMMA SliceArithmetic ==
  ASSUME NEW k \in Nat, NEW page \in Nat,
         k * WindowPages <= page, page < (k + 1) * WindowPages
  PROVE  page % WindowPages = page - k * WindowPages
<1> DEFINE r == page - k * WindowPages
<1>1. k * WindowPages \in Nat /\ (k + 1) * WindowPages = k * WindowPages + WindowPages
  OBVIOUS
<1>2. r \in 0 .. WindowPages - 1 /\ page = k * WindowPages + r
  BY <1>1
<1> HIDE DEF r
<1>3. (k * WindowPages + r) % WindowPages = r
  BY <1>2
<1> QED BY <1>2, <1>3 DEF r

LEMMA SliceNumber ==
  ASSUME NEW k \in Nat, NEW page \in Nat,
         k * WindowPages <= page, page < (k + 1) * WindowPages
  PROVE  page \div WindowPages = k
<1>1. page % WindowPages = page - k * WindowPages
  BY SliceArithmetic
<1> DEFINE d == page \div WindowPages
<1>2. d \in Nat /\ d * WindowPages <= page /\ page < (d + 1) * WindowPages
  OBVIOUS
<1> HIDE DEF d
<1>3. d >= k
  <2> SUFFICES ASSUME d + 1 <= k PROVE FALSE
    BY <1>2
  <2>1. (d + 1) * WindowPages <= k * WindowPages
    BY <1>2, ProductMonotone
  <2> QED BY <1>2, <2>1
<1>4. d <= k
  <2> SUFFICES ASSUME k + 1 <= d PROVE FALSE
    BY <1>2
  <2>1. (k + 1) * WindowPages <= d * WindowPages
    BY <1>2, ProductMonotone
  <2> QED BY <1>2, <2>1
<1> QED BY <1>2, <1>3, <1>4 DEF d

(* A run of pages that are all below 2 GB, or all in the slice mapped in.  *)
Together(first, last, mw) ==
  \/ last <= WindowPages
  \/ mw * WindowPages <= first /\ last <= (mw + 1) * WindowPages

(* The lines of a mapped slice lie at a fixed distance from its pages.     *)
LEMMA SliceMapping ==
  ASSUME NEW mw \in Nat \ {0}, NEW page \in Nat,
         mw * WindowPages <= page, page < (mw + 1) * WindowPages
  PROVE  mapping(page) = page * PageLines - mw * WindowPages * PageLines
                           + WindowPages * PageLines
<1> DEFINE K == mw * WindowPages
<1>1. page % WindowPages = page - K
  BY SliceArithmetic
<1>2. K \in Nat /\ K >= WindowPages
  BY ProductMonotone
<1> HIDE DEF K
<1>3. mapping(page) = ((page - K) + WindowPages) * PageLines
  BY <1>1, <1>2 DEF mapping, K
<1>4. ((page - K) + WindowPages) * PageLines
        = page * PageLines - K * PageLines + WindowPages * PageLines
  BY <1>2
<1> QED BY <1>3, <1>4 DEF K

(* Such a run is tested at its own lines, but for the last one.            *)
LEMMA OneSlice ==
  ASSUME NEW first \in Nat, NEW last \in Nat, first < last,
         NEW mw \in Nat \ {0}, Together(first, last, mw)
  PROVE  /\ page_of(mapping(first), mw) = first * PageLines
         /\ \A line \in mapping(first) .. emapping(last) - 1 :
              first * PageLines <= page_of(line, mw) /\ page_of(line, mw) < last * PageLines
<1> DEFINE W == WindowPages * PageLines
           K == mw * WindowPages * PageLines
           A == first * PageLines
           Z == last * PageLines
<1>1. /\ W \in Nat /\ K \in Nat /\ A \in Nat /\ Z \in Nat /\ A < Z
      /\ (last - 1) * PageLines = Z - PageLines
  <2>1. (last - 1) * PageLines = Z - PageLines /\ Z \in Nat /\ A \in Nat
    OBVIOUS
  <2>2. first * PageLines <= (last - 1) * PageLines
    BY ProductMonotone
  <2>3. mw * WindowPages \in Nat
    OBVIOUS
  <2>4. K \in Nat
    BY <2>3
  <2> QED BY <2>1, <2>2, <2>4
<1>2. CASE last <= WindowPages
  <2>1. mapping(first) = A /\ emapping(last) = Z - 1
    BY <1>1, <1>2 DEF mapping, emapping
  <2>2. Z <= W
    BY <1>2, ProductMonotone
  <2> HIDE DEF W, K, A, Z
  <2>3. ASSUME NEW line \in A .. Z - 2 PROVE page_of(line, mw) = line
    BY <1>1, <2>2, <2>3 DEF page_of, W
  <2>4. page_of(A, mw) = A
    BY <1>1, <2>2 DEF page_of, W
  <2> QED BY <1>1, <2>1, <2>3, <2>4 DEF A, Z
<1>3. CASE mw * WindowPages <= first /\ last <= (mw + 1) * WindowPages
  <2>1. mapping(first) = A - K + W
    <3>1. (mw + 1) * WindowPages \in Nat
      OBVIOUS
    <3>2. mw * WindowPages <= first /\ first < (mw + 1) * WindowPages
      BY <1>3, <3>1
    <3> QED BY <3>2, SliceMapping
  <2>2. mapping(last - 1) = (Z - PageLines) - K + W
    <3>1. last - 1 \in Nat /\ mw * WindowPages <= last - 1 /\ last - 1 < (mw + 1) * WindowPages
      BY <1>3
    <3> QED BY <1>1, <3>1, SliceMapping
  <2>3. K <= A
    <3>1. mw * WindowPages \in Nat
      OBVIOUS
    <3> QED BY <1>3, <3>1, ProductMonotone
  <2> HIDE DEF W, K, A, Z
  <2>4. emapping(last) = Z - K + W - 1
    BY <1>1, <2>2 DEF emapping
  <2>5. ASSUME NEW line \in Nat, line >= W PROVE page_of(line, mw) = line - W + K
    BY <1>1, <2>5 DEF page_of, W, K
  <2>6. page_of(A - K + W, mw) = A
    BY <1>1, <2>3, <2>5
  <2>7. ASSUME NEW line \in A - K + W .. Z - K + W - 2
        PROVE  A <= page_of(line, mw) /\ page_of(line, mw) < Z
    <3>1. line \in Nat /\ line >= W
      BY <1>1, <2>3
    <3>2. page_of(line, mw) = line - W + K
      BY <3>1, <2>5
    <3> QED BY <1>1, <3>1, <3>2
  <2>8. (Z - K + W - 1) - 1 = Z - K + W - 2
    BY <1>1
  <2> QED BY <2>1, <2>4, <2>6, <2>7, <2>8 DEF A, Z
<1> QED BY <1>2, <1>3 DEF Together

(* ... and on its own pages.                                               *)
LEMMA PageBetween ==
  ASSUME NEW first \in Nat, NEW last \in Nat, NEW line \in Nat,
         first * PageLines <= line, line < last * PageLines
  PROVE  /\ PageOfLine(line) \in Nat
         /\ first <= PageOfLine(line) /\ PageOfLine(line) < last
<1> DEFINE q == line \div PageLines
<1>1. q \in Nat /\ q * PageLines <= line /\ line < (q + 1) * PageLines
  OBVIOUS
<1> HIDE DEF q
<1>2. q < last
  <2> SUFFICES ASSUME last <= q PROVE FALSE
    BY <1>1
  <2>1. last * PageLines <= q * PageLines
    BY <1>1, ProductMonotone
  <2> QED BY <1>1, <2>1
<1>3. first <= q
  <2> SUFFICES ASSUME q + 1 <= first PROVE FALSE
    BY <1>1
  <2>1. (q + 1) * PageLines <= first * PageLines
    BY <1>1, ProductMonotone
  <2> QED BY <1>1, <2>1
<1> QED BY <1>1, <1>2, <1>3 DEF q, PageOfLine

(* What Clip() keeps of an entry are the pages of the entry that are in    *)
(* the window and inside the limits.                                       *)
LEMMA ClipExact ==
  ASSUME NEW seg \in [start : Nat, end : Nat], NEW win \in [start : Nat, end : Nat],
         NEW lower \in Nat, NEW upper \in Nat, NEW page \in Nat
  PROVE  LET c == Clip(seg, win, lower, upper) IN
         (c.start <= page /\ page < c.end)
           <=> /\ seg.start <= page /\ page < seg.end
               /\ win.start <= page /\ page < win.end
               /\ lower <= page /\ page < upper
<1> DEFINE wstart == IF win.start < lower THEN lower ELSE win.start
           wend   == IF win.end > upper THEN upper ELSE win.end
           c == Clip(seg, win, lower, upper)
<1>1. seg.start \in Nat /\ seg.end \in Nat /\ win.start \in Nat /\ win.end \in Nat
  OBVIOUS
<1>2. /\ wstart \in Nat /\ (wstart <= page <=> win.start <= page /\ lower <= page)
      /\ wend \in Nat /\ (page < wend <=> page < win.end /\ page < upper)
  BY <1>1
<1>3. /\ c.start = IF seg.start <= wstart THEN wstart ELSE seg.start
      /\ c.end = IF seg.end >= wend THEN wend ELSE seg.end
  BY DEF Clip
<1> HIDE DEF c, wstart, wend
<1>4. /\ c.start <= page <=> seg.start <= page /\ wstart <= page
      /\ page < c.end <=> page < seg.end /\ page < wend
  BY <1>1, <1>2, <1>3
<1> QED BY <1>2, <1>4 DEF c

(* The segments of the window being opened: selected pages of the map, all *)
(* of them in the slice that is mapped in for the first.                   *)
OpenClip(i) ==
  Clip(pmap[i], Window(window, win0_start, win1_end), plim_lower, plim_upper)

LEMMA OpenTypes ==
  ASSUME TypeInv, Place, Layout, firsttime
  PROVE  /\ window \in 0 .. NumWindows - 1 /\ win0_start \in Nat /\ win1_end \in Nat
         /\ pmap \in Seq([start : Nat, end : Nat])
         /\ plim_lower \in Nat /\ plim_upper \in Nat
         /\ Window(window, win0_start, win1_end) \in [start : Nat, end : Nat]
         /\ window = 1 => /\ Window(window, win0_start, win1_end).start = 0
                          /\ Window(window, win0_start, win1_end).end <= WindowPages
<1>1. /\ window \in 0 .. NumWindows - 1 /\ win0_start \in Nat /\ win1_end \in Nat
      /\ pmap \in Seq([start : Nat, end : Nat])
      /\ plim_lower \in Nat /\ plim_upper \in Nat
  BY DEF TypeInv, TypeOK, PlaceTypes, MemoryTypes
<1>2. Window(window, win0_start, win1_end) \in [start : Nat, end : Nat]
  BY <1>1, WindowRange
<1>3. win1_end <= WindowPages
  BY HighBelowWindow DEF Place, Layout
<1> QED BY <1>1, <1>2, <1>3 DEF Window

LEMMA OpenSegment ==
  ASSUME TypeInv, Place, Layout, firsttime,
         NEW m, m = Segs(window, pmap, plim_lower, plim_upper), NEW i \in DOMAIN m
  PROVE  /\ i \in DOMAIN pmap /\ pmap[i] \in [start : Nat, end : Nat]
         /\ OpenClip(i).start \in Nat /\ OpenClip(i).end \in Nat
         /\ OpenClip(i).start < OpenClip(i).end
         /\ Window(window, win0_start, win1_end).start <= OpenClip(i).start
         /\ OpenClip(i).end <= Window(window, win0_start, win1_end).end
         /\ m[i].pbase_addr = OpenClip(i).start
         /\ m[i].start = mapping(OpenClip(i).start) /\ m[i].end = emapping(OpenClip(i).end)
<1> DEFINE w == Window(window, win0_start, win1_end)
           c == Clip(pmap[i], w, plim_lower, plim_upper)
           s == compute_segments(pmap, w, plim_lower, plim_upper)[i]
<1>1. w \in [start : Nat, end : Nat] /\ pmap \in Seq([start : Nat, end : Nat])
      /\ plim_lower \in Nat /\ plim_upper \in Nat
  BY OpenTypes
<1>2. m = compute_segments(pmap, w, plim_lower, plim_upper)
  BY DEF Segs
<1>3. i \in DOMAIN compute_segments(pmap, w, plim_lower, plim_upper)
  BY <1>2
<1>4. m[i] = s
  BY <1>2
<1>5. OpenClip(i) = c
  BY DEF OpenClip
<1> HIDE DEF w
<1>6. /\ i \in DOMAIN pmap
      /\ c.start \in Nat /\ c.end \in Nat /\ c.start < c.end
      /\ c.start >= w.start /\ c.end <= w.end
      /\ s = [pbase_addr |-> c.start, start |-> mapping(c.start), end |-> emapping(c.end)]
  BY SMTT(30), <1>1, <1>3, SegmentInWindow
<1> HIDE DEF c, s
<1>7. pmap[i] \in [start : Nat, end : Nat]
  <2>1. i \in 1 .. Len(pmap)
    BY <1>1, <1>6
  <2> QED BY <1>1, <2>1, ElementOfSeq
<1>8. w.start <= c.start /\ s.pbase_addr = c.start /\ s.start = mapping(c.start)
      /\ s.end = emapping(c.end)
  <2>1. w.start \in Nat
    BY <1>1
  <2> QED BY <1>6, <2>1
<1> QED BY <1>4, <1>5, <1>6, <1>7, <1>8 DEF w

LEMMA OpenInside ==
  ASSUME TypeInv, Place, Layout, firsttime,
         NEW m, m = Segs(window, pmap, plim_lower, plim_upper), NEW i \in DOMAIN m
  PROVE  /\ pmap[i].start <= OpenClip(i).start /\ OpenClip(i).end <= pmap[i].end
         /\ plim_lower <= OpenClip(i).start
         /\ pmap[i].start \in Nat /\ pmap[i].end \in Nat
<1> DEFINE first == OpenClip(i).start
           last  == OpenClip(i).end
           w     == Window(window, win0_start, win1_end)
<1>1. /\ pmap[i] \in [start : Nat, end : Nat] /\ w \in [start : Nat, end : Nat]
      /\ plim_lower \in Nat /\ plim_upper \in Nat
  BY OpenTypes, OpenSegment
<1>2. first \in Nat /\ last \in Nat /\ first < last
  BY OpenSegment
<1>3. OpenClip(i) = Clip(pmap[i], w, plim_lower, plim_upper)
  BY DEF OpenClip
<1> HIDE DEF first, last, w
<1>4. pmap[i].start \in Nat /\ pmap[i].end \in Nat
  BY <1>1
<1>5. first <= first /\ last - 1 \in Nat /\ first <= last - 1 /\ last - 1 < last
  BY <1>2
<1>6. pmap[i].start <= first /\ plim_lower <= first
  BY <1>1, <1>2, <1>3, <1>5, ClipExact DEF first, last
<1>7. last - 1 < pmap[i].end
  BY <1>1, <1>3, <1>5, ClipExact DEF first, last
<1>8. last <= pmap[i].end
  BY <1>2, <1>4, <1>7
<1> QED BY <1>4, <1>6, <1>8 DEF first, last

LEMMA OpenSelected ==
  ASSUME TypeInv, Place, Layout, firsttime,
         NEW m, m = Segs(window, pmap, plim_lower, plim_upper), NEW i \in DOMAIN m,
         NEW page \in Nat, OpenClip(i).start <= page, page < OpenClip(i).end
  PROVE  page \in Selected
<1> DEFINE w == Window(window, win0_start, win1_end)
<1>1. /\ pmap[i] \in [start : Nat, end : Nat] /\ w \in [start : Nat, end : Nat]
      /\ plim_lower \in Nat /\ plim_upper \in Nat /\ i \in DOMAIN pmap
  BY OpenTypes, OpenSegment
<1>2. OpenClip(i) = Clip(pmap[i], w, plim_lower, plim_upper)
  BY DEF OpenClip
<1> HIDE DEF w
<1>3. /\ pmap[i].start <= page /\ page < pmap[i].end
      /\ plim_lower <= page /\ page < plim_upper
  BY <1>1, <1>2, ClipExact
<1>4. page \in pmap[i].start .. pmap[i].end - 1
  BY <1>1, <1>3
<1> QED BY <1>1, <1>3, <1>4 DEF Selected, SelectedPages

LEMMA OpenTogether ==
  ASSUME TypeInv, Place, Layout, OpenWindow,
         NEW m, m = Segs(window, pmap, plim_lower, plim_upper), NEW i \in DOMAIN m
  PROVE  /\ mapped_window' \in Nat \ {0}
         /\ Together(OpenClip(i).start, OpenClip(i).end, mapped_window')
<1> DEFINE w == Window(window, win0_start, win1_end)
<1>0. firsttime /\ window \in 0 .. NumWindows - 1
  BY OpenTypes DEF OpenWindow, Arrived
<1>1. PICK f \in DOMAIN m : map_page(m[f].pbase_addr)
  BY DEF OpenWindow
<1>2. \A k \in DOMAIN m : /\ OpenClip(k).start \in Nat /\ OpenClip(k).end \in Nat
                          /\ OpenClip(k).start < OpenClip(k).end
                          /\ w.start <= OpenClip(k).start /\ OpenClip(k).end <= w.end
                          /\ m[k].pbase_addr = OpenClip(k).start
  BY <1>0, OpenSegment
<1>3. w \in [start : Nat, end : Nat]
  BY <1>0, OpenTypes
<1>4. mapped_window' \in Nat \ {0}
  <2>1. m[f].pbase_addr \div WindowPages \in Nat
    BY <1>2, RoundDown
  <2>2. mapped_window \in Nat \ {0}
    BY DEF TypeInv, TypeOK, MemoryTypes
  <2> QED BY <1>1, <2>1, <2>2 DEF map_page, Slice
<1>5. CASE window \in {0, 1}
  <2>1. w.end <= WindowPages
    BY SMTT(30), <1>0, <1>5, OpenTypes DEF Window
  <2> HIDE DEF w
  <2>2. OpenClip(i).end <= WindowPages
    BY <1>2, <1>3, <2>1
  <2> QED BY <1>4, <2>2 DEF Together
<1>6. CASE window \notin {0, 1}
  <2> DEFINE k == window - 1
  <2>1. k \in Nat \ {0} /\ window = k + 1
    BY <1>0, <1>6
  <2>2. w.start = k * WindowPages /\ w.end = (k + 1) * WindowPages
    BY <1>6, <2>1 DEF Window
  <2> HIDE DEF w, k
  <2>3. k * WindowPages \in Nat /\ (k + 1) * WindowPages \in Nat
    BY <2>1
  <2>4. k * WindowPages <= OpenClip(f).start /\ OpenClip(f).start < (k + 1) * WindowPages
    BY <1>2, <2>2, <2>3
  <2>5. OpenClip(f).start \div WindowPages = k
    BY <1>2, <2>1, <2>4, SliceNumber
  <2>6. mapped_window' = k
    BY <1>1, <1>2, <2>1, <2>5 DEF map_page, Slice
  <2> QED BY <1>2, <1>4, <2>2, <2>6 DEF Together
<1> QED BY <1>5, <1>6

(* What the map has in front of the first segment of the window below the  *)
(* high copy, and above the lower limit, is not selected.                  *)
LEMMA BelowFirst ==
  ASSUME TypeInv, Place, Layout, firsttime, window = 1, InOrder(pmap),
         NEW m, m = Segs(window, pmap, plim_lower, plim_upper), NEW i \in DOMAIN m,
         IsFirst(m, i), NEW page \in Nat, page < OpenClip(i).start
  PROVE  \A other \in Selected : page < other
<1> DEFINE w == Window(window, win0_start, win1_end)
<1>1. /\ pmap[i] \in [start : Nat, end : Nat] /\ w \in [start : Nat, end : Nat]
      /\ plim_lower \in Nat /\ plim_upper \in Nat /\ i \in DOMAIN pmap
      /\ pmap \in Seq([start : Nat, end : Nat]) /\ w.start = 0
      /\ OpenClip(i).start \in Nat /\ OpenClip(i).end \in Nat
      /\ OpenClip(i).start < OpenClip(i).end /\ OpenClip(i).end <= w.end
  BY OpenTypes, OpenSegment
<1>2. \A k : OpenClip(k) = Clip(pmap[k], w, plim_lower, plim_upper)
  BY DEF OpenClip
<1>3. \A k \in DOMAIN pmap : OpenClip(k).start < OpenClip(k).end <=> k \in DOMAIN m
  BY <1>2 DEF Segs, compute_segments
<1> HIDE DEF w
<1> DEFINE first == OpenClip(i).start
           last  == OpenClip(i).end
<1>0. /\ first \in Nat /\ last \in Nat /\ first < last /\ last <= w.end
      /\ w.end \in Nat /\ pmap[i].end \in Nat /\ page < first
  <2>1. w.end \in Nat /\ pmap[i].end \in Nat
    BY <1>1
  <2> QED BY <1>1, <2>1
<1> HIDE DEF first, last
<1>4. last <= pmap[i].end
  BY OpenInside DEF last
<1> SUFFICES ASSUME NEW other \in Selected PROVE page < other
  OBVIOUS
<1>5. PICK k \in DOMAIN pmap :
        /\ other \in pmap[k].start .. pmap[k].end - 1
        /\ plim_lower <= other /\ other < plim_upper
  BY DEF Selected, SelectedPages
<1>6. pmap[k] \in [start : Nat, end : Nat] /\ k \in Nat /\ i \in Nat
  <2>1. DOMAIN pmap = 1 .. Len(pmap) /\ Len(pmap) \in Nat
    BY <1>1
  <2>2. k \in 1 .. Len(pmap) /\ i \in 1 .. Len(pmap)
    BY <1>1, <1>5, <2>1
  <2>3. pmap \in Seq([start : Nat, end : Nat])
    BY <1>1
  <2>4. pmap[k] \in [start : Nat, end : Nat]
    BY <2>2, <2>3, ElementOfSeq
  <2> QED BY <2>1, <2>2, <2>4
<1>7. other \in Nat /\ pmap[k].start <= other /\ other < pmap[k].end
  BY <1>5, <1>6
<1>8. CASE ~(other < w.end)
  BY <1>0, <1>7, <1>8
<1>9. CASE i < k
  <2>1. pmap[i].end <= pmap[k].start
    BY <1>1, <1>9 DEF InOrder
  <2>2. pmap[k].start \in Nat
    BY <1>6
  <2> QED BY <1>0, <1>4, <1>7, <2>1, <2>2
<1>10. CASE other < w.end /\ ~(i < k)
  <2>1. OpenClip(k).start <= other /\ other < OpenClip(k).end
    <3>1. w.start <= other
      BY <1>1, <1>7
    <3> QED BY <1>1, <1>2, <1>5, <1>6, <1>7, <1>10, <3>1, ClipExact
  <2>2. OpenClip(k).start \in Nat /\ OpenClip(k).end \in Nat
    <3>1. /\ pmap[k].start \in Nat /\ pmap[k].end \in Nat /\ w.start \in Nat /\ w.end \in Nat
          /\ plim_lower \in Nat /\ plim_upper \in Nat
      BY <1>1, <1>6
    <3> QED BY <1>2, <3>1 DEF Clip
  <2>3. k \in DOMAIN m
    BY <1>3, <1>7, <2>1, <2>2
  <2>4. k = i
    BY <1>6, <1>10, <2>3 DEF IsFirst
  <2> QED BY <1>0, <1>7, <2>1, <2>4 DEF first
<1> QED BY <1>8, <1>9, <1>10

(* What a window is opened with is what is meant.                          *)
LEMMA OpenLine ==
  ASSUME TypeInv, Place, Layout, InOrder(pmap), OpenWindow,
         NEW m, m = Segs(window, pmap, plim_lower, plim_upper), NEW i \in DOMAIN m,
         NEW mw \in Nat \ {0}, Together(OpenClip(i).start, OpenClip(i).end, mw),
         NEW line \in mapping(OpenClip(i).start) .. emapping(OpenClip(i).end) - 1,
         at = Low \/ ~IsFirst(m, i)
  PROVE  Meant(page_of(line, mw))
<1> DEFINE first == OpenClip(i).start
           last  == OpenClip(i).end
           q     == page_of(line, mw)
<1>0. firsttime
  BY DEF OpenWindow, Arrived
<1>1. first \in Nat /\ last \in Nat /\ first < last
  BY <1>0, OpenSegment
<1>2. first * PageLines <= q /\ q < last * PageLines
  <2> HIDE DEF first, last, q
  <2>1. Together(first, last, mw) /\ line \in mapping(first) .. emapping(last) - 1
    BY DEF first, last
  <2> QED BY <1>1, <2>1, OneSlice DEF q
<1>3. q \in Nat
  <2>1. mapping(first) \in Nat /\ emapping(last) \in Nat
    BY <1>1, MappingType
  <2>2. line \in Nat
    BY <2>1
  <2> QED BY <2>2, PageOfAbove
<1> SUFFICES Meant(q)
  OBVIOUS
<1> HIDE DEF q
<1>4. PageOfLine(q) \in Selected
  <2>1. PageOfLine(q) \in Nat /\ first <= PageOfLine(q) /\ PageOfLine(q) < last
    <3> HIDE DEF first, last
    <3> QED BY <1>1, <1>2, <1>3, PageBetween
  <2> QED BY <1>0, <2>1, OpenSelected
<1>5. UsbFloor \in Nat /\ UsbFloor <= Low /\ UsbFloor <= PageLines /\ Low \in Nat /\ ImageLen \in Nat
  BY ImageAssumption
<1>6. ASSUME first >= 1 PROVE q >= UsbFloor
  <2> HIDE DEF first, last
  <2>1. 1 * PageLines <= first * PageLines /\ first * PageLines \in Nat
    BY <1>1, <1>6, ProductMonotone
  <2> QED BY <1>2, <1>3, <1>5, <2>1
<1>7. /\ window \in 0 .. NumWindows - 1 /\ win0_start \in Nat /\ win1_end \in Nat
      /\ Window(window, win0_start, win1_end).start <= first
      /\ Window(window, win0_start, win1_end) \in [start : Nat, end : Nat]
  BY <1>0, OpenTypes, OpenSegment
<1>8. CASE window = 0
  <2>1. win0_start <= first
    BY <1>7, <1>8 DEF Window
  <2> HIDE DEF first, last
  <2>2. win0_start * PageLines <= first * PageLines
    BY <1>1, <1>7, <2>1, ProductMonotone
  <2>3. win0_start * PageLines >= Low + ImageLen /\ win0_start * PageLines \in Nat
        /\ first * PageLines \in Nat
    BY <1>0, <1>1, <1>7 DEF Layout
  <2>4. q >= UsbFloor
    BY <1>2, <1>3, <1>5, <2>2, <2>3
  <2> QED BY <1>4, <2>4 DEF Meant
<1>9. CASE window = 1
  <2>1. ~IsFirst(m, i)
    <3>1. at # Low
      BY <1>0, <1>9, CopiesApart, PlainConstants DEF Layout, Place, HighLineNow, OpenWindow, Arrived
    <3> QED BY <3>1
  <2>2. PICK k \in DOMAIN m : ~(i <= k)
    BY <2>1 DEF IsFirst
  <2>3. /\ k \in DOMAIN pmap /\ i \in DOMAIN pmap
        /\ OpenClip(k).start \in Nat /\ OpenClip(k).end \in Nat
        /\ OpenClip(k).start < OpenClip(k).end
        /\ pmap[k] \in [start : Nat, end : Nat] /\ pmap[i] \in [start : Nat, end : Nat]
    BY <1>0, OpenSegment
  <2>4. k < i
    <3>1. DOMAIN pmap = 1 .. Len(pmap) /\ Len(pmap) \in Nat
      BY <1>0, OpenTypes
    <3>2. k \in Nat /\ i \in Nat
      BY <2>3, <3>1
    <3> QED BY <2>2, <3>2
  <2>5. pmap[k].end <= pmap[i].start /\ pmap[k].end \in Nat /\ pmap[i].start \in Nat
    BY <2>3, <2>4 DEF InOrder
  <2>6. pmap[k].end >= 1
    <3> DEFINE top == OpenClip(k).end
               low == OpenClip(k).start
    <3>1. top <= pmap[k].end /\ top \in Nat /\ low \in Nat /\ low < top
      BY <1>0, <2>3, OpenInside
    <3> HIDE DEF top, low
    <3> QED BY <2>5, <3>1
  <2>7. pmap[i].start <= first
    BY <1>0, OpenInside
  <2> HIDE DEF first, last
  <2>8. first >= 1
    BY <1>1, <2>5, <2>6, <2>7
  <2> QED BY <1>4, <1>6, <2>8 DEF Meant
<1>10. CASE window \notin {0, 1}
  <2>1. window - 1 \in Nat /\ 1 <= window - 1
    BY <1>7, <1>10
  <2>2. 1 * WindowPages <= (window - 1) * WindowPages
    BY <2>1, ProductMonotone
  <2>3. (window - 1) * WindowPages <= first
    BY <1>7, <1>10 DEF Window
  <2>4. (window - 1) * WindowPages \in Nat
    BY <2>1
  <2> HIDE DEF first, last
  <2>5. first >= 1
    BY <1>1, <2>2, <2>3, <2>4
  <2> QED BY <1>4, <1>6, <2>5 DEF Meant
<1> QED BY <1>8, <1>9, <1>10

(* ... and so is what FromLowerLimit() extends it with.                    *)
LEMMA OpenLowLine ==
  ASSUME TypeInv, Place, Layout, InOrder(pmap), OpenWindow, at > Low, window = 1,
         NEW m, m = Segs(window, pmap, plim_lower, plim_upper), NEW i \in DOMAIN m,
         IsFirst(m, i), NEW mw \in Nat \ {0},
         NEW line \in FromLowerLimit(m)[i].start .. emapping(OpenClip(i).end) - 1
  PROVE  Meant(page_of(line, mw))
<1> DEFINE first == OpenClip(i).start
           last  == OpenClip(i).end
           q     == page_of(line, mw)
<1>0. firsttime
  BY DEF OpenWindow, Arrived
<1>1. /\ first \in Nat /\ last \in Nat /\ first < last /\ plim_lower \in Nat
      /\ last <= Window(window, win0_start, win1_end).end
      /\ pmap[i] \in [start : Nat, end : Nat]
      /\ Window(window, win0_start, win1_end) \in [start : Nat, end : Nat]
      /\ plim_upper \in Nat
      /\ Window(window, win0_start, win1_end).end <= WindowPages
  BY <1>0, OpenTypes, OpenSegment
<1>2. plim_lower <= first
  BY <1>1, ClipExact DEF OpenClip
<1>3. last <= WindowPages
  <2>1. Window(window, win0_start, win1_end).end \in Nat
    BY <1>1
  <2> HIDE DEF last
  <2> QED BY <1>1, <2>1
<1>4. UsbFloor \in Nat
  BY ImageAssumption
<1>5. mapping(plim_lower) \in Nat /\ emapping(last) \in Nat
  <2> HIDE DEF first, last
  <2> QED BY <1>1, MappingType
<1>6. FromLowerLimit(m)[i].start
        = IF mapping(plim_lower) < UsbFloor THEN UsbFloor ELSE mapping(plim_lower)
  <2>1. /\ m[i] = compute_segments(pmap, Window(window, win0_start, win1_end),
                                   plim_lower, plim_upper)[i]
        /\ i \in DOMAIN compute_segments(pmap, Window(window, win0_start, win1_end),
                                   plim_lower, plim_upper)
    BY DEF Segs
  <2>2. m[i] = [pbase_addr |-> OpenClip(i).start, start |-> mapping(OpenClip(i).start),
                end |-> emapping(OpenClip(i).end)]
    BY <2>1 DEF compute_segments, OpenClip
  <2> QED BY <2>2 DEF FromLowerLimit
<1>7. /\ line \in Nat /\ line >= UsbFloor
      /\ line \in mapping(plim_lower) .. emapping(last) - 1
  <2> HIDE DEF first, last
  <2>1. line \in FromLowerLimit(m)[i].start .. emapping(last) - 1
    BY DEF last
  <2> QED BY <1>4, <1>5, <1>6, <2>1
<1>8. q \in Nat /\ q >= UsbFloor
  <2>1. q \in Nat /\ q >= line
    BY <1>7, PageOfAbove
  <2> HIDE DEF q
  <2> QED BY <1>4, <1>7, <2>1
<1>9. PageOfLine(q) \in Nat /\ plim_lower <= PageOfLine(q) /\ PageOfLine(q) < last
  <2> HIDE DEF first, last
  <2>1. plim_lower < last /\ Together(plim_lower, last, mw)
    BY <1>1, <1>2, <1>3 DEF Together
  <2>2. plim_lower * PageLines <= q /\ q < last * PageLines
    BY <1>1, <1>7, <2>1, OneSlice
  <2> HIDE DEF q
  <2> QED BY <1>1, <1>8, <2>2, PageBetween
<1> SUFFICES Meant(q)
  OBVIOUS
<1> HIDE DEF q
<1>10. CASE first <= PageOfLine(q)
  <2>1. PageOfLine(q) \in Selected
    BY <1>0, <1>9, <1>10, OpenSelected
  <2> QED BY <1>8, <2>1 DEF Meant
<1>11. CASE PageOfLine(q) < first
  <2>1. \A other \in Selected : PageOfLine(q) < other
    BY <1>0, <1>9, <1>11, BelowFirst
  <2> QED BY <1>8, <1>9, <2>1 DEF Meant, BelowSelected
<1> QED
  <2> HIDE DEF first
  <2> QED BY <1>1, <1>9, <1>10, <1>11 DEF q

-----------------------------------------------------------------------------
(* The map v->pmap is always one that mem_size() made.                     *)
LEMMA PmapStep ==
  ASSUME MapsInOrder, TypeInv, InOrder(pmap), [Next]_vars
  PROVE  InOrder(pmap)'
<1> USE DEF place, layout, memory
<1>1. CASE Initialise
  <2>1. pmap' = machine[mode] /\ machine \in Machines /\ mode \in Modes
    BY <1>1 DEF Initialise, TypeInv, TypeOK, MemoryTypes
  <2>2. InOrder(machine[mode])
    BY <2>1 DEF MapsInOrder
  <2> QED BY <2>1, <2>2 DEF InOrder
<1>2. CASE ~Initialise
  <2>1. UNCHANGED pmap
    BY <1>2 DEF Next, Program, User, Resume, ColdStart, PassOver, OpenWindow,
       TestSegment, EndPhase, NoKey, Poll, RunWindow, AllWindowsRun, CloseTest, EndTest,
       PassEnds, OpenMenu, LeaveMenu, DefaultTests, SkipTest, SelectTest, LowerLimit,
       UpperLimit, AllMemory, Limit, MemorySizing, Restart, InMenu, vars
  <2> QED BY <2>1 DEF InOrder
<1> QED BY <1>1, <1>2

LEMMA AimedKept ==
  ASSUME Aimed, UNCHANGED <<at, map, mapped_window, plim_lower, plim_upper, pmap, bail>>,
         Testing' => Testing
  PROVE  Aimed'
BY DEF Aimed, Meant, BelowSelected, Selected, Lines

LEMMA AimedOtherwise ==
  ASSUME pc' \notin {"test", "tick", "poll", "menu"} \/ (pc' = "menu" /\ bail' = TRUE)
  PROVE  Aimed'
BY DEF Aimed, Testing

LEMMA OpenWindowAimed ==
  ASSUME TypeInv, Place, Layout, InOrder(pmap), OpenWindow
  PROVE  Aimed'
<1> DEFINE m == Segs(window, pmap, plim_lower, plim_upper)
<1>1. /\ firsttime /\ bail' = FALSE
      /\ UNCHANGED <<at, plim_lower, plim_upper, pmap>>
      /\ map' = IF at > Low THEN FromLowerLimit(m) ELSE m
  BY DEF OpenWindow, Arrived, memory
<1>2. \A line : Meant(line)' <=> Meant(line)
  BY <1>1 DEF Meant, BelowSelected, Selected
<1>3. at \in Nat /\ Low \in Nat /\ plim_lower \in Nat
  BY PlainConstants DEF TypeInv, TypeOK, PlaceTypes, MemoryTypes
<1>4. at > Low => window = 1 /\ at # Low
  BY <1>1, <1>3 DEF Layout, OpenWindow, Arrived
<1>5. SegmentsOf(m, pmap)
  BY CurrentSegs
<1>6. m = Segs(window, pmap, plim_lower, plim_upper)
  OBVIOUS
<1> HIDE DEF m
<1>7. DOMAIN map' = DOMAIN m
  BY <1>1 DEF FromLowerLimit
<1>8. ASSUME NEW i \in DOMAIN m
      PROVE  /\ map'[i].pbase_addr = m[i].pbase_addr /\ map'[i].end = m[i].end
             /\ IF at > Low /\ IsFirst(m, i)
                THEN map'[i].start = FromLowerLimit(m)[i].start
                ELSE map'[i].start = m[i].start
  <2>1. m[i] = [pbase_addr |-> OpenClip(i).start, start |-> mapping(OpenClip(i).start),
                end |-> emapping(OpenClip(i).end)]
    BY <1>6 DEF Segs, compute_segments, OpenClip
  <2>2. CASE at > Low /\ IsFirst(m, i)
    <3>1. map'[i] = FromLowerLimit(m)[i]
      BY <1>1, <2>2
    <3>2. FromLowerLimit(m)[i] =
            [m[i] EXCEPT !.start = IF mapping(plim_lower) < UsbFloor THEN UsbFloor
                                   ELSE mapping(plim_lower)]
      BY <2>2 DEF FromLowerLimit
    <3> QED BY <2>1, <2>2, <3>1, <3>2
  <2>3. CASE ~(at > Low /\ IsFirst(m, i))
    <3>1. map'[i] = m[i]
      BY <1>1, <2>3 DEF FromLowerLimit
    <3> QED BY <2>3, <3>1
  <2> QED BY <2>2, <2>3
<1>9. ASSUME NEW i \in DOMAIN map'
      PROVE  /\ page_of(mapping(map'[i].pbase_addr), mapped_window')
                  = map'[i].pbase_addr * PageLines
             /\ \A line \in map'[i].start .. map'[i].end - 1 :
                  Meant(page_of(line, mapped_window'))
  <2> DEFINE mw == mapped_window'
  <2>1. i \in DOMAIN m
    BY <1>7, <1>9
  <2>2. mw \in Nat \ {0} /\ Together(OpenClip(i).start, OpenClip(i).end, mw)
    BY <1>6, <2>1, OpenTogether
  <2>3. /\ OpenClip(i).start \in Nat /\ OpenClip(i).end \in Nat
        /\ OpenClip(i).start < OpenClip(i).end
        /\ m[i].pbase_addr = OpenClip(i).start
        /\ m[i].start = mapping(OpenClip(i).start) /\ m[i].end = emapping(OpenClip(i).end)
    BY <1>1, <1>6, <2>1, OpenSegment
  <2> HIDE DEF mw
  <2>4. page_of(mapping(OpenClip(i).start), mw) = OpenClip(i).start * PageLines
    BY <2>2, <2>3, OneSlice
  <2>5. map'[i].pbase_addr = OpenClip(i).start /\ map'[i].end = emapping(OpenClip(i).end)
    BY <1>8, <2>1, <2>3
  <2>6. CASE at > Low /\ IsFirst(m, i)
    <3>1. map'[i].start = FromLowerLimit(m)[i].start
      BY <1>8, <2>1, <2>6
    <3>2. \A line \in FromLowerLimit(m)[i].start .. emapping(OpenClip(i).end) - 1 :
            Meant(page_of(line, mw))
      BY <1>4, <1>6, <2>1, <2>2, <2>6, OpenLowLine
    <3> QED BY <2>4, <2>5, <3>1, <3>2 DEF mw
  <2>7. CASE ~(at > Low /\ IsFirst(m, i))
    <3>1. map'[i].start = mapping(OpenClip(i).start)
      BY <1>8, <2>1, <2>3, <2>7
    <3>2. at = Low \/ ~IsFirst(m, i)
      <4>1. at > Low \/ at = Low
        BY <1>1, CopiesApart, PlainConstants DEF Place, HighLineNow
      <4> QED BY <2>7, <4>1
    <3>3. \A line \in mapping(OpenClip(i).start) .. emapping(OpenClip(i).end) - 1 :
            Meant(page_of(line, mw))
      BY <1>6, <2>1, <2>2, <3>2, OpenLine
    <3> QED BY <2>4, <2>5, <3>1, <3>3 DEF mw
  <2> QED BY <2>6, <2>7
<1>10. \A i \in DOMAIN map' :
         /\ page_of(mapping(map'[i].pbase_addr), mapped_window')
              = map'[i].pbase_addr * PageLines
         /\ \A line \in Lines(map[i])' : Meant(line)'
  BY <1>2, <1>9 DEF Lines
<1> QED BY <1>10 DEF Aimed

LEMMA AimedStep ==
  SafeOps /\ TypeInv /\ Place /\ Layout /\ Clear /\ InOrder(pmap) /\ Aimed /\ [Next]_vars
    => Aimed'
<1> SUFFICES ASSUME SafeOps, TypeInv, Place, Layout, Clear, InOrder(pmap), Aimed, [Next]_vars
             PROVE  Aimed'
  OBVIOUS
<1> USE DEF place, layout, memory, loops, counters
<1>1. CASE Resume \/ ColdStart \/ Initialise \/ PassOver
  BY <1>1, AimedOtherwise
  DEF Resume, ColdStart, restart, run_at, Initialise, PassOver, Arrived
<1>2. CASE OpenWindow
  BY <1>2, OpenWindowAimed
<1>3. CASE TestSegment \/ EndPhase
  BY <1>3, AimedKept DEF TestSegment, EndPhase, Testing
<1>5. CASE NoKey
  <2>1. CASE pc = "tick"
    BY <1>5, <2>1, AimedKept DEF NoKey, Testing, Caller
  <2>2. CASE pc # "tick"
    BY <1>5, <2>2, AimedOtherwise DEF NoKey, Caller
  <2> QED BY <2>1, <2>2
<1>6. CASE Poll
  <2>1. CASE bail
    BY <1>6, <2>1, AimedOtherwise DEF Poll
  <2>2. CASE ~bail
    BY <1>6, <2>2, AimedKept DEF Poll, Testing
  <2> QED BY <2>1, <2>2
<1>7. CASE RunWindow \/ AllWindowsRun \/ CloseTest \/ EndTest
  BY <1>7, AimedOtherwise DEF RunWindow, AllWindowsRun, CloseTest, EndTest, run_at
<1>8. CASE OpenMenu
  <2>1. CASE pc = "tick"
    BY <1>8, <2>1, AimedKept DEF OpenMenu, Testing
  <2>2. CASE pc # "tick"
    <3>1. pc' = "menu" /\ ret' = "ending"
      BY <1>8, <2>2 DEF OpenMenu, Caller
    <3> QED BY <3>1 DEF Aimed, Testing
  <2> QED BY <2>1, <2>2
<1>9. CASE LeaveMenu
  <2>1. ret \in {"poll", "ending"}
    BY DEF TypeInv, TypeOK, PlaceTypes
  <2> QED BY <1>9, <2>1, AimedKept DEF LeaveMenu, Testing
<1>10. ASSUME NEW op, Choose(op), InMenu, bail' = TRUE PROVE Aimed'
  BY <1>10, AimedOtherwise DEF Choose, InMenu
<1>11. ~DefaultTests
  BY DEF DefaultTests, Choose, SafeOps
<1>12. CASE SkipTest \/ \E i \in TestInputs : SelectTest(i)
  BY <1>10, <1>12 DEF SkipTest, SelectTest
<1>13. ASSUME NEW op, Choose(op), NEW accepted, NEW lower, NEW upper,
              Limit(accepted, lower, upper)
       PROVE  Aimed'
  <2>1. accepted
    BY <1>13 DEF Limit, SafeOps
  <2> QED BY <1>10, <1>13, <2>1 DEF Limit
<1>14. CASE AllMemory \/ \E page \in LimitPages : LowerLimit(page) \/ UpperLimit(page)
  BY <1>13, <1>14 DEF AllMemory, LowerLimit, UpperLimit
<1>15. CASE Restart \/ \E m \in Modes : MemorySizing(m)
  BY <1>15, AimedOtherwise DEF Restart, MemorySizing, restart, run_at
<1>16. CASE UNCHANGED vars
  BY <1>16, AimedKept DEF vars, Testing, user
<1> QED BY <1>1, <1>2, <1>3, <1>5, <1>6, <1>7, <1>8, <1>9, <1>11, <1>12, <1>14,
           <1>15, <1>16 DEF Next, Program, User

LEMMA InitAimed == Init => InOrder(pmap) /\ Aimed
BY DEF Init, InOrder, Aimed, Testing

LEMMA AimedImplies == Clear /\ Aimed => RightMemory /\ OnlySelectedMemory
<1> SUFFICES ASSUME Clear, Aimed PROVE RightMemory /\ OnlySelectedMemory
  OBVIOUS
<1>1. ASSUME pc = "test" PROVE \A line \in NextLines : Meant(line)
  BY <1>1 DEF Clear, Aimed, Testing, NextLines
<1>2. BiosAreaUntouched /\ OnlySelectedMemory
  BY <1>1 DEF BiosAreaUntouched, OnlySelectedMemory, Meant
<1>3. AliasReachesWindow
  BY DEF Aimed, AliasReachesWindow, Testing
<1> QED BY <1>2, <1>3 DEF RightMemory

(* A running test reaches the memory it names, and only memory it may      *)
(* test: every segment of v->map is in the slice that map_page() mapped    *)
(* in, no line of it belongs to the BIOS, and its pages are selected, but  *)
(* for those the high copy adds below all of them (do_test() with          *)
(* compute_segments(), map_page(), the windows and the limits of the menu).*)
THEOREM MemoryAlwaysRight ==
  ASSUME SafeOps, MapsInOrder
  PROVE  Spec => [](RightMemory /\ OnlySelectedMemory)
<1>1. TypeInv /\ Place /\ [Next]_vars => Place'
  BY PlaceStep
<1>2. TypeInv /\ Place /\ Layout /\ Clear /\ [Next]_vars => Clear'
  BY ClearStep
<1>3. TypeInv /\ InOrder(pmap) /\ [Next]_vars => InOrder(pmap)'
  BY PmapStep
<1>4. TypeInv /\ Place /\ Layout /\ Clear /\ InOrder(pmap) /\ Aimed /\ [Next]_vars => Aimed'
  BY AimedStep
<1> QED
  BY <1>1, <1>2, <1>3, <1>4, InitType, InitPlace, InitLayout, InitClear, InitAimed,
     NextType, LayoutStep, AimedImplies, PTL DEF Spec

-----------------------------------------------------------------------------
(* Counting the runs.                                                      *)
LEMMA CountTypes ==
  ASSUME TypeInv
  PROVE  /\ test \in Int /\ testsel \in Int /\ pass \in Int /\ -1 <= pass
         /\ PassCap \in Nat /\ 2 <= PassCap /\ LastTest \in Nat /\ 1 <= LastTest
         /\ DOMAIN ran = 0 .. LastTest - 1
         /\ \A t \in DOMAIN ran : ran[t] \in Int /\ 0 <= ran[t] /\ ran[t] <= 2
         /\ bail \in BOOLEAN /\ firsttime \in BOOLEAN /\ MaxOps \in Nat /\ ops \in Nat
         /\ ret \in {"poll", "ending"}
         /\ pc # "enter" => firsttime
<1>1. PassCap \in Nat /\ 2 <= PassCap /\ LastTest \in Nat /\ 1 <= LastTest /\ MaxOps \in Nat
  BY SequenceAssumption
<1>2. test \in Int /\ testsel \in Int /\ pass \in Int /\ -1 <= pass
  BY <1>1 DEF TypeInv, TypeOK, CounterTypes
<1>3. /\ DOMAIN ran = 0 .. LastTest - 1
      /\ \A t \in DOMAIN ran : ran[t] \in Int /\ 0 <= ran[t] /\ ran[t] <= 2
  <2>1. ran \in [0 .. LastTest - 1 -> 0 .. 2]
    BY DEF TypeInv, TypeOK, HistoryTypes
  <2>2. \A t \in DOMAIN ran : ran[t] \in 0 .. 2
    BY <2>1
  <2> QED BY <2>1, <2>2
<1>4. bail \in BOOLEAN /\ firsttime \in BOOLEAN
  BY DEF TypeInv, TypeOK, FlagTypes
<1>5. ops \in Nat /\ ret \in {"poll", "ending"}
  BY DEF TypeInv, TypeOK, PlaceTypes
<1>6. pc # "enter" => firsttime
  BY DEF TypeInv, Initialised
<1> QED BY <1>1, <1>2, <1>3, <1>4, <1>5, <1>6

(* The program goes on without counting anything.                          *)
LEMMA TallyKept ==
  ASSUME Tally, UNCHANGED <<firsttime, test, pass, testsel, banner, ran, ops>>,
         bail' => bail, (Testing /\ bail) <=> (Testing /\ bail)', Closing' <=> Closing,
         Testing' => Testing, pc' \in {"test", "tick", "next"} => ~bail'
  PROVE  Tally'
<1>1. Reached' = Reached
  BY DEF Reached
<1>2. Counted'
  BY DEF Tally, Counted, Quiet
<1>3. InTurn'
  BY <1>1 DEF Tally, InTurn
<1>4. AsSelected'
  BY DEF Tally, AsSelected
<1>5. BannerEarned'
  BY DEF Tally, BannerEarned
<1> QED BY <1>2, <1>3, <1>4, <1>5 DEF Tally

(* The program starts all over.                                            *)
LEMMA TallyAgain ==
  ASSUME OneChange, TypeInv, Tally, ~firsttime', pc' = "enter",
         bail' = bail, ops' \in Nat, ops <= ops', banner' \in {"none", banner}, ran' = ran
  PROVE  Tally'
<1>1. Quiet' => Quiet
  BY CountTypes DEF Quiet
<1>2. Counted' /\ InTurn' /\ AsSelected'
  BY <1>1 DEF Tally, Counted, InTurn, AsSelected
<1>3. BannerEarned'
  BY DEF Tally, BannerEarned
<1> QED BY <1>2, <1>3 DEF Tally

LEMMA TallyInitialise == TypeInv /\ Tally /\ Initialise => Tally'
<1> SUFFICES ASSUME TypeInv, Tally, Initialise PROVE Tally'
  OBVIOUS
<1>1. /\ test' = 0 /\ pass' = 0 /\ testsel' = -1 /\ banner' = "none"
      /\ ran' = [t \in 0 .. LastTest - 1 |-> 0] /\ pc' = "enter" /\ bail' = bail
      /\ ops' = ops
  BY DEF Initialise, Arrived, user
<1>2. LastTest \in Nat /\ 1 <= LastTest
  BY CountTypes
<1>3. Counted'
  BY <1>1, <1>2 DEF Counted, Quiet, Closing, Tally
<1>4. InTurn'
  <2>1. Reached' = 0
    BY <1>1 DEF Reached, Testing
  <2>2. \A t \in DOMAIN ran' : ran'[t] = 0
    BY <1>1
  <2>3. AtMost(2, 0) = 0
    BY DEF AtMost
  <2> QED BY <1>1, <1>2, <2>1, <2>2, <2>3 DEF InTurn
<1>5. AsSelected'
  BY <1>1 DEF AsSelected
<1>6. BannerEarned'
  BY <1>1 DEF BannerEarned
<1> QED BY <1>3, <1>4, <1>5, <1>6 DEF Tally

LEMMA TallyOpenWindow == TypeInv /\ Tally /\ OpenWindow => Tally'
<1> SUFFICES ASSUME TypeInv, Tally, OpenWindow PROVE Tally'
  OBVIOUS
<1>1. /\ test' = (IF testsel >= 0 THEN testsel ELSE test)
      /\ UNCHANGED <<pass, testsel, banner, ran, ops, firsttime>>
      /\ pc = "enter" /\ pc' \in {"test", "next"} /\ bail' = FALSE /\ firsttime
  <2>1. pc' \in {"test", "next"}
    BY DEF OpenWindow
  <2> QED BY <2>1 DEF OpenWindow, Arrived, user, history
<1>2. Counted'
  BY <1>1 DEF Counted, Quiet, Closing, Tally
<1>3. InTurn'
  <2> SUFFICES ASSUME testsel = -1 PROVE InTurn'
    BY <1>1 DEF InTurn
  <2>1. test' = test
    BY <1>1
  <2>2. Reached' = Reached
    BY <1>1, <2>1 DEF Reached, Testing
  <2>3. ~Closing
    BY <1>1 DEF Closing
  <2> QED BY <1>1, <2>2, <2>3 DEF InTurn, Tally
<1>4. AsSelected'
  <2> SUFFICES ASSUME testsel >= 0 PROVE AsSelected'
    BY <1>1 DEF AsSelected
  <2>1. pass >= 0
    BY <1>1 DEF AsSelected, Tally, Closing, Testing
  <2>2. test' \in 0 .. LastTest
    BY <1>1, CountTypes DEF Tally, Counted
  <2> QED BY <1>1, <2>1, <2>2 DEF AsSelected
<1>5. BannerEarned'
  BY <1>1 DEF BannerEarned, Tally
<1> QED BY <1>2, <1>3, <1>4, <1>5 DEF Tally

(* A test that gives up is not counted as run.                             *)
LEMMA TallyPoll == TypeInv /\ Tally /\ Poll /\ bail => Tally'
<1> SUFFICES ASSUME TypeInv, Tally, Poll, bail PROVE Tally'
  OBVIOUS
<1>1. /\ test' = test + 1 /\ UNCHANGED <<pass, testsel, banner, ran, ops, firsttime, bail>>
      /\ pc = "poll" /\ pc' = "close"
  BY DEF Poll, user, place
<1>2. Counted'
  <2>1. ~Quiet
    BY DEF Tally, Counted
  <2> QED BY <1>1, <2>1 DEF Counted, Quiet, Tally
<1>3. InTurn'
  <2>1. Reached' = Reached
    BY <1>1 DEF Reached, Testing
  <2> QED BY <1>1, <2>1 DEF InTurn, Tally, Closing
<1>4. AsSelected'
  BY <1>1 DEF AsSelected, Closing
<1>5. BannerEarned'
  BY <1>1 DEF BannerEarned, Tally
<1> QED BY <1>2, <1>3, <1>4, <1>5 DEF Tally

(* A test that has run in all windows is.                                  *)
LEMMA TallyAllWindowsRun == TypeInv /\ Tally /\ AllWindowsRun => Tally'
<1> SUFFICES ASSUME TypeInv, Tally, AllWindowsRun PROVE Tally'
  OBVIOUS
<1>1. /\ test' = test + 1 /\ UNCHANGED <<pass, testsel, banner, ops, firsttime, bail>>
      /\ pc = "next" /\ pc' = "close" /\ ~bail
      /\ ran' = [t \in DOMAIN ran |-> IF t = test THEN AtMost(2, ran[t] + 1) ELSE ran[t]]
  BY DEF AllWindowsRun, user, place
<1>2. /\ DOMAIN ran' = DOMAIN ran
      /\ \A t \in DOMAIN ran : ran'[t] \in Int /\ ran[t] <= ran'[t]
      /\ test \in DOMAIN ran => ran'[test] = AtMost(2, ran[test] + 1)
  BY SMTT(30), <1>1, CountTypes DEF AtMost
<1>3. Reached = test /\ Reached' = test + 1 /\ ~Closing
  BY <1>1 DEF Reached, Testing, Closing
<1>4. firsttime /\ testsel = -1 => test >= 0 /\ test < LastTest /\ pass >= 0
  BY <1>3 DEF Tally, InTurn
<1>5. Counted'
  BY <1>1, <1>4, CountTypes DEF Counted, Quiet, Tally
<1>6. InTurn'
  <2> SUFFICES ASSUME firsttime, testsel = -1 PROVE InTurn'
    BY <1>1 DEF InTurn
  <2>1. \A t \in DOMAIN ran : /\ AtMost(2, pass) <= ran[t]
                              /\ t < test => AtMost(2, pass + 1) <= ran[t]
    BY <1>3 DEF Tally, InTurn
  <2>2. ASSUME NEW t \in DOMAIN ran
        PROVE  /\ AtMost(2, pass) <= ran'[t]
               /\ t < test + 1 => AtMost(2, pass + 1) <= ran'[t]
    <3>1. ran[t] \in Int /\ ran[t] <= 2 /\ t \in Int
      BY CountTypes
    <3>2. t < test + 1 => t < test \/ t = test
      BY <3>1, CountTypes
    <3>3. CASE t = test
      <4>1. AtMost(2, pass) <= ran[t] /\ ran'[t] = AtMost(2, ran[t] + 1)
        BY <1>2, <2>1, <3>3
      <4> QED BY <3>1, <4>1, CountTypes DEF AtMost
    <3>4. CASE t # test
      <4>1. ran'[t] = ran[t]
        BY <1>1, <3>4
      <4> QED BY <2>1, <3>2, <3>4, <4>1
    <3> QED BY <3>3, <3>4
  <2>3. Reached' >= 0 /\ Reached' <= LastTest
    BY <1>3, <1>4, CountTypes
  <2>4. Closing'
    BY <1>1 DEF Closing
  <2> QED BY <1>1, <1>2, <1>3, <1>4, <2>2, <2>3, <2>4 DEF InTurn
<1>7. AsSelected'
  BY <1>1 DEF AsSelected, Closing
<1>8. BannerEarned'
  <2>1. \A t \in DOMAIN ran : ran[t] \in Int
    BY CountTypes
  <2>2. \A n \in {1, 2} : (\A t \in DOMAIN ran : ran[t] >= n)
                            => \A t \in DOMAIN ran' : ran'[t] >= n
    BY <1>2, <2>1
  <2> QED BY <1>1, <2>2 DEF BannerEarned, Tally
<1> QED BY <1>5, <1>6, <1>7, <1>8 DEF Tally

(* A pass ends, and is announced, with all of its tests run.               *)
LEMMA TallyEndTest == TypeInv /\ Tally /\ EndTest => Tally'
<1> SUFFICES ASSUME TypeInv, Tally, EndTest PROVE Tally'
  OBVIOUS
<1>1. /\ pc = "ending" /\ pc' = "enter" /\ firsttime
      /\ UNCHANGED <<testsel, ran, ops, firsttime, bail>>
  <2>1. pc = "ending" /\ pc' = "enter" /\ UNCHANGED <<testsel, ran, ops, firsttime, bail>>
    BY DEF EndTest, run_at, user, history
  <2> QED BY <2>1, CountTypes
<1>2. Reached = test /\ Reached' = test' /\ ~Closing' /\ Closing
  BY <1>1 DEF Reached, Testing, Closing
<1>3. CASE ~PassEnds
  <2>1. UNCHANGED <<pass, test, banner>> /\ test < LastTest /\ testsel < 0
    <3>1. UNCHANGED <<pass, test, banner>>
      BY <1>3 DEF EndTest
    <3>2. ~(test >= LastTest) /\ ~(testsel >= 0)
      BY <1>1, <1>3 DEF PassEnds
    <3> QED BY <3>1, <3>2, CountTypes
  <2>2. Counted' /\ BannerEarned'
    BY <1>1, <1>2, <2>1 DEF Counted, Quiet, Tally, BannerEarned
  <2>3. InTurn'
    BY <1>1, <1>2, <2>1 DEF InTurn, Tally
  <2>4. AsSelected'
    BY <1>1, <2>1, CountTypes DEF AsSelected
  <2> QED BY <2>2, <2>3, <2>4 DEF Tally
<1>4. CASE PassEnds
  <2>1. /\ pass' = AtMost(PassCap, pass + 1) /\ test' = 0
        /\ banner' = IF ecount \/ testsel >= 0 THEN banner
                     ELSE IF pass' >= 2 \/ banner = "green" THEN "green" ELSE "clean"
    BY <1>4 DEF EndTest
  <2>2. pass' \in Int /\ pass' >= 0 /\ pass' <= pass + 1 /\ AtMost(2, pass') = AtMost(2, pass + 1)
    BY <2>1, CountTypes DEF AtMost
  <2>3. testsel = -1 => \A t \in DOMAIN ran : AtMost(2, pass + 1) <= ran[t]
    <3> SUFFICES ASSUME testsel = -1, NEW t \in DOMAIN ran PROVE AtMost(2, pass + 1) <= ran[t]
      OBVIOUS
    <3>1. test >= LastTest
      BY <1>4, CountTypes DEF PassEnds
    <3>2. t < Reached
      BY <1>2, <3>1, CountTypes
    <3> QED BY <1>1, <3>2 DEF Tally, InTurn
  <2>4. testsel \in -1 .. LastTest
    BY <1>1 DEF Tally, Counted
  <2>5. Counted'
    BY <1>1, <1>2 DEF Counted, Quiet, Tally
  <2>6. InTurn'
    <3> SUFFICES ASSUME testsel = -1 PROVE InTurn'
      BY <1>1 DEF InTurn
    <3>1. Reached' = 0
      BY <1>2, <2>1
    <3>2. \A t \in DOMAIN ran : AtMost(2, pass') <= ran[t] /\ ~(t < 0)
      BY <2>2, <2>3, CountTypes
    <3> QED BY <1>1, <2>2, <3>1, <3>2, CountTypes DEF InTurn
  <2>7. AsSelected'
    BY <1>1, <2>2 DEF AsSelected, Testing
  <2>8. BannerEarned'
    <3>1. CASE banner' = banner
      BY <1>1, <3>1 DEF BannerEarned, Tally
    <3>2. CASE banner' # banner
      <4>1. /\ testsel = -1
            /\ \/ banner' = "clean"
               \/ banner' = "green" /\ pass' >= 2
        BY <2>1, <2>4, <3>2
      <4>2. \A t \in DOMAIN ran : AtMost(2, pass') <= ran[t] /\ AtMost(2, pass + 1) <= ran[t]
        BY <2>2, <2>3, <4>1
      <4>3. pass >= 0
        BY <1>1, <4>1 DEF Tally, InTurn
      <4>4. AtMost(2, pass + 1) >= 1 /\ (pass' >= 2 => AtMost(2, pass') = 2)
        BY <2>2, <4>3, CountTypes DEF AtMost
      <4>5. /\ \A t \in DOMAIN ran : ran[t] \in Int
            /\ AtMost(2, pass + 1) \in Int /\ AtMost(2, pass') \in Int
        BY <2>2, CountTypes DEF AtMost
      <4>6. /\ \A t \in DOMAIN ran : ran[t] >= 1
            /\ pass' >= 2 => \A t \in DOMAIN ran : ran[t] >= 2
        BY <4>2, <4>4, <4>5
      <4> QED BY <1>1, <4>1, <4>6 DEF BannerEarned
    <3> QED BY <3>1, <3>2
  <2> QED BY <2>5, <2>6, <2>7, <2>8 DEF Tally
<1> QED BY <1>3, <1>4

(* The menu is opened on a run that nobody has changed.                    *)
LEMMA FirstChange ==
  ASSUME OneChange, TypeInv, Tally, NEW op, Choose(op)
  PROVE  /\ Quiet /\ ~bail /\ firsttime /\ testsel = -1 /\ pc = "menu" /\ ret' = ret
         /\ op # "skip" /\ ops' = ops + 1
         /\ Testing \/ (Closing /\ test >= 1)
         /\ op \in Changes => ~Quiet'
<1>1. pc = "menu" /\ op \in UserOps /\ ops < MaxOps /\ ops' = ops + 1 /\ ret' = ret
  BY DEF Choose
<1>2. firsttime /\ ops \in Nat /\ MaxOps \in Nat /\ ret \in {"poll", "ending"}
  BY <1>1, CountTypes
<1>3. Quiet
  <2>1. CASE UserOps \cap Changes = {}
    BY <2>1 DEF Quiet
  <2>2. CASE MaxOps <= 1
    BY <1>1, <1>2, <2>2 DEF Quiet
  <2> QED BY <2>1, <2>2 DEF OneChange
<1>4. Testing \/ Closing
  BY <1>1, <1>2 DEF Testing, Closing
<1>5. ~bail /\ testsel = -1 /\ (Closing => test >= 1)
  BY <1>2, <1>3 DEF Tally, Counted
<1>6. op \in Changes => ~Quiet'
  BY <1>1, <1>2 DEF Quiet
<1> QED BY <1>1, <1>2, <1>3, <1>4, <1>5, <1>6 DEF OneChange

LEMMA TallyDefault == OneChange /\ TypeInv /\ Tally /\ DefaultTests => Tally'
<1> SUFFICES ASSUME OneChange, TypeInv, Tally, DefaultTests PROVE Tally'
  OBVIOUS
<1>1. /\ Quiet /\ ~bail /\ firsttime /\ testsel = -1 /\ pc = "menu" /\ ret' = ret
      /\ Testing \/ (Closing /\ test >= 1)
  BY FirstChange DEF DefaultTests
<1>2. UNCHANGED <<pc, firsttime, banner, ran, test, pass>>
  BY DEF DefaultTests, InMenu, place, history
<1>3. bail' = FALSE /\ testsel' = -1
  <2>1. ~(testsel >= LastTest)
    BY <1>1, CountTypes
  <2> QED BY <1>1, <2>1 DEF DefaultTests
<1>4. (Testing' <=> Testing) /\ (Closing' <=> Closing)
  BY <1>1, <1>2 DEF Testing, Closing
<1>5. Reached' = Reached
  BY <1>1, <1>2, <1>3 DEF Reached
<1>6. Counted'
  BY <1>1, <1>2, <1>3, <1>4, CountTypes DEF Counted, Tally
<1>7. InTurn'
  BY <1>1, <1>2, <1>3, <1>4, <1>5 DEF InTurn, Tally
<1>8. AsSelected' /\ BannerEarned'
  BY <1>2, <1>3 DEF AsSelected, BannerEarned, Tally
<1> QED BY <1>6, <1>7, <1>8 DEF Tally

LEMMA TallySelect ==
  ASSUME OneChange, TypeInv, Tally, NEW i \in TestInputs, SelectTest(i)
  PROVE  Tally'
<1>1. /\ ~bail /\ firsttime /\ testsel = -1 /\ pc = "menu" /\ ret' = ret
      /\ Testing \/ Closing
      /\ ~Quiet'
  BY FirstChange DEF SelectTest, Changes
<1>2. /\ UNCHANGED <<pc, firsttime, banner, ran>> /\ bail' = TRUE
  BY DEF SelectTest, InMenu, place, history
<1>3. i \in 0 .. LastTest /\ LastTest \in Nat
  BY CountTypes DEF OneChange, SelectTest, Choose
<1>4. testsel' = i
  BY <1>1, <1>3 DEF SelectTest
<1>5. Testing' \/ Closing'
  BY <1>1, <1>2 DEF Testing, Closing
<1>6. ~Quiet'
  BY FirstChange DEF SelectTest, Changes
<1>7. Counted'
  BY <1>1, <1>2, <1>3, <1>4, <1>6 DEF Counted
<1>8. InTurn'
  BY <1>3, <1>4 DEF InTurn
<1>9. AsSelected'
  BY <1>2, <1>5 DEF AsSelected
<1>10. BannerEarned'
  BY <1>2 DEF BannerEarned, Tally
<1> QED BY <1>7, <1>8, <1>9, <1>10 DEF Tally

(* New limits have the test run again: it was not counted yet when the     *)
(* change comes during the test, and no longer is when it comes after it.  *)
LEMMA TallyLimit ==
  ASSUME OneChange, TypeInv, Tally, NEW op \in Changes, Choose(op),
         NEW accepted, NEW lower, NEW upper, Limit(accepted, lower, upper)
  PROVE  Tally'
<1>1. /\ Quiet /\ ~bail /\ firsttime /\ testsel = -1 /\ pc = "menu" /\ ret' = ret
      /\ Testing \/ (Closing /\ test >= 1)
      /\ ~Quiet'
  BY FirstChange
<1>2. UNCHANGED <<pc, firsttime, banner, ran, pass, testsel>>
  BY DEF Limit, InMenu, place, history
<1>3. (Testing' <=> Testing) /\ (Closing' <=> Closing) /\ pc' = "menu"
  BY <1>1, <1>2 DEF Testing, Closing
<1>4. Counted'
  BY <1>1, <1>2, <1>3 DEF Counted, Tally
<1>5. AsSelected' /\ BannerEarned'
  BY <1>1, <1>2 DEF AsSelected, BannerEarned, Tally
<1>6. CASE accepted
  <2>1. test' = test - 1 /\ bail' = TRUE
    BY <1>6 DEF Limit
  <2>2. Reached = test
    BY <1>1 DEF Reached
  <2>3. CASE Testing
    <3>1. Reached' = Reached
      BY <1>3, <2>1, <2>2, <2>3, CountTypes DEF Reached
    <3>2. InTurn'
      BY <1>1, <1>2, <1>3, <3>1 DEF InTurn, Tally
    <3> QED BY <1>4, <1>5, <3>2 DEF Tally
  <2>4. CASE ~Testing
    <3>1. Reached' = test - 1 /\ test >= 1 /\ Closing
      BY <1>1, <1>3, <2>1, <2>4 DEF Reached
    <3>2. /\ pass >= 0 /\ test <= LastTest
          /\ \A t \in DOMAIN ran : /\ AtMost(2, pass) <= ran[t]
                                   /\ t < test => AtMost(2, pass + 1) <= ran[t]
      BY <1>1, <2>2 DEF InTurn, Tally
    <3>3. \A t \in DOMAIN ran : t < test - 1 => t < test
      BY CountTypes
    <3>4. test - 1 >= 0 /\ test - 1 <= LastTest /\ test - 1 < LastTest
      BY <3>1, <3>2, CountTypes
    <3>5. InTurn'
      BY <1>2, <3>1, <3>2, <3>3, <3>4 DEF InTurn
    <3> QED BY <1>4, <1>5, <3>5 DEF Tally
  <2> QED BY <2>3, <2>4
<1>7. CASE ~accepted
  <2>1. test' = test /\ bail' = bail
    BY <1>7 DEF Limit
  <2>2. Reached' = Reached
    BY <1>1, <2>1 DEF Reached
  <2>3. InTurn'
    BY <1>1, <1>2, <1>3, <2>2 DEF InTurn, Tally
  <2> QED BY <1>4, <1>5, <2>3 DEF Tally
<1> QED BY <1>6, <1>7

LEMMA TallyUser == OneChange /\ TypeInv /\ Tally /\ User => Tally'
<1> SUFFICES ASSUME OneChange, TypeInv, Tally, User PROVE Tally'
  OBVIOUS
<1> USE DEF place, counters, history, user
<1>1. CASE OpenMenu
  <2>1. ~bail' \/ pc # "tick"
    BY <1>1 DEF OpenMenu, Tally, Counted
  <2> QED BY <1>1, TallyKept DEF OpenMenu, Testing, Closing, Caller
<1>2. CASE LeaveMenu
  <2>1. ret \in {"poll", "ending"}
    BY CountTypes
  <2> QED BY <1>2, <2>1, TallyKept DEF LeaveMenu, Testing, Closing
<1>3. CASE DefaultTests
  BY <1>3, TallyDefault
<1>4. ~SkipTest
  BY DEF SkipTest, Choose, OneChange
<1>5. CASE \E i \in TestInputs : SelectTest(i)
  BY <1>5, TallySelect
<1>6. CASE \E page \in LimitPages : LowerLimit(page) \/ UpperLimit(page)
  <2>1. PICK page \in LimitPages : LowerLimit(page) \/ UpperLimit(page)
    BY <1>6
  <2>2. CASE LowerLimit(page)
    <3>1. Choose("lower") /\ Limit(page + 1 <= plim_upper, page, plim_upper)
      BY <2>2 DEF LowerLimit
    <3> QED BY <3>1, TallyLimit DEF Changes
  <2>3. CASE UpperLimit(page)
    <3>1. /\ Choose("upper")
          /\ Limit(page = 0 \/ page - 1 >= plim_lower, plim_lower, page)
      BY <2>3 DEF UpperLimit
    <3> QED BY <3>1, TallyLimit DEF Changes
  <2> QED BY <2>1, <2>2, <2>3
<1>7. CASE AllMemory
  <2>1. Choose("all") /\ Limit(TRUE, 0, pmap[Len(pmap)].end)
    BY <1>7 DEF AllMemory
  <2> QED BY <2>1, TallyLimit DEF Changes
<1>8. CASE Restart \/ \E m \in Modes : MemorySizing(m)
  <2>1. /\ ~firsttime' /\ pc' = "enter" /\ bail' = bail /\ banner' = "none" /\ ran' = ran
        /\ ops' = ops + 1
    BY <1>8 DEF Restart, MemorySizing, restart, run_at, Choose
  <2>2. ops' \in Nat /\ ops <= ops'
    BY <2>1, CountTypes
  <2> QED BY <2>1, <2>2, TallyAgain
<1> QED BY <1>1, <1>2, <1>3, <1>4, <1>5, <1>6, <1>7, <1>8 DEF User

LEMMA TallyStep == OneChange /\ TypeInv /\ Place /\ Tally /\ [Next]_vars => Tally'
<1> SUFFICES ASSUME OneChange, TypeInv, Place, Tally, [Next]_vars PROVE Tally'
  OBVIOUS
<1> USE DEF place, counters, history, user, loops
<1>1. CASE Resume
  <2>1. ~firsttime' /\ pc' = "enter" /\ UNCHANGED <<bail, ops, banner, ran>>
    BY <1>1 DEF Resume, Place
  <2> QED BY <2>1, CountTypes, TallyAgain
<1>2. CASE ColdStart
  <2>1. ~firsttime' /\ pc' = "enter" /\ UNCHANGED <<bail, ops, ran>> /\ banner' = "none"
    BY <1>2 DEF ColdStart, restart, run_at
  <2> QED BY <2>1, CountTypes, TallyAgain
<1>3. CASE Initialise
  BY <1>3, TallyInitialise
<1>4. CASE PassOver
  BY <1>4, TallyKept DEF PassOver, Arrived, Testing, Closing
<1>5. CASE OpenWindow
  BY <1>5, TallyOpenWindow
<1>6. CASE TestSegment \/ EndPhase
  <2>1. pc = "test" /\ ~bail
    BY <1>6 DEF TestSegment, EndPhase, Tally, Counted
  <2> QED BY <1>6, <2>1, TallyKept DEF TestSegment, EndPhase, Testing, Closing
<1>7. CASE NoKey
  BY <1>7, TallyKept DEF NoKey, Caller, Testing, Closing
<1>8. CASE Poll
  <2>1. CASE ~bail
    BY <1>8, <2>1, TallyKept DEF Poll, Testing, Closing
  <2> QED BY <1>8, <2>1, TallyPoll
<1>9. CASE RunWindow
  <2>1. pc = "next" /\ pc' \in {"enter", "next"} /\ ~bail /\ UNCHANGED <<bail, counters, ops, ran, firsttime>>
    BY <1>9 DEF RunWindow, run_at
  <2> QED BY <2>1, TallyKept DEF Testing, Closing
<1>10. CASE AllWindowsRun
  BY <1>10, TallyAllWindowsRun
<1>11. CASE CloseTest
  BY <1>11, TallyKept DEF CloseTest, Testing, Closing
<1>12. CASE EndTest
  BY <1>12, TallyEndTest
<1>13. CASE User
  BY <1>13, TallyUser
<1>14. CASE UNCHANGED vars
  BY <1>14, TallyKept DEF vars, Testing, Closing, Tally, Counted
<1> QED BY <1>1, <1>2, <1>3, <1>4, <1>5, <1>6, <1>7, <1>8, <1>9, <1>10, <1>11, <1>12,
           <1>13, <1>14 DEF Next, Program

LEMMA InitTally == Init => Tally
<1> SUFFICES ASSUME Init PROVE Tally
  OBVIOUS
<1>1. ~firsttime /\ ~bail /\ banner = "none" /\ pc = "enter"
  BY DEF Init
<1> QED BY <1>1 DEF Tally, Counted, InTurn, AsSelected, BannerEarned

LEMMA TallyImplies == TypeInv /\ Tally => CountsTrue
<1> SUFFICES ASSUME TypeInv, Tally PROVE CountsTrue
  OBVIOUS
<1>1. BannerEarned
  BY DEF Tally
<1>2. ASSUME pc = "test" PROVE test \in 0 .. LastTest /\ pass >= 0
  <2>1. firsttime /\ ~bail /\ Testing /\ ~Closing /\ testsel \in -1 .. LastTest
    BY <1>2, CountTypes DEF Tally, Counted, Testing, Closing
  <2>2. CASE testsel = -1
    <3>1. Reached = test
      BY <2>1 DEF Reached
    <3> QED BY <2>1, <2>2, <3>1, CountTypes DEF Tally, InTurn
  <2>3. CASE testsel # -1
    <3>1. testsel >= 0
      BY <2>1, <2>3, CountTypes
    <3> QED BY <2>1, <3>1 DEF Tally, AsSelected
  <2> QED BY <2>2, <2>3
<1> QED BY <1>1, <1>2 DEF CountsTrue, TestNumberInRange, PassCounted

(* A test starts with a number of the table, in a pass that counts, and    *)
(* the banner tells of runs there have been, however a test is interrupted *)
(* by one change of the settings, and whatever restarts there are          *)
(* (do_test(), the tests' BAILR and the menu of config.c).                 *)
THEOREM CountsAlwaysTrue ==
  ASSUME OneChange
  PROVE  Spec => []CountsTrue
<1>1. TypeInv /\ Place /\ [Next]_vars => Place'
  BY PlaceStep
<1>2. TypeInv /\ Place /\ Tally /\ [Next]_vars => Tally'
  BY TallyStep
<1> QED BY <1>1, <1>2, InitType, InitPlace, InitTally, NextType, TallyImplies, PTL DEF Spec

-----------------------------------------------------------------------------
(* v->map has a first segment, and its segments have positions of their own*)
(* below the number of them.                                               *)
LEMMA LeastElement ==
  ASSUME NEW S \in SUBSET Nat, S # {}
  PROVE  \E m \in S : \A k \in S : m <= k
<1> DEFINE R == OpToRel(<, Nat)
<1>1. IsWellFoundedOn(R, Nat)
  BY NatLessThanWellFounded
<1>2. R = {ss \in Nat \X Nat : ss[1] < ss[2]}
  BY DEF OpToRel
<1> HIDE DEF R
<1>3. \E m \in S : \A k \in S : ~(<<k, m>> \in R)
  BY <1>1, WFMin
<1>4. PICK m \in S : \A k \in S : ~(<<k, m>> \in R)
  BY <1>3
<1>5. \A k \in S : ~(k < m)
  BY <1>2, <1>4
<1> QED BY <1>5

LEMMA FirstExists ==
  ASSUME NEW mem \in Seq([start : Nat, end : Nat]), NEW m, DOMAIN m \subseteq DOMAIN mem,
         DOMAIN m # {}
  PROVE  \E i \in DOMAIN m : IsFirst(m, i)
<1>1. DOMAIN mem = 1 .. Len(mem) /\ Len(mem) \in Nat
  OBVIOUS
<1>2. DOMAIN m \in SUBSET Nat
  BY <1>1
<1> QED BY <1>2, LeastElement DEF IsFirst

LEMMA Positions ==
  ASSUME NEW mem \in Seq([start : Nat, end : Nat]), NEW m, DOMAIN m \subseteq DOMAIN mem
  PROVE  /\ Cardinality(DOMAIN m) \in Nat
         /\ \A i \in DOMAIN m : Position(m, i) \in Nat /\ Position(m, i) < Cardinality(DOMAIN m)
         /\ \A i, k \in DOMAIN m : Position(m, i) = Position(m, k) => i = k
<1> DEFINE D == DOMAIN m
           Before(i) == {k \in D : k < i}
<1>1. D \in SUBSET Nat /\ IsFiniteSet(D)
  <2>1. DOMAIN mem = 1 .. Len(mem) /\ Len(mem) \in Nat
    OBVIOUS
  <2>2. IsFiniteSet(1 .. Len(mem))
    BY <2>1, FS_Interval
  <2> QED BY <2>1, <2>2, FS_Subset
<1>2. \A i : Position(m, i) = Cardinality(Before(i))
  BY DEF Position
<1> HIDE DEF D
<1>3. ASSUME NEW S, IsFiniteSet(S), NEW T \in SUBSET S, NEW x \in S, x \notin T
      PROVE  /\ Cardinality(S) \in Nat /\ Cardinality(T) \in Nat
             /\ Cardinality(T) < Cardinality(S)
  <2>1. IsFiniteSet(T) /\ Cardinality(T) <= Cardinality(S) /\ Cardinality(T) # Cardinality(S)
    BY <1>3, FS_Subset
  <2>2. Cardinality(S) \in Nat /\ Cardinality(T) \in Nat
    BY <1>3, <2>1, FS_CardinalityType
  <2> QED BY <2>1, <2>2
<1>4. \A i \in D : Before(i) \in SUBSET D /\ i \notin Before(i) /\ IsFiniteSet(Before(i))
  BY <1>1, FS_Subset
<1>5. \A i \in D : /\ Cardinality(D) \in Nat /\ Cardinality(Before(i)) \in Nat
                   /\ Cardinality(Before(i)) < Cardinality(D)
  BY <1>1, <1>3, <1>4
<1>6. ASSUME NEW i \in D, NEW k \in D, i < k
      PROVE  Cardinality(Before(i)) # Cardinality(Before(k))
  <2>1. \A x \in D : x \in Nat
    BY <1>1
  <2>2. \A x \in D : x < i => x < k
    BY <1>6, <2>1
  <2>3. Before(i) \in SUBSET Before(k) /\ i \in Before(k)
    BY <1>6, <2>2
  <2>4. /\ Cardinality(Before(k)) \in Nat /\ Cardinality(Before(i)) \in Nat
        /\ Cardinality(Before(i)) < Cardinality(Before(k))
    BY <1>3, <1>4, <2>3
  <2> QED BY <2>4
<1>7. \A i, k \in D : Cardinality(Before(i)) = Cardinality(Before(k)) => i = k
  <2> SUFFICES ASSUME NEW i \in D, NEW k \in D, i # k
               PROVE  Cardinality(Before(i)) # Cardinality(Before(k))
    OBVIOUS
  <2>1. i < k \/ k < i
    BY <1>1
  <2> QED BY <1>6, <2>1
<1>8. Cardinality(D) \in Nat
  BY <1>1, FS_CardinalityType
<1> QED BY <1>2, <1>5, <1>7, <1>8 DEF D

-----------------------------------------------------------------------------
(* Sizing.                                                                 *)
LEMMA WantedHigh ==
  ASSUME NEW mem
  PROVE  HighWanted(mem) \in {HighBoot, HighBig}
BY DEF HighWanted

LEMMA SizedKept ==
  ASSUME Sized, UNCHANGED <<pae, machine, high_test_adr, win0_start, pmap>>,
         firsttime' => firsttime, ~pae => mapped_window' = mapped_window
  PROVE  Sized'
BY DEF Sized, FreshHigh

LEMMA SizedStep ==
  MapsInReach /\ TypeInv /\ Sized /\ [Next]_vars => Sized'
<1> SUFFICES ASSUME MapsInReach, TypeInv, Sized, [Next]_vars PROVE Sized'
  OBVIOUS
<1> USE DEF place, layout, hardware, memory
<1>1. CASE Initialise
  <2> DEFINE mem  == machine[mode]
             last == mem[Len(mem)].end
  <2>1. machine \in Machines /\ mode \in Modes
    BY DEF TypeInv, TypeOK, MemoryTypes
  <2>2. HighWanted(mem) = HighWanted(machine["bios"])
    BY <2>1 DEF MapsInReach
  <2>3. /\ pmap' = mem /\ UNCHANGED <<pae, machine, mapped_window>>
        /\ high_test_adr' = IF last > BigMemory THEN HighBig ELSE high_test_adr
        /\ win0_start' = (Low + ImageLen + PageLines - 1) \div PageLines
    BY <1>1 DEF Initialise
  <2>4. HighWanted(mem) = IF last > BigMemory THEN HighBig ELSE HighBoot
    BY DEF HighWanted
  <2>5. FreshHigh' = HighWanted(mem)
    BY <2>3, <2>4 DEF FreshHigh
  <2>6. high_test_adr' = HighWanted(mem)
    <3>1. high_test_adr \in {HighBoot, HighWanted(mem)}
      BY <2>2 DEF Sized
    <3> QED BY <2>3, <2>4, <3>1
  <2>7. ~pae' => mapped_window' = 1
    BY <2>3 DEF Sized
  <2> HIDE DEF mem, last
  <2>8. high_test_adr' \in {HighBoot, HighWanted(machine["bios"])'}
    <3>1. HighWanted(machine["bios"])' = HighWanted(machine["bios"])
      BY <2>3 DEF HighWanted
    <3> QED BY <2>2, <2>6, <3>1
  <2>9. pmap' \in {machine'[m] : m \in Modes}
    BY <2>1, <2>3 DEF mem
  <2> QED BY <2>3, <2>5, <2>6, <2>7, <2>8, <2>9 DEF Sized
<1>2. CASE OpenWindow
  <2>1. UNCHANGED <<pae, machine, high_test_adr, win0_start, pmap, firsttime>>
    BY <1>2 DEF OpenWindow
  <2>2. ~pae => mapped_window' = mapped_window
    <3> SUFFICES ASSUME ~pae PROVE mapped_window' = mapped_window
      OBVIOUS
    <3>1. PICK page : ~CannotMap(page) /\ map_page(page)
      BY <1>2 DEF OpenWindow
    <3> QED BY <3>1 DEF CannotMap, map_page
  <2> QED BY <2>1, <2>2, SizedKept
<1>3. CASE RunWindow \/ AllWindowsRun \/ CloseTest
  <2>1. UNCHANGED <<pae, machine, high_test_adr, win0_start, pmap, firsttime>> /\ paging_off
    BY <1>3 DEF RunWindow, AllWindowsRun, CloseTest
  <2> QED BY <2>1, SizedKept DEF paging_off
<1>4. CASE Resume \/ ColdStart \/ PassOver \/ TestSegment \/ EndPhase \/ NoKey \/ Poll
           \/ EndTest \/ OpenMenu \/ LeaveMenu
  <2>1. UNCHANGED <<pae, machine, high_test_adr, win0_start, pmap, mapped_window>>
        /\ (firsttime' => firsttime)
    BY <1>4 DEF Resume, ColdStart, restart, PassOver, TestSegment, EndPhase, NoKey, Poll,
                EndTest, OpenMenu, LeaveMenu
  <2> QED BY <2>1, SizedKept
<1>5. CASE User /\ ~(OpenMenu \/ LeaveMenu)
  <2>1. UNCHANGED <<pae, machine, high_test_adr, win0_start, pmap, mapped_window>>
        /\ (firsttime' => firsttime)
    BY <1>5 DEF User, DefaultTests, SkipTest, SelectTest, LowerLimit, UpperLimit,
              AllMemory, Limit, MemorySizing, Restart, restart, InMenu
  <2> QED BY <2>1, SizedKept
<1>6. CASE UNCHANGED vars
  BY <1>6, SizedKept DEF vars
<1> QED BY <1>1, <1>2, <1>3, <1>4, <1>5, <1>6 DEF Next, Program

LEMMA InitSized == Init => Sized
BY DEF Init, Sized

-----------------------------------------------------------------------------
(* The pages of an entry inside the limits, and of all entries up to one.  *)
PagesIn(mem, i, lower, upper) ==
  {page \in mem[i].start .. mem[i].end - 1 : lower <= page /\ page < upper}
PagesUpTo(mem, n, lower, upper) == UNION {PagesIn(mem, i, lower, upper) : i \in 1 .. n}

LEMMA PartCounted ==
  ASSUME NEW mem \in Seq([start : Nat, end : Nat]), NEW i \in DOMAIN mem,
         mem[i].start <= mem[i].end,
         NEW lower \in Nat, NEW upper \in Nat, lower <= upper
  PROVE  /\ IsFiniteSet(PagesIn(mem, i, lower, upper))
         /\ SelectedPart(mem[i], lower, upper) = Cardinality(PagesIn(mem, i, lower, upper))
<1> DEFINE s == mem[i].start
           e == mem[i].end
           a == IF s < lower THEN lower ELSE s
           b == IF e > upper THEN upper ELSE e
           P == PagesIn(mem, i, lower, upper)
<1>1. mem[i] \in [start : Nat, end : Nat]
  <2>1. DOMAIN mem = 1 .. Len(mem)
    BY LenProperties
  <2> QED BY <2>1, ElementOfSeq
<1>2. s \in Nat /\ e \in Nat /\ s <= e
  BY <1>1
<1> HIDE DEF s, e
<1>3. a \in Nat /\ b \in Nat
  BY <1>2
<1>4. P = a .. b - 1
  <2>1. P = {page \in s .. e - 1 : lower <= page /\ page < upper}
    BY DEF PagesIn, s, e
  <2>2. ASSUME NEW page \in Int PROVE page \in P <=> page \in a .. b - 1
    BY <1>2, <2>1
  <2>3. P \subseteq Int /\ a .. b - 1 \subseteq Int
    BY <2>1
  <2> QED BY <2>2, <2>3
<1>5. SelectedPart(mem[i], lower, upper) = IF a > b - 1 THEN 0 ELSE b - 1 - a + 1
  <2> DEFINE part == SelectedPart(mem[i], lower, upper)
  <2>1. /\ s >= lower /\ e <= upper => part = e - s
        /\ s < lower => part = IF e < lower THEN 0
                              ELSE IF e > upper THEN upper - lower ELSE e - lower
        /\ s >= lower /\ ~ (e <= upper) => part = IF s > upper THEN 0 ELSE upper - s
    BY <1>2 DEF SelectedPart, s, e
  <2> HIDE DEF part
  <2>2. s < lower => part = IF a > b - 1 THEN 0 ELSE b - 1 - a + 1
    BY <1>2, <2>1
  <2>3. s >= lower => part = IF a > b - 1 THEN 0 ELSE b - 1 - a + 1
    <3>1. CASE e <= upper
      BY <1>2, <2>1, <3>1
    <3>2. CASE ~ (e <= upper) /\ s > upper
      BY <1>2, <2>1, <3>2
    <3>3. CASE ~ (e <= upper) /\ ~ (s > upper)
      BY <1>2, <2>1, <3>3
    <3> QED BY <3>1, <3>2, <3>3
  <2> HIDE DEF a, b
  <2> QED BY <1>2, <2>2, <2>3 DEF part
<1> HIDE DEF a, b, P
<1>6. IsFiniteSet(a .. b - 1) /\ Cardinality(a .. b - 1) = IF a > b - 1 THEN 0 ELSE b - 1 - a + 1
  <2>1. a \in Int /\ b - 1 \in Int
    BY <1>3
  <2> QED BY <2>1, FS_Interval
<1> QED BY <1>3, <1>4, <1>5, <1>6 DEF P

LEMMA MorePages ==
  ASSUME NEW mem \in Seq([start : Nat, end : Nat]), InOrder(mem), WholePages(mem),
         NEW lower \in Nat, NEW upper \in Nat, lower <= upper, NEW n \in 1 .. Len(mem)
  PROVE  /\ IsFiniteSet(PagesUpTo(mem, n, lower, upper))
         /\ IsFiniteSet(PagesUpTo(mem, n - 1, lower, upper))
         /\ Cardinality(PagesUpTo(mem, n, lower, upper)) =
              Cardinality(PagesUpTo(mem, n - 1, lower, upper)) + SelectedPart(mem[n], lower, upper)
<1> DEFINE A == PagesUpTo(mem, n - 1, lower, upper)
           B == PagesIn(mem, n, lower, upper)
           C == PagesUpTo(mem, n, lower, upper)
<1>1. DOMAIN mem = 1 .. Len(mem) /\ Len(mem) \in Nat
  BY LenProperties
<1>2. n \in DOMAIN mem /\ \A k \in 1 .. n : k \in DOMAIN mem
  BY <1>1
<1>3. \A k \in DOMAIN mem : mem[k].start \in Nat /\ mem[k].end \in Nat
  <2>1. \A k \in DOMAIN mem : mem[k] \in [start : Nat, end : Nat]
    <3>1. \A k \in 1 .. Len(mem) : mem[k] \in [start : Nat, end : Nat]
      BY ElementOfSeq
    <3> QED BY <1>1, <3>1
  <2> QED BY <2>1
<1>4. C = A \cup B
  <2>1. \A k : k \in 1 .. n <=> k \in 1 .. n - 1 \/ k = n
    BY <1>1
  <2> QED BY <2>1 DEF PagesUpTo
<1>5. A \cap B = {}
  <2> SUFFICES ASSUME NEW page \in A, page \in B PROVE FALSE
    OBVIOUS
  <2>1. PICK k \in 1 .. n - 1 : page \in PagesIn(mem, k, lower, upper)
    BY DEF PagesUpTo
  <2>2. k \in DOMAIN mem /\ k < n
    BY <1>1, <1>2
  <2>3. mem[k].end <= mem[n].start
    BY <1>2, <2>2 DEF InOrder
  <2>4. page \in mem[k].start .. mem[k].end - 1 /\ page \in mem[n].start .. mem[n].end - 1
    BY <2>1 DEF PagesIn
  <2>5. mem[k].end \in Nat /\ mem[n].start \in Nat
    BY <1>2, <1>3, <2>2
  <2>6. page \in Int /\ page <= mem[k].end - 1 /\ mem[n].start <= page
    BY <2>4
  <2>7. \A x, y \in Nat : \A p \in Int : p <= x - 1 /\ y <= p => ~ (x <= y)
    OBVIOUS
  <2> QED BY <2>3, <2>5, <2>6, <2>7, Zenon
<1>6. IsFiniteSet(C) /\ IsFiniteSet(A)
  <2>1. IsFiniteSet(0 .. upper)
    BY FS_Interval
  <2>2. ASSUME NEW k \in DOMAIN mem PROVE PagesIn(mem, k, lower, upper) \subseteq 0 .. upper
    BY <1>3 DEF PagesIn
  <2>3. C \subseteq 0 .. upper
    BY <1>2, <2>2 DEF PagesUpTo
  <2>4. A \subseteq C
    BY <1>4
  <2> QED BY <2>1, <2>3, <2>4, FS_Subset
<1>7. IsFiniteSet(B) /\ SelectedPart(mem[n], lower, upper) = Cardinality(B)
  BY <1>2, PartCounted DEF WholePages
<1> HIDE DEF A, B, C
<1>8. Cardinality(C) = Cardinality(A) + Cardinality(B) - Cardinality(A \cap B)
  BY <1>4, <1>6, <1>7, FS_Union
<1>9. Cardinality(A \cap B) = 0 /\ Cardinality(A) \in Nat /\ Cardinality(B) \in Nat
  BY <1>5, <1>6, <1>7, FS_EmptySet, FS_CardinalityType
<1>10. Cardinality(C) = Cardinality(A) + Cardinality(B)
  BY <1>8, <1>9
<1> QED BY <1>6, <1>7, <1>10 DEF A, B, C

(* What adj_mem() adds up is the number of the selected pages.             *)
LEMMA PagesCounted ==
  ASSUME NEW mem \in Seq([start : Nat, end : Nat]), InOrder(mem), WholePages(mem),
         NEW lower \in Nat, NEW upper \in Nat, lower <= upper
  PROVE  adj_mem(mem, lower, upper) = Cardinality(SelectedPages(mem, lower, upper))
<1> DEFINE L == Len(mem)
           C(n) == Cardinality(PagesUpTo(mem, n, lower, upper))
           part(i) == SelectedPart(mem[i], lower, upper)
           Solution(g) == g = [i \in 0 .. L |-> IF i = 0 THEN 0 ELSE g[i - 1] + part(i)]
           v == CHOOSE f : Solution(f)
           g == [n \in 0 .. L |-> C(n)]
<1>1. L \in Nat /\ DOMAIN mem = 1 .. L
  BY LenProperties
<1>2. adj_mem(mem, lower, upper) = v[L]
  BY DEF adj_mem
<1>3. C(0) = 0
  <2>1. PagesUpTo(mem, 0, lower, upper) = {}
    BY DEF PagesUpTo
  <2> QED BY <2>1, FS_EmptySet
<1>4. \A n \in 1 .. L : C(n) = C(n - 1) + part(n)
  BY MorePages
<1>5. SelectedPages(mem, lower, upper) = PagesUpTo(mem, L, lower, upper)
  BY <1>1 DEF SelectedPages, PagesUpTo, PagesIn
<1> HIDE DEF C, part, L
<1>6. Solution(g)
  <2>1. \A i \in 0 .. L : g[i] = IF i = 0 THEN 0 ELSE g[i - 1] + part(i)
    <3>1. \A i \in 0 .. L : i = 0 \/ (i \in 1 .. L /\ i - 1 \in 0 .. L)
      BY <1>1
    <3> QED BY <1>3, <1>4, <3>1
  <2>2. g = [i \in 0 .. L |-> g[i]]
    OBVIOUS
  <2> HIDE DEF g
  <2> QED BY <2>1, <2>2
<1> HIDE DEF Solution
<1>7. Solution(v)
  BY <1>6
<1> HIDE DEF v
<1>8. \A i \in 0 .. L : v[i] = IF i = 0 THEN 0 ELSE v[i - 1] + part(i)
  <2>1. v = [i \in 0 .. L |-> IF i = 0 THEN 0 ELSE v[i - 1] + part(i)]
    BY <1>7 DEF Solution
  <2> QED BY <2>1
<1>9. ASSUME NEW S \in SUBSET (0 .. L), \A i \in S : v[i] # C(i), \A i \in (0 .. L) \ S : v[i] = C(i)
      PROVE  S = {}
  <2> SUFFICES ASSUME S # {} PROVE FALSE
    OBVIOUS
  <2>1. PICK i \in S : \A k \in S : i <= k
    <3>1. S \in SUBSET Nat
      BY <1>1
    <3> QED BY <3>1, LeastElement
  <2>2. i \in 0 .. L /\ v[i] # C(i)
    BY <1>9, <2>1
  <2>3. i # 0
    <3>1. 0 \in 0 .. L
      BY <1>1
    <3>2. v[0] = 0
      BY <1>8, <3>1
    <3> QED BY <1>3, <2>2, <3>2
  <2>4. i \in 1 .. L /\ i - 1 \in (0 .. L) \ S
    <3>1. i \in 1 .. L /\ i - 1 \in 0 .. L /\ i - 1 < i
      BY <1>1, <2>2, <2>3
    <3> QED BY <1>1, <2>1, <2>2, <3>1
  <2>5. v[i - 1] = C(i - 1)
    BY <1>9, <2>4
  <2>6. v[i] = v[i - 1] + part(i)
    BY <1>8, <2>2, <2>3
  <2>7. C(i) = C(i - 1) + part(i)
    BY <1>4, <2>4
  <2> QED BY <2>2, <2>5, <2>6, <2>7
<1>10. v[L] = C(L)
  <2> DEFINE S == {i \in 0 .. L : v[i] # C(i)}
  <2>1. S \in SUBSET (0 .. L) /\ (\A i \in S : v[i] # C(i)) /\ \A i \in (0 .. L) \ S : v[i] = C(i)
    OBVIOUS
  <2>2. L \in 0 .. L
    BY <1>1
  <2> HIDE DEF S
  <2>3. S = {}
    BY <1>9, <2>1
  <2> QED BY <2>1, <2>2, <2>3
<1> QED BY <1>2, <1>5, <1>10 DEF C

(* The count is made again whenever the limits or the map change.          *)
LEMMA SelectionKeeps ==
  ASSUME SelectionSound, firsttime' => firsttime,
         UNCHANGED <<pmap, plim_lower, plim_upper, selected_pages>>
  PROVE  SelectionSound'
<1>1. adj_mem(pmap, plim_lower, plim_upper)' = adj_mem(pmap, plim_lower, plim_upper)
  BY DEF adj_mem
<1> QED BY <1>1 DEF SelectionSound, InOrder, WholePages

LEMMA SelectionLimit ==
  ASSUME SelectionSound, firsttime, NEW accepted, NEW lower \in Nat, NEW upper \in Nat,
         Limit(accepted, lower, upper), accepted => lower <= upper
  PROVE  SelectionSound'
<1>1. pmap' = pmap /\ selected_pages' = adj_mem(pmap, plim_lower', plim_upper')
  BY DEF Limit, InMenu
<1>2. plim_lower' <= plim_upper'
  BY DEF Limit, SelectionSound
<1>3. adj_mem(pmap, plim_lower, plim_upper)' = adj_mem(pmap, plim_lower', plim_upper')
  BY <1>1 DEF adj_mem
<1> QED BY <1>1, <1>2, <1>3 DEF SelectionSound, InOrder, WholePages

LEMMA SelectionStep ==
  MapsInOrder /\ MapsOfPages /\ LimitsOfPages /\ TypeInv /\ SelectionSound /\ [Next]_vars
    => SelectionSound'
<1> SUFFICES ASSUME MapsInOrder, MapsOfPages, LimitsOfPages, TypeInv, SelectionSound,
                    [Next]_vars
             PROVE  SelectionSound'
  OBVIOUS
<1> USE DEF place, layout, memory
<1>0. /\ plim_lower \in Nat /\ plim_upper \in Nat
      /\ pc = "menu" => firsttime /\ pmap \in Seq([start : Nat, end : Nat]) /\ pmap # <<>>
  BY DEF TypeInv, TypeOK, MemoryTypes, Initialised
<1>1. CASE Initialise
  <2>1. machine \in Machines /\ mode \in Modes
    BY DEF TypeInv, TypeOK, MemoryTypes
  <2> DEFINE mem == machine[mode]
             last == mem[Len(mem)].end
  <2>2. /\ pmap' = mem /\ plim_lower' = 0 /\ plim_upper' = last
        /\ selected_pages' = adj_mem(mem, 0, last)
    BY <1>1 DEF Initialise
  <2>3. InOrder(mem) /\ WholePages(mem)
    BY <2>1 DEF MapsInOrder, MapsOfPages
  <2>4. last \in Nat
    <3>1. mem \in MemoryMap
      BY <2>1, MachinesAssumption
    <3> HIDE DEF mem
    <3> QED BY <3>1, LastEntry DEF MemoryMap
  <2> HIDE DEF mem, last
  <2>5. adj_mem(pmap, plim_lower, plim_upper)' = adj_mem(mem, 0, last)
    BY <2>2 DEF adj_mem
  <2>6. InOrder(pmap)' /\ WholePages(pmap)'
    BY <2>2, <2>3 DEF InOrder, WholePages
  <2>7. plim_lower' <= plim_upper'
    BY <2>2, <2>4
  <2> QED BY <2>2, <2>5, <2>6, <2>7 DEF SelectionSound
<1>2. ASSUME NEW page \in LimitPages, LowerLimit(page) \/ UpperLimit(page)
      PROVE  SelectionSound'
  <2>1. page \in Nat /\ page # 0
    BY SequenceAssumption DEF LimitsOfPages
  <2>2. firsttime
    BY <1>0, <1>2 DEF LowerLimit, UpperLimit, Choose
  <2>3. CASE LowerLimit(page)
    <3>1. page + 1 <= plim_upper => page <= plim_upper
      BY <1>0, <2>1
    <3> QED BY <1>0, <2>1, <2>2, <2>3, <3>1, SelectionLimit DEF LowerLimit
  <2>4. CASE UpperLimit(page)
    <3>1. page = 0 \/ page - 1 >= plim_lower => plim_lower <= page
      BY <1>0, <2>1
    <3> QED BY <1>0, <2>1, <2>2, <2>4, <3>1, SelectionLimit DEF UpperLimit
  <2> QED BY <1>2, <2>3, <2>4
<1>3. CASE AllMemory
  <2>1. firsttime /\ pmap[Len(pmap)].end \in Nat
    BY <1>0, <1>3, LastEntry DEF AllMemory, Choose
  <2>2. Limit(TRUE, 0, pmap[Len(pmap)].end)
    BY <1>3 DEF AllMemory
  <2>3. 0 <= pmap[Len(pmap)].end
    BY <2>1
  <2> QED BY <2>1, <2>2, <2>3, SelectionLimit
<1>4. CASE MemorySizing(mode') \/ Restart \/ ColdStart
  BY <1>4 DEF MemorySizing, Restart, ColdStart, restart, SelectionSound
<1>5. CASE DefaultTests \/ SkipTest \/ (\E i \in TestInputs : SelectTest(i))
  <2>1. UNCHANGED <<pmap, plim_lower, plim_upper, selected_pages, firsttime>>
    BY <1>5 DEF DefaultTests, SkipTest, SelectTest, InMenu
  <2> QED BY <2>1, SelectionKeeps
<1>6. CASE Resume \/ PassOver \/ OpenWindow \/ TestSegment \/ EndPhase \/ NoKey \/ Poll
           \/ RunWindow \/ AllWindowsRun \/ CloseTest \/ EndTest \/ OpenMenu \/ LeaveMenu
  <2>1. UNCHANGED <<pmap, plim_lower, plim_upper, selected_pages, firsttime>>
    BY <1>6 DEF Resume, PassOver, OpenWindow, TestSegment, EndPhase, NoKey, Poll,
                RunWindow, AllWindowsRun, CloseTest, EndTest, OpenMenu, LeaveMenu
  <2> QED BY <2>1, SelectionKeeps
<1>7. ASSUME NEW m \in Modes, MemorySizing(m) PROVE MemorySizing(mode')
  BY <1>7 DEF MemorySizing
<1>8. CASE UNCHANGED vars
  BY <1>8, SelectionKeeps DEF vars
<1> QED BY <1>1, <1>2, <1>3, <1>4, <1>5, <1>6, <1>7, <1>8 DEF Next, Program, User

LEMMA SelectionImplies == TypeInv /\ SelectionSound => SelectedPagesCounted
<1> SUFFICES ASSUME TypeInv, SelectionSound, firsttime
             PROVE  selected_pages = Cardinality(Selected)
  BY DEF SelectedPagesCounted
<1>1. /\ plim_lower \in Nat /\ plim_upper \in Nat /\ plim_lower <= plim_upper
      /\ pmap \in Seq([start : Nat, end : Nat]) /\ InOrder(pmap) /\ WholePages(pmap)
      /\ selected_pages = adj_mem(pmap, plim_lower, plim_upper)
  BY DEF TypeInv, TypeOK, MemoryTypes, SelectionSound
<1> QED BY <1>1, PagesCounted DEF Selected

(* For every machine whose memory map is in order and of whole pages, and  *)
(* whatever limits but 0 the user enters: only selected memory is tested,  *)
(* and the count of pages shown is that of the pages selected (adj_mem()   *)
(* and its callers).                                                       *)
THEOREM SelectionAlwaysKept ==
  ASSUME SafeOps, MapsInOrder, MapsOfPages, LimitsOfPages
  PROVE  Spec => []SelectionKept
<1>1. Spec => []OnlySelectedMemory
  BY MemoryAlwaysRight, PTL
<1>2. Init => SelectionSound
  BY DEF Init, SelectionSound
<1>3. TypeInv /\ SelectionSound /\ [Next]_vars => SelectionSound'
  BY SelectionStep
<1>4. Spec => []SelectedPagesCounted
  BY <1>2, <1>3, InitType, NextType, SelectionImplies, PTL DEF Spec
<1>5. OnlySelectedMemory /\ SelectedPagesCounted => SelectionKept
  BY DEF SelectionKept
<1> QED BY <1>1, <1>4, <1>5, PTL

-----------------------------------------------------------------------------
(* The required lines of a window are in the segments it is opened with.   *)
LEMMA RequiredLine ==
  ASSUME TypeInv, NEW line \in Required
  PROVE  /\ line \in Nat /\ PageOfLine(line) \in Nat
         /\ PageOfLine(line) * PageLines <= line
         /\ line <= PageOfLine(line) * PageLines + PageLines - 1
         /\ PageOfLine(line) \in Selected
         /\ line >= UsbFloor /\ ~IsTail(line)
         /\ pae \/ PageOfLine(line) < 2 * WindowPages
         /\ RoomForHighCopy \/ PageOfLine(line) >= win0_start
<1>1. PICK page \in Selected : line \in page * PageLines .. page * PageLines + PageLines - 1
  BY DEF Required
<1>2. page \in Nat
  <2>1. pmap \in Seq([start : Nat, end : Nat])
    BY DEF TypeInv, TypeOK, MemoryTypes
  <2>2. PICK k \in DOMAIN pmap : page \in pmap[k].start .. pmap[k].end - 1
    BY DEF Selected, SelectedPages
  <2>3. k \in 1 .. Len(pmap)
    BY <2>1
  <2>4. pmap[k] \in [start : Nat, end : Nat]
    BY <2>1, <2>3, ElementOfSeq
  <2>5. pmap[k].start \in Nat /\ pmap[k].end \in Nat
    BY <2>4
  <2> QED BY <2>2, <2>5
<1>3. /\ page * PageLines \in Nat /\ (page + 1) * PageLines = page * PageLines + PageLines
      /\ page + 1 \in Nat
  BY <1>2
<1>4. /\ line \in Nat /\ page * PageLines <= line /\ line < (page + 1) * PageLines
      /\ line <= page * PageLines + PageLines - 1
  BY <1>1, <1>3
<1>5. PageOfLine(line) = page
  <2>1. /\ PageOfLine(line) \in Nat /\ page <= PageOfLine(line) /\ PageOfLine(line) < page + 1
    BY <1>2, <1>3, <1>4, PageBetween
  <2> QED BY <1>2, <2>1
<1>6. /\ line >= UsbFloor /\ ~IsTail(line)
      /\ pae \/ PageOfLine(line) < 2 * WindowPages
      /\ RoomForHighCopy \/ PageOfLine(line) >= win0_start
  BY DEF Required
<1> QED BY <1>2, <1>4, <1>5, <1>6

LEMMA OntoSlice ==
  ASSUME NEW first \in Nat, NEW last \in Nat, first < last,
         NEW mw \in Nat \ {0}, Together(first, last, mw),
         NEW line \in Nat, first * PageLines <= line, line < last * PageLines - 1
  PROVE  \E x \in mapping(first) .. emapping(last) - 1 : page_of(x, mw) = line
<1> DEFINE W == WindowPages * PageLines
           K == mw * WindowPages * PageLines
           A == first * PageLines
           Z == last * PageLines
<1>1. /\ W \in Nat /\ K \in Nat /\ A \in Nat /\ Z \in Nat
      /\ (last - 1) * PageLines = Z - PageLines
  <2>1. (last - 1) * PageLines = Z - PageLines /\ Z \in Nat /\ A \in Nat
    OBVIOUS
  <2>2. mw * WindowPages \in Nat
    OBVIOUS
  <2> QED BY <2>1, <2>2
<1>2. CASE last <= WindowPages
  <2>1. mapping(first) = A /\ emapping(last) = Z - 1
    BY <1>1, <1>2 DEF mapping, emapping
  <2>2. Z <= W
    BY <1>2, ProductMonotone
  <2>3. A <= line /\ line < Z - 1
    OBVIOUS
  <2> HIDE DEF W, K, A, Z
  <2>4. line \in A .. Z - 1 - 1 /\ line < W
    BY <1>1, <2>2, <2>3
  <2>5. page_of(line, mw) = line
    BY <2>4 DEF page_of, W
  <2> QED BY <2>1, <2>4, <2>5
<1>3. CASE mw * WindowPages <= first /\ last <= (mw + 1) * WindowPages
  <2>1. mapping(first) = A - K + W
    <3>1. (mw + 1) * WindowPages \in Nat
      OBVIOUS
    <3>2. mw * WindowPages <= first /\ first < (mw + 1) * WindowPages
      BY <1>3, <3>1
    <3> QED BY <3>2, SliceMapping
  <2>2. mapping(last - 1) = (Z - PageLines) - K + W
    <3>1. last - 1 \in Nat /\ mw * WindowPages <= last - 1 /\ last - 1 < (mw + 1) * WindowPages
      BY <1>3
    <3> QED BY <1>1, <3>1, SliceMapping
  <2>3. K <= A
    <3>1. mw * WindowPages \in Nat
      OBVIOUS
    <3> QED BY <1>3, <3>1, ProductMonotone
  <2>4. A <= line /\ line < Z - 1
    OBVIOUS
  <2> HIDE DEF W, K, A, Z
  <2>5. emapping(last) = Z - K + W - 1
    BY <1>1, <2>2 DEF emapping
  <2> DEFINE x == line - K + W
  <2>6. x \in A - K + W .. Z - K + W - 1 - 1 /\ x \in Nat /\ ~(x < W)
    BY <1>1, <2>3, <2>4
  <2>7. page_of(x, mw) = line
    <3>1. x - W + K = line
      BY <1>1
    <3> HIDE DEF x
    <3>2. page_of(x, mw) = x - W + K
      BY <2>6 DEF page_of, W, K
    <3> QED BY <3>1, <3>2
  <2> HIDE DEF x
  <2>8. x \in mapping(first) .. emapping(last) - 1
    BY <1>1, <2>1, <2>5, <2>6
  <2> QED BY <2>7, <2>8
<1> QED BY <1>2, <1>3 DEF Together

(* What OpenWindow makes of the segments.                                  *)
LEMMA OpenMap ==
  ASSUME OpenWindow, NEW m, m = Segs(window, pmap, plim_lower, plim_upper)
  PROVE  /\ DOMAIN map' = DOMAIN m
         /\ \A i \in DOMAIN m :
              /\ map'[i].pbase_addr = OpenClip(i).start
              /\ map'[i].end = emapping(OpenClip(i).end)
              /\ map'[i].start =
                   IF at > Low /\ IsFirst(m, i)
                   THEN IF mapping(plim_lower) < UsbFloor THEN UsbFloor ELSE mapping(plim_lower)
                   ELSE mapping(OpenClip(i).start)
<1>1. map' = IF at > Low THEN FromLowerLimit(m) ELSE m
  BY DEF OpenWindow
<1>2. DOMAIN map' = DOMAIN m
  BY <1>1 DEF FromLowerLimit
<1> SUFFICES ASSUME NEW i \in DOMAIN m
             PROVE  /\ map'[i].pbase_addr = OpenClip(i).start
                    /\ map'[i].end = emapping(OpenClip(i).end)
                    /\ map'[i].start =
                         IF at > Low /\ IsFirst(m, i)
                         THEN IF mapping(plim_lower) < UsbFloor THEN UsbFloor
                              ELSE mapping(plim_lower)
                         ELSE mapping(OpenClip(i).start)
  BY <1>2
<1>3. m[i] = [pbase_addr |-> OpenClip(i).start, start |-> mapping(OpenClip(i).start),
              end |-> emapping(OpenClip(i).end)]
  BY DEF Segs, compute_segments, OpenClip
<1>4. CASE at > Low /\ IsFirst(m, i)
  <2>1. map'[i] = FromLowerLimit(m)[i]
    BY <1>1, <1>4
  <2>2. FromLowerLimit(m)[i] =
          [m[i] EXCEPT !.start = IF mapping(plim_lower) < UsbFloor THEN UsbFloor
                                 ELSE mapping(plim_lower)]
    BY <1>4 DEF FromLowerLimit
  <2> QED BY <1>3, <1>4, <2>1, <2>2
<1>5. CASE ~(at > Low /\ IsFirst(m, i))
  <2>1. map'[i] = m[i]
    BY <1>1, <1>5 DEF FromLowerLimit
  <2> QED BY <1>3, <1>5, <2>1
<1> QED BY <1>4, <1>5

(* A selected page of the window is in one of its segments.                *)
LEMMA PageInSegment ==
  ASSUME TypeInv, Place, Layout, firsttime,
         NEW m, m = Segs(window, pmap, plim_lower, plim_upper),
         NEW page \in Selected \cap Nat,
         Window(window, win0_start, win1_end).start <= page,
         page < Window(window, win0_start, win1_end).end
  PROVE  \E i \in DOMAIN m : /\ OpenClip(i).start <= page /\ page < OpenClip(i).end
                             /\ plim_lower <= page
<1> DEFINE w == Window(window, win0_start, win1_end)
<1>1. /\ w \in [start : Nat, end : Nat] /\ pmap \in Seq([start : Nat, end : Nat])
      /\ plim_lower \in Nat /\ plim_upper \in Nat
  BY OpenTypes
<1>2. \A k : OpenClip(k) = Clip(pmap[k], w, plim_lower, plim_upper)
  BY DEF OpenClip
<1>3. \A k \in DOMAIN pmap : OpenClip(k).start < OpenClip(k).end <=> k \in DOMAIN m
  BY <1>2 DEF Segs, compute_segments
<1>4. w.start <= page /\ page < w.end
  OBVIOUS
<1> HIDE DEF w
<1>5. PICK k \in DOMAIN pmap :
        /\ page \in pmap[k].start .. pmap[k].end - 1
        /\ plim_lower <= page /\ page < plim_upper
  BY DEF Selected, SelectedPages
<1>6. pmap[k] \in [start : Nat, end : Nat]
  <2>1. DOMAIN pmap = 1 .. Len(pmap)
    BY <1>1
  <2>2. k \in 1 .. Len(pmap)
    BY <1>5, <2>1
  <2> QED BY <1>1, <2>2, ElementOfSeq
<1>7. pmap[k].start \in Nat /\ pmap[k].end \in Nat
  BY <1>6
<1>8. page \in Nat /\ pmap[k].start <= page /\ page < pmap[k].end
  BY <1>5, <1>7
<1>9. OpenClip(k).start <= page /\ page < OpenClip(k).end
  BY <1>1, <1>2, <1>4, <1>5, <1>6, <1>8, ClipExact
<1>10. OpenClip(k).start \in Nat /\ OpenClip(k).end \in Nat
  <2>1. /\ pmap[k].start \in Nat /\ pmap[k].end \in Nat /\ w.start \in Nat /\ w.end \in Nat
        /\ plim_lower \in Nat /\ plim_upper \in Nat
    BY <1>1, <1>7
  <2> QED BY <1>2, <2>1 DEF Clip
<1>11. k \in DOMAIN m
  BY <1>3, <1>8, <1>9, <1>10
<1> QED BY <1>5, <1>9, <1>11

(* Rounding down to a page.                                                *)
LEMMA LastLineOfPage ==
  ASSUME NEW page \in Nat, NEW last \in Nat, NEW line \in Nat,
         page * PageLines <= line, line <= page * PageLines + PageLines - 1,
         page < last, ~(line < last * PageLines - 1)
  PROVE  last = page + 1 /\ line = last * PageLines - 1
<1>1. /\ page * PageLines \in Nat /\ (page + 1) * PageLines = page * PageLines + PageLines
      /\ last * PageLines \in Nat
  OBVIOUS
<1>2. last <= page + 1
  <2> SUFFICES ASSUME page + 2 <= last PROVE FALSE
    OBVIOUS
  <2>1. (page + 2) * PageLines <= last * PageLines
    BY ProductMonotone
  <2>2. (page + 2) * PageLines = page * PageLines + PageLines + PageLines
    OBVIOUS
  <2> QED BY <1>1, <2>1, <2>2
<1>3. last = page + 1
  BY <1>2
<1> QED BY <1>1, <1>3

LEMMA ClipEnd ==
  ASSUME NEW seg, NEW win, NEW lower, NEW upper
  PROVE  Clip(seg, win, lower, upper).end \in {seg.end, win.end, upper}
BY DEF Clip

LEMMA LowCopyBelowHigh ==
  ASSUME Place, Sized, firsttime
  PROVE  win0_start \in Nat /\ win0_start < high_test_adr
<1>1. /\ Low \in Nat /\ ImageLen \in Nat /\ high_test_adr \in Nat
      /\ high_test_adr * PageLines \in Nat
      /\ Low + ImageLen + PageLines <= high_test_adr * PageLines
  <2>1. /\ Low \in Nat /\ ImageLen \in Nat /\ HighBoot \in Nat /\ HighBig \in Nat
        /\ Low + ImageLen + PageLines <= HighBoot * PageLines
        /\ HighBoot * PageLines <= HighBig * PageLines
    BY ImageAssumption
  <2>2. /\ HighBoot * PageLines \in Nat /\ HighBig * PageLines \in Nat
    BY <2>1
  <2>3. CASE high_test_adr = HighBoot
    BY <2>1, <2>2, <2>3
  <2>4. CASE high_test_adr = HighBig
    BY <2>1, <2>2, <2>4
  <2> QED BY <2>3, <2>4 DEF Place
<1> DEFINE n == Low + ImageLen
<1>2. n \in Nat /\ n + PageLines <= high_test_adr * PageLines
  BY <1>1
<1>3. win0_start = (n + PageLines - 1) \div PageLines
  BY DEF Sized
<1> HIDE DEF n
<1>4. n + PageLines - 1 \in Nat /\ n + PageLines - 1 < high_test_adr * PageLines
  BY <1>1, <1>2
<1> QED BY <1>1, <1>3, <1>4, RoundDown

LEMMA OpenCovers ==
  ASSUME TypeInv, Place, Layout, Sized, OpenWindow,
         NEW line \in Required, InWindow(line, window)
  PROVE  \/ window = 1 /\ InWindow(line, 0)
         \/ \E i \in DOMAIN map' : line \in Lines(map[i])'
<1> DEFINE m == Segs(window, pmap, plim_lower, plim_upper)
           w == Window(window, win0_start, win1_end)
           page == PageOfLine(line)
           mw == mapped_window'
<1>0. firsttime
  BY DEF OpenWindow, Arrived
<1>1. /\ line \in Nat /\ page \in Nat /\ page * PageLines <= line
      /\ line <= page * PageLines + PageLines - 1
      /\ page \in Selected /\ line >= UsbFloor /\ ~IsTail(line)
  BY RequiredLine
<1>2. w.start <= page /\ page < w.end
  BY DEF InWindow
<1>3. PICK i \in DOMAIN m : /\ OpenClip(i).start <= page /\ page < OpenClip(i).end
                            /\ plim_lower <= page
  BY <1>0, <1>1, <1>2, PageInSegment
<1> DEFINE first == OpenClip(i).start
           last  == OpenClip(i).end
<1>4. /\ i \in DOMAIN pmap /\ first \in Nat /\ last \in Nat /\ first < last /\ last <= w.end
      /\ w \in [start : Nat, end : Nat] /\ plim_lower \in Nat
      /\ window \in 0 .. NumWindows - 1 /\ win0_start \in Nat
  BY <1>0, OpenSegment, OpenTypes
<1>5. mw \in Nat \ {0} /\ Together(first, last, mw)
  BY OpenTogether
<1>6. /\ DOMAIN map' = DOMAIN m /\ map'[i].end = emapping(last)
      /\ map'[i].start =
           IF at > Low /\ IsFirst(m, i)
           THEN IF mapping(plim_lower) < UsbFloor THEN UsbFloor ELSE mapping(plim_lower)
           ELSE mapping(first)
  BY OpenMap
<1>7. Lines(map[i])' = {page_of(x, mw) : x \in map'[i].start .. map'[i].end - 1}
  BY DEF Lines
<1>8. first * PageLines <= line
  <2> HIDE DEF first, page
  <2>1. first * PageLines <= page * PageLines
    BY <1>1, <1>3, <1>4, ProductMonotone DEF first, page
  <2>2. first * PageLines \in Nat /\ page * PageLines \in Nat
    BY <1>1, <1>4
  <2> QED BY <1>1, <2>1, <2>2
<1>9. last \in {pmap[i].end, w.end, plim_upper}
  BY ClipEnd DEF OpenClip
<1>10. CASE ~(line < last * PageLines - 1)
  <2>1. last = page + 1 /\ line = last * PageLines - 1
    <3> HIDE DEF last, page
    <3>1. page < last
      BY <1>3 DEF last, page
    <3> QED BY <1>1, <1>4, <1>10, <3>1, LastLineOfPage
  <2>2. last % WindowPages # 0 /\ last # plim_upper /\ last # pmap[i].end
    <3>1. ~(page + 1) % WindowPages = 0 /\ page + 1 # plim_upper
          /\ ~(\E k \in DOMAIN pmap : page + 1 = pmap[k].end)
      <4>1. line = (page + 1) * PageLines - 1
        BY <2>1
      <4> QED BY <1>1, <4>1 DEF IsTail
    <3> QED BY <1>4, <2>1, <3>1
  <2>3. last = w.end
    BY <1>9, <2>2
  <2>4. w.end % WindowPages # 0
    BY <2>2, <2>3
  <2>5. window = 1
    <3>1. \A n \in Nat : (n * WindowPages) % WindowPages = 0 /\ WindowPages % WindowPages = 0
      OBVIOUS
    <3>2. w.end = WindowPages \/ w.end = window * WindowPages \/ window = 1
      BY DEF Window
    <3> QED BY <1>4, <2>4, <3>1, <3>2
  <2>6. w.end = high_test_adr /\ high_test_adr <= WindowPages
    <3>1. w.end = high_test_adr
      BY <1>0, <2>5 DEF Window, Layout
    <3> QED BY <3>1, HighBelowWindow DEF Place
  <2>7. win0_start \in Nat /\ win0_start < high_test_adr /\ high_test_adr \in Nat
    BY <1>0, LowCopyBelowHigh, CopiesApart DEF Place
  <2>8. win0_start <= page /\ page < WindowPages
    <3> HIDE DEF page, last, w
    <3> QED BY <1>1, <2>1, <2>3, <2>6, <2>7
  <2> QED BY <2>5, <2>8 DEF InWindow, Window
<1>11. CASE line < last * PageLines - 1
  <2>1. CASE ~(at > Low /\ IsFirst(m, i))
    <3>1. \E x \in mapping(first) .. emapping(last) - 1 : page_of(x, mw) = line
      <4> HIDE DEF first, last, mw
      <4> QED BY <1>1, <1>4, <1>5, <1>8, <1>11, OntoSlice
    <3> QED BY <1>6, <1>7, <2>1, <3>1
  <2>2. CASE at > Low /\ IsFirst(m, i)
    <3>1. window = 1
      <4>1. at \in Nat /\ Low \in Nat
        BY PlainConstants DEF TypeInv, TypeOK, PlaceTypes
      <4> QED BY <1>0, <2>2, <4>1 DEF Layout, OpenWindow, Arrived
    <3>2. last <= WindowPages
      <4>1. w.end <= WindowPages /\ w.end \in Nat
        BY <1>0, <1>4, <3>1, OpenTypes
      <4> HIDE DEF w, last
      <4> QED BY <1>4, <4>1
    <3>3. last * PageLines \in Nat /\ last * PageLines <= WindowPages * PageLines
          /\ WindowPages * PageLines \in Nat
      BY <1>4, <3>2, ProductMonotone
    <3>4. emapping(last) = last * PageLines - 1
      <4> HIDE DEF last, first
      <4>1. last - 1 < WindowPages
        BY <1>4, <3>2
      <4>2. (last - 1) * PageLines = last * PageLines - PageLines
        BY <1>4
      <4> QED BY <1>4, <3>3, <4>1, <4>2 DEF mapping, emapping
    <3>5. page_of(line, mw) = line
      <4> HIDE DEF last
      <4>1. line < WindowPages * PageLines
        BY <1>1, <1>11, <3>3
      <4> QED BY <4>1 DEF page_of
    <3>6. mapping(plim_lower) <= line
      <4> HIDE DEF last, page, w
      <4>1. plim_lower <= page /\ page < WindowPages
        BY <1>1, <1>3, <1>4, <3>2 DEF last, page
      <4>2. mapping(plim_lower) = plim_lower * PageLines
        BY <1>1, <1>4, <4>1 DEF mapping
      <4>3. plim_lower * PageLines <= page * PageLines /\ plim_lower * PageLines \in Nat
            /\ page * PageLines \in Nat
        BY <1>1, <1>4, <4>1, ProductMonotone
      <4> QED BY <1>1, <4>2, <4>3
    <3>7. mapping(plim_lower) \in Nat /\ UsbFloor \in Nat
      BY <1>4, MappingType, ImageAssumption
    <3>8. line \in map'[i].start .. map'[i].end - 1
      <4> HIDE DEF last, first
      <4>1. map'[i].start \in Nat /\ map'[i].start <= line
        BY <1>1, <1>6, <2>2, <3>6, <3>7
      <4>2. map'[i].end - 1 = last * PageLines - 1 - 1
        BY <1>6, <3>4
      <4> QED BY <1>1, <1>11, <3>3, <4>1, <4>2
    <3> QED BY <1>6, <1>7, <3>5, <3>8
  <2> QED BY <2>1, <2>2
<1> QED BY <1>10, <1>11

-----------------------------------------------------------------------------
(* The coverage of a test.                                                 *)
LEMMA RequiredSame ==
  ASSUME UNCHANGED <<pmap, plim_lower, plim_upper, pae, win0_start>>
  PROVE  Required' = Required
BY DEF Required, Selected, IsTail, RoomForHighCopy, FreshHigh, SelectedPages

LEMMA DueSame ==
  ASSUME UNCHANGED <<pmap, plim_lower, plim_upper, pae, win0_start, win1_end>>, NEW n
  PROVE  Due(n)' = Due(n)
<1>1. Required' = Required
  BY RequiredSame
<1>2. \A line, win : InWindow(line, win)' <=> InWindow(line, win)
  BY DEF InWindow
<1> QED BY <1>1, <1>2 DEF Due

LEMMA DueNext ==
  ASSUME NEW n \in Nat
  PROVE  /\ Due(0) = {}
         /\ Due(n) \subseteq Due(n + 1)
         /\ \A line \in Due(n + 1) : line \in Due(n) \/ InWindow(line, n)
<1>1. 0 .. (0 - 1) = {} /\ 0 .. n - 1 \subseteq 0 .. (n + 1) - 1
      /\ \A win \in 0 .. (n + 1) - 1 : win \in 0 .. n - 1 \/ win = n
  OBVIOUS
<1> QED BY <1>1 DEF Due

(* The second window, that of the high copy, adds nothing when there is no *)
(* room for the copy.                                                      *)
LEMMA NoHighCopy ==
  ASSUME TypeInv, Place, Layout, Sized, firsttime, ~HighCopyFits
  PROVE  Due(2) \subseteq Due(1)
<1>1. ~RoomForHighCopy
  BY DEF HighCopyFits, RoomForHighCopy, Sized
<1> SUFFICES ASSUME NEW line \in Due(2) PROVE line \in Due(1)
  OBVIOUS
<1>2. line \in Required /\ (line \in Due(1) \/ InWindow(line, 1))
  BY DueNext DEF Due
<1>3. CASE InWindow(line, 1)
  <2>1. PageOfLine(line) \in Nat /\ PageOfLine(line) >= win0_start
    BY <1>1, <1>2, RequiredLine
  <2>2. PageOfLine(line) < high_test_adr
    BY <1>3 DEF InWindow, Window, Layout
  <2>3. high_test_adr <= WindowPages /\ high_test_adr \in Nat
    BY HighBelowWindow, CopiesApart DEF Place
  <2>4. InWindow(line, 0)
    <3>1. win0_start \in Nat
      BY OpenTypes
    <3>2. PageOfLine(line) < WindowPages /\ win0_start <= PageOfLine(line)
      BY <2>1, <2>2, <2>3, <3>1
    <3> QED BY <3>2 DEF InWindow, Window
  <2> QED BY <1>2, <2>4 DEF Due
<1> QED BY <1>2, <1>3

(* A window that is passed over holds nothing that is required.            *)
LEMMA PassedOver ==
  ASSUME TypeInv, Place, Layout, Sized, PassOver
  PROVE  Due(window + 1) \subseteq Due(window)
<1> DEFINE m == Segs(window, pmap, plim_lower, plim_upper)
           w == Window(window, win0_start, win1_end)
<1>0. firsttime /\ pc = "enter"
  BY DEF PassOver, Arrived
<1>1. /\ window \in 0 .. NumWindows - 1 /\ w \in [start : Nat, end : Nat]
      /\ pmap \in Seq([start : Nat, end : Nat])
  BY <1>0, OpenTypes
<1> SUFFICES ASSUME NEW line \in Due(window + 1), line \notin Due(window) PROVE FALSE
  OBVIOUS
<1>2. line \in Required /\ InWindow(line, window)
  BY <1>1, DueNext DEF Due
<1>3. /\ PageOfLine(line) \in Nat /\ PageOfLine(line) \in Selected
      /\ pae \/ PageOfLine(line) < 2 * WindowPages
  BY <1>2, RequiredLine
<1>4. w.start <= PageOfLine(line) /\ PageOfLine(line) < w.end
  BY <1>2 DEF InWindow
<1>5. DOMAIN m # {}
  BY <1>0, <1>3, <1>4, PageInSegment
<1>6. DOMAIN m \subseteq DOMAIN pmap
  BY CurrentSegs DEF SegmentsOf
<1>7. PICK f \in DOMAIN m : IsFirst(m, f)
  <2> HIDE DEF m
  <2> QED BY <1>1, <1>5, <1>6, FirstExists
<1>8. CannotMap(m[f].pbase_addr)
  BY <1>7 DEF PassOver
<1> DEFINE first == OpenClip(f).start
           last  == OpenClip(f).end
<1>9. /\ first \in Nat /\ last \in Nat /\ first < last /\ w.start <= first /\ last <= w.end
      /\ m[f].pbase_addr = first
  BY <1>0, OpenSegment
<1>10. CannotMap(first)
  BY <1>8, <1>9
<1>11. CASE window \in {0, 1}
  <2>1. w.end <= WindowPages /\ w.end \in Nat
    BY SMTT(30), <1>0, <1>1, <1>11, OpenTypes DEF Window
  <2> HIDE DEF first, last, w
  <2>2. first < WindowPages
    BY <1>9, <2>1
  <2>3. first \div WindowPages = 0
    BY <1>9, <2>2
  <2> QED BY <1>10, <2>3 DEF CannotMap, Slice
<1>12. CASE window \notin {0, 1}
  <2> DEFINE k == window - 1
  <2>1. k \in Nat \ {0} /\ window = k + 1 /\ k < NumWindows - 1
    BY <1>1, <1>12
  <2>2. w.start = k * WindowPages /\ w.end = (k + 1) * WindowPages
    BY <1>12, <2>1 DEF Window
  <2> HIDE DEF w, k, first, last
  <2>3. k * WindowPages \in Nat /\ (k + 1) * WindowPages \in Nat
    BY <2>1
  <2>4. k * WindowPages <= first /\ first < (k + 1) * WindowPages
    BY <1>9, <2>2, <2>3
  <2>5. Slice(first) = k
    BY <1>9, <2>1, <2>4, SliceNumber DEF Slice
  <2>6. ~pae
    BY <1>10, <2>1, <2>5 DEF CannotMap
  <2>7. mapped_window = 1 /\ k # 1
    BY <1>10, <2>5, <2>6 DEF CannotMap, Sized
  <2>8. 2 * WindowPages <= k * WindowPages
    <3>1. 2 <= k
      BY <2>1, <2>7
    <3> QED BY <2>1, <3>1, ProductMonotone
  <2>9. 2 * WindowPages \in Nat
    OBVIOUS
  <2> QED BY <1>3, <1>4, <2>2, <2>3, <2>6, <2>8, <2>9
<1> QED BY <1>11, <1>12

(* The windows together hold everything that is required.                  *)
LEMMA AllDue ==
  ASSUME MapsInReach, TypeInv, Place, Layout, Sized, firsttime
  PROVE  Required \subseteq Due(NumWindows)
<1> SUFFICES ASSUME NEW line \in Required
             PROVE  \E win \in 0 .. NumWindows - 1 : InWindow(line, win)
  BY DEF Due
<1> DEFINE page == PageOfLine(line)
<1>1. page \in Nat /\ page \in Selected /\ (RoomForHighCopy \/ page >= win0_start)
  BY RequiredLine
<1>2. NumWindows \in Nat /\ 2 <= NumWindows
  OBVIOUS
<1>3. page < (NumWindows - 1) * WindowPages
  <2>1. PICK k \in DOMAIN pmap : page \in pmap[k].start .. pmap[k].end - 1
    BY <1>1 DEF Selected, SelectedPages
  <2>2. pmap \in Seq([start : Nat, end : Nat])
    BY DEF TypeInv, TypeOK, MemoryTypes
  <2>3. k \in 1 .. Len(pmap)
    BY <2>2
  <2>4. pmap[k] \in [start : Nat, end : Nat]
    BY <2>2, <2>3, ElementOfSeq
  <2>5. pmap[k].start \in Nat /\ pmap[k].end \in Nat
    BY <2>4
  <2>6. pmap[k].end <= (NumWindows - 1) * WindowPages
    <3>1. machine \in Machines
      BY DEF TypeInv, TypeOK, MemoryTypes
    <3>2. PICK n \in Modes : pmap = machine[n]
      BY DEF Sized
    <3> QED BY <3>1, <3>2 DEF MapsInReach
  <2>7. (NumWindows - 1) * WindowPages \in Nat
    BY <1>2
  <2> HIDE DEF page
  <2> QED BY <1>1, <2>1, <2>5, <2>6, <2>7
<1>4. CASE page >= WindowPages
  <2> DEFINE k == page \div WindowPages
  <2>1. k \in Nat /\ k * WindowPages <= page /\ page < (k + 1) * WindowPages /\ k # 0
    <3> HIDE DEF page
    <3> QED BY <1>1, <1>4
  <2> HIDE DEF k, page
  <2>2. k < NumWindows - 1
    <3> SUFFICES ASSUME NumWindows - 1 <= k PROVE FALSE
      BY <1>2, <2>1
    <3>1. (NumWindows - 1) * WindowPages <= k * WindowPages
      BY <1>2, <2>1, ProductMonotone
    <3>2. (NumWindows - 1) * WindowPages \in Nat /\ k * WindowPages \in Nat
      BY <1>2, <2>1
    <3> QED BY <1>1, <1>3, <2>1, <3>1, <3>2
  <2>3. k + 1 \in 0 .. NumWindows - 1 /\ k + 1 \notin {0, 1} /\ (k + 1) - 1 = k
    BY <1>2, <2>1, <2>2
  <2>4. InWindow(line, k + 1)
    BY <2>1, <2>3 DEF InWindow, Window, page
  <2> QED BY <2>3, <2>4
<1>5. CASE page < WindowPages /\ page >= win0_start
  <2>1. win0_start \in Nat
    BY OpenTypes
  <2>2. InWindow(line, 0)
    BY <1>1, <1>5, <2>1 DEF InWindow, Window
  <2> QED BY <1>2, <2>2
<1>6. CASE page < win0_start
  <2>1. win0_start \in Nat /\ win0_start < high_test_adr /\ high_test_adr \in Nat
    BY LowCopyBelowHigh, CopiesApart DEF Place
  <2>2. page < high_test_adr
    <3> HIDE DEF page
    <3> QED BY <1>1, <1>6, <2>1
  <2>3. InWindow(line, 1)
    BY <1>1, <2>2 DEF InWindow, Window, Layout
  <2> QED BY <1>2, <2>3
<1> QED
  <2>1. win0_start \in Nat
    BY OpenTypes
  <2> HIDE DEF page
  <2> QED BY <1>1, <1>4, <1>5, <1>6, <2>1

LEMMA DueUnchanged ==
  ASSUME UNCHANGED <<pmap, plim_lower, plim_upper, pae, win0_start, win1_end, window>>
  PROVE  Due(window)' = Due(window) /\ Due(window + 1)' = Due(window + 1)
<1>1. Required' = Required
  BY RequiredSame
<1>2. \A line, win : InWindow(line, win)' <=> InWindow(line, win)
  BY DEF InWindow
<1> QED BY <1>1, <1>2 DEF Due

(* The loops of the test stand where they stood.                           *)
LEMMA CoveredKept ==
  ASSUME CoveredSoFar, firsttime' => firsttime,
         UNCHANGED <<pmap, plim_lower, plim_upper, pae, win0_start, win1_end, window, map,
                     mapped_window, phase, covered, test, testsel>>,
         NextSegment' = NextSegment, pc' = "enter" => pc = "enter", pc' = "next" => pc = "next",
         (Testing /\ ~bail)' => Testing /\ ~bail
  PROVE  CoveredSoFar'
<1>1. Due(window)' = Due(window) /\ Due(window + 1)' = Due(window + 1)
  BY DueUnchanged
<1>2. Number' = Number /\ covered' = covered /\ (Mapped' <=> Mapped)
  BY <1>1 DEF Number, Mapped, Lines
<1>3. BetweenWindows'
  BY <1>1, <1>2 DEF CoveredSoFar, BetweenWindows
<1>4. \A p, i : Gone(p, i)' <=> Gone(p, i)
  BY DEF Gone
<1>5. WithinWindow'
  BY <1>1, <1>2, <1>4 DEF CoveredSoFar, WithinWindow, Lines
<1> QED BY <1>3, <1>5 DEF CoveredSoFar

(* The test has been told to give up, or is over, or has not started.      *)
LEMMA CoveredOtherwise ==
  ASSUME pc' \in {"close", "input", "ending"} \/ (pc' = "menu" /\ (ret' = "ending" \/ bail' = TRUE))
         \/ (pc' = "enter" /\ (~firsttime' \/ window' = 0))
  PROVE  CoveredSoFar'
<1>1. WithinWindow'
  BY DEF WithinWindow, Testing
<1>2. CASE pc' = "enter" /\ window' = 0
  <2>1. Due(0)' = {}
    <3>1. 0 .. (0 - 1) = {}
      OBVIOUS
    <3> QED BY <3>1 DEF Due
  <2>2. Due(window)' = {}
    BY <1>2, <2>1 DEF Due
  <2>3. BetweenWindows'
    BY <1>2, <2>2 DEF BetweenWindows
  <2> QED BY <1>1, <2>3 DEF CoveredSoFar
<1>3. CASE ~(pc' = "enter" /\ window' = 0)
  <2>1. BetweenWindows'
    BY <1>3 DEF BetweenWindows
  <2> QED BY <1>1, <2>1 DEF CoveredSoFar
<1> QED BY <1>2, <1>3

(* A window is passed over.                                                *)
LEMMA CoveredPassOver ==
  ASSUME TypeInv, Place, Layout, Sized, CoveredSoFar, PassOver
  PROVE  CoveredSoFar'
<1>1. /\ pc = "enter" /\ pc' = "next" /\ firsttime
      /\ UNCHANGED <<pmap, plim_lower, plim_upper, pae, win0_start, win1_end, window,
                     covered, test, testsel>>
  BY DEF PassOver, Arrived, layout, hardware, memory, counters, history
<1>2. Due(window + 1)' = Due(window + 1) /\ Due(window + 1) \subseteq Due(window)
  BY <1>1, DueUnchanged, PassedOver
<1>3. Number' = Number
  BY <1>1 DEF Number
<1>4. BetweenWindows'
  BY <1>1, <1>2, <1>3 DEF CoveredSoFar, BetweenWindows
<1>5. WithinWindow'
  BY <1>1 DEF WithinWindow, Testing
<1> QED BY <1>4, <1>5 DEF CoveredSoFar

(* A window is opened: the test begins with it, or goes on with it.        *)
LEMMA CoveredOpenWindow ==
  ASSUME TypeInv, Place, Layout, Sized, CoveredSoFar, OpenWindow
  PROVE  CoveredSoFar'
<1>1. /\ pc = "enter" /\ firsttime /\ phase' = 0 /\ j' = 0
      /\ test' = Number
      /\ UNCHANGED <<pmap, plim_lower, plim_upper, pae, win0_start, win1_end, window,
                     covered, testsel, firsttime>>
      /\ pc' \in CASE test' \in 0 .. LastTest - 1 -> {"test"}
                   [] test' = LastTest -> {IF window = 0 THEN "test" ELSE "next"}
                   [] OTHER -> {"test", "next"}
  BY DEF OpenWindow, Arrived, Number, layout, hardware, memory, history
<1>2. /\ Due(window)' = Due(window) /\ Due(window + 1)' = Due(window + 1)
      /\ \A line : InWindow(line, 0)' <=> InWindow(line, 0)
  BY <1>1, DueUnchanged DEF InWindow
<1>3. Number' = Number
  BY <1>1 DEF Number
<1>4. pc' \in {"test", "next"} /\ (test' \in Defaults => pc' = "test")
  BY <1>1 DEF Defaults
<1>5. BetweenWindows'
  BY <1>1, <1>3, <1>4 DEF BetweenWindows
<1>6. CASE test' \in Defaults
  <2>1. \A p \in DOMAIN covered : Due(window) \subseteq covered[p]
    <3>1. Number \in Defaults /\ firsttime /\ pc = "enter"
      BY <1>1, <1>6
    <3> QED BY <3>1 DEF CoveredSoFar, BetweenWindows
  <2>2. Mapped'
    <3> SUFFICES ASSUME NEW line \in Due(window + 1), line \notin Due(window)
                 PROVE  \E i \in DOMAIN map' : line \in Lines(map[i])'
      BY <1>2 DEF Mapped
    <3>1. window \in Nat
      BY <1>1, OpenTypes
    <3>2. line \in Required /\ InWindow(line, window)
      BY <3>1, DueNext DEF Due
    <3>3. window = 1 => ~InWindow(line, 0)
      BY <3>2 DEF Due
    <3> QED BY <3>2, <3>3, OpenCovers
  <2>3. \A p \in DOMAIN covered : \A i \in DOMAIN map' : ~Gone(p, i)'
    <3>1. \A p \in DOMAIN covered : p \in Nat
      BY DEF TypeInv, TypeOK, HistoryTypes
    <3>2. \A i \in DOMAIN map' : Position(map', i) \in Nat
      <4>1. TypeInv'
        BY NextType DEF Next, Program
      <4>2. pmap' \in Seq([start : Nat, end : Nat]) /\ DOMAIN map' \subseteq DOMAIN pmap'
        BY <4>1 DEF TypeInv, TypeOK, MemoryTypes
      <4> QED BY <4>2, Positions
    <3> QED BY <1>1, <1>4, <1>6, <3>1, <3>2 DEF Gone, NextSegment
  <2>4. WithinWindow'
    BY <1>1, <1>2, <1>3, <2>1, <2>2, <2>3 DEF WithinWindow
  <2> QED BY <1>5, <2>4 DEF CoveredSoFar
<1>7. CASE test' \notin Defaults
  <2>1. WithinWindow'
    BY <1>1, <1>3, <1>7 DEF WithinWindow
  <2> QED BY <1>5, <2>1 DEF CoveredSoFar
<1> QED BY <1>6, <1>7

(* The next segment is gone over, in the current phase.                    *)
LEMMA CoveredTestSegment ==
  ASSUME TypeInv, Clear, CoveredSoFar, TestSegment
  PROVE  CoveredSoFar'
<1>1. /\ pc = "test" /\ pc' = "tick" /\ firsttime /\ ~bail
      /\ UNCHANGED <<pmap, plim_lower, plim_upper, pae, win0_start, win1_end, window, map,
                     mapped_window, phase, j, test, testsel, firsttime, bail>>
  BY DEF TestSegment, place, layout, hardware, memory, loops, TypeInv, Initialised, Clear
<1>2. Due(window)' = Due(window) /\ Due(window + 1)' = Due(window + 1)
  BY <1>1, DueUnchanged
<1>3. Number' = Number /\ (Mapped' <=> Mapped)
  BY <1>1, <1>2 DEF Number, Mapped, Lines
<1>4. BetweenWindows'
  BY <1>1 DEF BetweenWindows
<1>5. PICK k \in DOMAIN map : /\ Position(map, k) = j
                              /\ covered' = [covered EXCEPT ![phase] = @ \cup Lines(map[k])]
  BY DEF TestSegment
<1>6. /\ covered \in [0 .. Phases - 1 -> SUBSET Nat] /\ phase \in 0 .. Phases - 1
      /\ j \in Nat /\ pmap \in Seq([start : Nat, end : Nat]) /\ DOMAIN map \subseteq DOMAIN pmap
  <2>1. phase < Phases /\ phase \in 0 .. Phases /\ Phases \in Nat
    BY <1>1, SequenceAssumption DEF TypeInv, TypeOK, CounterTypes, Initialised, Testing
  <2>2. covered \in [0 .. Phases - 1 -> SUBSET Nat]
    BY DEF TypeInv, TypeOK, HistoryTypes
  <2> QED BY SMTT(30), <2>1, <2>2 DEF TypeInv, TypeOK, CounterTypes, MemoryTypes
<1>7. /\ DOMAIN covered' = DOMAIN covered
      /\ \A p \in DOMAIN covered : covered[p] \subseteq covered'[p]
      /\ Lines(map[k]) \subseteq covered'[phase]
  BY <1>5, <1>6
<1>8. \A i \in DOMAIN map : Position(map, i) \in Nat /\ (Position(map, i) = j => i = k)
  BY <1>5, <1>6, Positions
<1>9. ASSUME NEW p \in DOMAIN covered, NEW i \in DOMAIN map, Gone(p, i)'
      PROVE  Gone(p, i) \/ (p = phase /\ i = k)
  <2>1. p < phase \/ (p = phase /\ Position(map, i) < j + 1)
    BY <1>1, <1>9 DEF Gone, NextSegment
  <2>2. Position(map, i) < j + 1 => Position(map, i) < j \/ Position(map, i) = j
    BY <1>6, <1>8
  <2> QED BY <1>1, <1>8, <2>1, <2>2 DEF Gone, NextSegment
<1>10. WithinWindow'
  <2>1. test = Number /\ Testing
    BY <1>1 DEF CoveredSoFar, WithinWindow, Testing
  <2> SUFFICES ASSUME test \in Defaults
               PROVE  /\ Mapped
                      /\ \A p \in DOMAIN covered :
                           /\ Due(window) \subseteq covered'[p]
                           /\ \A i \in DOMAIN map : Gone(p, i)' => Lines(map[i]) \subseteq covered'[p]
    BY <1>1, <1>2, <1>3, <1>7, <2>1 DEF WithinWindow, Lines
  <2>2. /\ Mapped
        /\ \A p \in DOMAIN covered :
             /\ Due(window) \subseteq covered[p]
             /\ \A i \in DOMAIN map : Gone(p, i) => Lines(map[i]) \subseteq covered[p]
    BY <1>1, <2>1 DEF CoveredSoFar, WithinWindow
  <2>3. ASSUME NEW p \in DOMAIN covered, NEW i \in DOMAIN map, Gone(p, i)'
        PROVE  Lines(map[i]) \subseteq covered'[p]
    <3>1. CASE Gone(p, i)
      BY <1>7, <2>2, <3>1
    <3>2. CASE p = phase /\ i = k
      BY <1>7, <3>2
    <3> QED BY <1>9, <2>3, <3>1, <3>2
  <2> QED BY <1>7, <2>2, <2>3
<1> QED BY <1>4, <1>10 DEF CoveredSoFar

(* A phase ends when it has been over all of the segments, and the window  *)
(* with the last phase.                                                    *)
LEMMA CoveredEndPhase ==
  ASSUME TypeInv, Clear, CoveredSoFar, EndPhase
  PROVE  CoveredSoFar'
<1>1. /\ pc = "test" /\ firsttime /\ ~bail /\ j >= Cardinality(DOMAIN map)
      /\ phase' = phase + 1 /\ j' = 0
      /\ pc' = IF phase + 1 < Phases THEN "test" ELSE "next"
      /\ UNCHANGED <<pmap, plim_lower, plim_upper, pae, win0_start, win1_end, window, map,
                     mapped_window, covered, test, testsel, firsttime, bail>>
  BY DEF EndPhase, place, layout, hardware, memory, counters, history, TypeInv, Initialised, Clear
<1>2. Due(window)' = Due(window) /\ Due(window + 1)' = Due(window + 1)
  BY <1>1, DueUnchanged
<1>3. Number' = Number /\ (Mapped' <=> Mapped)
  BY <1>1, <1>2 DEF Number, Mapped, Lines
<1>4. /\ DOMAIN covered = 0 .. Phases - 1 /\ phase \in 0 .. Phases - 1 /\ Phases \in Nat
      /\ j \in Nat /\ pmap \in Seq([start : Nat, end : Nat]) /\ DOMAIN map \subseteq DOMAIN pmap
  <2>1. phase < Phases /\ phase \in 0 .. Phases /\ Phases \in Nat
    BY <1>1, SequenceAssumption DEF TypeInv, TypeOK, CounterTypes, Initialised, Testing
  <2>2. covered \in [0 .. Phases - 1 -> SUBSET Nat]
    BY DEF TypeInv, TypeOK, HistoryTypes
  <2> QED BY <2>1, <2>2 DEF TypeInv, TypeOK, CounterTypes, MemoryTypes
<1>5. \A i \in DOMAIN map : Position(map, i) \in Nat /\ Position(map, i) < j
  <2>1. /\ Cardinality(DOMAIN map) \in Nat
        /\ \A i \in DOMAIN map : Position(map, i) \in Nat /\ Position(map, i) < Cardinality(DOMAIN map)
    BY <1>4, Positions
  <2> QED BY <1>1, <1>4, <2>1
<1>6. test = Number /\ Testing
  BY <1>1 DEF CoveredSoFar, WithinWindow, Testing
<1>7. \A p \in DOMAIN covered : p <= phase => \A i \in DOMAIN map : Gone(p, i)
  BY <1>1, <1>4, <1>5 DEF Gone, NextSegment
<1>8. test \in Defaults =>
        /\ Mapped
        /\ \A p \in DOMAIN covered :
             /\ Due(window) \subseteq covered[p]
             /\ \A i \in DOMAIN map : Gone(p, i) => Lines(map[i]) \subseteq covered[p]
  BY <1>1, <1>6 DEF CoveredSoFar, WithinWindow
<1>9. BetweenWindows'
  <2> SUFFICES ASSUME pc' = "next", test \in Defaults, NEW p \in DOMAIN covered
               PROVE  Due(window + 1) \subseteq covered[p]
    BY <1>1, <1>2, <1>3, <1>6 DEF BetweenWindows
  <2>1. p <= phase
    BY <1>1, <1>4
  <2> QED BY <1>7, <1>8, <2>1 DEF Mapped
<1>10. ASSUME pc' = "test", NEW p \in DOMAIN covered, NEW i \in DOMAIN map, Gone(p, i)'
       PROVE  Gone(p, i)
  <2>1. p < phase + 1 \/ (p = phase + 1 /\ Position(map, i) < 0)
    BY <1>1, <1>10 DEF Gone, NextSegment
  <2>2. p <= phase
    BY <1>4, <1>5, <2>1
  <2> QED BY <1>7, <2>2
<1>11. WithinWindow'
  <2>1. CASE pc' = "test"
    BY <1>1, <1>2, <1>3, <1>6, <1>8, <1>10, <2>1 DEF WithinWindow, Lines
  <2>2. CASE pc' = "next"
    BY <2>2 DEF WithinWindow, Testing
  <2> QED BY <1>1, <2>1, <2>2
<1> QED BY <1>9, <1>11 DEF CoveredSoFar

(* The program goes on with the next window, in one of its copies, or stays*)
(* to pass over the one of the high copy.                                  *)
LEMMA CoveredRunWindow ==
  ASSUME TypeInv, Place, Layout, Sized, CoveredSoFar, RunWindow
  PROVE  CoveredSoFar'
<1>1. /\ pc = "next" /\ firsttime /\ window' = window + 1 /\ window' \in 1 .. NumWindows - 1
      /\ UNCHANGED <<pmap, plim_lower, plim_upper, pae, win0_start, win1_end,
                     covered, test, testsel, firsttime>>
      /\ pc' = "enter" \/ (pc' = "next" /\ WindowHitsCode(window') /\ ~HighCopyFits)
  <2>1. window \in 0 .. NumWindows - 1
    BY DEF TypeInv, TypeOK, PlaceTypes
  <2>2. NextWindow # 0 /\ window' = NextWindow
    BY DEF RunWindow
  <2>3. window' = window + 1 /\ window' \in 1 .. NumWindows - 1
    BY <2>1, <2>2 DEF NextWindow
  <2> QED BY <2>2, <2>3
          DEF RunWindow, run_at, layout, hardware, memory, counters, history, TypeInv, Initialised
<1>2. window \in Nat /\ 0 + 1 = 1 /\ 1 + 1 = 2
  BY DEF TypeInv, TypeOK, PlaceTypes
<1>3. \A n : Due(n)' = Due(n)
  <2> SUFFICES ASSUME NEW n PROVE Due(n)' = Due(n)
    OBVIOUS
  <2> QED BY <1>1, DueSame
<1>4. Number' = Number
  BY <1>1 DEF Number
<1>5. WithinWindow'
  BY <1>1 DEF WithinWindow, Testing
<1>6. ASSUME Number \in Defaults \/ test # Number, NEW p \in DOMAIN covered
      PROVE  Due(window + 1) \subseteq covered[p]
  BY <1>1, <1>6 DEF CoveredSoFar, BetweenWindows
<1>7. Due(window)' = Due(window + 1)
  BY <1>1, <1>3 DEF Due
<1>8. pc' = "next" => Due(window + 1)' \subseteq Due(window + 1)
  <2> SUFFICES ASSUME pc' = "next" PROVE Due(window + 1)' \subseteq Due(window + 1)
    OBVIOUS
  <2>1. window' = 1 /\ ~HighCopyFits
    <3>1. at \in {Low, HighLineNow}
      BY <1>1 DEF Place
    <3> QED BY <1>1, <3>1, OnlyTheSecondHits
  <2>2. window = 0
    BY <1>1, <1>2, <2>1
  <2>3. Due(2) \subseteq Due(1)
    BY <1>1, <2>1, NoHighCopy
  <2>4. Due(window + 1)' = Due(2)
    BY <1>2, <1>3, <2>1 DEF Due
  <2> QED BY <1>2, <2>2, <2>3, <2>4
<1>9. BetweenWindows'
  BY <1>1, <1>4, <1>6, <1>7, <1>8 DEF BetweenWindows
<1> QED BY <1>5, <1>9 DEF CoveredSoFar

LEMMA CoveredStep ==
  SafeOps /\ TypeInv /\ Place /\ Layout /\ Clear /\ Sized /\ CoveredSoFar /\ [Next]_vars
    => CoveredSoFar'
<1> SUFFICES ASSUME SafeOps, TypeInv, Place, Layout, Clear, Sized, CoveredSoFar, [Next]_vars
             PROVE  CoveredSoFar'
  OBVIOUS
<1> USE DEF place, layout, hardware, memory, counters, loops, user, history
<1>1. CASE Resume \/ ColdStart \/ Initialise
  <2>1. pc' = "enter" /\ (~firsttime' \/ window' = 0)
    BY <1>1 DEF Resume, ColdStart, restart, run_at, Initialise, Arrived, find_ticks_for_pass,
                Place
  <2> QED BY <2>1, CoveredOtherwise
<1>2. CASE PassOver
  BY <1>2, CoveredPassOver
<1>3. CASE OpenWindow
  BY <1>3, CoveredOpenWindow
<1>4. CASE TestSegment
  BY <1>4, CoveredTestSegment
<1>5. CASE EndPhase
  BY <1>5, CoveredEndPhase
<1>6. CASE NoKey
  <2>1. CASE pc = "tick"
    BY <1>6, <2>1, CoveredKept DEF NoKey, Testing, Caller, NextSegment
  <2>2. CASE pc # "tick"
    BY <1>6, <2>2, CoveredOtherwise DEF NoKey, Caller
  <2> QED BY <2>1, <2>2
<1>7. CASE Poll
  <2>1. CASE bail
    BY <1>7, <2>1, CoveredOtherwise DEF Poll
  <2>2. CASE ~bail
    BY <1>7, <2>2, CoveredKept DEF Poll, Testing, NextSegment
  <2> QED BY <2>1, <2>2
<1>8. CASE RunWindow
  BY <1>8, CoveredRunWindow
<1>9. CASE AllWindowsRun \/ CloseTest \/ EndTest
  BY <1>9, CoveredOtherwise DEF AllWindowsRun, CloseTest, EndTest, run_at
<1>10. CASE OpenMenu
  <2>1. CASE pc = "tick"
    BY <1>10, <2>1, CoveredKept DEF OpenMenu, Testing, NextSegment
  <2>2. CASE pc # "tick"
    <3>1. pc' = "menu" /\ ret' = "ending"
      BY <1>10, <2>2 DEF OpenMenu, Caller
    <3> QED BY <3>1, CoveredOtherwise
  <2> QED BY <2>1, <2>2
<1>11. CASE LeaveMenu
  <2>1. pc = "menu" /\ pc' = ret /\ ret \in {"poll", "ending"}
    BY <1>11 DEF LeaveMenu, TypeInv, TypeOK, PlaceTypes
  <2>2. CASE ret = "ending"
    BY <2>1, <2>2, CoveredOtherwise
  <2>3. CASE ret = "poll"
    BY <1>11, <2>1, <2>3, CoveredKept DEF LeaveMenu, Testing, NextSegment
  <2> QED BY <2>1, <2>2, <2>3
<1>12. ASSUME NEW op, Choose(op), InMenu, bail' = TRUE PROVE CoveredSoFar'
  BY <1>12, CoveredOtherwise DEF Choose, InMenu
<1>13. ~DefaultTests
  BY DEF DefaultTests, Choose, SafeOps
<1>14. CASE SkipTest \/ \E i \in TestInputs : SelectTest(i)
  BY <1>12, <1>14 DEF SkipTest, SelectTest
<1>15. ASSUME NEW op, Choose(op), NEW accepted, NEW lower, NEW upper,
              Limit(accepted, lower, upper)
       PROVE  CoveredSoFar'
  <2>1. accepted
    BY <1>15 DEF Limit, SafeOps
  <2> QED BY <1>12, <1>15, <2>1 DEF Limit
<1>16. CASE AllMemory \/ \E page \in LimitPages : LowerLimit(page) \/ UpperLimit(page)
  BY <1>15, <1>16 DEF AllMemory, LowerLimit, UpperLimit
<1>17. CASE Restart \/ \E m \in Modes : MemorySizing(m)
  BY <1>17, CoveredOtherwise DEF Restart, MemorySizing, restart, run_at
<1>18. CASE UNCHANGED vars
  BY <1>18, CoveredKept DEF vars, Testing, NextSegment
<1> QED BY <1>1, <1>2, <1>3, <1>4, <1>5, <1>6, <1>7, <1>8, <1>9, <1>10, <1>11, <1>13,
           <1>14, <1>16, <1>17, <1>18 DEF Next, Program, User

LEMMA InitCovered == Init => CoveredSoFar
BY DEF Init, CoveredSoFar, BetweenWindows, WithinWindow

LEMMA CoverageStep ==
  MapsInReach /\ TypeInv /\ Place /\ Layout /\ Sized /\ CoveredSoFar
    => (AllWindowsRun /\ test \in Defaults => CoversRequired)
<1> SUFFICES ASSUME MapsInReach, TypeInv, Place, Layout, Sized, CoveredSoFar,
                    AllWindowsRun, test \in Defaults, NEW p \in DOMAIN covered
             PROVE  Required \subseteq covered[p]
  BY DEF CoversRequired
<1>1. pc = "next" /\ firsttime /\ NextWindow = 0
  BY DEF AllWindowsRun, TypeInv, Initialised
<1>2. window + 1 = NumWindows
  <2>1. window \in 0 .. NumWindows - 1
    BY DEF TypeInv, TypeOK, PlaceTypes
  <2> QED BY <1>1, <2>1 DEF NextWindow
<1>3. Due(window + 1) \subseteq covered[p]
  BY <1>1 DEF CoveredSoFar, BetweenWindows
<1> QED BY <1>1, <1>2, <1>3, AllDue

(* A default test that has run in all of its windows has been, in every one*)
(* of its phases, over all the memory it is to test, whatever the limits,  *)
(* the restarts and the tests that were given up before: the windows with  *)
(* both copies of the program leave nothing out (do_test() and             *)
(* compute_segments()).                                                    *)
THEOREM MemoryAlwaysCovered ==
  ASSUME SafeOps, MapsInReach
  PROVE  Spec => Coverage
<1>1. TypeInv /\ Place /\ [Next]_vars => Place'
  BY PlaceStep
<1>2. TypeInv /\ Place /\ Layout /\ Clear /\ [Next]_vars => Clear'
  BY ClearStep
<1>3. TypeInv /\ Sized /\ [Next]_vars => Sized'
  BY SizedStep
<1>4. TypeInv /\ Place /\ Layout /\ Clear /\ Sized /\ CoveredSoFar /\ [Next]_vars
        => CoveredSoFar'
  BY CoveredStep
<1>5. TypeInv /\ Place /\ Layout /\ Sized /\ CoveredSoFar /\ [Next]_vars
        => [AllWindowsRun /\ test \in Defaults => CoversRequired]_vars
  BY CoverageStep
<1> QED
  BY <1>1, <1>2, <1>3, <1>4, <1>5, InitType, InitPlace, InitLayout, InitClear, InitSized,
     InitCovered, NextType, LayoutStep, PTL DEF Spec, Coverage

-----------------------------------------------------------------------------
(* The plan.                                                               *)
LEMMA UnattendedOps ==
  ASSUME Unattended
  PROVE  SafeOps /\ OneChange /\ UserOps \cap Changes = {}
BY DEF Unattended, SafeOps, OneChange, Changes

(* The operations that are left start the program over.                    *)
LEMMA OnlyRestarts ==
  ASSUME Unattended, User
  PROVE  OpenMenu \/ LeaveMenu \/ Restart \/ \E m \in Modes : MemorySizing(m)
BY DEF Unattended, User, DefaultTests, SkipTest, SelectTest, LowerLimit, UpperLimit, AllMemory,
       Choose

LEMMA SteadyKept ==
  ASSUME Steady, UNCHANGED <<firsttime, test, pass, ecount, banner, plim_lower, plim_upper,
                             pmap, covered>>, Closing' => Closing
  PROVE  Steady'
BY DEF Steady

LEMMA SteadyAgain ==
  ASSUME pc' = "enter", ~firsttime', test' = 0, pass' = 0, ~ecount', banner' = "none"
  PROVE  Steady'
BY DEF Steady, Closing

LEMMA SteadyStep ==
  Unattended /\ TypeInv /\ Place /\ Tally /\ Steady /\ [Next]_vars => Steady'
<1> SUFFICES ASSUME Unattended, TypeInv, Place, Tally, Steady, [Next]_vars PROVE Steady'
  OBVIOUS
<1> USE DEF place, memory, counters, history, loops, user
<1>0. (pc # "enter" => firsttime) /\ (firsttime => testsel = -1) /\ ~bail
  BY UnattendedOps, CountTypes DEF Tally, Counted, Quiet
<1>1. CASE Resume
  <2>1. pc' = "enter" /\ ~firsttime /\ UNCHANGED <<firsttime, test, pass, ecount, banner>>
    BY <1>1 DEF Resume, Place
  <2> QED BY <2>1, SteadyAgain DEF Steady
<1>2. CASE ColdStart
  BY <1>2, SteadyAgain DEF ColdStart, restart, run_at
<1>3. CASE Initialise
  <2>1. pc' = "enter" /\ firsttime' = TRUE /\ banner' = "none" /\ plim_lower' = 0
        /\ plim_upper' = pmap'[Len(pmap')].end
    BY <1>3 DEF Initialise, Arrived
  <2> QED BY <2>1 DEF Steady, Closing
<1>4. CASE PassOver
  <2>1. pc' = "next" /\ UNCHANGED <<firsttime, test, pass, ecount, banner, plim_lower, plim_upper,
                                    pmap, covered>>
    BY <1>4 DEF PassOver
  <2> QED BY <2>1, SteadyKept DEF Closing
<1>5. CASE OpenWindow
  <2>1. pc' \in {"test", "next"} /\ firsttime
    BY <1>5 DEF OpenWindow, Arrived
  <2>2. UNCHANGED <<firsttime, pass, ecount, banner, plim_lower, plim_upper, pmap, covered>>
    BY <1>5 DEF OpenWindow
  <2> QED BY <2>1, <2>2 DEF Steady, Closing
<1>6. CASE TestSegment \/ Poll
  <2>1. firsttime /\ pc' \in {"tick", "test"}
        /\ UNCHANGED <<firsttime, pass, banner, plim_lower, plim_upper, pmap>>
    BY <1>0, <1>6 DEF TestSegment, Poll
  <2> QED BY <2>1 DEF Steady, Closing
<1>7. CASE EndPhase \/ RunWindow
  <2>1. pc' \in {"test", "next", "enter"}
        /\ UNCHANGED <<firsttime, test, pass, ecount, banner, plim_lower, plim_upper, pmap, covered>>
    BY <1>7 DEF EndPhase, RunWindow, run_at
  <2> QED BY <2>1, SteadyKept DEF Closing
<1>8. CASE NoKey \/ CloseTest
  <2>1. /\ UNCHANGED <<firsttime, test, pass, ecount, banner, plim_lower, plim_upper, pmap, covered>>
        /\ Closing' => Closing
    BY <1>8 DEF NoKey, CloseTest, Caller, Closing
  <2> QED BY <2>1, SteadyKept
<1>9. CASE AllWindowsRun
  <2>1. /\ firsttime /\ covered' = Untouched
        /\ UNCHANGED <<firsttime, pass, banner, plim_lower, plim_upper, pmap>>
    BY <1>0, <1>9 DEF AllWindowsRun
  <2> QED BY <2>1 DEF Steady, Untouched
<1>10. CASE EndTest
  <2>1. /\ pc = "ending" /\ pc' = "enter" /\ firsttime /\ testsel = -1
        /\ UNCHANGED <<firsttime, plim_lower, plim_upper, pmap, covered>>
    BY <1>0, <1>10 DEF EndTest, run_at
  <2>2. banner' = "green" => pass' >= 2
    <3>1. CASE PassEnds
      <4>1. /\ pass' = AtMost(PassCap, pass + 1)
            /\ banner' = IF ecount \/ testsel >= 0 THEN banner
                         ELSE IF pass' >= 2 \/ banner = "green" THEN "green" ELSE "clean"
        BY <1>10, <3>1 DEF EndTest
      <4>2. banner' = "green" => pass' >= 2 \/ banner = "green"
        BY <4>1
      <4>3. banner = "green" => pass >= 2
        BY <2>1 DEF Steady
      <4>4. pass >= 2 => pass' >= 2
        BY <4>1, CountTypes DEF AtMost
      <4> QED BY <4>2, <4>3, <4>4
    <3>2. CASE ~PassEnds
      <4>1. UNCHANGED <<pass, banner>>
        BY <1>10, <3>2 DEF EndTest
      <4> QED BY <2>1, <4>1 DEF Steady
    <3> QED BY <3>1, <3>2
  <2> QED BY <2>1, <2>2 DEF Steady, Closing
<1>11. CASE OpenMenu \/ LeaveMenu
  <2>1. /\ UNCHANGED <<firsttime, test, pass, ecount, banner, plim_lower, plim_upper, pmap, covered>>
        /\ Closing' => Closing
    BY <1>11, CountTypes DEF OpenMenu, LeaveMenu, Caller, Closing
  <2> QED BY <2>1, SteadyKept
<1>12. CASE Restart \/ \E m \in Modes : MemorySizing(m)
  BY <1>12, SteadyAgain DEF Restart, MemorySizing, restart, run_at
<1>13. CASE UNCHANGED vars
  <2>1. /\ UNCHANGED <<firsttime, test, pass, ecount, banner, plim_lower, plim_upper, pmap, covered>>
        /\ Closing' => Closing
    BY <1>13 DEF vars, Closing
  <2> QED BY <2>1, SteadyKept
<1> QED BY <1>1, <1>2, <1>3, <1>4, <1>5, <1>6, <1>7, <1>8, <1>9, <1>10, <1>11, <1>12, <1>13,
           OnlyRestarts DEF Next, Program

LEMMA InitSteady == Init => Steady
BY DEF Init, Steady, Closing

-----------------------------------------------------------------------------
(* There is something to test.                                             *)
LEMMA SomethingRequired ==
  ASSUME MemoryToTest, TypeInv, Place, Layout, Sized, Steady, firsttime
  PROVE  Required # {}
<1>1. /\ machine \in Machines /\ pmap \in Seq([start : Nat, end : Nat])
      /\ \E m \in Modes : pmap = machine[m]
      /\ plim_lower = 0 /\ plim_upper = pmap[Len(pmap)].end
      /\ win0_start = (Low + ImageLen + PageLines - 1) \div PageLines
  BY DEF TypeInv, TypeOK, MemoryTypes, Steady, Sized
<1>2. PICK page \in Selected : page >= win0_start /\ page < 2 * WindowPages
  BY <1>1 DEF MemoryToTest, Selected
<1>3. page \in Nat
  <2>1. PICK k \in DOMAIN pmap : page \in pmap[k].start .. pmap[k].end - 1
    BY DEF Selected, SelectedPages
  <2>2. k \in 1 .. Len(pmap)
    BY SMTT(30), <1>1
  <2>3. pmap[k] \in [start : Nat, end : Nat]
    BY <1>1, <2>2, ElementOfSeq
  <2>4. pmap[k].start \in Nat /\ pmap[k].end \in Nat
    BY <2>3
  <2> QED BY <2>1, <2>4
<1> DEFINE line == page * PageLines
<1>4. line \in Nat /\ (page + 1) * PageLines = line + PageLines /\ PageLines > 1
  BY <1>3 DEF MemoryToTest
<1>5. PageOfLine(line) = page
  <2>1. /\ PageOfLine(line) \in Nat /\ page <= PageOfLine(line) /\ PageOfLine(line) < page + 1
    <3> HIDE DEF line
    <3> QED BY <1>3, <1>4, PageBetween DEF line
  <2> HIDE DEF line
  <2> QED BY <1>3, <2>1
<1>6. line >= UsbFloor
  <2>1. win0_start \in Nat /\ win0_start * PageLines >= Low + ImageLen
    BY OpenTypes DEF Layout
  <2>2. win0_start * PageLines <= page * PageLines /\ win0_start * PageLines \in Nat
    BY <1>2, <1>3, <2>1, ProductMonotone
  <2>3. Low \in Nat /\ ImageLen \in Nat /\ UsbFloor \in Nat /\ UsbFloor <= Low
    BY ImageAssumption
  <2> HIDE DEF line
  <2>4. line = page * PageLines
    BY DEF line
  <2> QED BY <1>4, <2>1, <2>2, <2>3, <2>4
<1>7. ~IsTail(line)
  <2>1. line # (page + 1) * PageLines - 1
    <3> HIDE DEF line
    <3> QED BY <1>4
  <2> QED BY <1>5, <2>1 DEF IsTail
<1>8. line \in page * PageLines .. page * PageLines + PageLines - 1
  BY <1>4
<1> HIDE DEF line
<1>9. line \in Required
  BY <1>2, <1>5, <1>6, <1>7, <1>8 DEF Required
<1> QED BY <1>9

-----------------------------------------------------------------------------
(* The steps of the plan.                                                  *)
LEMMA PlanStutter ==
  ASSUME UNCHANGED <<firsttime, test, pass, ecount, banner, plim_lower, plim_upper, pmap, pae,
                     win0_start, covered>>
  PROVE  UNCHANGED Promise!plan
<1>1. Required' = Required
  BY RequiredSame
<1> QED BY <1>1 DEF Promise!plan, Area, Item, Todo, Passes

(* Before the memory is sized there is nothing to do.                      *)
LEMMA PlanIdle ==
  ASSUME UNCHANGED <<firsttime, test, pass, ecount, banner, covered>>, ~firsttime
  PROVE  UNCHANGED Promise!plan
BY DEF Promise!plan, Area, Item, Todo, Passes

LEMMA PlanStartOver ==
  ASSUME ~firsttime', test' = 0, pass' = 0, ~ecount', ecount' \in BOOLEAN, banner' = "none"
  PROVE  Promise!StartOver
<1>1. LastTest \in Nat /\ 1 <= LastTest /\ PassCap \in Nat
  BY SequenceAssumption
<1> QED BY <1>1 DEF Promise!StartOver, Area, Item, Todo, Passes, AtMost

(* Some more lines are covered, or an error is found.                      *)
LEMMA PlanTouch ==
  ASSUME UNCHANGED <<firsttime, test, pass, banner, plim_lower, plim_upper, pmap, pae, win0_start>>,
         ecount => ecount', DOMAIN covered' = DOMAIN covered,
         \A p \in DOMAIN covered : covered[p] \subseteq covered'[p]
  PROVE  Promise!Touch
<1>1. Required' = Required
  BY RequiredSame
<1> QED BY <1>1 DEF Promise!Touch, Area, Item, Todo, Passes

LEMMA PlanSize ==
  ASSUME TypeInv, Steady, Initialise
  PROVE  Promise!Size
<1>1. /\ ~firsttime /\ firsttime' = TRUE /\ test' = 0 /\ pass' = 0 /\ ecount' = FALSE
      /\ banner' = "none" /\ covered' = Untouched
      /\ test = 0 /\ pass = 0 /\ ecount = FALSE /\ banner = "none"
  BY DEF Initialise, Steady, TypeInv, TypeOK, FlagTypes
<1>2. Todo' = Area'
  BY <1>1, SequenceAssumption DEF Todo, Untouched
<1> QED BY <1>1, <1>2 DEF Promise!Size, Area, Item, Passes

(* A test has been over all of the memory.                                 *)
LEMMA PlanNextItem ==
  ASSUME Unattended, MapsInReach, MemoryToTest, TypeInv, Place, Layout, Sized, CoveredSoFar,
         Tally, Steady, AllWindowsRun
  PROVE  Promise!NextItem
<1>1. /\ pc = "next" /\ firsttime /\ firsttime' = firsttime /\ test' = test + 1
      /\ covered' = Untouched /\ ~bail
      /\ UNCHANGED <<pass, ecount, banner, plim_lower, plim_upper, pmap, pae, win0_start>>
  BY CountTypes DEF AllWindowsRun, place, layout, hardware, memory
<1>2. /\ test \in 0 .. LastTest - 1 /\ pass >= 0 /\ pass <= PassCap
      /\ pass \in Int /\ PassCap \in Nat /\ LastTest \in Nat
  <2>1. testsel = -1
    BY <1>1, UnattendedOps DEF Tally, Counted, Quiet
  <2>2. Reached = test /\ ~Closing
    BY <1>1 DEF Reached, Closing
  <2>3. pass \in -1 .. PassCap
    BY DEF TypeInv, TypeOK, CounterTypes
  <2> QED BY <1>1, <2>1, <2>2, <2>3, CountTypes DEF Tally, InTurn
<1>3. Required' = Required /\ Required # {}
  BY <1>1, RequiredSame, SomethingRequired
<1>4. Area = Required /\ Area' = Required
  BY <1>1, <1>3 DEF Area
<1>5. Todo = {}
  <2>1. CoversRequired
    BY <1>2, CoverageStep DEF Defaults
  <2> QED BY <1>4, <2>1 DEF Todo, CoversRequired
<1>6. Todo' = Area'
  BY <1>1, SequenceAssumption DEF Todo, Untouched
<1>7. Item' = (Item + 1) % LastTest
  <2>1. Item = test /\ Item' = IF test + 1 >= LastTest THEN 0 ELSE test + 1
    BY <1>1, <1>2 DEF Item
  <2>2. CASE test + 1 = LastTest
    BY <1>2, <2>1, <2>2
  <2>3. CASE test + 1 < LastTest
    BY <1>2, <2>1, <2>3
  <2> QED BY <1>2, <2>2, <2>3
<1>8. Passes' = IF Item' = 0 /\ Passes < PassCap THEN Passes + 1 ELSE Passes
  <2>1. Passes = pass
    BY <1>2 DEF Passes, AtMost
  <2>2. Passes' = AtMost(PassCap, IF test + 1 >= LastTest THEN pass + 1 ELSE pass)
    BY <1>1 DEF Passes
  <2>3. Item' = IF test + 1 >= LastTest THEN 0 ELSE test + 1
    BY <1>1 DEF Item
  <2> QED BY <1>2, <2>1, <2>2, <2>3 DEF AtMost
<1> QED BY <1>1, <1>3, <1>4, <1>5, <1>6, <1>7, <1>8 DEF Promise!NextItem

(* The end of a test counts the pass that is complete, and may announce it.*)
LEMMA PlanAnnounce ==
  ASSUME Unattended, TypeInv, Place, Tally, Steady, EndTest
  PROVE  Promise!Announce \/ UNCHANGED Promise!plan
<1>1. /\ pc = "ending" /\ firsttime /\ firsttime' = firsttime /\ testsel = -1
      /\ UNCHANGED <<ecount, covered, plim_lower, plim_upper, pmap, pae, win0_start>>
  <2>1. pc = "ending" /\ firsttime
    BY CountTypes DEF EndTest
  <2>2. testsel = -1
    BY <2>1, UnattendedOps DEF Tally, Counted, Quiet
  <2> QED BY <2>1, <2>2 DEF EndTest, layout, hardware, memory, history
<1>2. CASE ~PassEnds
  <2>1. UNCHANGED <<pass, test, banner>>
    BY <1>2 DEF EndTest
  <2> QED BY <1>1, <2>1, PlanStutter
<1>3. CASE PassEnds
  <2>1. /\ pass' = AtMost(PassCap, pass + 1) /\ test' = 0
        /\ banner' = IF ecount \/ testsel >= 0 THEN banner
                     ELSE IF pass' >= 2 \/ banner = "green" THEN "green" ELSE "clean"
    BY <1>3 DEF EndTest
  <2>2. test >= LastTest /\ pass \in Int /\ pass >= 0 /\ PassCap \in Nat /\ 2 <= PassCap
        /\ LastTest \in Nat /\ 1 <= LastTest
    <3>1. test >= LastTest
      BY <1>1, <1>3, CountTypes DEF PassEnds
    <3>2. pass >= 0
      BY <1>1 DEF Tally, InTurn
    <3> QED BY <3>1, <3>2, CountTypes
  <2>3. /\ Item = 0 /\ Item' = 0 /\ Passes = pass' /\ Passes' = pass' /\ pass' >= 1
        /\ pass' \in Int
    BY <2>1, <2>2 DEF Item, Passes, AtMost
  <2>4. Area' = Area /\ Todo' = Todo /\ Todo = Area
    <3>1. Area' = Area
      BY <1>1, RequiredSame DEF Area
    <3>2. covered = Untouched
      BY <1>1 DEF Steady, Closing
    <3> QED BY <1>1, <3>1, <3>2, SequenceAssumption DEF Todo, Untouched
  <2>5. CASE ecount
    <3>1. banner' = banner
      BY <2>1, <2>5
    <3> QED BY <1>1, <2>3, <2>4, <3>1 DEF Promise!plan
  <2>6. CASE ~ecount
    <3>1. banner' = IF pass' >= 2 \/ banner = "green" THEN "green" ELSE "clean"
      BY <1>1, <2>1, <2>6
    <3>2. banner = "green" => pass' >= 2
      BY <1>1, <2>1, <2>2 DEF Steady, AtMost
    <3>3. banner' = IF pass' >= 2 THEN "green" ELSE "clean"
      BY <3>1, <3>2
    <3> QED BY <1>1, <2>3, <2>4, <2>6, <3>3 DEF Promise!Announce
  <2> QED BY <2>5, <2>6
<1> QED BY <1>2, <1>3

LEMMA PlanStep ==
  Unattended /\ MapsInReach /\ MemoryToTest /\ TypeInv /\ Place /\ Layout /\ Sized
    /\ CoveredSoFar /\ Tally /\ Steady /\ [Next]_vars
    => Promise!Follow \/ UNCHANGED Promise!plan
<1> SUFFICES ASSUME Unattended, MapsInReach, MemoryToTest, TypeInv, Place, Layout, Sized,
                    CoveredSoFar, Tally, Steady, [Next]_vars
             PROVE  Promise!Follow \/ UNCHANGED Promise!plan
  OBVIOUS
<1> USE DEF place, layout, hardware, memory, counters, history
<1>0. (pc # "enter" => firsttime) /\ (firsttime => testsel = -1) /\ ~bail
  BY UnattendedOps, CountTypes DEF Tally, Counted, Quiet
<1>1. CASE Resume
  <2>1. ~firsttime /\ UNCHANGED <<firsttime, test, pass, ecount, banner, covered>>
    BY <1>1 DEF Resume, Place
  <2> QED BY <2>1, PlanIdle
<1>2. CASE ColdStart \/ Restart \/ \E m \in Modes : MemorySizing(m)
  <2>1. /\ firsttime' = FALSE /\ test' = 0 /\ pass' = 0 /\ ecount' = FALSE /\ banner' = "none"
    BY <1>2 DEF ColdStart, Restart, MemorySizing, restart
  <2> QED BY <2>1, PlanStartOver DEF Promise!Follow
<1>3. CASE Initialise
  BY <1>3, PlanSize DEF Promise!Follow
<1>4. CASE OpenWindow
  <2>1. test' = test
    BY <1>0, <1>4 DEF OpenWindow, Arrived
  <2> QED BY <1>4, <2>1, PlanStutter DEF OpenWindow
<1>5. CASE PassOver \/ EndPhase \/ NoKey \/ RunWindow \/ CloseTest \/ OpenMenu \/ LeaveMenu
  <2>1. UNCHANGED <<firsttime, test, pass, ecount, banner, plim_lower, plim_upper, pmap, pae,
                    win0_start, covered>>
    BY <1>5 DEF PassOver, EndPhase, NoKey, RunWindow, CloseTest, OpenMenu, LeaveMenu
  <2> QED BY <2>1, PlanStutter
<1>6. CASE TestSegment \/ Poll
  <2>1. UNCHANGED <<firsttime, test, pass, banner, plim_lower, plim_upper, pmap, pae, win0_start>>
    BY <1>0, <1>6 DEF TestSegment, Poll
  <2>2. ecount => ecount'
    BY <1>6, SequenceAssumption DEF TestSegment, Poll
  <2>3. DOMAIN covered' = DOMAIN covered /\ \A p \in DOMAIN covered : covered[p] \subseteq covered'[p]
    <3>1. covered' = covered \/ \E lines : covered' = [covered EXCEPT ![phase] = @ \cup lines]
      BY <1>0, <1>6 DEF TestSegment, Poll
    <3> QED BY <3>1
  <2> QED BY <2>1, <2>2, <2>3, PlanTouch DEF Promise!Follow
<1>7. CASE AllWindowsRun
  BY <1>7, PlanNextItem DEF Promise!Follow
<1>8. CASE EndTest
  BY <1>8, PlanAnnounce DEF Promise!Follow
<1>9. CASE UNCHANGED vars
  BY <1>9, PlanStutter DEF vars
<1> QED BY <1>1, <1>2, <1>3, <1>4, <1>5, <1>6, <1>7, <1>8, <1>9, OnlyRestarts DEF Next, Program

LEMMA InitPlan == Init => Promise!Idle
<1>1. LastTest \in Nat /\ 1 <= LastTest /\ PassCap \in Nat
  BY SequenceAssumption
<1> QED BY <1>1 DEF Init, Promise!Idle, Area, Item, Todo, Passes, AtMost

(* A program that is left alone, but for being started over, implements    *)
(* the plan: do_test() runs the tests of a pass in order, each of them over*)
(* all of the memory before the next, and the screen announces clean passes*)
(* only; the windows, the jumps between the two copies and the loops of    *)
(* the tests are steps of the plan or none.                                *)
THEOREM PlanFollowed ==
  ASSUME Unattended, MapsInReach, MemoryToTest
  PROVE  Spec => KeepsPromise
<1>1. SafeOps /\ OneChange
  BY UnattendedOps
<1>2. TypeInv /\ Place /\ [Next]_vars => Place'
  BY PlaceStep
<1>3. TypeInv /\ Place /\ Layout /\ Clear /\ [Next]_vars => Clear'
  BY <1>1, ClearStep
<1>4. TypeInv /\ Sized /\ [Next]_vars => Sized'
  BY SizedStep
<1>5. TypeInv /\ Place /\ Layout /\ Clear /\ Sized /\ CoveredSoFar /\ [Next]_vars
        => CoveredSoFar'
  BY <1>1, CoveredStep
<1>6. TypeInv /\ Place /\ Tally /\ [Next]_vars => Tally'
  BY <1>1, TallyStep
<1>7. TypeInv /\ Place /\ Tally /\ Steady /\ [Next]_vars => Steady'
  BY SteadyStep
<1>8. TypeInv /\ Place /\ Layout /\ Sized /\ CoveredSoFar /\ Tally /\ Steady /\ [Next]_vars
        => [Promise!Follow]_(Promise!plan)
  BY PlanStep
<1> QED
  BY <1>2, <1>3, <1>4, <1>5, <1>6, <1>7, <1>8, InitType, InitPlace, InitLayout, InitClear,
     InitSized, InitCovered, InitTally, InitSteady, InitPlan, NextType, LayoutStep, PTL
     DEF Spec, KeepsPromise, Promise!Plan

-----------------------------------------------------------------------------
(* The words and pointers of an image that was last relocated at l.        *)
RelocatedTo(l) ==
  /\ last_load_address = l
  /\ dynamic = [t \in DOMAIN Pointers |-> Pointers[t] + l]
  /\ word = [r \in Records |-> Meaning(r, l)]

-----------------------------------------------------------------------------
(* The steps of this specification are steps of the sequencer.             *)
LEMMA Sequenced == RelocSpec => Spec
<1>1. RelocInit => Init
  BY DEF RelocInit
<1>2. [RelocNext]_<<vars, image>> => [Next]_vars
  BY DEF RelocNext
<1> QED BY <1>1, <1>2, PTL DEF RelocSpec, Spec

(* The image is never at 0, where a relocation would pass for the first.   *)
LEMMA NeverAtZero ==
  ASSUME TypeInv, Place
  PROVE  at \in Nat /\ at # 0
<1>1. at \in Nat /\ Low \in Nat /\ ImageLen \in Nat
  BY PlainConstants DEF TypeInv, TypeOK, PlaceTypes
<1>2. HighLineNow # 0
  BY <1>1, CopiesApart DEF Place, HighLineNow
<1> QED BY <1>1, <1>2, AddressAssumption DEF Place

(* The first time a word is relocated it comes to hold what it means, and  *)
(* each time after it is moved from what it means to what it means.        *)
LEMMA FirstRelocation ==
  ASSUME NEW r \in Records, NEW l \in Nat
  PROVE  elf_machine_rel(r, r.linked, l, 0) = Meaning(r, l)
<1>1. /\ r.kind \in Kinds /\ r.offset \in Nat /\ r.linked \in Int /\ r.value \in Nat
      /\ r.undef \in BOOLEAN
  BY RecordsAssumption DEF Record
<1>2. Base(r, 0) = 0 /\ Base(r, l) \in {0, l}
  BY DEF Base
<1>3. Rel32(r, r.linked, l, 0) = r.linked + r.value + Base(r, l)
  BY <1>1, <1>2 DEF Rel32, First
<1>4. RelPC32(r, r.linked, l, 0) = r.linked + r.value - r.offset + Base(r, l) - l
  BY <1>1, <1>2 DEF RelPC32, First
<1>5. Symbol(r, l) = r.value + Base(r, l)
  BY DEF Symbol
<1> QED BY <1>1, <1>2, <1>3, <1>4, <1>5 DEF elf_machine_rel, Meaning, Kinds

LEMMA NextRelocation ==
  ASSUME NEW r \in Records, NEW l \in Nat, NEW ll \in Nat, ll # 0
  PROVE  elf_machine_rel(r, Meaning(r, ll), l, ll) = Meaning(r, l)
<1>1. /\ r.kind \in Kinds /\ r.offset \in Nat /\ r.linked \in Int /\ r.value \in Nat
      /\ r.undef \in BOOLEAN
  BY RecordsAssumption DEF Record
<1>2. Base(r, ll) \in Nat /\ Base(r, l) \in Nat
  BY DEF Base
<1>3. ASSUME NEW w \in Int PROVE Rel32(r, w, l, ll) = w + Base(r, l) - Base(r, ll)
  BY <1>1, <1>2, <1>3 DEF Rel32, First
<1>4. ASSUME NEW w \in Int
      PROVE  RelPC32(r, w, l, ll) = w + (Base(r, l) - l) - (Base(r, ll) - ll)
  BY <1>1, <1>2, <1>4 DEF RelPC32, First
<1>5. Symbol(r, l) = r.value + Base(r, l) /\ Symbol(r, ll) = r.value + Base(r, ll)
  BY DEF Symbol
<1>6. CASE r.kind = "32"
  BY <1>1, <1>2, <1>3, <1>5, <1>6 DEF elf_machine_rel, Meaning
<1>7. CASE r.kind = "PC32"
  BY <1>1, <1>2, <1>4, <1>5, <1>7 DEF elf_machine_rel, Meaning
<1>8. CASE r.kind \in {"RELATIVE", "NONE", "GLOB_DAT", "JMP_SLOT"}
  BY <1>1, <1>2, <1>5, <1>8 DEF elf_machine_rel, Meaning
<1> QED BY <1>1, <1>6, <1>7, <1>8 DEF Kinds

-----------------------------------------------------------------------------
LEMMA InitRelocated == Init /\ Loaded(at) => RelocatedTo(at)
<1> SUFFICES ASSUME Init, Loaded(at) PROVE RelocatedTo(at)
  OBVIOUS
<1>1. at \in Nat
  BY PlainConstants DEF Init
<1>2. \A r \in Records : elf_machine_rel(r, r.linked, at, 0) = Meaning(r, at)
  BY <1>1, FirstRelocation
<1> QED BY <1>2 DEF Loaded, RelocatedTo

LEMMA MoveRelocates ==
  ASSUME RelocatedTo(at), at \in Nat, at # 0, at' \in Nat, _dl_start(at')
  PROVE  RelocatedTo(at)'
<1>1. last_load_address = at /\ last_load_address' = at'
  BY DEF _dl_start, RelocatedTo
<1>2. dynamic' = [t \in DOMAIN Pointers |-> Pointers[t] + at']
  <2>1. dynamic' = [t \in DOMAIN Pointers |-> (Pointers[t] + at) + at' - at]
    BY <1>1 DEF _dl_start, elf_get_dynamic_info, RelocatedTo
  <2>2. \A t \in DOMAIN Pointers : (Pointers[t] + at) + at' - at = Pointers[t] + at'
    BY RecordsAssumption
  <2> QED BY <2>1, <2>2
<1>3. \A r \in Records : Points(dynamic', r.table, at') /\ Points(dynamic', "SYMTAB", at')
  BY <1>2, RecordsAssumption DEF Points
<1>4. \A r \in Records : elf_machine_rel(r, word[r], at', at) = Meaning(r, at')
  BY NextRelocation DEF RelocatedTo
<1>5. word' = [r \in Records |-> Meaning(r, at')]
  BY <1>1, <1>3, <1>4 DEF _dl_start, elf_dynamic_do_rel
<1> QED BY <1>1, <1>2, <1>5 DEF RelocatedTo

LEMMA StepRelocated ==
  TypeInv /\ TypeInv' /\ Place /\ RelocatedTo(at) /\ [RelocNext]_<<vars, image>>
    => RelocatedTo(at)'
<1> SUFFICES ASSUME TypeInv, TypeInv', Place, RelocatedTo(at), [RelocNext]_<<vars, image>>
             PROVE  RelocatedTo(at)'
  OBVIOUS
<1>1. at \in Nat /\ at # 0
  BY NeverAtZero
<1>2. at' \in Nat
  BY DEF TypeInv, TypeOK, PlaceTypes
<1>3. CASE at' # at /\ _dl_start(at')
  BY <1>1, <1>2, <1>3, MoveRelocates
<1>4. CASE at' = at /\ UNCHANGED image
  BY <1>4 DEF RelocatedTo, image
<1>5. CASE UNCHANGED <<vars, image>>
  BY <1>5, <1>4 DEF vars, place
<1> QED BY <1>3, <1>4, <1>5 DEF RelocNext, Moves

(* The copy that runs was never copied over the one that copied it, and    *)
(* all of its words hold what they were linked for where it is: run_at()   *)
(* and reloc.c together, whatever the user has the program do.             *)
THEOREM CopyAlwaysSound == RelocSpec => CopySound
<1>1. RelocatedTo(at) => WordsTrue
  BY DEF RelocatedTo, WordsTrue
<1>2. RelocInit => RelocatedTo(at)
  BY InitRelocated DEF RelocInit
<1>3. TypeInv /\ Place /\ [Next]_vars => Place'
  BY PlaceStep
<1>4. Spec => [](TypeInv /\ Place)
  BY <1>3, InitType, InitPlace, NextType, PTL DEF Spec
<1>5. RelocSpec => []RelocatedTo(at)
  BY <1>2, <1>4, StepRelocated, Sequenced, PTL DEF RelocSpec
<1> QED BY <1>1, <1>5, SelfOverwriteNever, Sequenced, PTL DEF CopySound
=============================================================================
