-------------------------- MODULE ErrorReportProofs --------------------------
(***************************************************************************)
(* Theorems about the error report, for any errors, any depth of calls and *)
(* whatever the user and the NMIs do in between.                           *)
(***************************************************************************)
EXTENDS ErrorReport, SequenceTheorems, FiniteSetTheorems, TLAPS

(* The calls that may be in progress.                                      *)
PatPlaces  == {"patinput", "patscroll", "patraise", "patwait", "patline"}
LinePlaces == {"input", "scroll", "raise", "wait", "line"}
Places == {"count", "mode"} \cup LinePlaces \cup PatPlaces
MenuCall == [type |-> -1]
Parity == {ParityError(adr) : adr \in ParityErrors}
Calls == [at : Places, err : Found \cup Parity \cup {MenuCall}, idx : 0 .. BADRAM_MAXPATNS,
          line : AboveFirst .. LastLine - 1]

Spot == [page : Nat, offset : Nat]
Erri == [low_addr : Spot, high_addr : Spot, min_bits : Nat, max_bits : Nat, maxl : 0 .. 2,
         cor_err : Nat, ebits : SUBSET Bits, hdr_flag : {0, 1}, tbits : Nat, eadr : Nat,
         exor : SUBSET Bits]

(* The parts of the inductive invariant: the types,                        *)
Types ==
  /\ test \in -1 .. LastTest /\ printmode \in PrintModes
  /\ ecount \in Nat /\ ecc_ecount \in Nat
  /\ errors \in [-1 .. LastTest -> Nat]
  /\ erri \in Erri
  /\ msg_line \in LINE_SCROLL - 1 .. LastLine + 1 /\ raced \in BOOLEAN
  /\ slock \in BOOLEAN /\ numpatn \in 0 .. BADRAM_MAXPATNS
  /\ stack \in Seq(Calls) /\ Len(stack) <= MaxDepth
  /\ nmi_masked \in BOOLEAN

(* what a call may be interrupted by, and where: an NMI anywhere, but none *)
(* in an NMI; the menu where the keyboard is looked at,                    *)
MenuPlaces == {"input", "patinput"} \cup IF MenuInWait THEN {"wait", "patwait"} ELSE {}
Depth == 1 .. Len(stack)
Nesting ==
  /\ \A k \in Depth :
       /\ stack[k].err.type = -1 => stack[k].at \in PatPlaces
       /\ stack[k].err.type = 3  => stack[k].at \notin PatPlaces /\ nmi_masked
       /\ k # Len(stack) => stack[k].err.type \in {-1, 3}
       /\ k # 1 /\ stack[k - 1].err.type = -1 => stack[k].at \in MenuPlaces
  /\ \A j, k \in Depth : j < k /\ stack[k].err.type = 3 => stack[j].err.type = -1

(* the place of a line: a menu resets msg_line only in the input of a call *)
(* that has still to scroll,                                               *)
Scrolled == {"wait", "line", "patwait", "patline"}
ToScroll == {"input", "scroll", "raise"}
Above(k) == k # 1 /\ stack[k - 1].at \in ToScroll
Placed == ~ MenuInWait =>
  \A k \in Depth : stack[k].at \in Scrolled => msg_line >= LINE_SCROLL \/ Above(k)

(* the lowest line: a call about to raise msg_line has room for one more,  *)
(* and when NMIs took that, no other has to fear the same,                 *)
RaisingAt == {"raise", "patraise"}
Raised ==
  /\ ~ raced => msg_line <= LastLine
  /\ \A k \in Depth : stack[k].at \in RaisingAt =>
       /\ msg_line <= LastLine
       /\ k # 1 => raced
       /\ k = 1 /\ (nmi_masked \/ ~ raced) => msg_line < LastLine

(* the summary, in which an error counted is not before its "mode",        *)
Pending == (IF stack # <<>> /\ stack[Len(stack)].at = "mode" THEN 1 ELSE 0)
             + (IF Len(stack) > 1 /\ stack[1].at = "mode" THEN 1 ELSE 0)
Number(e) == Cardinality(Failing(e))
Empty ==
  summed = {} => /\ erri.low_addr = [page |-> NoPage, offset |-> 4095]
                 /\ erri.min_bits = 32 /\ erri.max_bits = 0
Lowest ==
  /\ summed # {} => \E e \in summed : erri.low_addr = Place(e)
  /\ \A e \in summed : ~ Below(Place(e), erri.low_addr)
Fewest ==
  /\ summed # {} => \E e \in summed : erri.min_bits = Number(e)
  /\ \A e \in summed : erri.min_bits <= Number(e)
Most ==
  /\ summed # {} => \E e \in summed : erri.max_bits = Number(e)
  /\ \A e \in summed : erri.max_bits >= Number(e)
Total == Pending <= ecount /\ erri.tbits <= erri.max_bits * (ecount - Pending)
Summed ==
  /\ summed \subseteq Found
  /\ Empty /\ Lowest /\ Fewest /\ Most
  /\ erri.ebits = UNION {Failing(e) : e \in summed}
  /\ Total /\ SummaryShown

(* and what the last line tells.                                           *)
Told ==
  /\ printmode = "addresses" => lastline \in {None, <<erri.eadr, erri.exor>>}
  /\ \A k \in Depth :
       stack[k].at \in LinePlaces /\ stack[k].err.type \in {0, 1} =>
         lastline # <<stack[k].err.adr, stack[k].err.xor>>

IInv == Types /\ Nesting /\ Placed /\ Raised /\ Summed /\ Told

-----------------------------------------------------------------------------
(* Errors.                                                                 *)
LEMMA PageNumbers ==
  ASSUME NEW adr \in Nat
  PROVE  page_of(adr) \in Nat /\ adr % PageSize \in Nat
<1>1. PageSize \in Nat \ {0}
  BY PlacesAssumption
<1> QED BY <1>1 DEF page_of

LEMMA Fields ==
  /\ \A a, x : /\ DataError(a, x).type = 0 /\ DataError(a, x).adr = a
               /\ DataError(a, x).xor = x /\ DataError(a, x).diff = x
  /\ \A a, m, d : /\ AddressError(a, m, d).type = 1 /\ AddressError(a, m, d).adr = a
                  /\ AddressError(a, m, d).xor = m /\ AddressError(a, m, d).diff = d
  /\ \A p, o, c : /\ EccError(p, o, c).type = 2 /\ EccError(p, o, c).adr = p
                  /\ EccError(p, o, c).offset = o /\ EccError(p, o, c).xor = {}
  /\ \A a : ParityError(a).type = 3 /\ ParityError(a).adr = a /\ ParityError(a).xor = {}
BY DEF DataError, AddressError, EccError, ParityError

LEMMA FoundType ==
  ASSUME NEW e \in Found
  PROVE  /\ e.type \in {0, 1, 2} /\ e.adr \in Nat /\ e.xor \subseteq Bits
         /\ Failing(e) \subseteq Bits
         /\ Place(e).page \in Nat /\ Place(e).offset \in Nat /\ Place(e) \in Spot
         /\ Place(e).page < NoPage
<1>1. CASE \E d \in DataErrors : e = DataError(d[1], d[2])
  <2>1. PICK d \in DataErrors : e = DataError(d[1], d[2])
    BY <1>1
  <2>2. /\ e.type = 0 /\ e.adr = d[1] /\ e.xor = d[2]
    BY <2>1, Fields
  <2>3. e.adr \in Nat /\ page_of(e.adr) < NoPage /\ e.xor \subseteq Bits
    BY <2>2, ErrorsAssumption DEF IsAddress
  <2>4. page_of(e.adr) \in Nat /\ e.adr % PageSize \in Nat
    BY <2>3, PageNumbers
  <2> QED BY <2>2, <2>3, <2>4 DEF Failing, Place, Spot
<1>2. CASE \E d \in AddressErrors : e = AddressError(d[1], d[2], d[3])
  <2>1. PICK d \in AddressErrors : e = AddressError(d[1], d[2], d[3])
    BY <1>2
  <2>2. /\ e.type = 1 /\ e.adr = d[1] /\ e.xor = d[2] /\ e.diff = d[3]
    BY <2>1, Fields
  <2>3. e.adr \in Nat /\ page_of(e.adr) < NoPage /\ e.xor \subseteq Bits /\ e.diff \subseteq Bits
    BY <2>2, ErrorsAssumption DEF IsAddress
  <2>4. page_of(e.adr) \in Nat /\ e.adr % PageSize \in Nat
    BY <2>3, PageNumbers
  <2> QED BY <2>2, <2>3, <2>4 DEF Failing, Place, Spot
<1>3. CASE \E d \in EccErrors : e = EccError(d[1], d[2], d[3])
  <2>1. PICK d \in EccErrors : e = EccError(d[1], d[2], d[3])
    BY <1>3
  <2>2. /\ e.type = 2 /\ e.adr = d[1] /\ e.offset = d[2] /\ e.xor = {}
    BY <2>1, Fields
  <2>3. e.adr \in Nat /\ e.adr < NoPage /\ e.offset \in Nat
    BY <2>2, ErrorsAssumption
  <2> QED BY <2>2, <2>3 DEF Failing, Place, Spot
<1> QED BY <1>1, <1>2, <1>3 DEF Found

LEMMA ParityType ==
  ASSUME NEW e \in Parity
  PROVE  e.type = 3 /\ e.adr \in Nat /\ e.xor = {}
BY Fields, ErrorsAssumption DEF Parity

LEMMA NumberType ==
  ASSUME NEW e \in Found
  PROVE  Number(e) \in Nat /\ Number(e) <= 32
<1>1. IsFiniteSet(Bits) /\ Cardinality(Bits) = 32
  <2>1. /\ IsFiniteSet(0 .. 31)
        /\ Cardinality(0 .. 31) = IF 0 > 31 THEN 0 ELSE 31 - 0 + 1
    <3>1. 0 \in Int /\ 31 \in Int
      OBVIOUS
    <3> QED BY <3>1, FS_Interval, Zenon
  <2>2. (IF 0 > 31 THEN 0 ELSE 31 - 0 + 1) = 32
    OBVIOUS
  <2> QED BY <2>1, <2>2 DEF Bits
<1>2. Failing(e) \subseteq Bits
  BY FoundType
<1>3. IsFiniteSet(Failing(e)) /\ Cardinality(Failing(e)) <= Cardinality(Bits)
  BY <1>1, <1>2, FS_Subset
<1>4. Cardinality(Failing(e)) \in Nat
  BY <1>3, FS_CardinalityType
<1> QED BY <1>1, <1>3, <1>4 DEF Number

LEMMA CallType ==
  ASSUME NEW c \in Calls
  PROVE  /\ c.at \in Places /\ c.idx \in 0 .. BADRAM_MAXPATNS
         /\ c.line \in AboveFirst .. LastLine - 1
         /\ c.err \in Found \cup Parity \cup {MenuCall}
         /\ c.err.type \in {-1, 0, 1, 2, 3}
         /\ c.err.type = -1 => c.err = MenuCall
         /\ c.err.type = 3 => c.err \in Parity
         /\ c.err.type \in {0, 1, 2} => c.err \in Found
<1>1. /\ c.at \in Places /\ c.idx \in 0 .. BADRAM_MAXPATNS
      /\ c.line \in AboveFirst .. LastLine - 1
      /\ c.err \in Found \cup Parity \cup {MenuCall}
  BY DEF Calls
<1>2. MenuCall.type = -1
  BY DEF MenuCall
<1>3. \A e \in Found : e.type \in {0, 1, 2}
  BY FoundType
<1>4. \A e \in Parity : e.type = 3
  BY ParityType
<1> HIDE DEF MenuCall
<1> QED BY <1>1, <1>2, <1>3, <1>4

-----------------------------------------------------------------------------
(* What a step does to the calls in progress.                              *)
Went(p) ==
  /\ stack # <<>> /\ stack' \in Seq(Calls) /\ Len(stack') = Len(stack)
  /\ stack'[1].at = p /\ stack'[1].err = Top.err
  /\ \A k \in Depth : k # 1 => stack'[k] = stack[k]
Pushed(p, e) ==
  /\ stack' \in Seq(Calls) /\ Len(stack') = Len(stack) + 1
  /\ stack'[1].at = p /\ stack'[1].err = e
  /\ \A k \in Depth : stack'[k + 1] = stack[k]
Popped ==
  /\ stack # <<>> /\ stack' \in Seq(Calls) /\ Len(stack') = Len(stack) - 1
  /\ \A k \in 1 .. Len(stack) - 1 : stack'[k] = stack[k + 1]

LEMMA TopType ==
  ASSUME stack \in Seq(Calls), stack # <<>>
  PROVE  1 \in Depth /\ Len(stack) \in Nat \ {0} /\ Top \in Calls
<1>1. Len(stack) \in Nat /\ Len(stack) # 0
  BY EmptySeq, LenProperties
<1>2. 1 \in Depth
  BY <1>1 DEF Depth
<1> QED BY <1>1, <1>2, ElementOfSeq DEF Depth, Top

LEMMA GotoWent ==
  ASSUME stack \in Seq(Calls), stack # <<>>, NEW p \in Places, Goto(p)
  PROVE  Went(p)
<1>1. 1 \in DOMAIN stack /\ Top \in Calls /\ DOMAIN stack = Depth
  BY TopType, LenProperties DEF Depth
<1> DEFINE c == [Top EXCEPT !.at = p]
<1>2. c \in Calls /\ c.at = p /\ c.err = Top.err
  BY <1>1 DEF Calls
<1>3. stack' = [stack EXCEPT ![1] = c]
  BY DEF Goto, Top
<1> HIDE DEF c
<1>4. stack' \in Seq(Calls) /\ Len(stack') = Len(stack) /\ stack'[1] = c
      /\ \A k \in DOMAIN stack : k # 1 => stack'[k] = stack[k]
  BY <1>1, <1>2, <1>3, ExceptSeq
<1> QED BY <1>1, <1>2, <1>4 DEF Went

LEMMA CallPushed ==
  ASSUME stack \in Seq(Calls), NEW p \in Places,
         NEW e \in Found \cup Parity \cup {MenuCall}, Call(p, e)
  PROVE  Pushed(p, e)
<1> DEFINE c == [at |-> p, err |-> e, idx |-> 0, line |-> AboveFirst]
<1>1. 0 \in 0 .. BADRAM_MAXPATNS /\ AboveFirst \in AboveFirst .. LastLine - 1
  BY PlacesAssumption DEF AboveFirst
<1>2. c \in Calls /\ c.at = p /\ c.err = e
  BY <1>1 DEF Calls
<1>3. stack' = <<c>> \o stack
  BY DEF Call
<1> HIDE DEF c
<1>4. <<c>> \in Seq(Calls) /\ Len(<<c>>) = 1 /\ <<c>>[1] = c
  BY <1>2
<1>5. /\ stack' \in Seq(Calls) /\ Len(stack') = 1 + Len(stack)
      /\ \A k \in 1 .. 1 + Len(stack) :
           stack'[k] = IF k <= 1 THEN <<c>>[k] ELSE stack[k - 1]
  BY <1>3, <1>4, ConcatProperties
<1>6. Len(stack) \in Nat
  BY LenProperties
<1>7. stack'[1] = c
  BY <1>4, <1>5, <1>6
<1>8. ASSUME NEW k \in Depth PROVE stack'[k + 1] = stack[k]
  BY <1>5, <1>6 DEF Depth
<1> QED BY <1>2, <1>5, <1>6, <1>7, <1>8 DEF Pushed

LEMMA ReturnPopped ==
  ASSUME stack \in Seq(Calls), stack # <<>>, stack' = Tail(stack)
  PROVE  Popped
<1>1. /\ Tail(stack) \in Seq(Calls) /\ Len(Tail(stack)) = Len(stack) - 1
      /\ \A k \in 1 .. Len(Tail(stack)) : Tail(stack)[k] = stack[k + 1]
  BY HeadTailProperties
<1> QED BY <1>1 DEF Popped

Still == nmi_masked' = nmi_masked
Returned == Popped /\ nmi_masked' = (nmi_masked /\ Top.err.type # 3)

(* The steps of the program, by what they do to the innermost call.        *)
LEMMA ProgramMoves ==
  ASSUME Types
  PROVE  /\ Program => stack # <<>>
         /\ Count => Top.at = "count" /\ Went("mode") /\ Still
         /\ InSummary \/ Suppress \/ InOtherMode => Top.at = "mode" /\ Returned
         /\ BeginLine => Top.at = "mode" /\ Went("input") /\ Still
         /\ InPatterns => /\ Top.at = "mode"
                          /\ \/ Returned
                             \/ Top.err.type = 0 /\ Went("patinput") /\ Still
         /\ EndInput => \/ Top.at = "input" /\ Went("scroll") /\ Still
                        \/ Top.at = "patinput" /\ Returned
                        \/ Top.at = "patinput" /\ Went("patscroll") /\ Still
         /\ Scroll => \/ Top.at = "scroll" /\ (Went("raise") \/ Went("wait")) /\ Still
                      \/ Top.at = "patscroll" /\ (Went("patraise") \/ Went("patwait")) /\ Still
         /\ Increment => \/ Top.at = "raise" /\ Went("line") /\ Still
                         \/ Top.at = "patraise" /\ Went("patline") /\ Still
         /\ EndWait => \/ Top.at = "wait" /\ Went("line") /\ Still
                       \/ Top.at = "patwait" /\ Went("patline") /\ Still
         /\ PrintLine => Top.at = "line" /\ Returned
         /\ PrintPatterns => /\ Top.at = "patline"
                             /\ Returned \/ (Went("patscroll") /\ Still)
<1> USE DEF Types, At
<1>1. ASSUME NEW p \in Places, Goto(p), stack # <<>> PROVE Went(p)
  BY <1>1, GotoWent
<1>2. ASSUME Return, stack # <<>> PROVE Returned
  BY <1>2, ReturnPopped DEF Return, Returned
<1>3. Program => stack # <<>>
  BY DEF Program, Count, InSummary, Suppress, BeginLine, InPatterns, InOtherMode, EndInput,
         Scroll, Increment, Raising, EndWait, PrintLine, PrintPatterns
<1>4. Count => Top.at = "count" /\ Went("mode") /\ Still
  BY <1>1 DEF Count, Still, Places
<1>5. InSummary \/ Suppress \/ InOtherMode => Top.at = "mode" /\ Returned
  BY <1>2 DEF InSummary, Suppress, InOtherMode
<1>6. BeginLine => Top.at = "mode" /\ Went("input") /\ Still
  BY <1>1 DEF BeginLine, Still, Places, LinePlaces
<1>7. InPatterns => /\ Top.at = "mode"
                    /\ \/ Returned
                       \/ Top.err.type = 0 /\ Went("patinput") /\ Still
  BY <1>1, <1>2 DEF InPatterns, Still, Places, PatPlaces
<1>8. EndInput => \/ Top.at = "input" /\ Went("scroll") /\ Still
                  \/ Top.at = "patinput" /\ Returned
                  \/ Top.at = "patinput" /\ Went("patscroll") /\ Still
  BY <1>1, <1>2 DEF EndInput, Still, Places, LinePlaces, PatPlaces
<1>9. Scroll => \/ Top.at = "scroll" /\ (Went("raise") \/ Went("wait")) /\ Still
                \/ Top.at = "patscroll" /\ (Went("patraise") \/ Went("patwait")) /\ Still
  <2> SUFFICES ASSUME Scroll
               PROVE  \/ Top.at = "scroll" /\ (Went("raise") \/ Went("wait")) /\ Still
                      \/ Top.at = "patscroll" /\ (Went("patraise") \/ Went("patwait")) /\ Still
    OBVIOUS
  <2>1. stack # <<>> /\ Top.at \in {"scroll", "patscroll"} /\ Still
    BY DEF Scroll, Still
  <2>2. CASE ~ (msg_line < Bottom)
    <3>1. \/ Top.at = "scroll" /\ Goto("wait")
          \/ Top.at = "patscroll" /\ Goto("patwait")
      BY <2>1, <2>2 DEF Scroll
    <3> QED BY <1>1, <2>1, <3>1 DEF Places, LinePlaces, PatPlaces
  <2>3. ASSUME msg_line < Bottom, NEW p \in Places,
               stack' = [stack EXCEPT ![1].at = p, ![1].line = msg_line]
        PROVE  Went(p)
    <3> DEFINE c == [Top EXCEPT !.at = p, !.line = msg_line]
    <3>1. 1 \in Depth /\ Top \in Calls /\ DOMAIN stack = Depth
      BY <2>1, TopType, LenProperties DEF Depth
    <3>2. stack' = [stack EXCEPT ![1] = c]
      BY <2>3, <3>1 DEF Top, Calls
    <3>3. msg_line \in AboveFirst .. LastLine - 1
      <4>1. msg_line \in LINE_SCROLL - 1 .. LastLine + 1
        OBVIOUS
      <4>2. LINE_SCROLL \in Nat /\ LastLine \in Nat
        BY PlacesAssumption
      <4> HIDE DEF Types, At
      <4> QED BY <2>3, <4>1, <4>2 DEF AboveFirst, Bottom
    <3>4. c \in Calls /\ c.at = p /\ c.err = Top.err
      BY <3>1, <3>3 DEF Calls
    <3> HIDE DEF c
    <3>5. stack' \in Seq(Calls) /\ Len(stack') = Len(stack) /\ stack'[1] = c
          /\ \A k \in Depth : k # 1 => stack'[k] = stack[k]
      BY <3>1, <3>2, <3>4, ExceptSeq DEF Depth
    <3> QED BY <2>1, <3>4, <3>5 DEF Went
  <2>4. CASE msg_line < Bottom
    <3>1. \/ Top.at = "scroll" /\ stack' = [stack EXCEPT ![1].at = "raise", ![1].line = msg_line]
          \/ Top.at = "patscroll"
             /\ stack' = [stack EXCEPT ![1].at = "patraise", ![1].line = msg_line]
      BY <2>1, <2>4 DEF Scroll
    <3>2. "raise" \in Places /\ "patraise" \in Places
      BY DEF Places, LinePlaces, PatPlaces
    <3> QED BY <2>1, <2>3, <2>4, <3>1, <3>2
  <2> QED BY <2>2, <2>4
<1>13. Increment => \/ Top.at = "raise" /\ Went("line") /\ Still
                    \/ Top.at = "patraise" /\ Went("patline") /\ Still
  BY <1>1 DEF Increment, Raising, Still, Places, LinePlaces, PatPlaces
<1>10. EndWait => \/ Top.at = "wait" /\ Went("line") /\ Still
                  \/ Top.at = "patwait" /\ Went("patline") /\ Still
  BY <1>1 DEF EndWait, Still, Places, LinePlaces, PatPlaces
<1>11. PrintLine => Top.at = "line" /\ Returned
  BY <1>2 DEF PrintLine
<1>12. PrintPatterns => /\ Top.at = "patline"
                        /\ Returned \/ (Went("patscroll") /\ Still)
  <2> SUFFICES ASSUME PrintPatterns 
               PROVE  Top.at = "patline" /\ (Returned \/ (Went("patscroll") /\ Still))
    OBVIOUS
  <2>1. Top.at = "patline" /\ stack # <<>>
    BY DEF PrintPatterns
  <2>2. CASE Return
    <3>1. Returned
      BY <1>2, <2>1, <2>2
    <3> QED BY <2>1, <3>1
  <2>3. CASE ~ Return
    <3> DEFINE c == [Top EXCEPT !.at = "patscroll", !.idx = NextOnLine(Top.idx)]
    <3>1. /\ NextOnLine(Top.idx) < numpatn /\ nmi_masked' = nmi_masked
          /\ stack' = [stack EXCEPT ![1].at = "patscroll", ![1].idx = NextOnLine(@)]
      BY <2>1, <2>3 DEF PrintPatterns
    <3>2. 1 \in Depth /\ Top \in Calls /\ DOMAIN stack = Depth
      BY <2>1, TopType, LenProperties DEF Depth
    <3>3. stack' = [stack EXCEPT ![1] = c]
      BY <3>1, <3>2 DEF Top, Calls
    <3>4. NextOnLine(Top.idx) \in 0 .. BADRAM_MAXPATNS
      <4>1. Top.idx \in 0 .. BADRAM_MAXPATNS
        BY <3>2, CallType
      <4>2. numpatn \in 0 .. BADRAM_MAXPATNS
        OBVIOUS
      <4>3. PatternsPerLine \in Nat /\ BADRAM_MAXPATNS \in Nat
        BY PlacesAssumption
      <4> HIDE DEF Types, At
      <4> QED BY <3>1, <4>1, <4>2, <4>3 DEF NextOnLine
    <3>5. c \in Calls /\ c.at = "patscroll" /\ c.err = Top.err
      BY <3>2, <3>4 DEF Calls, Places, PatPlaces
    <3> HIDE DEF c
    <3>6. stack' \in Seq(Calls) /\ Len(stack') = Len(stack) /\ stack'[1] = c
          /\ \A k \in Depth : k # 1 => stack'[k] = stack[k]
      BY <3>2, <3>3, <3>5, ExceptSeq DEF Depth
    <3> QED BY <2>1, <3>1, <3>5, <3>6 DEF Went, Still
  <2> QED BY <2>2, <2>3
<1> QED BY <1>3, <1>4, <1>5, <1>6, <1>7, <1>8, <1>9, <1>10, <1>11, <1>12, <1>13

LEMMA OutsideMoves ==
  ASSUME Types
  PROVE  /\ \A e \in Found : Report(e) => stack = <<>> /\ Pushed("count", e) /\ Still
         /\ \A adr \in ParityErrors : Interrupt(adr) =>
              /\ Pushed("count", ParityError(adr)) /\ ~ nmi_masked /\ nmi_masked'
              /\ ParityError(adr) \in Parity
         /\ \A mode \in UserModes : SetMode(mode) =>
              /\ Still /\ AtKeyboard
              /\ \/ mode # "patterns" /\ UNCHANGED stack
                 \/ mode = "patterns" /\ Pushed("patinput", MenuCall)
              /\ stack # <<>> => Top.at \in MenuPlaces
         /\ SelectTest \/ Lock \/ Unlock => UNCHANGED stack /\ Still
         /\ \A t \in 0 .. LastTest : NextTest(t) => UNCHANGED stack /\ Still
<1> USE DEF Types, Still
<1>1. ASSUME NEW e \in Found, Report(e) PROVE stack = <<>> /\ Pushed("count", e) /\ Still
  BY <1>1, CallPushed DEF Report, Places
<1>2. ASSUME NEW adr \in ParityErrors, Interrupt(adr)
      PROVE  /\ Pushed("count", ParityError(adr)) /\ ~ nmi_masked /\ nmi_masked'
             /\ ParityError(adr) \in Parity
  <2>1. ParityError(adr) \in Parity
    BY DEF Parity
  <2> QED BY <1>2, <2>1, CallPushed DEF Interrupt, Places
<1>3. ASSUME NEW mode \in UserModes, SetMode(mode)
      PROVE  /\ Still /\ AtKeyboard
             /\ \/ mode # "patterns" /\ UNCHANGED stack
                \/ mode = "patterns" /\ Pushed("patinput", MenuCall)
             /\ stack # <<>> => Top.at \in MenuPlaces
  <2>1. Still /\ AtKeyboard /\ (Waiting => MenuInWait)
    BY <1>3 DEF SetMode, UserActs
  <2>2. CASE mode # "patterns"
    BY <1>3, <2>1, <2>2 DEF SetMode, AtKeyboard, Waiting, At, MenuPlaces
  <2>3. CASE mode = "patterns"
    <3>1. Call("patinput", MenuCall)
      BY <1>3, <2>3 DEF SetMode, MenuCall
    <3>2. "patinput" \in Places /\ MenuCall \in Found \cup Parity \cup {MenuCall}
      BY DEF Places, PatPlaces
    <3>3. Pushed("patinput", MenuCall)
      BY <3>1, <3>2, CallPushed
    <3> QED BY <2>1, <2>3, <3>3 DEF AtKeyboard, Waiting, At, MenuPlaces
  <2> QED BY <2>2, <2>3
<1>4. SelectTest \/ Lock \/ Unlock => UNCHANGED stack /\ Still
  BY DEF SelectTest, Lock, Unlock
<1>5. \A t \in 0 .. LastTest : NextTest(t) => UNCHANGED stack /\ Still
  BY DEF NextTest
<1> QED BY <1>1, <1>2, <1>3, <1>4, <1>5

-----------------------------------------------------------------------------
(* The calls stay nested.                                                  *)
LEMMA DepthIs ==
  ASSUME Types
  PROVE  /\ Len(stack) \in Nat /\ (stack # <<>> <=> Len(stack) # 0)
         /\ \A k \in Depth : k \in Nat \ {0} /\ k <= Len(stack) /\ stack[k] \in Calls
         /\ \A k \in Nat \ {0} : k <= Len(stack) => k \in Depth
         /\ Top = stack[1]
<1>1. stack \in Seq(Calls)
  BY DEF Types
<1>2. Len(stack) \in Nat /\ (stack # <<>> <=> Len(stack) # 0)
  BY <1>1, EmptySeq, LenProperties
<1> QED BY <1>1, <1>2, ElementOfSeq DEF Depth, Top

LEMMA NestingKept ==
  ASSUME Nesting, UNCHANGED stack, Still
  PROVE  Nesting'
BY DEF Nesting, Depth, Still, MenuPlaces

LEMMA NestingEmptied ==
  ASSUME stack' = <<>>
  PROVE  Nesting'
<1>1. Len(stack') = 0
  BY EmptySeq
<1>2. Depth' = {}
  BY <1>1 DEF Depth
<1> QED BY <1>2 DEF Nesting

LEMMA NestingWent ==
  ASSUME Types, Nesting, Still, NEW p \in Places, Went(p),
         Top.err.type = -1 => p \in PatPlaces,
         Top.err.type = 3 => p \notin PatPlaces
  PROVE  Nesting'
<1>1. /\ Depth' = Depth /\ Len(stack') = Len(stack) /\ 1 \in Depth
      /\ stack'[1].at = p /\ stack'[1].err = stack[1].err
      /\ \A k \in Depth : k # 1 => stack'[k] = stack[k]
      /\ nmi_masked' = nmi_masked
  BY DepthIs DEF Went, Depth, Still, Top
<1>2. \A k \in Depth : stack'[k].err = stack[k].err
  BY <1>1
<1>3. \A k \in Depth : k # 1 => k - 1 \in Depth
  BY DepthIs DEF Depth
<1>4. MenuPlaces' = MenuPlaces
  BY DEF MenuPlaces
<1>5. ASSUME NEW k \in Depth
      PROVE  /\ stack'[k].err.type = -1 => stack'[k].at \in PatPlaces
             /\ stack'[k].err.type = 3  => stack'[k].at \notin PatPlaces /\ nmi_masked'
             /\ k # Len(stack') => stack'[k].err.type \in {-1, 3}
             /\ k # 1 /\ stack'[k - 1].err.type = -1 => stack'[k].at \in MenuPlaces
  <2>1. k # 1 => stack'[k] = stack[k] /\ k - 1 \in Depth
    BY <1>1, <1>3
  <2>2. stack[k].err.type = 3 => nmi_masked
    BY DEF Nesting
  <2>3. CASE k = 1
    BY <1>1, <2>2, <2>3 DEF Nesting, Top
  <2>4. CASE k # 1
    BY <1>1, <1>2, <2>1, <2>4 DEF Nesting
  <2> QED BY <2>3, <2>4
<1>6. \A j, k \in Depth : j < k /\ stack'[k].err.type = 3 => stack'[j].err.type = -1
  BY <1>2 DEF Nesting
<1> QED BY <1>1, <1>4, <1>5, <1>6 DEF Nesting

LEMMA NestingPopped ==
  ASSUME Types, Nesting, Returned
  PROVE  Nesting'
<1>1. /\ Len(stack) \in Nat \ {0} /\ Len(stack') = Len(stack) - 1
      /\ \A k \in 1 .. Len(stack) - 1 : stack'[k] = stack[k + 1]
      /\ nmi_masked' = (nmi_masked /\ stack[1].err.type # 3)
  BY DepthIs DEF Returned, Popped, Top
<1>2. \A k \in Depth' : /\ k \in Nat \ {0} /\ k + 1 \in Depth /\ stack'[k] = stack[k + 1]
                        /\ (k # Len(stack') => k + 1 # Len(stack))
                        /\ (k # 1 => k - 1 \in Depth')
  BY <1>1 DEF Depth
<1>3. MenuPlaces' = MenuPlaces
  BY DEF MenuPlaces
<1>4. ASSUME NEW k \in Depth', stack'[k].err.type = 3
      PROVE  stack'[k].at \notin PatPlaces /\ nmi_masked'
  <2>1. k + 1 \in Depth /\ stack[k + 1].err.type = 3 /\ 1 \in Depth /\ 1 < k + 1
    BY <1>1, <1>2, <1>4 DEF Depth
  <2>2. stack[1].err.type = -1 /\ nmi_masked /\ stack[k + 1].at \notin PatPlaces
    BY <2>1 DEF Nesting
  <2>3. stack[1].err.type # 3
    BY <2>2
  <2>4. nmi_masked'
    BY <1>1, <2>2, <2>3, Zenon
  <2> QED BY <1>2, <2>2, <2>4
<1>5. ASSUME NEW k \in Depth', k # 1, stack'[k - 1].err.type = -1
      PROVE  stack'[k].at \in MenuPlaces
  <2>1. /\ k + 1 \in Depth /\ stack'[k] = stack[k + 1] /\ k + 1 # 1
        /\ k - 1 \in Depth' /\ stack'[k - 1] = stack[(k - 1) + 1] /\ (k - 1) + 1 = (k + 1) - 1
    BY <1>2, <1>5
  <2> QED BY <1>5, <2>1 DEF Nesting
<1>6. ASSUME NEW k \in Depth'
      PROVE  /\ stack'[k].err.type = -1 => stack'[k].at \in PatPlaces
             /\ k # Len(stack') => stack'[k].err.type \in {-1, 3}
  BY <1>2 DEF Nesting
<1>7. ASSUME NEW j \in Depth', NEW k \in Depth', j < k, stack'[k].err.type = 3
      PROVE  stack'[j].err.type = -1
  <2>1. j + 1 \in Depth /\ k + 1 \in Depth /\ j + 1 < k + 1
    BY <1>2, <1>7
  <2> QED BY <1>2, <1>7, <2>1 DEF Nesting
<1> QED BY <1>3, <1>4, <1>5, <1>6, <1>7 DEF Nesting

(* A call put on top of the others.                                        *)
LEMMA NestingPushed ==
  ASSUME Types, Nesting, NEW p \in Places, NEW e \in Found \cup Parity \cup {MenuCall},
         Pushed(p, e),
         \/ e \in Found /\ p = "count" /\ stack = <<>> /\ Still
         \/ e \in Parity /\ p = "count" /\ ~ nmi_masked /\ nmi_masked'
         \/ e = MenuCall /\ p = "patinput" /\ (stack # <<>> => Top.at \in MenuPlaces) /\ Still
  PROVE  Nesting'
<1>1. /\ Len(stack) \in Nat /\ Len(stack') = Len(stack) + 1
      /\ stack'[1].at = p /\ stack'[1].err = e
      /\ \A k \in Depth : stack'[k + 1] = stack[k]
  BY DepthIs DEF Pushed
<1>2. \A k \in Depth' : k # 1 => /\ k - 1 \in Depth /\ stack'[k] = stack[k - 1]
                                 /\ (k # Len(stack') => k - 1 # Len(stack))
  <2> SUFFICES ASSUME NEW k \in Depth', k # 1
               PROVE  /\ k - 1 \in Depth /\ stack'[k] = stack[k - 1]
                      /\ (k # Len(stack') => k - 1 # Len(stack))
    OBVIOUS
  <2>1. k \in Int /\ k - 1 \in Depth /\ (k # Len(stack') => k - 1 # Len(stack))
    BY <1>1 DEF Depth
  <2>2. stack'[(k - 1) + 1] = stack[k - 1] /\ (k - 1) + 1 = k
    BY <1>1, <2>1
  <2> QED BY <2>1, <2>2
<1>3. MenuPlaces' = MenuPlaces
  BY DEF MenuPlaces
<1>4. /\ e \in Found  => e.type \in {0, 1, 2}
      /\ e \in Parity => e.type = 3
      /\ e = MenuCall => e.type = -1
  BY FoundType, ParityType DEF MenuCall
<1>5. ASSUME stack = <<>> PROVE Depth' = {1} /\ Len(stack') = 1
  BY <1>1, <1>5, DepthIs DEF Depth
<1>6. e \in Parity => \A k \in Depth : stack[k].err.type # 3
  BY <1>4 DEF Nesting, Still
<1>7. ASSUME NEW k \in Depth'
      PROVE  /\ stack'[k].err.type = -1 => stack'[k].at \in PatPlaces
             /\ k # Len(stack') => stack'[k].err.type \in {-1, 3}
  <2>1. CASE k = 1
    <3>1. e \in Found => k = Len(stack')
      BY <1>4, <1>5, <2>1 DEF MenuCall
    <3>2. e.type = -1 => p \in PatPlaces
      BY <1>4 DEF PatPlaces
    <3> QED BY <1>1, <1>4, <2>1, <3>1, <3>2
  <2>2. CASE k # 1
    BY <1>2, <2>2 DEF Nesting
  <2> QED BY <2>1, <2>2
<1>8. ASSUME NEW k \in Depth', stack'[k].err.type = 3
      PROVE  stack'[k].at \notin PatPlaces /\ nmi_masked'
  <2>1. CASE k = 1
    <3>1. e \in Parity /\ p = "count" /\ nmi_masked'
      BY <1>1, <1>4, <1>8, <2>1
    <3> QED BY <1>1, <2>1, <3>1 DEF PatPlaces
  <2>2. CASE k # 1
    <3>1. k - 1 \in Depth /\ stack'[k] = stack[k - 1] /\ stack[k - 1].err.type = 3
      BY <1>2, <1>8, <2>2
    <3>2. stack[k - 1].at \notin PatPlaces /\ nmi_masked
      BY <3>1 DEF Nesting
    <3>3. nmi_masked'
      BY <1>5, <2>2, <3>2 DEF Still
    <3> QED BY <3>1, <3>2, <3>3
  <2> QED BY <2>1, <2>2
<1>9. ASSUME NEW k \in Depth', k # 1, stack'[k - 1].err.type = -1
      PROVE  stack'[k].at \in MenuPlaces
  <2>1. k \in Int /\ k - 1 \in Depth' /\ k - 1 \in Depth /\ stack'[k] = stack[k - 1]
    BY <1>1, <1>2, <1>9 DEF Depth
  <2>2. CASE k = 2
    <3>1. e.type = -1 /\ stack # <<>> /\ stack'[k] = Top
      BY <1>1, <1>9, <2>1, <2>2, DepthIs DEF Depth
    <3>2. e = MenuCall
      BY <1>4, <3>1
    <3> QED BY <1>4, <3>1, <3>2, <1>5
  <2>3. CASE k # 2
    <3>1. k - 1 # 1 /\ stack'[k - 1] = stack[(k - 1) - 1]
      BY <1>2, <2>1, <2>3
    <3> QED BY <1>9, <2>1, <3>1 DEF Nesting
  <2> QED BY <2>2, <2>3
<1>10. ASSUME NEW j \in Depth', NEW k \in Depth', j < k, stack'[k].err.type = 3
       PROVE  stack'[j].err.type = -1
  <2>1. j \in Nat \ {0} /\ k \in Nat /\ k # 1
    BY <1>1, <1>10 DEF Depth
  <2>2. k - 1 \in Depth /\ stack[k - 1].err.type = 3
    BY <1>2, <1>10, <2>1
  <2>3. CASE j = 1
    <3>1. e \notin Found /\ e \notin Parity
      <4>1. e \notin Parity
        BY <1>6, <2>2
      <4>2. stack # <<>>
        BY <1>5, <2>1
      <4> QED BY <1>4, <4>1, <4>2
    <3> QED BY <1>1, <1>4, <2>3, <3>1
  <2>4. CASE j # 1
    <3>1. j - 1 \in Depth /\ stack'[j] = stack[j - 1] /\ j - 1 < k - 1
      BY <1>2, <1>10, <2>1, <2>4
    <3> QED BY <2>2, <3>1 DEF Nesting
  <2> QED BY <2>3, <2>4
<1> QED BY <1>3, <1>7, <1>8, <1>9, <1>10 DEF Nesting

LEMMA NestingNext ==
  ASSUME Types, Nesting, [Next]_vars
  PROVE  Nesting'
<1>1. ASSUME NEW p \in Places, Went(p), Still,
             Top.err.type = -1 => p \in PatPlaces, Top.err.type = 3 => p \notin PatPlaces
      PROVE  Nesting'
  BY <1>1, NestingWent
<1>2. Returned => Nesting'
  BY NestingPopped
<1>3. CASE Program
  <2>1. stack # <<>> /\ 1 \in Depth
    BY <1>3, ProgramMoves, DepthIs
  <2>2. /\ Top.err.type = -1 => Top.at \in PatPlaces
        /\ Top.err.type = 3  => Top.at \notin PatPlaces
    BY <2>1 DEF Nesting, Top
  <2> USE DEF Places, PatPlaces, LinePlaces
  <2>3. CASE Count \/ BeginLine
    <3>1. \/ Top.at = "count" /\ Went("mode") /\ Still
          \/ Top.at = "mode" /\ Went("input") /\ Still
      BY <2>3, ProgramMoves
    <3> QED BY <1>1, <2>2, <3>1
  <2>4. CASE InPatterns
    <3>1. \/ Returned
          \/ Top.err.type = 0 /\ Went("patinput") /\ Still
      BY <2>4, ProgramMoves
    <3> QED BY <1>1, <1>2, <3>1
  <2>5. CASE EndInput
    <3>1. \/ Returned
          \/ Top.at = "input" /\ Went("scroll") /\ Still
          \/ Top.at = "patinput" /\ Went("patscroll") /\ Still
      BY <2>5, ProgramMoves
    <3> QED BY <1>1, <1>2, <2>2, <3>1
  <2>6. CASE Scroll
    <3>1. \/ Top.at = "scroll" /\ (Went("raise") \/ Went("wait")) /\ Still
          \/ Top.at = "patscroll" /\ (Went("patraise") \/ Went("patwait")) /\ Still
      BY <2>6, ProgramMoves
    <3> QED BY <1>1, <2>2, <3>1
  <2>10. CASE Increment
    <3>1. \/ Top.at = "raise" /\ Went("line") /\ Still
          \/ Top.at = "patraise" /\ Went("patline") /\ Still
      BY <2>10, ProgramMoves
    <3> QED BY <1>1, <2>2, <3>1
  <2>7. CASE EndWait
    <3>1. \/ Top.at = "wait" /\ Went("line") /\ Still
          \/ Top.at = "patwait" /\ Went("patline") /\ Still
      BY <2>7, ProgramMoves
    <3> QED BY <1>1, <2>2, <3>1
  <2>8. CASE PrintPatterns
    <3>1. Top.at = "patline" /\ (Returned \/ (Went("patscroll") /\ Still))
      BY <2>8, ProgramMoves
    <3> QED BY <1>1, <1>2, <2>2, <3>1
  <2>9. CASE InSummary \/ Suppress \/ InOtherMode \/ PrintLine
    BY <1>2, <2>9, ProgramMoves
  <2> QED BY <1>3, <2>3, <2>4, <2>5, <2>6, <2>7, <2>8, <2>9, <2>10 DEF Program
<1>4. ASSUME NEW e \in Found, Report(e) PROVE Nesting'
  BY <1>4, OutsideMoves, NestingPushed DEF Places
<1>5. ASSUME NEW adr \in ParityErrors, Interrupt(adr) PROVE Nesting'
  <2>1. /\ Pushed("count", ParityError(adr)) /\ ~ nmi_masked /\ nmi_masked'
        /\ ParityError(adr) \in Parity
    BY <1>5, OutsideMoves
  <2> QED BY <2>1, NestingPushed DEF Places
<1>6. ASSUME NEW mode \in UserModes, SetMode(mode) PROVE Nesting'
  <2>1. Still /\ (stack # <<>> => Top.at \in MenuPlaces)
        /\ (UNCHANGED stack \/ Pushed("patinput", MenuCall))
    BY <1>6, OutsideMoves
  <2> QED BY <2>1, NestingKept, NestingPushed DEF Places, PatPlaces
<1>7. CASE SelectTest \/ Lock \/ Unlock
  BY <1>7, OutsideMoves, NestingKept
<1>8. CASE Restart
  BY <1>8, NestingEmptied DEF Restart
<1>9. ASSUME NEW t \in 0 .. LastTest, NextTest(t) PROVE Nesting'
  BY <1>9, OutsideMoves, NestingKept
<1>10. CASE UNCHANGED vars
  BY <1>10, NestingKept DEF vars, Still
<1> QED BY <1>3, <1>4, <1>5, <1>6, <1>7, <1>8, <1>9, <1>10 DEF Next

-----------------------------------------------------------------------------
(* A line is shown where it belongs.                                       *)

(* What stands between a call and a line that it interrupted: nothing but  *)
(* the NMI, which menus interrupt only in its own input.                   *)
LEMMA OnlyAnNmiAbove ==
  ASSUME Types, Nesting, ~ MenuInWait, NEW k \in Depth, stack[k].at \in Scrolled, k # 1
  PROVE  /\ k - 1 \in Depth /\ stack[k - 1].err.type = 3
         /\ k # 2 => stack[k - 1].at = "input"
<1>1. k \in Nat /\ k - 1 \in Depth /\ k - 1 # Len(stack) /\ Len(stack) \in Nat
  BY DepthIs DEF Depth
<1>2. stack[k - 1].err.type \in {-1, 3}
  BY <1>1 DEF Nesting
<1>3. stack[k - 1].err.type # -1
  BY DEF Nesting, MenuPlaces, Scrolled
<1>4. stack[k - 1].err.type = 3 /\ stack[k - 1].at \notin PatPlaces
  BY <1>1, <1>2, <1>3 DEF Nesting
<1>5. ASSUME k # 2 PROVE stack[k - 1].at = "input"
  <2>1. k - 1 # 1 /\ (k - 1) - 1 \in Depth /\ (k - 1) - 1 < k - 1
    BY <1>1, <1>5 DEF Depth
  <2>2. stack[(k - 1) - 1].err.type = -1
    BY <1>1, <1>4, <2>1 DEF Nesting
  <2>3. stack[k - 1].at \in MenuPlaces
    BY <1>1, <2>1, <2>2 DEF Nesting
  <2> QED BY <1>4, <2>3 DEF MenuPlaces, PatPlaces
<1> QED BY <1>1, <1>4, <1>5

LEMMA PlacedNext ==
  ASSUME Types, Nesting, Placed, [Next]_vars
  PROVE  Placed'
<1>1. msg_line \in Int /\ LINE_SCROLL \in Nat /\ LastLine \in Nat /\ LINE_SCROLL <= LastLine
  BY PlacesAssumption DEF Types
<1> DEFINE P == (\A k \in Depth : stack[k].at \in Scrolled => msg_line >= LINE_SCROLL \/ Above(k))'
<1> SUFFICES ASSUME ~ MenuInWait PROVE P
  BY DEF Placed
<1>2. ASSUME UNCHANGED <<stack, msg_line>> PROVE P
  BY <1>2 DEF Placed, Depth, Above
(* No step but that of the menu takes msg_line back.                       *)
<1>3. ASSUME NEW p \in Places, Went(p), msg_line' >= msg_line \/ msg_line' >= LINE_SCROLL,
             msg_line' \in Int,
             Top.at \notin ToScroll \/ p \in ToScroll
                \/ msg_line' >= LINE_SCROLL,
             p \in Scrolled => Top.at \in Scrolled \/ msg_line' >= LINE_SCROLL
      PROVE  P
  <2>1. /\ Depth' = Depth /\ 1 \in Depth /\ stack'[1].at = p
        /\ \A k \in Depth : k # 1 => stack'[k] = stack[k] /\ k \in Int
    BY <1>3, DepthIs DEF Went, Depth
  <2> SUFFICES ASSUME NEW k \in Depth, stack'[k].at \in Scrolled, ~ (msg_line' >= LINE_SCROLL)
               PROVE  k # 1 /\ stack'[k - 1].at \in ToScroll
    BY <2>1 DEF Above
  <2>2. ~ (msg_line >= LINE_SCROLL)
    BY <1>1, <1>3
  <2>3. k # 1
    BY <1>3, <2>1, <2>2, DepthIs DEF Placed, Above
  <2>4. stack[k - 1].at \in ToScroll /\ k - 1 \in Depth
    BY <2>1, <2>2, <2>3, DepthIs DEF Placed, Above, Depth
  <2>5. CASE k - 1 = 1
    BY <1>3, <2>1, <2>3, <2>4, <2>5, DepthIs
  <2>6. CASE k - 1 # 1
    BY <2>1, <2>3, <2>4, <2>6
  <2> QED BY <2>5, <2>6
<1>4. ASSUME Popped, msg_line' = msg_line, Top.at \notin ToScroll PROVE P
  <2>1. /\ Len(stack) \in Nat \ {0} /\ Len(stack') = Len(stack) - 1
        /\ \A k \in 1 .. Len(stack) - 1 : stack'[k] = stack[k + 1]
        /\ Top = stack[1]
    BY <1>4, DepthIs DEF Popped
  <2> SUFFICES ASSUME NEW k \in Depth', stack'[k].at \in Scrolled, ~ (msg_line >= LINE_SCROLL)
               PROVE  k # 1 /\ stack'[k - 1].at \in ToScroll
    BY <1>4 DEF Above
  <2>2. /\ k \in Nat \ {0} /\ k + 1 \in Depth /\ k + 1 # 1 /\ stack[k + 1].at \in Scrolled
        /\ (k + 1) - 1 = k
    BY <2>1 DEF Depth
  <2>3. stack[k].at \in ToScroll
    BY <2>2 DEF Placed, Above
  <2>4. k # 1 /\ k - 1 \in 1 .. Len(stack) - 1 /\ (k - 1) + 1 = k
    BY <1>4, <2>1, <2>2, <2>3 DEF Depth
  <2> QED BY <2>1, <2>3, <2>4
<1>5. ASSUME NEW p \in {"count", "patinput"}, NEW e, Pushed(p, e),
             \A k \in Depth : stack[k].at \in Scrolled /\ ~ (msg_line' >= LINE_SCROLL) =>
               k # 1 /\ stack[k - 1].at \in ToScroll
      PROVE  P
  <2>1. /\ Len(stack) \in Nat /\ Len(stack') = Len(stack) + 1
        /\ \A k \in Depth : stack'[k + 1] = stack[k]
        /\ stack'[1].at = p
    BY <1>5, DepthIs DEF Pushed
  <2> SUFFICES ASSUME NEW k \in Depth', stack'[k].at \in Scrolled, ~ (msg_line' >= LINE_SCROLL)
               PROVE  k # 1 /\ stack'[k - 1].at \in ToScroll
    BY DEF Above
  <2>2. k # 1 /\ k \in Int
    BY <2>1 DEF Scrolled, Depth
  <2>3. k - 1 \in Depth /\ (k - 1) + 1 = k
    BY <2>1, <2>2 DEF Depth
  <2>4. stack[k - 1].at \in Scrolled
    BY <2>1, <2>3
  <2>5. k - 1 # 1 /\ stack[(k - 1) - 1].at \in ToScroll
    BY <1>5, <2>3, <2>4
  <2>6. (k - 1) - 1 \in Depth /\ ((k - 1) - 1) + 1 = k - 1
    BY <2>1, <2>2, <2>3, <2>5 DEF Depth
  <2>7. stack'[((k - 1) - 1) + 1] = stack[(k - 1) - 1]
    BY <2>1, <2>6
  <2> QED BY <2>2, <2>5, <2>6, <2>7
<1>6. CASE Program
  <2> USE DEF Places, PatPlaces, LinePlaces, Scrolled, ToScroll
  <2>1. CASE Count \/ BeginLine
    <3>1. \/ Top.at = "count" /\ Went("mode")
          \/ Top.at = "mode" /\ Went("input")
      BY <2>1, ProgramMoves
    <3>2. msg_line' = msg_line
      BY <2>1 DEF Count, BeginLine
    <3>3. msg_line' >= msg_line /\ msg_line' \in Int
      BY <1>1, <3>2
    <3> HIDE DEF P
    <3> QED BY <1>3, <3>1, <3>3
  <2>2. CASE InPatterns
    <3>1. Top.at = "mode" /\ (Returned \/ Went("patinput"))
      BY <2>2, ProgramMoves
    <3>2. msg_line' = msg_line
      BY <2>2 DEF InPatterns
    <3>3. msg_line' >= msg_line /\ msg_line' \in Int
      BY <1>1, <3>2
    <3> HIDE DEF P
    <3> QED BY <1>3, <1>4, <3>1, <3>2, <3>3 DEF Returned
  <2>3. CASE EndInput
    <3>1. \/ Top.at = "patinput" /\ Returned
          \/ Top.at = "input" /\ Went("scroll")
          \/ Top.at = "patinput" /\ Went("patscroll")
      BY <2>3, ProgramMoves
    <3>2. msg_line' = msg_line
      BY <2>3 DEF EndInput
    <3>3. msg_line' >= msg_line /\ msg_line' \in Int
      BY <1>1, <3>2
    <3> HIDE DEF P
    <3> QED BY <1>3, <1>4, <3>1, <3>2, <3>3 DEF Returned
  <2>4. CASE Scroll
    <3>1. \/ (Top.at = "scroll" /\ Went("raise")) \/ Went("wait")
          \/ (Top.at = "patscroll" /\ Went("patraise")) \/ Went("patwait")
      BY <2>4, ProgramMoves
    <3>2. /\ msg_line' = msg_line
          /\ Went("wait") \/ Went("patwait") => ~ (msg_line < LastLine)
      <4>1. msg_line' = msg_line
        BY <2>4 DEF Scroll
      <4>2. ASSUME msg_line < LastLine PROVE stack'[1].at \in {"raise", "patraise"}
        <5>1. 1 \in DOMAIN stack /\ Top \in Calls /\ stack[1] = Top
          BY <2>4, TopType, LenProperties DEF Types, Scroll, At, Depth, Top
        <5>2. stack' = [stack EXCEPT ![1].at = IF At("scroll") THEN "raise" ELSE "patraise",
                                     ![1].line = msg_line]
          BY <2>4, <4>2 DEF Scroll, Bottom
        <5> QED BY <5>1, <5>2 DEF Calls
      <4> QED BY <4>1, <4>2 DEF Went
    <3>3. msg_line' >= msg_line /\ msg_line' \in Int
      BY <1>1, <3>2
    <3>4. Went("wait") \/ Went("patwait") => msg_line' >= LINE_SCROLL
      BY <1>1, <3>2
    <3> HIDE DEF P
    <3> QED BY <1>3, <3>1, <3>3, <3>4
  <2>8. CASE Increment
    <3>1. Went("line") \/ Went("patline")
      BY <2>8, ProgramMoves
    <3>2. Top.line \in Int /\ Top.line >= LINE_SCROLL - 1
      <4>1. Top.line \in AboveFirst .. LastLine - 1
        BY <2>8, TopType, CallType DEF Types, Increment, Raising, At
      <4> QED BY <1>1, <4>1 DEF AboveFirst
    <3>3. msg_line >= LINE_SCROLL - 1
      BY <1>1 DEF Types
    <3>4. msg_line' \in Int /\ msg_line' >= LINE_SCROLL
      BY <1>1, <2>8, <3>2, <3>3 DEF Increment
    <3> HIDE DEF P
    <3> QED BY <1>3, <3>1, <3>4
  <2>5. CASE EndWait
    <3>1. \/ Top.at = "wait" /\ Went("line")
          \/ Top.at = "patwait" /\ Went("patline")
      BY <2>5, ProgramMoves
    <3>2. msg_line' = msg_line
      BY <2>5 DEF EndWait
    <3>3. msg_line' >= msg_line /\ msg_line' \in Int
      BY <1>1, <3>2
    <3> HIDE DEF P
    <3> QED BY <1>3, <3>1, <3>3
  <2>6. CASE PrintPatterns
    <3>1. Top.at = "patline" /\ (Returned \/ Went("patscroll"))
      BY <2>6, ProgramMoves
    <3>2. msg_line' = msg_line
      BY <2>6 DEF PrintPatterns
    <3>3. msg_line' >= msg_line /\ msg_line' \in Int
      BY <1>1, <3>2
    <3> HIDE DEF P
    <3> QED BY <1>3, <1>4, <3>1, <3>2, <3>3 DEF Returned
  <2>7. CASE InSummary \/ Suppress \/ InOtherMode \/ PrintLine
    <3>1. Top.at \in {"mode", "line"} /\ Returned
      BY <2>7, ProgramMoves
    <3>2. msg_line' = msg_line
      BY <2>7 DEF InSummary, Suppress, InOtherMode, PrintLine
    <3> HIDE DEF P
    <3> QED BY <1>4, <3>1, <3>2 DEF Returned
  <2> QED BY <1>6, <2>1, <2>2, <2>3, <2>4, <2>5, <2>6, <2>7, <2>8 DEF Program
<1>7. ASSUME NEW e \in Found, Report(e) PROVE P
  <2>1. Pushed("count", e) /\ msg_line' = msg_line
    BY <1>7, OutsideMoves DEF Report
  <2> HIDE DEF P
  <2> QED BY <1>5, <2>1 DEF Placed, Above
<1>8. ASSUME NEW adr \in ParityErrors, Interrupt(adr) PROVE P
  <2>1. Pushed("count", ParityError(adr)) /\ msg_line' = msg_line
    BY <1>8, OutsideMoves DEF Interrupt
  <2> HIDE DEF P
  <2> QED BY <1>5, <2>1 DEF Placed, Above
<1>9. ASSUME NEW mode \in UserModes, SetMode(mode) PROVE P
  <2>1. AtKeyboard /\ (stack # <<>> => Top.at \in {"input", "patinput"})
        /\ (UNCHANGED stack \/ Pushed("patinput", MenuCall))
    BY <1>9, OutsideMoves DEF MenuPlaces
  <2>2. ASSUME NEW k \in Depth, stack[k].at \in Scrolled
        PROVE  k # 1 /\ stack[k - 1].at \in ToScroll
    <3>1. k # 1 /\ Top.at \in {"input", "patinput"} /\ 1 \in Depth
      BY <2>1, <2>2, DepthIs DEF Scrolled
    <3>2. /\ stack[k - 1].err.type = 3 /\ k - 1 \in Depth
          /\ k # 2 => stack[k - 1].at = "input"
      BY <2>2, <3>1, OnlyAnNmiAbove
    <3>3. CASE k = 2
      <4>1. Top.err.type = 3 /\ stack[k - 1] = Top
        BY <3>2, <3>3, DepthIs
      <4>2. Top.at \notin PatPlaces
        BY <3>1, <4>1, DepthIs DEF Nesting
      <4> QED BY <3>1, <3>3, <4>1, <4>2 DEF PatPlaces, ToScroll
    <3> QED BY <3>1, <3>2, <3>3 DEF ToScroll
  <2>3. CASE UNCHANGED stack
    <3>1. Depth' = Depth
      BY <2>3 DEF Depth
    <3> QED BY <2>2, <2>3, <3>1 DEF Above
  <2>4. CASE Pushed("patinput", MenuCall)
    <3> HIDE DEF P
    <3> QED BY <1>5, <2>2, <2>4
  <2> QED BY <2>1, <2>3, <2>4
<1>10. CASE SelectTest \/ Lock \/ Unlock
  BY <1>2, <1>10 DEF SelectTest, Lock, Unlock
<1>11. CASE Restart
  <2>1. Depth' = {}
    BY <1>11, EmptySeq DEF Restart, Depth
  <2> QED BY <2>1
<1>12. ASSUME NEW t \in 0 .. LastTest, NextTest(t) PROVE P
  BY <1>2, <1>12 DEF NextTest
<1>13. CASE UNCHANGED vars
  BY <1>2, <1>13 DEF vars
<1> QED BY <1>6, <1>7, <1>8, <1>9, <1>10, <1>11, <1>12, <1>13 DEF Next

-----------------------------------------------------------------------------
(* No line is shown lower than one below the region.                       *)

(* Only an NMI comes between the test of msg_line and its increment.       *)
LEMMA OnlyAnNmiRaces ==
  ASSUME Types, Nesting, NEW k \in Depth, stack[k].at \in RaisingAt, k # 1
  PROVE  k - 1 \in Depth /\ stack[k - 1].err.type = 3 /\ nmi_masked
<1>1. k \in Nat /\ k - 1 \in Depth /\ k - 1 # Len(stack) /\ Len(stack) \in Nat
  BY DepthIs DEF Depth
<1>2. stack[k - 1].err.type \in {-1, 3}
  BY <1>1 DEF Nesting
<1>3. stack[k - 1].err.type # -1
  BY DEF Nesting, MenuPlaces, RaisingAt
<1> QED BY <1>1, <1>2, <1>3 DEF Nesting

LEMMA RaisedNext ==
  ASSUME Types, Nesting, Raised, [Next]_vars
  PROVE  Raised'
<1>1. /\ msg_line \in Int /\ LINE_SCROLL \in Nat /\ LastLine \in Nat
      /\ LINE_SCROLL <= LastLine /\ raced \in BOOLEAN /\ nmi_masked \in BOOLEAN
      /\ AboveFirst \in Int /\ AboveFirst < LastLine
  BY PlacesAssumption DEF Types, AboveFirst
<1>2. ASSUME UNCHANGED <<stack, msg_line, raced, nmi_masked>> PROVE Raised'
  BY <1>2 DEF Raised, Depth
<1>3. ASSUME NEW p \in Places, Went(p), UNCHANGED <<msg_line, raced>>, Still,
             p \in RaisingAt => msg_line < LastLine
      PROVE  Raised'
  <2>1. /\ Depth' = Depth /\ 1 \in Depth /\ stack'[1].at = p
        /\ \A k \in Depth : k # 1 => stack'[k] = stack[k]
    BY <1>3, DepthIs DEF Went, Depth
  <2>2. ASSUME NEW k \in Depth, stack'[k].at \in RaisingAt
        PROVE  /\ msg_line <= LastLine
               /\ k # 1 => raced
               /\ k = 1 /\ (nmi_masked \/ ~ raced) => msg_line < LastLine
    <3>1. CASE k = 1
      BY <1>1, <1>3, <2>1, <2>2, <3>1
    <3>2. CASE k # 1
      BY <2>1, <2>2, <3>2 DEF Raised
    <3> QED BY <3>1, <3>2
  <2> QED BY <1>3, <2>1, <2>2 DEF Raised, Still
<1>4. ASSUME Returned, UNCHANGED <<msg_line, raced>> PROVE Raised'
  <2>1. /\ Len(stack) \in Nat \ {0} /\ Len(stack') = Len(stack) - 1
        /\ \A k \in 1 .. Len(stack) - 1 : stack'[k] = stack[k + 1]
        /\ Top = stack[1] /\ nmi_masked' = (nmi_masked /\ Top.err.type # 3)
    BY <1>4, DepthIs DEF Returned, Popped
  <2>2. ASSUME NEW k \in Depth', stack'[k].at \in RaisingAt
        PROVE  /\ msg_line <= LastLine /\ raced
               /\ k = 1 => ~ nmi_masked'
    <3>1. /\ k + 1 \in Depth /\ k + 1 # 1 /\ stack'[k] = stack[k + 1] /\ (k + 1) - 1 = k
      BY <2>1 DEF Depth
    <3>2. stack[k].err.type = 3
      BY <2>2, <3>1, OnlyAnNmiRaces
    <3> QED BY <2>1, <2>2, <3>1, <3>2 DEF Raised
  <2> QED BY <1>4, <2>2 DEF Raised
<1>5. ASSUME NEW p \in {"count", "patinput"}, NEW e, Pushed(p, e), msg_line' = msg_line,
             raced' \in BOOLEAN, raced => raced',
             stack # <<>> /\ Top.at \in RaisingAt => raced'
      PROVE  Raised'
  <2>1. /\ Len(stack) \in Nat /\ Len(stack') = Len(stack) + 1
        /\ \A k \in Depth : stack'[k + 1] = stack[k]
        /\ stack'[1].at = p
    BY <1>5, DepthIs DEF Pushed
  <2>2. ASSUME NEW k \in Depth', stack'[k].at \in RaisingAt
        PROVE  k # 1 /\ msg_line <= LastLine /\ raced'
    <3>1. k # 1 /\ k \in Int
      BY <2>1, <2>2 DEF RaisingAt, Depth
    <3>2. k - 1 \in Depth /\ (k - 1) + 1 = k
      BY <2>1, <3>1 DEF Depth
    <3>3. stack[k - 1].at \in RaisingAt
      BY <2>1, <2>2, <3>2
    <3>4. k - 1 = 1 => raced'
      BY <1>5, <3>2, <3>3, DepthIs
    <3> QED BY <1>5, <3>1, <3>2, <3>3, <3>4 DEF Raised
  <2> QED BY <1>5, <2>2 DEF Raised
<1>6. CASE Program
  <2> USE DEF Places, PatPlaces, LinePlaces, RaisingAt
  <2>1. CASE \/ Count \/ BeginLine \/ InPatterns \/ EndInput \/ EndWait \/ PrintPatterns
             \/ InSummary \/ Suppress \/ InOtherMode \/ PrintLine
    <3>1. UNCHANGED <<msg_line, raced>>
      BY <2>1 DEF Count, BeginLine, InPatterns, EndInput, EndWait, PrintPatterns, InSummary,
                  Suppress, InOtherMode, PrintLine, history
    <3>2. Returned \/ \E p \in Places : Went(p) /\ Still /\ p \notin RaisingAt
      <4>1. CASE Count \/ BeginLine \/ InPatterns
        BY <4>1, ProgramMoves
      <4>2. CASE EndInput \/ EndWait \/ PrintPatterns
        BY <4>2, ProgramMoves
      <4>3. CASE InSummary \/ Suppress \/ InOtherMode \/ PrintLine
        BY <4>3, ProgramMoves
      <4> QED BY <2>1, <4>1, <4>2, <4>3
    <3> HIDE DEF Places, RaisingAt
    <3> QED BY <1>3, <1>4, <3>1, <3>2
  <2>2. CASE Scroll
    <3>1. UNCHANGED <<msg_line, raced>>
      BY <2>2 DEF Scroll, history
    <3>2. \E p \in Places : Went(p) /\ Still
      BY <2>2, ProgramMoves
    <3>3. PICK p \in Places : Went(p) /\ Still
      BY <3>2
    <3>4. ASSUME ~ (msg_line < LastLine) PROVE p \notin RaisingAt
      <4>1. stack # <<>> /\ stack'[1].at = p
        BY <3>3 DEF Went
      <4>2. 1 \in DOMAIN stack /\ Top \in Calls /\ stack[1] = Top
        BY <4>1, TopType, LenProperties DEF Types, Depth, Top
      <4>3. Goto("wait") \/ Goto("patwait")
        BY <2>2, <3>4 DEF Scroll, Bottom
      <4>4. stack'[1].at \in {"wait", "patwait"}
        BY <4>2, <4>3 DEF Goto, Calls
      <4> QED BY <4>1, <4>4
    <3> HIDE DEF Places, RaisingAt
    <3> QED BY <1>3, <3>1, <3>3, <3>4
  <2>3. CASE Increment
    <3>1. /\ raced' = raced /\ Still /\ stack # <<>> /\ Top.at \in RaisingAt
          /\ msg_line' = Top.line + 1 \/ msg_line' = msg_line + 1
          /\ Went("line") \/ Went("patline")
      BY <2>3, ProgramMoves DEF Increment, Raising, At, history, Still
    <3>2. /\ Depth' = Depth /\ 1 \in Depth /\ Top = stack[1]
          /\ stack'[1].at \in {"line", "patline"}
          /\ \A k \in Depth : k # 1 => stack'[k] = stack[k]
      BY <3>1, DepthIs DEF Went, Depth
    <3>3. Top.line \in Int /\ Top.line < LastLine
      <4>1. Top.line \in AboveFirst .. LastLine - 1
        BY <3>2, DepthIs, CallType
      <4> QED BY <1>1, <4>1 DEF AboveFirst
    <3>4. nmi_masked \/ ~ raced => msg_line < LastLine
      BY <3>1, <3>2 DEF Raised
    <3>5. nmi_masked \/ ~ raced => msg_line' <= LastLine
      BY <1>1, <3>1, <3>3, <3>4
    <3>6. ASSUME NEW k \in Depth, stack'[k].at \in RaisingAt
          PROVE  k # 1 /\ raced /\ msg_line' <= LastLine
      <4>1. k # 1 /\ stack[k].at \in RaisingAt
        BY <3>2, <3>6
      <4>2. nmi_masked
        BY <4>1, OnlyAnNmiRaces
      <4> QED BY <3>5, <4>1, <4>2 DEF Raised
    <3> HIDE DEF RaisingAt
    <3> QED BY <3>1, <3>2, <3>5, <3>6 DEF Raised
  <2> QED BY <1>6, <2>1, <2>2, <2>3 DEF Program
<1>7. ASSUME NEW e \in Found, Report(e) PROVE Raised'
  <2>1. Pushed("count", e) /\ stack = <<>> /\ UNCHANGED <<msg_line, raced>>
    BY <1>7, OutsideMoves DEF Report, history
  <2> QED BY <1>1, <1>5, <2>1
<1>8. ASSUME NEW adr \in ParityErrors, Interrupt(adr) PROVE Raised'
  <2>1. Pushed("count", ParityError(adr)) /\ msg_line' = msg_line
        /\ raced' = (raced \/ Raising)
    BY <1>8, OutsideMoves DEF Interrupt
  <2>2. stack # <<>> /\ Top.at \in RaisingAt => Raising
    BY DEF RaisingAt, Raising, At
  <2>3. Raising \in BOOLEAN
    BY DEF Raising, At
  <2> HIDE DEF Raising
  <2> QED BY <1>1, <1>5, <2>1, <2>2, <2>3
<1>9. ASSUME NEW mode \in UserModes, SetMode(mode) PROVE Raised'
  <2>1. /\ stack # <<>> => Top.at \in MenuPlaces
        /\ Still
        /\ \/ mode # "patterns" /\ UNCHANGED stack
           \/ mode = "patterns" /\ Pushed("patinput", MenuCall)
    BY <1>9, OutsideMoves
  <2>2. MenuPlaces \cap RaisingAt = {}
    BY DEF MenuPlaces, RaisingAt
  <2>3. CASE mode = "addresses"
    <3>1. /\ UNCHANGED stack /\ msg_line' = AboveFirst
          /\ raced' = \E k \in DOMAIN stack : stack[k].at \in RaisingAt
      BY <1>9, <2>1, <2>3 DEF SetMode, RaisingAt
    <3>2. Depth' = Depth /\ DOMAIN stack = Depth
      BY <3>1, LenProperties DEF Depth, Types
    <3>3. msg_line' < LastLine /\ msg_line' <= LastLine
      BY <1>1, <3>1
    <3>4. ASSUME NEW k \in Depth, stack[k].at \in RaisingAt PROVE raced'
      BY <3>1, <3>2, <3>4
    <3> QED BY <3>1, <3>2, <3>3, <3>4 DEF Raised
  <2>4. CASE mode # "addresses"
    <3>1. UNCHANGED <<msg_line, raced>>
      BY <1>9, <2>4 DEF SetMode
    <3> QED BY <1>1, <1>2, <1>5, <2>1, <2>2, <3>1 DEF Still
  <2> QED BY <2>3, <2>4
<1>10. CASE SelectTest \/ Lock \/ Unlock
  BY <1>2, <1>10 DEF SelectTest, Lock, Unlock, history
<1>11. CASE Restart
  <2>1. stack' = <<>> /\ msg_line' = AboveFirst
    BY <1>11 DEF Restart
  <2>2. Depth' = {}
    BY <2>1, EmptySeq DEF Depth
  <2>3. msg_line' <= LastLine
    BY <1>1, <2>1
  <2> QED BY <2>2, <2>3 DEF Raised
<1>12. ASSUME NEW t \in 0 .. LastTest, NextTest(t) PROVE Raised'
  BY <1>2, <1>12 DEF NextTest, history
<1>13. CASE UNCHANGED vars
  BY <1>2, <1>13 DEF vars, history
<1> QED BY <1>6, <1>7, <1>8, <1>9, <1>10, <1>11, <1>12, <1>13 DEF Next

-----------------------------------------------------------------------------
(* Types.                                                                  *)
LEMMA MaxOf ==
  ASSUME NEW a \in Nat, NEW b \in Nat
  PROVE  Max({a, b}) = IF a >= b THEN a ELSE b
<1> DEFINE m == IF a >= b THEN a ELSE b
<1>1. m \in {a, b} /\ \A y \in {a, b} : m >= y
  OBVIOUS
<1>2. Max({a, b}) \in {a, b} /\ \A y \in {a, b} : Max({a, b}) >= y
  <2> HIDE DEF m
  <2> QED BY <1>1 DEF Max
<1> QED BY <1>2

LEMMA MinOf ==
  ASSUME NEW a \in Nat, NEW b \in Nat
  PROVE  Min({a, b}) = IF a <= b THEN a ELSE b
<1> DEFINE m == IF a <= b THEN a ELSE b
<1>1. m \in {a, b} /\ \A y \in {a, b} : m <= y
  OBVIOUS
<1>2. Min({a, b}) \in {a, b} /\ \A y \in {a, b} : Min({a, b}) <= y
  <2> HIDE DEF m
  <2> QED BY <1>1 DEF Min
<1> QED BY <1>2

LEMMA ErriIs ==
  ASSUME NEW er \in Erri
  PROVE  /\ er = [low_addr |-> er.low_addr, high_addr |-> er.high_addr,
                  min_bits |-> er.min_bits, max_bits |-> er.max_bits, maxl |-> er.maxl,
                  cor_err |-> er.cor_err, ebits |-> er.ebits, hdr_flag |-> er.hdr_flag,
                  tbits |-> er.tbits, eadr |-> er.eadr, exor |-> er.exor]
         /\ er.low_addr \in Spot /\ er.high_addr \in Spot /\ er.min_bits \in Nat
         /\ er.max_bits \in Nat /\ er.maxl \in 0 .. 2 /\ er.cor_err \in Nat
         /\ er.ebits \in SUBSET Bits /\ er.hdr_flag \in {0, 1} /\ er.tbits \in Nat
         /\ er.eadr \in Nat /\ er.exor \in SUBSET Bits
<1>1. /\ er.low_addr \in Spot /\ er.high_addr \in Spot /\ er.min_bits \in Nat
      /\ er.max_bits \in Nat /\ er.maxl \in 0 .. 2 /\ er.cor_err \in Nat
      /\ er.ebits \in SUBSET Bits /\ er.hdr_flag \in {0, 1} /\ er.tbits \in Nat
      /\ er.eadr \in Nat /\ er.exor \in SUBSET Bits
  BY DEF Erri
<1>2. er = [low_addr |-> er.low_addr, high_addr |-> er.high_addr,
            min_bits |-> er.min_bits, max_bits |-> er.max_bits, maxl |-> er.maxl,
            cor_err |-> er.cor_err, ebits |-> er.ebits, hdr_flag |-> er.hdr_flag,
            tbits |-> er.tbits, eadr |-> er.eadr, exor |-> er.exor]
  BY DEF Erri
<1> QED BY <1>1, <1>2

(* What init() leaves of erri, whatever was in it before.                  *)
LEMMA ClearedIs ==
  ASSUME NEW er \in Erri
  PROVE  /\ Cleared(er) \in Erri
         /\ Cleared(er).low_addr = [page |-> NoPage, offset |-> 4095]
         /\ Cleared(er).min_bits = 32 /\ Cleared(er).max_bits = 0
         /\ Cleared(er).ebits = {} /\ Cleared(er).tbits = 0
<1> DEFINE low == [page |-> NoPage, offset |-> 4095]
           high == [page |-> 0, offset |-> 0]
<1>1. Cleared(er) = [er EXCEPT !.low_addr = low, !.high_addr = high, !.min_bits = 32,
                               !.max_bits = 0, !.maxl = 0, !.cor_err = 0, !.ebits = {},
                               !.hdr_flag = 0, !.tbits = 0]
  BY DEF Cleared
<1>2. low \in Spot /\ high \in Spot
  BY DEF Spot, NoPage
<1> HIDE DEF low, high
<1>3. Cleared(er) = [low_addr |-> low, high_addr |-> high, min_bits |-> 32, max_bits |-> 0,
                     maxl |-> 0, cor_err |-> 0, ebits |-> {}, hdr_flag |-> 0, tbits |-> 0,
                     eadr |-> er.eadr, exor |-> er.exor]
  <2>1. er = [low_addr |-> er.low_addr, high_addr |-> er.high_addr,
              min_bits |-> er.min_bits, max_bits |-> er.max_bits, maxl |-> er.maxl,
              cor_err |-> er.cor_err, ebits |-> er.ebits, hdr_flag |-> er.hdr_flag,
              tbits |-> er.tbits, eadr |-> er.eadr, exor |-> er.exor]
    BY ErriIs
  <2> QED BY ZenonT(30), <1>1, <2>1
<1>4. Cleared(er) \in Erri
  <2>1. er.eadr \in Nat /\ er.exor \in SUBSET Bits
    BY ErriIs
  <2> QED BY <1>2, <1>3, <2>1 DEF Erri
<1>5. /\ Cleared(er).low_addr = low /\ Cleared(er).min_bits = 32 /\ Cleared(er).max_bits = 0
      /\ Cleared(er).ebits = {} /\ Cleared(er).tbits = 0
  BY <1>3
<1> QED BY <1>4, <1>5 DEF low

LEMMA SpotsType ==
  ASSUME NEW er \in Erri, NEW p \in Spot
  PROVE  Lower(er, p) \in Spot /\ Upper(er, p) \in Spot
<1>1. er.low_addr \in Spot /\ er.high_addr \in Spot
  BY ErriIs
<1>2. \A h \in Spot, n \in Nat : [h EXCEPT !.offset = n] \in Spot /\ [h EXCEPT !.page = n] \in Spot
  BY DEF Spot
<1>3. p.page \in Nat /\ p.offset \in Nat
  BY DEF Spot
<1>4. Lower(er, p) \in Spot
  BY <1>1 DEF Lower
<1> DEFINE raised == CASE er.low_addr.page > p.page -> er.high_addr
                  [] Below(p, er.low_addr) /\ er.low_addr.page = p.page ->
                       [er.high_addr EXCEPT !.offset = p.offset]
                  [] ~Below(p, er.low_addr) /\ er.high_addr.page < p.page ->
                       [er.high_addr EXCEPT !.page = p.page]
                  [] OTHER -> er.high_addr
<1>5. raised \in Spot
  <2> DEFINE A == er.low_addr.page > p.page
             B == Below(p, er.low_addr) /\ er.low_addr.page = p.page
             C == ~ Below(p, er.low_addr) /\ er.high_addr.page < p.page
  <2>1. ~ (A /\ B) /\ ~ (A /\ C) /\ ~ (B /\ C)
    <3>1. er.low_addr.page \in Nat
      BY <1>1 DEF Spot
    <3> QED BY <1>3, <3>1 DEF Below
  <2>2. CASE A
    BY <1>1, <2>1, <2>2
  <2>3. CASE B
    BY <1>1, <1>2, <1>3, <2>1, <2>3
  <2>4. CASE C
    BY <1>1, <1>2, <1>3, <2>1, <2>4
  <2>5. CASE ~ A /\ ~ B /\ ~ C
    BY <1>1, <2>5
  <2> QED BY <2>2, <2>3, <2>4, <2>5
<1>6. Upper(er, p) = IF raised.page = p.page /\ raised.offset < p.offset
                     THEN [raised EXCEPT !.offset = p.offset] ELSE raised
  BY DEF Upper
<1> HIDE DEF raised
<1>7. Upper(er, p) \in Spot
  BY <1>2, <1>3, <1>5, <1>6
<1> QED BY <1>4, <1>7

LEMMA SummaryIs ==
  ASSUME NEW er \in Erri, NEW e \in Found
  PROVE  /\ Summary(er, e) \in Erri
         /\ Summary(er, e).low_addr = Lower(er, Place(e))
         /\ Summary(er, e).tbits = er.tbits + Number(e)
         /\ Summary(er, e).max_bits = IF er.max_bits >= Number(e) THEN er.max_bits ELSE Number(e)
         /\ Summary(er, e).min_bits = IF er.min_bits <= Number(e) THEN er.min_bits ELSE Number(e)
         /\ Summary(er, e).ebits = er.ebits \cup Failing(e)
<1> DEFINE n == Number(e)
           low == Lower(er, Place(e))
           high == Upper(er, Place(e))
           c == Contiguous(er, e)
           cor == IF e.corrected THEN er.cor_err + 1 ELSE er.cor_err
<1>1. low \in Spot /\ high \in Spot
  BY FoundType, SpotsType
<1>2. n \in Nat /\ e.adr \in Nat /\ Failing(e) \in SUBSET Bits
  BY FoundType, NumberType
<1>3. /\ er.min_bits \in Nat /\ er.max_bits \in Nat /\ er.maxl \in 0 .. 2 /\ er.cor_err \in Nat
      /\ er.ebits \in SUBSET Bits /\ er.tbits \in Nat /\ er.exor \in SUBSET Bits
  BY ErriIs
<1>4. cor \in Nat
  BY <1>3
<1>5. Max({er.maxl, c}) \in 0 .. 2
  <2>1. c \in {1, 2}
    BY DEF Contiguous
  <2> HIDE DEF c
  <2>2. er.maxl \in Nat /\ c \in Nat
    BY <1>3, <2>1
  <2> QED BY <1>3, <2>1, <2>2, MaxOf
<1>6. /\ Max({er.max_bits, n}) = (IF er.max_bits >= n THEN er.max_bits ELSE n)
      /\ Min({er.min_bits, n}) = (IF er.min_bits <= n THEN er.min_bits ELSE n)
  BY <1>2, <1>3, MaxOf, MinOf
<1>7. Summary(er, e) =
        [low_addr |-> low, high_addr |-> high, min_bits |-> Min({er.min_bits, n}),
         max_bits |-> Max({er.max_bits, n}), maxl |-> Max({er.maxl, c}), cor_err |-> cor,
         ebits |-> er.ebits \cup Failing(e), hdr_flag |-> 1, tbits |-> er.tbits + n,
         eadr |-> e.adr, exor |-> er.exor]
  <2>1. Summary(er, e) =
          [er EXCEPT !.low_addr = low, !.high_addr = high, !.tbits = er.tbits + n,
                     !.max_bits = Max({er.max_bits, n}), !.min_bits = Min({er.min_bits, n}),
                     !.ebits = er.ebits \cup Failing(e), !.maxl = Max({er.maxl, c}),
                     !.eadr = e.adr, !.cor_err = cor, !.hdr_flag = 1]
    BY ErriIs DEF Summary, Number
  <2> HIDE DEF n, low, high, c, cor
  <2>2. er = [low_addr |-> er.low_addr, high_addr |-> er.high_addr,
              min_bits |-> er.min_bits, max_bits |-> er.max_bits, maxl |-> er.maxl,
              cor_err |-> er.cor_err, ebits |-> er.ebits, hdr_flag |-> er.hdr_flag,
              tbits |-> er.tbits, eadr |-> er.eadr, exor |-> er.exor]
    BY ErriIs
  <2> QED BY ZenonT(30), <2>1, <2>2
<1> HIDE DEF n, low, high, c, cor
<1>8. /\ Summary(er, e).low_addr = low /\ Summary(er, e).tbits = er.tbits + n
      /\ Summary(er, e).max_bits = Max({er.max_bits, n})
      /\ Summary(er, e).min_bits = Min({er.min_bits, n})
      /\ Summary(er, e).ebits = er.ebits \cup Failing(e)
  BY <1>7
<1>9. Max({er.max_bits, n}) \in Nat /\ Min({er.min_bits, n}) \in Nat
  BY <1>2, <1>3, <1>6
<1>10. er.tbits + n \in Nat /\ er.ebits \cup Failing(e) \in SUBSET Bits
  BY <1>2, <1>3
<1>11. Summary(er, e) \in Erri
  BY <1>1, <1>2, <1>3, <1>4, <1>5, <1>7, <1>9, <1>10 DEF Erri
<1> QED BY <1>6, <1>8, <1>11 DEF n, low

(* What the other steps do to erri: they leave what the summary shows.     *)
SameValues(er, other) ==
  /\ er.low_addr = other.low_addr /\ er.high_addr = other.high_addr
  /\ er.min_bits = other.min_bits /\ er.max_bits = other.max_bits /\ er.maxl = other.maxl
  /\ er.ebits = other.ebits /\ er.tbits = other.tbits

LEMMA ErriSets ==
  ASSUME NEW er \in Erri, NEW h \in {0, 1}, NEW adr \in Nat
  PROVE  /\ [er EXCEPT !.hdr_flag = h] \in Erri
         /\ [er EXCEPT !.hdr_flag = h].eadr = er.eadr /\ [er EXCEPT !.hdr_flag = h].exor = er.exor
         /\ SameValues([er EXCEPT !.hdr_flag = h], er)
         /\ [er EXCEPT !.hdr_flag = h, !.eadr = adr] \in Erri
         /\ SameValues([er EXCEPT !.hdr_flag = h, !.eadr = adr], er)
<1>1. /\ [er EXCEPT !.hdr_flag = h] \in Erri
      /\ [er EXCEPT !.hdr_flag = h].eadr = er.eadr /\ [er EXCEPT !.hdr_flag = h].exor = er.exor
  BY DEF Erri
<1>2. SameValues([er EXCEPT !.hdr_flag = h], er)
  BY DEF Erri, SameValues
<1>3. [er EXCEPT !.hdr_flag = h, !.eadr = adr] \in Erri
  BY DEF Erri
<1>4. SameValues([er EXCEPT !.hdr_flag = h, !.eadr = adr], er)
  BY DEF Erri, SameValues
<1> QED BY <1>1, <1>2, <1>3, <1>4

LEMMA RememberIs ==
  ASSUME Types, NEW e \in Found \cup Parity
  PROVE  /\ Remember(e) \in Erri /\ SameValues(Remember(e), erri)
         /\ Remember(e).eadr = e.adr
         /\ e.type \in {0, 1} => Remember(e).exor = e.xor
<1> DEFINE x == IF e.type \in {0, 1} THEN e.xor ELSE erri.exor
<1>1. erri \in Erri /\ e.adr \in Nat /\ x \in SUBSET Bits
  BY ErriIs, FoundType, ParityType DEF Types
<1>2. Remember(e) = [erri EXCEPT !.eadr = e.adr, !.exor = x]
  BY DEF Remember
<1>3. e.type \in {0, 1} => x = e.xor
  OBVIOUS
<1> HIDE DEF x
<1>4. Remember(e) \in Erri /\ Remember(e).eadr = e.adr /\ Remember(e).exor = x
  BY <1>1, <1>2 DEF Erri
<1>5. SameValues(Remember(e), erri)
  BY <1>1, <1>2 DEF Erri, SameValues
<1> QED BY <1>3, <1>4, <1>5

(* The error of a call that is not the menu's.                             *)
LEMMA TopError ==
  ASSUME Types, Nesting, stack # <<>>, Top.at \notin PatPlaces
  PROVE  Top.err \in Found \cup Parity /\ (Top.err.type # 3 => Top.err \in Found)
<1>1. 1 \in Depth /\ Top = stack[1] /\ Top \in Calls
  BY DepthIs, TopType DEF Types
<1>2. Top.err.type # -1
  BY <1>1 DEF Nesting
<1> QED BY <1>1, <1>2, CallType

(* What becomes of erri, of the summary and of the header.                 *)
LEMMA SummaryMoves ==
  ASSUME Types, Nesting, [Next]_vars
  PROVE  \/ /\ Restart /\ erri' = Cleared(erri)
         \/ /\ InSummary /\ Top.at = "mode" /\ Top.err \in Found
            /\ erri' = Summary(erri, Top.err) /\ summed' = summed \cup {Top.err}
         \/ /\ erri' \in Erri /\ SameValues(erri', erri) /\ summed' = summed
            /\ \/ UNCHANGED screen
               \/ header' # "summary"
               \/ header' = header /\ shown' \in {Blank, shown}
<1> USE DEF Types
<1> DEFINE Q == /\ erri' \in Erri /\ SameValues(erri', erri) /\ summed' = summed
                /\ \/ UNCHANGED screen
                   \/ header' # "summary"
                   \/ header' = header /\ shown' \in {Blank, shown}
<1>1. ASSUME UNCHANGED <<erri, screen, summed>> PROVE Q
  BY <1>1 DEF screen, SameValues
<1>2. ASSUME NEW kind \in {"addresses", "patterns", "none"}, ClearArea(kind), summed' = summed
      PROVE  Q
  <2>1. erri' \in Erri /\ SameValues(erri', erri)
    BY <1>2, ErriSets DEF ClearArea
  <2>2. \/ header' # "summary"
        \/ header' = header /\ shown' \in {Blank, shown}
    BY <1>2 DEF ClearArea, Cleared_first
  <2> QED BY <1>2, <2>1, <2>2
<1>3. CASE Count
  BY <1>1, <1>3 DEF Count, history
<1>4. CASE InSummary
  <2>1. stack # <<>> /\ Top.at = "mode"
    BY <1>4 DEF InSummary, At
  <2>2. CASE Top.err.type = 3
    BY <1>1, <1>4, <2>2 DEF InSummary
  <2>3. CASE Top.err.type # 3
    <3>1. Top.err \in Found
      BY <2>1, <2>3, TopError DEF PatPlaces
    <3> QED BY <1>4, <2>1, <2>3, <3>1 DEF InSummary
  <2> QED BY <2>2, <2>3
<1>5. CASE Suppress \/ EndInput \/ Scroll \/ Increment \/ EndWait
  BY <1>1, <1>5 DEF Suppress, EndInput, Scroll, Increment, EndWait, history
<1>6. CASE BeginLine
  BY <1>2, <1>6 DEF BeginLine, history
<1>7. CASE InPatterns
  BY <1>2, <1>7 DEF InPatterns, history
<1>8. CASE InOtherMode
  BY <1>1, <1>2, <1>8 DEF InOtherMode, history
<1>9. CASE PrintLine
  <2>1. stack # <<>> /\ Top.at = "line"
    BY <1>9 DEF PrintLine, At
  <2>2. Top.err \in Found \cup Parity
    BY <2>1, TopError DEF PatPlaces
  <2>3. erri' = Remember(Top.err) /\ UNCHANGED <<screen, summed>>
    BY <1>9 DEF PrintLine
  <2> QED BY <2>2, <2>3, RememberIs
<1>10. CASE PrintPatterns
  BY <1>1, <1>10 DEF PrintPatterns
<1>11. CASE \E e \in Found : Report(e)
  BY <1>1, <1>11 DEF Report, history
<1>12. CASE \E adr \in ParityErrors : Interrupt(adr)
  BY <1>1, <1>12 DEF Interrupt, history
<1>13. ASSUME NEW mode \in UserModes, SetMode(mode) PROVE Q
  <2> DEFINE adr == IF mode \in {"summary", "addresses"} THEN 0 ELSE erri.eadr
  <2>1. erri' = [erri EXCEPT !.hdr_flag = 0, !.eadr = adr] /\ UNCHANGED <<screen, summed>>
    BY <1>13 DEF SetMode
  <2>2. adr \in Nat
    BY ErriIs
  <2> HIDE DEF adr
  <2> QED BY <2>1, <2>2, ErriSets
<1>14. CASE SelectTest \/ Lock \/ Unlock
  BY <1>1, <1>14 DEF SelectTest, Lock, Unlock, history
<1>15. CASE Restart
  BY <1>15 DEF Restart
<1>16. CASE \E t \in 0 .. LastTest : NextTest(t)
  BY <1>1, <1>16 DEF NextTest, history
<1>17. CASE UNCHANGED vars
  BY <1>1, <1>17 DEF vars, history
<1> HIDE DEF Q
<1>18. Restart => erri' = Cleared(erri)
  BY DEF Restart
<1> QED BY <1>3, <1>4, <1>5, <1>6, <1>7, <1>8, <1>9, <1>10, <1>11, <1>12, <1>13, <1>14,
           <1>15, <1>16, <1>17, <1>18 DEF Next, Program, Q

LEMMA TypesNext ==
  ASSUME Types, Nesting, Raised, [Next]_vars
  PROVE  Types'
<1>1. erri' \in Erri
  <2>1. erri \in Erri
    BY DEF Types
  <2>2. CASE erri' = Cleared(erri)
    BY <2>1, <2>2, ClearedIs
  <2>3. CASE Top.err \in Found /\ erri' = Summary(erri, Top.err)
    BY <2>1, <2>3, SummaryIs
  <2>4. \/ erri' = Cleared(erri)
        \/ Top.err \in Found /\ erri' = Summary(erri, Top.err)
        \/ erri' \in Erri
    BY SummaryMoves, Zenon
  <2> QED BY <2>2, <2>3, <2>4
<1>2. test' \in -1 .. LastTest /\ printmode' \in PrintModes
  <2>1. test \in -1 .. LastTest /\ printmode \in PrintModes /\ LastTest \in Nat
    BY PlacesAssumption DEF Types
  <2>2. CASE UNCHANGED <<test, printmode>>
    BY <2>1, <2>2
  <2>3. CASE \E mode \in UserModes : SetMode(mode)
    <3>1. PICK mode \in UserModes : SetMode(mode)
      BY <2>3
    <3>2. test' = test /\ printmode' = mode
      BY <3>1 DEF SetMode
    <3> QED BY <2>1, <3>2, UserAssumption
  <2>4. CASE SelectTest
    <3>1. test' = -1 /\ printmode' = printmode
      BY <2>4 DEF SelectTest
    <3> QED BY <2>1, <3>1
  <2>5. CASE Restart
    <3>1. test' = 0 /\ printmode' = "addresses"
      BY <2>5 DEF Restart
    <3> QED BY <2>1, <3>1 DEF PrintModes
  <2>6. CASE \E t \in 0 .. LastTest : NextTest(t)
    <3>1. PICK t \in 0 .. LastTest : test' = t /\ printmode' = printmode
      BY <2>6 DEF NextTest
    <3> QED BY <2>1, <3>1
  <2> QED BY <2>2, <2>3, <2>4, <2>5, <2>6 DEF Next, Program, Count, InSummary, Suppress,
     BeginLine, InPatterns, InOtherMode, EndInput, Scroll, Increment, EndWait, PrintLine, PrintPatterns,
     Report, Interrupt, Lock, Unlock, vars
<1>3. ecount' \in Nat /\ ecc_ecount' \in Nat /\ errors' \in [-1 .. LastTest -> Nat]
  <2> USE DEF Types, counts
  <2>1. CASE UNCHANGED counts
    BY <2>1
  <2>2. CASE Count
    BY <2>2 DEF Count
  <2>3. CASE Restart
    BY <2>3, PlacesAssumption DEF Restart
  <2>4. CASE \E e \in Found : Report(e)
    BY <2>4 DEF Report
  <2>5. CASE UNCHANGED vars
    BY <2>5 DEF vars
  <2> QED BY <2>1, <2>2, <2>3, <2>4, <2>5 DEF Next, Program, InSummary, Suppress, BeginLine,
     InPatterns, InOtherMode, EndInput, Scroll, Increment, EndWait, PrintLine, PrintPatterns, Interrupt,
     SetMode, SelectTest, Lock, Unlock, NextTest
<1>4. msg_line' \in LINE_SCROLL - 1 .. LastLine + 1
  <2> USE DEF Types
  <2>1. CASE Increment
    <3>1. /\ Top.line \in AboveFirst .. LastLine - 1
          /\ 1 \in Depth /\ Top = stack[1] /\ Top.at \in RaisingAt
      BY <2>1, TopType, CallType DEF Increment, Raising, At, RaisingAt, Top
    <3>2. msg_line <= LastLine
      BY <3>1 DEF Raised
    <3>3. msg_line' = Top.line + 1 \/ msg_line' = msg_line + 1
      BY <2>1 DEF Increment
    <3>4. /\ LINE_SCROLL \in Nat /\ LastLine \in Nat
          /\ msg_line \in LINE_SCROLL - 1 .. LastLine + 1
      BY PlacesAssumption
    <3> HIDE DEF Types
    <3> QED BY <3>1, <3>2, <3>3, <3>4 DEF AboveFirst
  <2>2. CASE Restart
    BY <2>2, PlacesAssumption DEF Restart, AboveFirst
  <2>3. ASSUME NEW mode \in UserModes, SetMode(mode) PROVE msg_line' \in LINE_SCROLL - 1 .. LastLine + 1
    <3>1. msg_line' = LINE_SCROLL - 1 \/ msg_line' = msg_line
      BY <2>3 DEF SetMode, AboveFirst
    <3> QED BY <3>1, PlacesAssumption
  <2>4. CASE UNCHANGED msg_line
    BY <2>4
  <2> QED BY <2>1, <2>2, <2>3, <2>4 DEF Next, Program, Count, InSummary, Suppress, BeginLine,
     InPatterns, InOtherMode, EndInput, Scroll, EndWait, PrintLine, PrintPatterns, Report,
     Interrupt, SelectTest, Lock, Unlock, NextTest, vars
<1>5. slock' \in BOOLEAN
  BY DEF Types, Next, Program, Count, InSummary, Suppress,
     BeginLine, InPatterns, InOtherMode, EndInput, Scroll, Increment, EndWait, PrintLine, PrintPatterns,
     Report, Interrupt, SetMode, SelectTest, Lock, Unlock, Restart, NextTest, vars
<1>6. numpatn' \in 0 .. BADRAM_MAXPATNS
  <2> USE DEF Types
  <2>1. CASE InPatterns
    <3>1. numpatn + 1 \in Nat /\ BADRAM_MAXPATNS \in Nat
      BY PlacesAssumption
    <3>2. Min({numpatn + 1, BADRAM_MAXPATNS}) <= BADRAM_MAXPATNS
          /\ Min({numpatn + 1, BADRAM_MAXPATNS}) \in Nat
      BY <3>1, MinOf
    <3>3. numpatn' = numpatn \/ numpatn' \in 0 .. Min({numpatn + 1, BADRAM_MAXPATNS})
      BY <2>1 DEF InPatterns
    <3> QED BY <3>1, <3>2, <3>3
  <2>2. CASE Restart
    BY <2>2, PlacesAssumption DEF Restart
  <2>3. CASE UNCHANGED numpatn
    BY <2>3
  <2> QED BY <2>1, <2>2, <2>3 DEF Next, Program, Count, InSummary, Suppress, BeginLine,
     InOtherMode, EndInput, Scroll, Increment, EndWait, PrintLine, PrintPatterns, Report, Interrupt,
     SetMode, SelectTest, Lock, Unlock, NextTest, vars
<1>7. stack' \in Seq(Calls) /\ Len(stack') <= MaxDepth
  <2>0. Len(stack) \in Nat /\ Len(stack) <= MaxDepth /\ MaxDepth \in Nat \ {0}
        /\ (stack = <<>> => Len(stack) = 0)
    BY DepthIs, PlacesAssumption DEF Types
  <2>1. ASSUME (\E p \in Places : Went(p)) \/ Popped PROVE stack' \in Seq(Calls) /\ Len(stack') <= MaxDepth
    BY <2>0, <2>1 DEF Went, Popped
  <2>2. ASSUME NEW p, NEW e, Pushed(p, e), Len(stack) < MaxDepth
        PROVE  stack' \in Seq(Calls) /\ Len(stack') <= MaxDepth
    BY <2>0, <2>2 DEF Pushed
  <2>3. ASSUME UNCHANGED stack PROVE stack' \in Seq(Calls) /\ Len(stack') <= MaxDepth
    BY <2>3 DEF Types
  <2>4. CASE Program
    <3>1. (\E p \in Places : Went(p)) \/ Popped
      BY <2>4, ProgramMoves DEF Program, Returned, Places, LinePlaces, PatPlaces
    <3> QED BY <2>1, <3>1
  <2>5. ASSUME NEW e \in Found, Report(e) PROVE stack' \in Seq(Calls) /\ Len(stack') <= MaxDepth
    <3>1. Pushed("count", e) /\ stack = <<>>
      BY <2>5, OutsideMoves
    <3> QED BY <2>0, <2>2, <3>1
  <2>6. ASSUME NEW adr \in ParityErrors, Interrupt(adr)
        PROVE  stack' \in Seq(Calls) /\ Len(stack') <= MaxDepth
    BY <2>2, <2>6, OutsideMoves DEF Interrupt
  <2>7. ASSUME NEW mode \in UserModes, SetMode(mode)
        PROVE  stack' \in Seq(Calls) /\ Len(stack') <= MaxDepth
    <3>1. \/ mode # "patterns" /\ UNCHANGED stack
          \/ mode = "patterns" /\ Pushed("patinput", MenuCall)
      BY <2>7, OutsideMoves
    <3>2. mode = "patterns" => Len(stack) < MaxDepth
      BY <2>7 DEF SetMode
    <3> QED BY <2>2, <2>3, <3>1, <3>2
  <2>8. CASE SelectTest \/ Lock \/ Unlock
    BY <2>3, <2>8, OutsideMoves
  <2>9. CASE Restart
    <3>1. stack' = <<>>
      BY <2>9 DEF Restart
    <3> QED BY <2>0, <3>1, EmptySeq
  <2>10. ASSUME NEW t \in 0 .. LastTest, NextTest(t)
         PROVE  stack' \in Seq(Calls) /\ Len(stack') <= MaxDepth
    BY <2>3, <2>10, OutsideMoves
  <2>11. CASE UNCHANGED vars
    BY <2>3, <2>11 DEF vars
  <2> QED BY <2>4, <2>5, <2>6, <2>7, <2>8, <2>9, <2>10, <2>11 DEF Next
<1>8. nmi_masked' \in BOOLEAN
  BY DEF Types, Next, Program, Count, InSummary, Suppress,
     BeginLine, InPatterns, InOtherMode, EndInput, Scroll, Increment, EndWait, PrintLine, PrintPatterns,
     Report, Interrupt, SetMode, SelectTest, Lock, Unlock, Restart, NextTest, vars, Return
<1>9. raced' \in BOOLEAN
  BY DEF Types, Next, Program, Count, InSummary, Suppress, BeginLine, InPatterns, InOtherMode,
     EndInput, Scroll, Increment, EndWait, PrintLine, PrintPatterns, Report, Interrupt, Raising,
     At, SetMode, SelectTest, Lock, Unlock, Restart, NextTest, vars, history
<1> QED BY <1>1, <1>2, <1>3, <1>4, <1>5, <1>6, <1>7, <1>8, <1>9 DEF Types

-----------------------------------------------------------------------------
(* The summary.                                                            *)

(* How many of the calls have counted an error and not yet handled it.     *)
LEMMA PendingIs ==
  ASSUME Types
  PROVE  /\ Pending \in Nat
         /\ stack = <<>> => Pending = 0
         /\ stack # <<>> /\ Top.at = "mode" => Pending >= 1
<1>1. Len(stack) \in Nat /\ (stack # <<>> <=> Len(stack) # 0) /\ Top = stack[1]
  BY DepthIs
<1> QED BY <1>1 DEF Pending

LEMMA PendingWent ==
  ASSUME Types, NEW p \in Places, Went(p)
  PROVE  Pending' = Pending + (IF p = "mode" THEN 1 ELSE 0) - (IF Top.at = "mode" THEN 1 ELSE 0)
<1>1. /\ Len(stack) \in Nat \ {0} /\ Len(stack') = Len(stack) /\ Top = stack[1]
      /\ stack # <<>> /\ stack' # <<>> /\ stack'[1].at = p
      /\ \A k \in Depth : k # 1 => stack'[k] = stack[k]
  BY DepthIs, EmptySeq DEF Went
<1>2. CASE Len(stack) = 1
  BY <1>1, <1>2 DEF Pending
<1>3. CASE Len(stack) # 1
  <2>1. Len(stack) \in Depth /\ Len(stack) > 1
    BY <1>1, <1>3 DEF Depth
  <2>2. stack'[Len(stack)] = stack[Len(stack)]
    BY <1>1, <1>3, <2>1
  <2> QED BY <1>1, <2>1, <2>2 DEF Pending
<1> QED BY <1>2, <1>3

LEMMA PendingPopped ==
  ASSUME Types, Nesting, Popped
  PROVE  Pending' = Pending - (IF Top.at = "mode" THEN 1 ELSE 0)
<1>1. /\ Len(stack) \in Nat \ {0} /\ Len(stack') = Len(stack) - 1 /\ Top = stack[1]
      /\ stack # <<>> /\ (stack' # <<>> <=> Len(stack') # 0)
      /\ \A k \in 1 .. Len(stack) - 1 : stack'[k] = stack[k + 1]
  BY DepthIs, EmptySeq DEF Popped
<1>2. CASE Len(stack) = 1
  BY <1>1, <1>2 DEF Pending
<1>3. CASE Len(stack) = 2
  <2>1. stack'[1] = stack[2]
    BY <1>1, <1>3
  <2> QED BY <1>1, <1>3, <2>1 DEF Pending
<1>4. CASE Len(stack) > 2
  <2>1. 1 \in Depth /\ 2 \in Depth /\ 2 # Len(stack)
    BY <1>1, <1>4 DEF Depth
  <2>2. /\ stack[2].err.type \in {-1, 3}
        /\ stack[2].err.type = -1 => stack[2].at \in PatPlaces
        /\ stack[2].err.type = 3 => stack[1].err.type = -1
    <3>1. /\ stack[2].err.type \in {-1, 3}
          /\ stack[2].err.type = -1 => stack[2].at \in PatPlaces
      BY <2>1 DEF Nesting
    <3>2. ASSUME stack[2].err.type = 3 PROVE stack[1].err.type = -1
      <4>1. 1 < 2
        OBVIOUS
      <4> QED BY <2>1, <3>2, <4>1 DEF Nesting
    <3> QED BY <3>1, <3>2
  <2>3. stack[2 - 1].err.type = -1 => stack[2].at \in MenuPlaces
    BY <2>1 DEF Nesting
  <2>4. stack[2].at # "mode"
    BY <2>2, <2>3 DEF MenuPlaces, PatPlaces
  <2>5. /\ stack'[1] = stack[2] /\ stack'[Len(stack) - 1] = stack[Len(stack)]
        /\ Len(stack') > 1 /\ Len(stack') # 0 /\ Len(stack) > 1
    <3>1. 1 \in 1 .. Len(stack) - 1 /\ Len(stack) - 1 \in 1 .. Len(stack) - 1
          /\ (Len(stack) - 1) + 1 = Len(stack)
      BY <1>1, <1>4
    <3> QED BY <1>1, <1>4, <3>1
  <2> QED BY <1>1, <2>4, <2>5 DEF Pending
<1> QED BY <1>1, <1>2, <1>3, <1>4

LEMMA PendingPushed ==
  ASSUME Types, NEW p, NEW e, Pushed(p, e), p # "mode",
         Len(stack) > 1 => Top.at # "mode"
  PROVE  Pending' = Pending
<1>1. /\ Len(stack) \in Nat /\ Len(stack') = Len(stack) + 1 /\ Top = stack[1]
      /\ (stack # <<>> <=> Len(stack) # 0) /\ (stack' # <<>> <=> Len(stack') # 0)
      /\ \A k \in Depth : stack'[k + 1] = stack[k]
      /\ stack'[1].at = p
  BY DepthIs, EmptySeq DEF Pushed
<1>2. CASE Len(stack) = 0
  BY <1>1, <1>2 DEF Pending
<1>3. CASE Len(stack) # 0
  <2>1. Len(stack) \in Depth
    BY <1>1, <1>3 DEF Depth
  <2>2. stack'[Len(stack')] = stack[Len(stack)]
    BY <1>1, <2>1
  <2> QED BY <1>1, <1>3, <2>2 DEF Pending
<1> QED BY <1>2, <1>3

LEMMA Monotone ==
  ASSUME NEW a \in Nat, NEW b \in Nat, NEW c \in Nat, NEW d \in Nat, a <= c, b <= d
  PROVE  a * b <= c * d
<1>1. a * b <= c * b
  BY SMTT(30)
<1>2. c * b <= c * d
  BY SMTT(30)
<1>3. a * b \in Nat /\ c * b \in Nat /\ c * d \in Nat
  BY SMTT(30)
<1> QED BY <1>1, <1>2, <1>3

(* A step that counts an error leaves it pending, and one that handles it  *)
(* does not add more bits than the greatest number there is.               *)
LEMMA TotalStep ==
  ASSUME NEW ec \in Nat, NEW pe \in Nat, NEW tb \in Nat, NEW mx \in Nat,
         NEW ec2 \in Nat, NEW pe2 \in Nat, NEW tb2 \in Nat, NEW mx2 \in Nat,
         pe <= ec, tb <= mx * (ec - pe), pe2 <= ec2, mx <= mx2,
         \/ ec2 - pe2 >= ec - pe /\ tb2 = tb
         \/ ec2 - pe2 = (ec - pe) + 1 /\ tb2 <= tb + mx2
  PROVE  tb2 <= mx2 * (ec2 - pe2)
<1> DEFINE b == ec - pe
           d == ec2 - pe2
<1>1. b \in Nat /\ d \in Nat
  OBVIOUS
<1>2. \/ d >= b /\ tb2 = tb
      \/ d = b + 1 /\ tb2 <= tb + mx2
  OBVIOUS
<1>3. tb <= mx * b
  OBVIOUS
<1> SUFFICES tb2 <= mx2 * d
  OBVIOUS
<1> HIDE DEF b, d
<1>4. mx * b \in Nat /\ mx2 * b \in Nat /\ mx2 * d \in Nat
  BY <1>1, SMTT(30)
<1>5. CASE d >= b /\ tb2 = tb
  <2>1. mx * b <= mx2 * d
    BY <1>1, <1>5, Monotone
  <2> QED BY <1>3, <1>4, <1>5, <2>1
<1>6. CASE d = b + 1 /\ tb2 <= tb + mx2
  <2>1. mx * b <= mx2 * b
    BY <1>1, Monotone
  <2>2. mx2 * d = mx2 * b + mx2
    BY <1>1, <1>6, SMTT(30)
  <2> QED BY <1>3, <1>4, <1>6, <2>1, <2>2
<1> QED BY <1>2, <1>5, <1>6

LEMMA TotalNext ==
  ASSUME Types, Nesting, Total, Types', [Next]_vars
  PROVE  Total'
<1>1. /\ ecount \in Nat /\ Pending \in Nat /\ erri.tbits \in Nat /\ erri.max_bits \in Nat
      /\ ecount' \in Nat /\ erri'.tbits \in Nat /\ erri'.max_bits \in Nat
  BY PendingIs, ErriIs DEF Types
<1>2. Pending' \in Nat
  <2>1. Len(stack') \in Nat
    BY LenProperties DEF Types
  <2> QED BY <2>1 DEF Pending
<1>3. ASSUME Pending' <= ecount', erri.max_bits <= erri'.max_bits,
             \/ ecount' - Pending' >= ecount - Pending /\ erri'.tbits = erri.tbits
             \/ /\ ecount' - Pending' = (ecount - Pending) + 1
                /\ erri'.tbits <= erri.tbits + erri'.max_bits
      PROVE  Total'
  <2>1. erri'.tbits <= erri'.max_bits * (ecount' - Pending')
    BY <1>1, <1>2, <1>3, TotalStep DEF Total
  <2> QED BY <1>3, <2>1 DEF Total
<1>4. Pending <= ecount
  BY DEF Total
<1>5. ASSUME erri'.tbits = erri.tbits, erri'.max_bits = erri.max_bits,
             \/ ecount' = ecount /\ Pending' \in {Pending, Pending - 1}
             \/ ecount' = ecount + 1 /\ Pending' = Pending + 1
      PROVE  Total'
  <2>1. Pending' <= ecount' /\ ecount' - Pending' >= ecount - Pending
    <3>1. CASE ecount' = ecount /\ Pending' = Pending
      BY <1>1, <1>4, <3>1
    <3>2. CASE ecount' = ecount /\ Pending' = Pending - 1
      BY <1>1, <1>4, <3>2
    <3>3. CASE ecount' = ecount + 1 /\ Pending' = Pending + 1
      BY <1>1, <1>4, <3>3
    <3> QED BY <1>5, <3>1, <3>2, <3>3
  <2>2. erri.max_bits <= erri'.max_bits
    BY <1>1, <1>5
  <2> QED BY <1>3, <1>5, <2>1, <2>2
<1>6. ~ InSummary /\ ~ Restart => erri'.tbits = erri.tbits /\ erri'.max_bits = erri.max_bits
  <2> SUFFICES ASSUME ~ InSummary, ~ Restart PROVE SameValues(erri', erri)
    BY DEF SameValues
  <2> QED BY SummaryMoves, Zenon
<1>7. ASSUME NEW p \in Places, Went(p), Top.at # "mode", p # "mode" PROVE Pending' = Pending
  BY <1>1, <1>7, PendingWent
<1>8. ASSUME NEW p \in Places, Went(p), Top.at = "mode", p # "mode" PROVE Pending' = Pending - 1
  BY <1>1, <1>8, PendingWent
<1>9. Returned => Pending' \in {Pending, Pending - 1}
  BY <1>1, PendingPopped DEF Returned
<1>10. CASE InSummary /\ ~ Restart
  <2>1. Top.at = "mode" /\ Returned /\ stack # <<>> /\ ecount' = ecount
    BY <1>10, ProgramMoves DEF InSummary, counts, Program
  <2>2. Pending' = Pending - 1 /\ Pending >= 1
    BY <1>1, <2>1, PendingPopped, PendingIs DEF Returned
  <2>3. CASE erri' = Summary(erri, Top.err) /\ Top.err \in Found
    <3>1. /\ Number(Top.err) \in Nat
          /\ erri'.tbits = erri.tbits + Number(Top.err)
          /\ erri'.max_bits = IF erri.max_bits >= Number(Top.err) THEN erri.max_bits
                              ELSE Number(Top.err)
      BY <2>3, SummaryIs, NumberType DEF Types
    <3> QED BY <1>1, <1>3, <1>4, <2>1, <2>2, <3>1
  <2>4. CASE SameValues(erri', erri)
    BY <1>5, <2>1, <2>2, <2>4 DEF SameValues
  <2> QED BY <1>10, <2>3, <2>4, SummaryMoves, Zenon
<1>11. CASE Restart
  <2>1. stack' = <<>> /\ ecount' = 0 /\ erri' = Cleared(erri)
    BY <1>11 DEF Restart
  <2>2. erri'.tbits = 0 /\ erri'.max_bits = 0
    BY <2>1, ClearedIs DEF Types
  <2>3. Pending' = 0
    BY <2>1, EmptySeq DEF Pending
  <2>4. ecount' = 0
    BY <2>1
  <2>5. Pending' <= ecount'
    BY <2>3, <2>4
  <2>6. erri'.tbits <= erri'.max_bits * (ecount' - Pending')
    BY <2>2, <2>3, <2>4
  <2> QED BY <2>5, <2>6 DEF Total
<1>12. CASE Program /\ ~ InSummary /\ ~ Restart
  <2> USE DEF Places, LinePlaces, PatPlaces
  <2>1. erri'.tbits = erri.tbits /\ erri'.max_bits = erri.max_bits
    BY <1>6, <1>12
  <2>2. CASE Count
    <3>1. ecount' = ecount + 1 /\ Top.at = "count" /\ Went("mode")
      BY <2>2, ProgramMoves DEF Count
    <3>2. Pending' = Pending + 1
      BY <1>1, <3>1, PendingWent
    <3> QED BY <1>5, <2>1, <3>1, <3>2
  <2>3. CASE ~ Count
    <3>1. ecount' = ecount
      BY <1>12, <2>3 DEF Program, Suppress, BeginLine, InPatterns, InOtherMode, EndInput,
                         Scroll, Increment, EndWait, PrintLine, PrintPatterns, counts
    <3>2. Returned \/ \E p \in Places : Went(p) /\ p # "mode"
      <4>1. CASE BeginLine \/ InPatterns \/ EndInput
        BY <4>1, ProgramMoves
      <4>2. CASE Scroll \/ Increment \/ EndWait \/ PrintPatterns
        BY <4>2, ProgramMoves
      <4>3. CASE Suppress \/ InOtherMode \/ PrintLine
        BY <4>3, ProgramMoves
      <4> QED BY <1>12, <2>3, <4>1, <4>2, <4>3 DEF Program
    <3>3. Pending' \in {Pending, Pending - 1}
      BY <1>7, <1>8, <1>9, <3>2
    <3> QED BY <1>5, <2>1, <3>1, <3>3
  <2> QED BY <2>2, <2>3
<1>13. ASSUME NEW p, NEW e, Pushed(p, e), p # "mode", Len(stack) > 1 => Top.at # "mode",
              ecount' = ecount, ~ Restart, ~ InSummary
       PROVE  Total'
  <2>1. Pending' = Pending
    BY <1>13, PendingPushed
  <2> QED BY <1>5, <1>6, <1>13, <2>1
<1>14. ASSUME UNCHANGED <<stack, ecount>>, ~ Restart, ~ InSummary PROVE Total'
  <2>1. Pending' = Pending
    BY <1>14 DEF Pending
  <2> QED BY <1>5, <1>6, <1>14, <2>1
<1>15. ASSUME NEW e \in Found, Report(e), ~ Restart, ~ InSummary PROVE Total'
  <2>1. Pushed("count", e) /\ stack = <<>> /\ ecount' = ecount
    BY <1>15, OutsideMoves DEF Report
  <2> QED BY <1>13, <1>15, <2>1, DepthIs
<1>16. ASSUME NEW adr \in ParityErrors, Interrupt(adr), ~ Restart, ~ InSummary PROVE Total'
  <2>1. Pushed("count", ParityError(adr)) /\ ~ nmi_masked /\ ecount' = ecount
    BY <1>16, OutsideMoves DEF Interrupt, counts
  <2>2. ASSUME Len(stack) > 1 PROVE Top.at # "mode"
    <3>1. 1 \in Depth /\ 1 # Len(stack) /\ Top = stack[1]
      BY <2>2, DepthIs DEF Depth
    <3> QED BY <2>1, <3>1 DEF Nesting, PatPlaces
  <2> QED BY <1>13, <1>16, <2>1, <2>2
<1>17. ASSUME NEW mode \in UserModes, SetMode(mode), ~ Restart, ~ InSummary PROVE Total'
  <2>1. /\ stack # <<>> => Top.at \in MenuPlaces
        /\ UNCHANGED stack \/ Pushed("patinput", MenuCall)
        /\ ecount' = ecount
    BY <1>17, OutsideMoves DEF SetMode, counts
  <2>2. Len(stack) > 1 => Top.at # "mode"
    BY <2>1, DepthIs DEF MenuPlaces
  <2> QED BY <1>13, <1>14, <1>17, <2>1, <2>2
<1>18. ASSUME SelectTest \/ Lock \/ Unlock \/ UNCHANGED vars, ~ Restart, ~ InSummary PROVE Total'
  BY <1>14, <1>18 DEF SelectTest, Lock, Unlock, vars, counts
<1>19. ASSUME NEW t \in 0 .. LastTest, NextTest(t), ~ Restart, ~ InSummary PROVE Total'
  BY <1>14, <1>19 DEF NextTest, counts
<1> QED BY <1>10, <1>11, <1>12, <1>15, <1>16, <1>17, <1>18, <1>19 DEF Next

(* One more error in the summary: the least address, and the bounds.       *)
LEMMA SummedOneMore ==
  ASSUME Types, Summed, NEW e \in Found,
         erri' = Summary(erri, e), summed' = summed \cup {e}
  PROVE  /\ summed' \subseteq Found /\ Empty' /\ Lowest' /\ Fewest' /\ Most'
         /\ erri'.ebits = UNION {Failing(x) : x \in summed'}
<1>1. /\ erri \in Erri /\ summed \subseteq Found
      /\ Empty /\ Lowest /\ Fewest /\ Most
      /\ erri.ebits = UNION {Failing(x) : x \in summed}
  BY DEF Types, Summed
<1>2. /\ erri'.low_addr = Lower(erri, Place(e))
      /\ erri'.max_bits = IF erri.max_bits >= Number(e) THEN erri.max_bits ELSE Number(e)
      /\ erri'.min_bits = IF erri.min_bits <= Number(e) THEN erri.min_bits ELSE Number(e)
      /\ erri'.ebits = erri.ebits \cup Failing(e)
  BY <1>1, SummaryIs
<1>3. \A x \in summed' : /\ x \in Found /\ Number(x) \in Nat /\ Number(x) <= 32
                         /\ Place(x).page \in Nat /\ Place(x).offset \in Nat
                         /\ Place(x).page < NoPage
  BY <1>1, FoundType, NumberType
<1>4. /\ erri.low_addr.page \in Nat /\ erri.low_addr.offset \in Nat
      /\ erri.max_bits \in Nat /\ erri.min_bits \in Nat
  BY <1>1, ErriIs DEF Spot
<1>5. e \in summed' /\ \A x \in summed' : x = e \/ x \in summed
  OBVIOUS
<1>6. Lowest'
  <2> DEFINE low == erri.low_addr
             p == Place(e)
  <2>1. CASE Below(p, low)
    <3>1. erri'.low_addr = p
      BY <1>2, <2>1 DEF Lower
    <3>2. ASSUME NEW x \in summed' PROVE ~ Below(Place(x), p)
      <4>1. CASE x = e
        BY <1>3, <1>5, <4>1 DEF Below
      <4>2. CASE x \in summed
        <5>1. ~ Below(Place(x), low)
          BY <1>1, <4>2 DEF Lowest
        <5> QED BY <1>3, <1>4, <1>5, <2>1, <5>1 DEF Below
      <4> QED BY <1>5, <4>1, <4>2
    <3> QED BY <1>5, <3>1, <3>2 DEF Lowest
  <2>2. CASE ~ Below(p, low)
    <3>1. erri'.low_addr = low
      BY <1>2, <2>2 DEF Lower
    <3>2. summed # {}
      <4>1. ASSUME summed = {} PROVE FALSE
        <5>1. low.page = NoPage
          BY <1>1, <4>1 DEF Empty
        <5> QED BY <1>3, <1>5, <2>2, <5>1 DEF Below
      <4> QED BY <4>1
    <3>3. PICK x \in summed : low = Place(x)
      BY <1>1, <3>2 DEF Lowest
    <3>4. \A y \in summed' : ~ Below(Place(y), low)
      BY <1>1, <1>5, <2>2 DEF Lowest
    <3> QED BY <3>1, <3>3, <3>4 DEF Lowest
  <2> QED BY <2>1, <2>2
<1>7. Fewest'
  <2>1. CASE erri.min_bits <= Number(e) /\ summed # {}
    <3>1. erri'.min_bits = erri.min_bits
      BY <1>2, <2>1
    <3>2. PICK x \in summed : erri.min_bits = Number(x)
      BY <1>1, <2>1 DEF Fewest
    <3>3. \A y \in summed' : erri.min_bits <= Number(y)
      BY <1>1, <1>5, <2>1 DEF Fewest
    <3> QED BY <3>1, <3>2, <3>3 DEF Fewest
  <2>2. CASE ~ (erri.min_bits <= Number(e)) \/ summed = {}
    <3>1. erri'.min_bits = Number(e)
      BY <1>1, <1>2, <1>3, <1>5, <2>2 DEF Empty
    <3>2. \A y \in summed' : Number(e) <= Number(y)
      BY <1>1, <1>3, <1>4, <1>5, <2>2 DEF Fewest
    <3> QED BY <1>5, <3>1, <3>2 DEF Fewest
  <2> QED BY <2>1, <2>2
<1>8. Most'
  <2>1. CASE erri.max_bits >= Number(e) /\ summed # {}
    <3>1. erri'.max_bits = erri.max_bits
      BY <1>2, <2>1
    <3>2. PICK x \in summed : erri.max_bits = Number(x)
      BY <1>1, <2>1 DEF Most
    <3>3. \A y \in summed' : erri.max_bits >= Number(y)
      BY <1>1, <1>5, <2>1 DEF Most
    <3> QED BY <3>1, <3>2, <3>3 DEF Most
  <2>2. CASE ~ (erri.max_bits >= Number(e)) \/ summed = {}
    <3>1. erri'.max_bits = Number(e)
      BY <1>1, <1>2, <1>3, <1>5, <2>2 DEF Empty
    <3>2. \A y \in summed' : Number(e) >= Number(y)
      BY <1>1, <1>3, <1>4, <1>5, <2>2 DEF Most
    <3> QED BY <1>5, <3>1, <3>2 DEF Most
  <2> QED BY <2>1, <2>2
<1>9. erri'.ebits = UNION {Failing(x) : x \in summed'}
  BY <1>1, <1>2
<1> QED BY <1>1, <1>5, <1>6, <1>7, <1>8, <1>9 DEF Empty

LEMMA SummedNext ==
  ASSUME Types, Nesting, Summed, Types', [Next]_vars
  PROVE  Summed'
<1>1. Total'
  BY TotalNext DEF Summed
<1>2. CASE Restart
  <2>1. summed' = {} /\ header' = "none" /\ erri' = Cleared(erri) /\ erri \in Erri
    BY <1>2 DEF Restart, Types
  <2>2. /\ erri'.low_addr = [page |-> NoPage, offset |-> 4095] /\ erri'.min_bits = 32
        /\ erri'.max_bits = 0 /\ erri'.ebits = {}
    BY <2>1, ClearedIs
  <2> QED BY <1>1, <2>1, <2>2 DEF Summed, Empty, Lowest, Fewest, Most, SummaryShown
<1>3. CASE InSummary /\ Top.err \in Found /\ erri' = Summary(erri, Top.err)
             /\ summed' = summed \cup {Top.err} /\ Top.at = "mode"
  <2>1. SummaryShown'
    <3>1. Top.err.type # 3
      BY <1>3, FoundType
    <3>2. /\ Cleared_first("summary")
          /\ shown' = IF Changed(erri, Top.err) THEN Values(erri')
                      ELSE IF erri.hdr_flag = 0 THEN Blank ELSE shown
      BY <1>3, <3>1 DEF InSummary
    <3>3. CASE Changed(erri, Top.err)
      BY <3>2, <3>3 DEF SummaryShown
    <3>4. CASE ~ Changed(erri, Top.err)
      <4>1. Values(erri') = Values(erri)
        BY <1>3, <3>4 DEF Changed
      <4> QED BY <3>2, <3>4, <4>1 DEF SummaryShown, Cleared_first, Summed
    <3> QED BY <3>3, <3>4
  <2> QED BY <1>1, <1>3, <2>1, SummedOneMore DEF Summed
<1>4. CASE /\ SameValues(erri', erri) /\ summed' = summed
           /\ \/ UNCHANGED screen
              \/ header' # "summary"
              \/ header' = header /\ shown' \in {Blank, shown}
  <2>1. Empty' /\ Lowest' /\ Fewest' /\ Most' /\ erri'.ebits = UNION {Failing(x) : x \in summed'}
        /\ summed' \subseteq Found
    BY <1>4 DEF Summed, Empty, Lowest, Fewest, Most, SameValues
  <2>2. Values(erri') = Values(erri)
    BY <1>4 DEF SameValues, Values
  <2>3. SummaryShown'
    BY <1>4, <2>2 DEF Summed, SummaryShown, screen
  <2> QED BY <1>1, <2>1, <2>3 DEF Summed
<1> QED BY <1>2, <1>3, <1>4, SummaryMoves, Zenon

-----------------------------------------------------------------------------
(* Every error is told of, and once.                                       *)
LEMMA PairsDiffer ==
  /\ \A a, b : <<a, b>> # None
  /\ \A a, b, c, d : <<a, b>> = <<c, d>> => a = c /\ b = d
<1>1. \A a, b : <<a, b>> # <<>>
  OBVIOUS
<1>2. \A a, b, c, d : <<a, b>> = <<c, d>> => a = c /\ b = d
  OBVIOUS
<1> QED BY <1>1, <1>2 DEF None

LEMMA ToldNext ==
  ASSUME Types, Nesting, Told, [Next]_vars
  PROVE  Told'
<1> DEFINE Line == printmode = "addresses" => lastline \in {None, <<erri.eadr, erri.exor>>}
           Lines == \A k \in Depth :
             stack[k].at \in LinePlaces /\ stack[k].err.type \in {0, 1} =>
               lastline # <<stack[k].err.adr, stack[k].err.xor>>
<1>1. Line /\ Lines
  BY DEF Told
<1>2. ASSUME UNCHANGED <<erri, lastline, printmode>> PROVE Line'
  BY <1>1, <1>2
<1>3. ASSUME UNCHANGED stack, lastline' \in {None, lastline} PROVE Lines'
  BY <1>1, <1>3 DEF Depth, None
(* Only the outermost call is of a data or an address error.               *)
<1>4. ASSUME NEW k \in Depth, stack[k].err.type \in {0, 1} PROVE k = Len(stack)
  BY <1>4 DEF Nesting
<1>5. ASSUME NEW p \in Places, Went(p), lastline' \in {None, lastline},
             p \in LinePlaces /\ Top.at \notin LinePlaces /\ Top.err.type \in {0, 1} =>
               lastline' # <<Top.err.adr, Top.err.xor>>
      PROVE  Lines'
  <2>1. /\ Depth' = Depth /\ 1 \in Depth /\ Top = stack[1] /\ stack'[1].at = p
        /\ stack'[1].err = stack[1].err
        /\ \A k \in Depth : k # 1 => stack'[k] = stack[k]
    BY <1>5, DepthIs DEF Went, Depth
  <2> SUFFICES ASSUME NEW k \in Depth, stack'[k].at \in LinePlaces, stack'[k].err.type \in {0, 1}
               PROVE  lastline' # <<stack'[k].err.adr, stack'[k].err.xor>>
    BY <2>1
  <2>2. CASE k = 1
    BY <1>1, <1>5, <2>1, <2>2, PairsDiffer
  <2>3. CASE k # 1
    BY <1>1, <1>5, <2>1, <2>3, PairsDiffer
  <2> QED BY <2>2, <2>3
<1>6. ASSUME Popped, lastline' \in {None, lastline} PROVE Lines'
  <2>1. \A k \in Depth' : k + 1 \in Depth /\ stack'[k] = stack[k + 1]
    BY <1>6, DepthIs DEF Popped, Depth
  <2> QED BY <1>1, <1>6, <2>1, PairsDiffer
<1>7. ASSUME NEW p \in {"count", "patinput"}, NEW e, Pushed(p, e),
             lastline' \in {None, lastline}
      PROVE  Lines'
  <2>1. /\ Len(stack) \in Nat /\ Len(stack') = Len(stack) + 1 /\ stack'[1].at = p
        /\ \A k \in Depth : stack'[k + 1] = stack[k]
    BY <1>7, DepthIs DEF Pushed
  <2> SUFFICES ASSUME NEW k \in Depth', stack'[k].at \in LinePlaces, stack'[k].err.type \in {0, 1}
               PROVE  lastline' # <<stack'[k].err.adr, stack'[k].err.xor>>
    OBVIOUS
  <2>2. k # 1
    BY <2>1 DEF LinePlaces
  <2>3. k - 1 \in Depth /\ (k - 1) + 1 = k
    BY <2>1, <2>2 DEF Depth
  <2>4. stack'[k] = stack[k - 1]
    BY <2>1, <2>3
  <2>5. lastline # <<stack'[k].err.adr, stack'[k].err.xor>>
    BY <1>1, <2>3, <2>4
  <2> QED BY <1>7, <2>5, PairsDiffer
<1>8. ASSUME printmode' = printmode, lastline' \in {None, lastline},
             erri'.eadr = erri.eadr, erri'.exor = erri.exor
      PROVE  Line'
  BY <1>1, <1>8
<1>9. ASSUME printmode' = printmode, printmode # "addresses" PROVE Line'
  BY <1>9
<1>10. ASSUME Line', Lines' PROVE Told'
  BY <1>10 DEF Told
<1> USE DEF Places, PatPlaces, LinePlaces
<1> HIDE DEF Line, Lines
<1>11. CASE Count \/ Scroll \/ Increment \/ EndWait
  <2>1. UNCHANGED <<erri, lastline, printmode>>
    BY <1>11 DEF Count, Scroll, Increment, EndWait, history
  <2>2. \/ Went("mode") \/ Went("patline") \/ Went("patwait")
        \/ Went("patraise")
        \/ /\ Top.at \in {"scroll", "raise", "wait"}
           /\ Went("raise") \/ Went("line") \/ Went("wait")
    BY <1>11, ProgramMoves
  <2>3. Lines'
    BY <1>5, <2>1, <2>2
  <2> QED BY <1>2, <1>10, <2>1, <2>3
<1>12. CASE EndInput
  <2>1. UNCHANGED <<erri, lastline, printmode>>
    BY <1>12 DEF EndInput, history
  <2>2. \/ Popped \/ Went("patscroll")
        \/ Top.at = "input" /\ Went("scroll")
    BY <1>12, ProgramMoves DEF Returned
  <2>3. Lines'
    BY <1>5, <1>6, <2>1, <2>2
  <2> QED BY <1>2, <1>10, <2>1, <2>3
<1>13. CASE Suppress
  <2>1. UNCHANGED <<erri, lastline, printmode>> /\ Popped
    BY <1>13, ProgramMoves DEF Suppress, history, Returned
  <2>2. Lines'
    BY <1>6, <2>1
  <2> QED BY <1>2, <1>10, <2>1, <2>2
<1>14. CASE InSummary
  <2>1. lastline' = lastline /\ printmode' = printmode /\ printmode = "summary" /\ Popped
    BY <1>14, ProgramMoves DEF InSummary, Returned
  <2>2. Lines'
    BY <1>6, <2>1
  <2> QED BY <1>9, <1>10, <2>1, <2>2
<1>15. ASSUME NEW kind, ClearArea(kind)
       PROVE  erri'.eadr = erri.eadr /\ erri'.exor = erri.exor
  <2>1. erri \in Erri /\ erri' = [erri EXCEPT !.hdr_flag = 1]
    BY <1>15 DEF Types, ClearArea
  <2> QED BY <2>1, ErriSets
<1>16. CASE BeginLine
  <2>1. /\ lastline' = lastline /\ printmode' = printmode /\ printmode = "addresses"
        /\ ClearArea("addresses") /\ ~ IsDuplicate(Top.err)
        /\ Top.at = "mode" /\ Went("input")
    BY <1>16, ProgramMoves DEF BeginLine, history
  <2>2. lastline \in {None, <<erri.eadr, erri.exor>>}
    BY <1>1, <2>1 DEF Line
  <2>3. lastline # <<Top.err.adr, Top.err.xor>>
    BY <2>1, <2>2, PairsDiffer DEF IsDuplicate
  <2>4. Lines'
    BY <1>5, <2>1, <2>3
  <2> QED BY <1>8, <1>10, <1>15, <2>1, <2>4
<1>17. CASE InPatterns
  <2>1. /\ lastline' = lastline /\ printmode' = printmode /\ ClearArea("patterns")
        /\ Popped \/ Went("patinput")
    BY <1>17, ProgramMoves DEF InPatterns, history, Returned
  <2>2. Lines'
    BY <1>5, <1>6, <2>1
  <2> QED BY <1>8, <1>10, <1>15, <2>1, <2>2
<1>18. CASE InOtherMode
  <2>1. /\ lastline' = lastline /\ printmode' = printmode /\ printmode \in {"none", "dmi"}
        /\ Popped
    BY <1>18, ProgramMoves DEF InOtherMode, history, Returned
  <2>2. Lines'
    BY <1>6, <2>1
  <2> QED BY <1>9, <1>10, <2>1, <2>2
<1>19. CASE PrintLine
  <2> DEFINE e == Top.err
  <2>1. /\ erri' = Remember(e) /\ printmode' = printmode /\ stack # <<>>
        /\ lastline' = IF e.type \in {0, 1} THEN <<e.adr, e.xor>> ELSE None
        /\ Top.at = "line" /\ Popped
    BY <1>19, ProgramMoves DEF PrintLine, At, Returned
  <2>2. e \in Found \cup Parity
    BY <2>1, TopError
  <2>3. CASE e.type \in {0, 1}
    <3>1. lastline' = <<erri'.eadr, erri'.exor>>
      BY <2>1, <2>2, <2>3, RememberIs
    <3>2. Line'
      BY <3>1 DEF Line
    <3>3. Depth' = {}
      <4>1. Len(stack) = 1
        <5>1. 1 \in Depth /\ stack[1].err.type \in {0, 1}
          BY <2>1, <2>3, DepthIs
        <5> QED BY <1>4, <5>1
      <4> QED BY <2>1, <4>1 DEF Popped, Depth
    <3>4. Lines'
      BY <3>3 DEF Lines
    <3> QED BY <1>10, <3>2, <3>4
  <2>4. CASE e.type \notin {0, 1}
    <3>1. lastline' = None
      BY <2>1, <2>4
    <3>2. Line' /\ Lines'
      BY <1>6, <2>1, <3>1 DEF Line
    <3> QED BY <1>10, <3>2
  <2> QED BY <2>3, <2>4
<1>20. CASE PrintPatterns
  <2>1. lastline' = None /\ (Popped \/ Went("patscroll"))
    BY <1>20, ProgramMoves DEF PrintPatterns, Returned
  <2>2. Line'
    BY <2>1 DEF Line
  <2>3. Lines'
    BY <1>5, <1>6, <2>1
  <2> QED BY <1>10, <2>2, <2>3
<1>21. CASE \E e \in Found : Report(e)
  <2>1. PICK e \in Found : Report(e)
    BY <1>21
  <2>2. UNCHANGED <<erri, lastline, printmode>> /\ Pushed("count", e)
    BY <2>1, OutsideMoves DEF Report, history
  <2>3. Lines'
    BY <1>7, <2>2
  <2> QED BY <1>2, <1>10, <2>2, <2>3
<1>22. CASE \E adr \in ParityErrors : Interrupt(adr)
  <2>1. PICK adr \in ParityErrors : Interrupt(adr)
    BY <1>22
  <2>2. UNCHANGED <<erri, lastline, printmode>> /\ Pushed("count", ParityError(adr))
    BY <2>1, OutsideMoves DEF Interrupt, history
  <2>3. Lines'
    BY <1>7, <2>2
  <2> QED BY <1>2, <1>10, <2>2, <2>3
<1>23. ASSUME NEW mode \in UserModes, SetMode(mode) PROVE Told'
  <2>1. /\ printmode' = mode
        /\ lastline' = IF mode \in {"summary", "addresses"} THEN None ELSE lastline
        /\ UNCHANGED stack \/ Pushed("patinput", MenuCall)
    BY <1>23, OutsideMoves DEF SetMode
  <2>2. Line'
    BY <2>1 DEF Line
  <2>3. Lines'
    BY <1>3, <1>7, <2>1
  <2> QED BY <1>10, <2>2, <2>3
<1>24. CASE Restart
  <2>1. lastline' = None /\ stack' = <<>>
    BY <1>24 DEF Restart
  <2>2. Depth' = {}
    BY <2>1, EmptySeq DEF Depth
  <2> QED BY <1>10, <2>1, <2>2 DEF Line, Lines
<1>25. CASE \/ SelectTest \/ Lock \/ Unlock \/ \E t \in 0 .. LastTest : NextTest(t)
            \/ UNCHANGED vars
  <2>1. UNCHANGED <<erri, lastline, printmode>> /\ UNCHANGED stack
    BY <1>25 DEF SelectTest, Lock, Unlock, NextTest, history, vars
  <2>2. Lines'
    BY <1>3, <2>1
  <2> QED BY <1>2, <1>10, <2>1, <2>2
<1> QED BY <1>11, <1>12, <1>13, <1>14, <1>16, <1>17, <1>18, <1>19, <1>20, <1>21, <1>22,
           <1>23, <1>24, <1>25 DEF Next, Program

-----------------------------------------------------------------------------
(* The invariant.                                                          *)
LEMMA InvInit ==
  ASSUME Init
  PROVE  IInv
<1>1. /\ test = 0 /\ printmode = "addresses" /\ ecount = 0 /\ ecc_ecount = 0
      /\ errors = [t \in -1 .. LastTest |-> 0] /\ msg_line = AboveFirst
      /\ slock = FALSE /\ numpatn = 0 /\ stack = <<>> /\ nmi_masked = FALSE
      /\ header = "none" /\ summed = {} /\ lastline = None /\ raced = FALSE
  BY DEF Init
<1>2. Len(stack) = 0 /\ stack \in Seq(Calls) /\ Depth = {}
  BY <1>1, EmptySeq DEF Depth
<1>3. /\ erri.low_addr = [page |-> NoPage, offset |-> 4095] /\ erri.min_bits = 32
      /\ erri.max_bits = 0 /\ erri.ebits = {} /\ erri.tbits = 0 /\ erri \in Erri
  <2> DEFINE before == [low_addr |-> [page |-> 0, offset |-> 0],
                        high_addr |-> [page |-> 0, offset |-> 0], min_bits |-> 0,
                        max_bits |-> 0, maxl |-> 0, cor_err |-> 0, ebits |-> {},
                        hdr_flag |-> 0, tbits |-> 0, eadr |-> 0, exor |-> {}]
  <2>1. before \in Erri
    <3>1. [page |-> 0, offset |-> 0] \in Spot
      BY DEF Spot
    <3> QED BY <3>1 DEF Erri
  <2>2. erri = Cleared(before)
    BY DEF Init
  <2> HIDE DEF before
  <2> QED BY <2>1, <2>2, ClearedIs
<1>4. Types
  <2>1. test \in -1 .. LastTest /\ printmode \in PrintModes
    BY <1>1, PlacesAssumption DEF PrintModes
  <2>2. ecount \in Nat /\ ecc_ecount \in Nat /\ errors \in [-1 .. LastTest -> Nat]
    BY <1>1
  <2>3. msg_line \in LINE_SCROLL - 1 .. LastLine + 1 /\ numpatn \in 0 .. BADRAM_MAXPATNS
    BY <1>1, PlacesAssumption DEF AboveFirst
  <2>4. Len(stack) <= MaxDepth
    BY <1>2, PlacesAssumption
  <2>5. slock \in BOOLEAN /\ nmi_masked \in BOOLEAN /\ raced \in BOOLEAN
    BY <1>1
  <2> QED BY <1>2, <1>3, <2>1, <2>2, <2>3, <2>4, <2>5 DEF Types
<1>5. Nesting /\ Placed /\ Raised /\ Told
  <2>1. msg_line <= LastLine
    BY <1>1, PlacesAssumption DEF AboveFirst
  <2> QED BY <1>1, <1>2, <2>1 DEF Nesting, Placed, Raised, Told
<1>6. Summed
  <2>1. Total
    BY <1>1, <1>2, <1>3 DEF Total, Pending
  <2> QED BY <1>1, <1>3, <2>1 DEF Summed, Empty, Lowest, Fewest, Most, SummaryShown
<1> QED BY <1>4, <1>5, <1>6 DEF IInv

LEMMA InvNext ==
  ASSUME IInv, [Next]_vars
  PROVE  IInv'
<1>1. Types /\ Nesting /\ Placed /\ Raised /\ Summed /\ Told
  BY DEF IInv
<1>2. Types'
  BY <1>1, TypesNext
<1>3. Nesting' /\ Placed' /\ Raised' /\ Summed' /\ Told'
  BY <1>1, <1>2, NestingNext, PlacedNext, RaisedNext, SummedNext, ToldNext
<1> QED BY <1>2, <1>3 DEF IInv

LEMMA InvAlways == Spec => []IInv
<1>1. Init => IInv
  BY InvInit
<1>2. IInv /\ [Next]_vars => IInv'
  BY InvNext
<1> QED BY <1>1, <1>2, PTL DEF Spec

-----------------------------------------------------------------------------
(* What a run may find of each state and of each step.                     *)
LEMMA MinIs ==
  ASSUME NEW S, S \subseteq Int, NEW m \in S, \A y \in S : m <= y
  PROVE  Min(S) = m
<1>1. Min(S) \in S /\ \A y \in S : Min(S) <= y
  BY DEF Min
<1>2. Min(S) \in Int /\ m \in Int /\ Min(S) <= m /\ m <= Min(S)
  BY <1>1
<1> QED BY <1>2

LEMMA MaxIs ==
  ASSUME NEW S, S \subseteq Int, NEW m \in S, \A y \in S : m >= y
  PROVE  Max(S) = m
<1>1. Max(S) \in S /\ \A y \in S : Max(S) >= y
  BY DEF Max
<1>2. Max(S) \in Int /\ m \in Int /\ Max(S) >= m /\ m >= Max(S)
  BY <1>1
<1> QED BY <1>2

LEMMA SummedTrue ==
  ASSUME Types, Summed
  PROVE  SummaryTrue
<1> DEFINE S == {Number(e) : e \in summed}
<1>1. /\ Lowest /\ Fewest /\ Most /\ Total /\ SummaryShown
      /\ erri.ebits = UNION {Failing(e) : e \in summed}
      /\ \A e \in summed : e \in Found
  BY DEF Summed
<1>2. S \subseteq Int
  BY <1>1, NumberType
<1>3. ASSUME summed # {}
      PROVE  /\ erri.low_addr \in {Place(e) : e \in summed}
             /\ erri.min_bits = Min(S) /\ erri.max_bits = Max(S)
  <2>1. erri.low_addr \in {Place(e) : e \in summed}
    BY <1>1, <1>3 DEF Lowest
  <2>2. erri.min_bits \in S /\ \A y \in S : erri.min_bits <= y
    BY <1>1, <1>3 DEF Fewest
  <2>3. erri.max_bits \in S /\ \A y \in S : erri.max_bits >= y
    BY <1>1, <1>3 DEF Most
  <2> HIDE DEF S
  <2>4. erri.min_bits = Min(S)
    BY <1>2, <2>2, MinIs
  <2>5. erri.max_bits = Max(S)
    BY <1>2, <2>3, MaxIs
  <2> QED BY <2>1, <2>4, <2>5
<1>4. erri.tbits <= erri.max_bits * ecount
  <2>1. /\ ecount \in Nat /\ Pending \in Nat /\ Pending <= ecount
        /\ erri.max_bits \in Nat /\ erri.tbits \in Nat
        /\ erri.tbits <= erri.max_bits * (ecount - Pending)
    BY <1>1, PendingIs, ErriIs DEF Types, Total
  <2> QED BY <2>1, SMTT(30)
<1>5. SummaryExact
  BY <1>1, <1>3, <1>4 DEF SummaryExact, Lowest, Number
<1> QED BY <1>1, <1>5 DEF SummaryTrue

LEMMA IsTypeOK ==
  ASSUME Types
  PROVE  TypeOK
<1>1. /\ erri.eadr \in Nat /\ erri.hdr_flag \in {0, 1} /\ erri.maxl \in 0 .. 2
  BY ErriIs DEF Types
<1>2. \A k \in DOMAIN stack : /\ stack[k].idx \in 0 .. BADRAM_MAXPATNS
                              /\ stack[k].line \in AboveFirst .. LastLine - 1
  <2>1. DOMAIN stack = Depth
    BY LenProperties DEF Types, Depth
  <2> QED BY <2>1, DepthIs, CallType
<1> QED BY <1>1, <1>2 DEF Types, TypeOK

(* The innermost call, when it shows a line.                               *)
LEMMA LineAtTop ==
  ASSUME Types, Told, At("line"), Top.err.type \in {0, 1}
  PROVE  lastline # <<Top.err.adr, Top.err.xor>>
<1>1. 1 \in Depth /\ Top = stack[1]
  BY DepthIs DEF At
<1> QED BY <1>1 DEF At, Told, LinePlaces

(* What the program keeps for its reports stays within its bounds: the     *)
(* counters, the number of patterns, the calls in progress (error.c), and  *)
(* msg_line, which the NMIs that come between its test and its increment   *)
(* (lib.c:197-198) take one line below the scrolling region and no lower.  *)
THEOREM TypeCorrect == Spec => []TypeOK
<1>1. IInv => TypeOK
  BY IsTypeOK DEF IInv
<1> QED BY <1>1, InvAlways, PTL

(* A line is shown in the scrolling region whatever the menu and NMIs do   *)
(* in between, when the menu is not opened where scroll() waits for the    *)
(* lock (there a change of the mode resets msg_line) and no NMI came       *)
(* between the test of msg_line and its increment; if one did, it may be   *)
(* shown on the line below, the last of the screen, and no lower.          *)
THEOREM LinesAlwaysPlaced == Spec => [](~ MenuInWait => LinePlaced)
<1>1. IInv => (~ MenuInWait => LinePlaced)
  <2> SUFFICES ASSUME IInv, ~ MenuInWait, At("line") \/ At("patline")
               PROVE  msg_line \in LINE_SCROLL .. IF raced THEN LastLine + 1 ELSE LastLine
    BY DEF LinePlaced
  <2>1. 1 \in Depth /\ Top = stack[1] /\ Top.at \in {"line", "patline"}
    BY DepthIs DEF At, IInv
  <2>2. msg_line >= LINE_SCROLL
    BY <2>1 DEF IInv, Placed, Scrolled, Above
  <2>3. ~ raced => msg_line <= LastLine
    BY DEF IInv, Raised
  <2> QED BY <2>2, <2>3, PlacesAssumption DEF IInv, Types
<1> QED BY <1>1, InvAlways, PTL

(* The summary is true of all errors it was told of since init(): the      *)
(* least address, the failing bits, the bounds of their number, and what   *)
(* of it is on the screen (common_err(), error.c).                         *)
THEOREM SummaryAlwaysTrue == Spec => []SummaryTrue
<1>1. IInv => SummaryTrue
  BY SummedTrue DEF IInv
<1> QED BY <1>1, InvAlways, PTL

(* The list of addresses tells of every error, and not twice in a row.     *)
THEOREM LinesAlwaysTellOnce == Spec => LinesTellOnce
<1>1. IInv /\ [Next]_vars =>
        [PrintLine /\ Top.err.type \in {0, 1} => lastline # <<Top.err.adr, Top.err.xor>>]_vars
  <2>1. IInv /\ PrintLine /\ Top.err.type \in {0, 1} => lastline # <<Top.err.adr, Top.err.xor>>
    BY LineAtTop DEF IInv, PrintLine
  <2> QED BY <2>1
<1>2. IInv /\ [Next]_vars =>
        [Suppress /\ Top.err.type \in {0, 1} =>
           lastline \in {None, <<Top.err.adr, Top.err.xor>>}]_vars
  <2>1. IInv /\ Suppress => lastline \in {None, <<Top.err.adr, Top.err.xor>>}
    BY DEF IInv, Told, Suppress, IsDuplicate
  <2> QED BY <2>1
<1> QED BY <1>1, <1>2, InvAlways, PTL DEF Spec, LinesTellOnce, NeverTwice, SuppressedShown
=============================================================================
