---------------------------- MODULE EccPollProofs ----------------------------
(***************************************************************************)
(* Theorems about the polls for ECC errors, for any set of machines and    *)
(* any number of errors and restarts.                                      *)
(***************************************************************************)
EXTENDS EccPoll, SequenceTheorems, FiniteSetTheorems, TLAPS

StatusBits == Kinds \cup Banks \cup {"nerr", Eap.ce, Eap.ue}

(* The steps that polls are made of, and those of all but the i440GX.      *)
PlainSteps == [do : {"report"}, corrected : BOOLEAN]
                \cup [do : {"clear"}, bits : SUBSET StatusBits]
Steps == PlainSteps \cup {ReportEap}

Chips == DOMAIN controllers
SetUps == {"nothing", "wmr", "amd64", "k10", "amd751", "amd76x", "cnb20", "E5400",
           "iE7205", "iE7xxx", "iE7520", "i440gx", "i840", "i845", "i820", "i850",
           "i860", "i875", "i925", "p35", "nhm"}
Polls == {"nothing", "amd64", "amd751", "amd76x", "iE7xxx", "i440gx", "i840", "i875",
          "i845", "i820", "i850", "i860", "iE7221", "iE7520"}

-----------------------------------------------------------------------------
(* The rows of the table.                                                  *)
LEMMA RowType ==
  ASSUME NEW c \in Chips
  PROVE  controllers[c].setup \in SetUps /\ controllers[c].poll \in Polls
<1>1. controllers[c].setup \in SetUps
  BY DEF Chips, controllers, Row, SetUps
<1>2. controllers[c].poll \in Polls
  BY DEF Chips, controllers, Row, Polls
<1> QED BY <1>1, <1>2

LEMMA UnknownRow ==
  /\ "unknown" \in Chips
  /\ controllers["unknown"].setup = "nothing"
  /\ controllers["unknown"].poll = "nothing"
  /\ controllers["unknown"].tested = FALSE
BY DEF Chips, controllers, Row

(* A set-up leaves capabilities and modes that there are.                  *)
LEMMA SetUpType ==
  ASSUME NEW c \in Chips, NEW b \in Board, NEW m, m \subseteq UNKNOWN,
         NEW s \in setup_ecc(c, b, m)
  PROVE  s.cap \subseteq UNKNOWN /\ s.mode \subseteq UNKNOWN
<1>1. b.field \in 0 .. 3 /\ b.bit \in BOOLEAN
  BY DEF Board
<1>2. controllers[c].setup \in SetUps
  BY RowType
<1> USE DEF NONE, RESERVED, DETECT, CORRECT, CHIPKILL, SCRUB, UNKNOWN, Sets, If
<1>3. CASE controllers[c].setup \in {"nothing", "wmr", "amd64", "k10", "amd751"}
  BY <1>1, <1>3 DEF setup_ecc, setup_nothing, setup_wmr, setup_amd64, setup_k10, setup_amd751
<1>4. CASE controllers[c].setup \in {"amd76x", "cnb20", "E5400", "iE7205", "iE7xxx"}
  BY <1>1, <1>4 DEF setup_ecc, setup_amd76x, setup_cnb20, setup_E5400, setup_iE7205,
                    setup_iE7xxx
<1>5. CASE controllers[c].setup \in {"iE7520", "i440gx", "i840", "i820"}
  BY <1>1, <1>5 DEF setup_ecc, setup_iE7520, setup_i440gx, setup_i840, setup_i820
<1>6. CASE controllers[c].setup \in {"i845", "i850", "i860", "i875"}
  BY <1>1, <1>6 DEF setup_ecc, setup_i845, setup_i850, setup_i860, setup_i875
<1>7. CASE controllers[c].setup \in {"i925", "p35", "nhm"}
  BY <1>1, <1>7 DEF setup_ecc, setup_i925, setup_p35, setup_nhm
<1> QED BY <1>2, <1>3, <1>4, <1>5, <1>6, <1>7 DEF SetUps

(* A controller that is not known, or not looked for, detects nothing.     *)
LEMMA UnknownSetUp ==
  ASSUME NEW b, NEW m, NEW s \in setup_ecc("unknown", b, m)
  PROVE  s.mode = {}
BY UnknownRow DEF setup_ecc, setup_nothing, Sets, NONE

LEMMA IdentifiedType ==
  ASSUME NEW b \in Board
  PROVE  /\ Identified(b) \in {"unknown", b.chip}
         /\ b.chip \in Chips
         /\ pci_check_direct(b) = "none" => Identified(b) = "unknown"
BY DEF Board, Identified, Chips
-----------------------------------------------------------------------------
(* What polls are made of, put together.  Tells: a report makes the kind k *)
(* known.  Bits: what a step clears.                                       *)
Tells(step, k) == step.do = "report" /\ (k = "ce" \/ ~ step.corrected)
Told(t, k)     == \E n \in 1 .. Len(t) : Tells(t[n], k)
Bits(step)     == IF step.do = "clear" THEN step.bits ELSE {}
Cleared(t)     == UNION {Bits(t[n]) : n \in 1 .. Len(t)}

(* A careful sequence clears no kind that it has not told of before, and   *)
(* none twice.                                                             *)
ToldFirst(t, kinds) ==
  \A n \in 1 .. Len(t) : \A k \in Bits(t[n]) \cap kinds :
    \E m \in 1 .. n - 1 : Tells(t[m], k)
Apart(t) ==
  \A m, n \in 1 .. Len(t) : m # n => Bits(t[m]) \cap Bits(t[n]) = {}

LEMMA JoinTold ==
  ASSUME NEW a \in Seq(Steps), NEW b \in Seq(Steps), NEW k
  PROVE  Told(a \o b, k) <=> Told(a, k) \/ Told(b, k)
<1>1. /\ Len(a \o b) = Len(a) + Len(b) /\ Len(a) \in Nat /\ Len(b) \in Nat
      /\ \A n \in 1 .. Len(a) : (a \o b)[n] = a[n]
      /\ \A n \in 1 .. Len(b) : (a \o b)[Len(a) + n] = b[n]
  BY ConcatProperties
<1>2. ASSUME Told(a \o b, k) PROVE Told(a, k) \/ Told(b, k)
  <2>1. PICK n \in 1 .. Len(a) + Len(b) : Tells((a \o b)[n], k)
    BY <1>1, <1>2 DEF Told
  <2>2. CASE n <= Len(a)
    BY <1>1, <2>1, <2>2 DEF Told
  <2>3. CASE n > Len(a)
    <3>1. n - Len(a) \in 1 .. Len(b) /\ (a \o b)[n] = b[n - Len(a)]
      BY <1>1, <2>3
    <3> QED BY <2>1, <3>1 DEF Told
  <2> QED BY <1>1, <2>2, <2>3
<1>3. ASSUME Told(a, k) PROVE Told(a \o b, k)
  <2>1. PICK n \in 1 .. Len(a) : Tells(a[n], k)
    BY <1>3 DEF Told
  <2> QED BY <1>1, <2>1 DEF Told
<1>4. ASSUME Told(b, k) PROVE Told(a \o b, k)
  <2>1. PICK n \in 1 .. Len(b) : Tells(b[n], k)
    BY <1>4 DEF Told
  <2>2. Len(a) + n \in 1 .. Len(a \o b)
    BY <1>1
  <2> QED BY <1>1, <2>1, <2>2 DEF Told
<1> QED BY <1>2, <1>3, <1>4

LEMMA JoinCareful ==
  ASSUME NEW a \in Seq(Steps), NEW b \in Seq(Steps), NEW kinds,
         ToldFirst(a, kinds), ToldFirst(b, kinds), Apart(a), Apart(b),
         Cleared(a) \cap Cleared(b) = {}
  PROVE  /\ ToldFirst(a \o b, kinds) /\ Apart(a \o b)
         /\ Cleared(a \o b) = Cleared(a) \cup Cleared(b)
<1> DEFINE t == a \o b
           La == Len(a)
           Lb == Len(b)
<1>1. /\ Len(t) = La + Lb /\ La \in Nat /\ Lb \in Nat
      /\ \A n \in 1 .. La : t[n] = a[n]
      /\ \A n \in 1 .. Lb : t[La + n] = b[n]
  BY ConcatProperties
<1>2. \A n \in 1 .. Len(t) : n \in 1 .. La \/ (n - La \in 1 .. Lb /\ t[n] = b[n - La])
  <2> TAKE n \in 1 .. Len(t)
  <2>1. CASE n > La
    <3>1. n - La \in 1 .. Lb /\ La + (n - La) = n
      BY <1>1, <2>1
    <3> QED BY <1>1, <3>1
  <2> QED BY <1>1, <2>1
<1> HIDE DEF t, La, Lb
<1>3. ToldFirst(t, kinds)
  <2> SUFFICES ASSUME NEW n \in 1 .. Len(t), NEW k \in Bits(t[n]) \cap kinds
               PROVE  \E m \in 1 .. n - 1 : Tells(t[m], k)
    BY DEF ToldFirst
  <2>1. CASE n \in 1 .. La
    <3>1. PICK m \in 1 .. n - 1 : Tells(a[m], k)
      BY <1>1, <2>1 DEF ToldFirst, La
    <3> QED BY <1>1, <2>1, <3>1
  <2>2. CASE n - La \in 1 .. Lb /\ t[n] = b[n - La]
    <3>1. PICK m \in 1 .. n - La - 1 : Tells(b[m], k)
      BY <2>2 DEF ToldFirst, Lb
    <3>2. La + m \in 1 .. n - 1 /\ m \in 1 .. Lb
      BY <1>1, <2>2, <3>1
    <3> QED BY <1>1, <3>1, <3>2
  <2> QED BY <1>2, <2>1, <2>2
<1>4. Cleared(t) = Cleared(a) \cup Cleared(b)
  <2>1. ASSUME NEW x \in Cleared(t) PROVE x \in Cleared(a) \cup Cleared(b)
    <3>1. PICK n \in 1 .. Len(t) : x \in Bits(t[n])
      BY DEF Cleared
    <3>2. CASE n \in 1 .. La
      BY <1>1, <3>1, <3>2 DEF Cleared, La
    <3>3. CASE n - La \in 1 .. Lb /\ t[n] = b[n - La]
      BY <3>1, <3>3 DEF Cleared, Lb
    <3> QED BY <1>2, <3>2, <3>3
  <2>2. ASSUME NEW x \in Cleared(a) PROVE x \in Cleared(t)
    <3>1. PICK n \in 1 .. La : x \in Bits(a[n])
      BY <2>2 DEF Cleared, La
    <3> QED BY <1>1, <3>1 DEF Cleared
  <2>3. ASSUME NEW x \in Cleared(b) PROVE x \in Cleared(t)
    <3>1. PICK n \in 1 .. Lb : x \in Bits(b[n])
      BY <2>3 DEF Cleared, Lb
    <3>2. La + n \in 1 .. Len(t)
      BY <1>1
    <3> QED BY <1>1, <3>1, <3>2 DEF Cleared
  <2> QED BY <2>1, <2>2, <2>3
<1>5. Apart(t)
  <2> SUFFICES ASSUME NEW m \in 1 .. Len(t), NEW n \in 1 .. Len(t), m # n,
                      NEW x \in Bits(t[m]), x \in Bits(t[n])
               PROVE  FALSE
    BY DEF Apart
  <2>1. \/ m \in 1 .. La /\ t[m] = a[m]
        \/ m - La \in 1 .. Lb /\ t[m] = b[m - La]
    BY <1>1, <1>2
  <2>2. \/ n \in 1 .. La /\ t[n] = a[n]
        \/ n - La \in 1 .. Lb /\ t[n] = b[n - La]
    BY <1>1, <1>2
  <2>3. CASE m \in 1 .. La /\ t[m] = a[m] /\ n \in 1 .. La /\ t[n] = a[n]
    BY <2>3 DEF Apart, La
  <2>4. CASE m - La \in 1 .. Lb /\ t[m] = b[m - La] /\ n - La \in 1 .. Lb /\ t[n] = b[n - La]
    <3>1. m - La # n - La
      BY <1>1
    <3> QED BY <2>4, <3>1 DEF Apart, Lb
  <2>5. CASE m \in 1 .. La /\ t[m] = a[m] /\ n - La \in 1 .. Lb /\ t[n] = b[n - La]
    <3>1. x \in Cleared(a) /\ x \in Cleared(b)
      BY <2>5 DEF Cleared, La, Lb
    <3> QED BY <3>1
  <2>6. CASE n \in 1 .. La /\ t[n] = a[n] /\ m - La \in 1 .. Lb /\ t[m] = b[m - La]
    <3>1. x \in Cleared(a) /\ x \in Cleared(b)
      BY <2>6 DEF Cleared, La, Lb
    <3> QED BY <3>1
  <2> QED BY <2>1, <2>2, <2>3, <2>4, <2>5, <2>6
<1> QED BY <1>3, <1>4, <1>5 DEF t

-----------------------------------------------------------------------------
(* The polls.                                                              *)
LEMMA StepType ==
  ASSUME NEW step \in Steps
  PROVE  /\ step.do \in {"report", "report by eap", "clear"}
         /\ Bits(step) \subseteq StatusBits
         /\ step.do = "report" => step.corrected \in BOOLEAN
         /\ step.do = "clear" => step.bits = Bits(step)
<1>1. CASE step \in [do : {"report"}, corrected : BOOLEAN]
  BY <1>1 DEF Bits
<1>2. CASE step = ReportEap
  BY <1>2 DEF Bits, ReportEap
<1>3. CASE step \in [do : {"clear"}, bits : SUBSET StatusBits]
  <2>1. step.do = "clear" /\ step.bits \in SUBSET StatusBits
    BY <1>3
  <2> QED BY <2>1 DEF Bits
<1> QED BY <1>1, <1>2, <1>3 DEF Steps, PlainSteps

LEMMA ReportType ==
  /\ Report(TRUE) \in PlainSteps /\ Report(FALSE) \in PlainSteps
  /\ Report(TRUE) \in Steps /\ Report(FALSE) \in Steps /\ ReportEap \in Steps
  /\ \A s : Report("ue" \notin s) = IF "ue" \in s THEN Report(FALSE) ELSE Report(TRUE)
<1>1. Report(TRUE) \in PlainSteps /\ Report(FALSE) \in PlainSteps /\ ReportEap \in Steps
  BY DEF Steps, PlainSteps, Report
<1>2. ASSUME NEW s
      PROVE  Report("ue" \notin s) = IF "ue" \in s THEN Report(FALSE) ELSE Report(TRUE)
  <2>1. CASE "ue" \in s
    <3>1. ("ue" \notin s) = FALSE
      BY <2>1
    <3> QED BY <2>1, <3>1, Zenon
  <2>2. CASE "ue" \notin s
    <3>1. ("ue" \notin s) = TRUE
      BY <2>2
    <3> QED BY <2>2, <3>1, Zenon
  <2> QED BY <2>1, <2>2
<1> QED BY <1>1, <1>2 DEF Steps

LEMMA ClearType ==
  ASSUME NEW bits \in SUBSET StatusBits
  PROVE  Clear(bits) \in PlainSteps /\ Clear(bits) \in Steps
BY DEF Steps, PlainSteps, Clear

LEMMA ReportTells ==
  ASSUME NEW k
  PROVE  /\ Tells(Report(FALSE), k) /\ Bits(Report(FALSE)) = {}
         /\ Tells(Report(TRUE), k) <=> k = "ce"
         /\ Bits(Report(TRUE)) = {}
         /\ \A bits : ~ Tells(Clear(bits), k) /\ Bits(Clear(bits)) = bits
BY DEF Tells, Report, Bits, Clear

LEMMA WhenType ==
  ASSUME NEW p, NEW S, NEW t \in Seq(S)
  PROVE  When(p, t) \in Seq(S)
BY DEF When, Nothing

LEMMA OnceType ==
  ASSUME NEW s \in SUBSET StatusBits, NEW bits \in SUBSET StatusBits
  PROVE  Once(s, bits) \in Seq(PlainSteps)
<1>1. Report("ue" \notin s) \in PlainSteps /\ Clear(bits) \in PlainSteps
  BY ReportType, ClearType
<1>2. <<Report("ue" \notin s), Clear(bits)>> \in Seq(PlainSteps)
  BY <1>1
<1> QED BY <1>2, WhenType DEF Once

LEMMA BanksCount ==
  ASSUME NEW s
  PROVE  /\ Cardinality(s \cap Banks) \in Nat
         /\ s \cap Banks # {} => Cardinality(s \cap Banks) > 0
<1>1. IsFiniteSet(Banks)
  <2>1. IsFiniteSet({"bank0"}) /\ Banks = {"bank0"} \cup {"bank1"}
    BY FS_Singleton DEF Banks
  <2> QED BY <2>1, FS_AddElement
<1>2. IsFiniteSet(s \cap Banks)
  BY <1>1, FS_Subset
<1> QED BY <1>2, FS_CardinalityType, FS_EmptySet

LEMMA PollPlain ==
  ASSUME NEW c \in Chips, NEW s \in SUBSET StatusBits, controllers[c].poll # "i440gx"
  PROVE  poll_of(c, s) \in Seq(PlainSteps)
<1> DEFINE p == controllers[c].poll
<1>1. p \in Polls
  BY RowType
<1>2. /\ Kinds \in SUBSET StatusBits /\ s \cap Kinds \in SUBSET StatusBits
      /\ {"nerr"} \in SUBSET StatusBits
      /\ {"ce"} \in SUBSET StatusBits /\ {"ue"} \in SUBSET StatusBits
      /\ Kinds \cup Banks \in SUBSET StatusBits
  BY DEF StatusBits, Kinds
<1>3. /\ \A x, y \in PlainSteps : <<x, y>> \in Seq(PlainSteps) /\ <<x>> \in Seq(PlainSteps)
      /\ <<>> \in Seq(PlainSteps)
      /\ \A a, b \in Seq(PlainSteps) : a \o b \in Seq(PlainSteps)
  BY ConcatProperties
<1>4. \A bits \in SUBSET StatusBits :
        /\ Clear(bits) \in PlainSteps
        /\ Once(s, bits) \in Seq(PlainSteps)
        /\ \A q : When(q, <<Report(TRUE), Clear(bits)>>) \in Seq(PlainSteps)
        /\ \A q : When(q, <<Report(FALSE), Clear(bits)>>) \in Seq(PlainSteps)
        /\ \A q : When(q, <<Clear(bits)>>) \in Seq(PlainSteps)
  BY <1>3, OnceType, ClearType, ReportType, WhenType
<1>5. \A q : /\ When(q, <<Report(TRUE)>>) \in Seq(PlainSteps)
             /\ When(q, <<Report(FALSE)>>) \in Seq(PlainSteps)
  BY <1>3, ReportType, WhenType
<1>6. CASE p \in {"nothing", "i840", "i875", "i845", "i820", "i850", "i860", "iE7221"}
  BY <1>2, <1>3, <1>4, <1>6 DEF poll_of, poll_i840, poll_i875, poll_i845, poll_i820, poll_i850,
     poll_i860, poll_iE7221, Nothing
<1>7. CASE p = "amd64"
  BY <1>2, <1>3, <1>4, <1>7 DEF poll_of, poll_amd64
<1>8. CASE p = "amd751"
  <2> DEFINE count == Cardinality(s \cap Banks)
             all == [n \in 1 .. count |-> Report("ue" \notin s)]
  <2>1. count \in Nat
    BY BanksCount
  <2>2. Report("ue" \notin s) \in PlainSteps
    BY ReportType
  <2>3. all \in Seq(PlainSteps)
    <3> HIDE DEF count
    <3>1. all \in [1 .. count -> PlainSteps]
      BY <2>2
    <3> QED BY <2>1, <3>1, SeqDef
  <2>4. <<Clear(Kinds \cup Banks)>> \in Seq(PlainSteps)
    BY <1>2, <1>3, <1>4
  <2>5. all \o <<Clear(Kinds \cup Banks)>> \in Seq(PlainSteps)
    BY <1>3, <2>3, <2>4
  <2>6. poll_amd751(s) \in Seq(PlainSteps)
    BY <2>5, WhenType DEF poll_amd751
  <2> QED BY <1>8, <2>6 DEF poll_of
<1>9. CASE p = "amd76x"
  <2>1. When(s \cap Kinds # {}, <<Clear(s)>>) \in Seq(PlainSteps)
    BY <1>4
  <2> QED BY <1>3, <1>5, <1>9, <2>1 DEF poll_of, poll_amd76x
<1>10. CASE p = "iE7xxx"
  BY <1>2, <1>3, <1>4, <1>10 DEF poll_of, poll_iE7xxx
<1>11. CASE p = "iE7520"
  BY <1>2, <1>3, <1>4, <1>11 DEF poll_of, poll_iE7520
<1> QED BY <1>1, <1>6, <1>7, <1>8, <1>9, <1>10, <1>11 DEF Polls

(* The report whose severity is in another register is never the last.     *)
LEMMA PollType ==
  ASSUME NEW c \in Chips, NEW s \in SUBSET StatusBits
  PROVE  /\ poll_of(c, s) \in Seq(Steps)
         /\ \A n \in 1 .. Len(poll_of(c, s)) :
              poll_of(c, s)[n].do = "report by eap" => n < Len(poll_of(c, s))
<1> DEFINE t == poll_of(c, s)
<1>1. CASE controllers[c].poll # "i440gx"
  <2>1. t \in Seq(PlainSteps)
    BY <1>1, PollPlain
  <2> HIDE DEF t
  <2>2. t \in Seq(Steps)
    BY <2>1, SeqDef DEF Steps
  <2>3. \A n \in 1 .. Len(t) : t[n] \in PlainSteps
    BY <2>1, ElementOfSeq
  <2>4. \A n \in 1 .. Len(t) : t[n].do # "report by eap"
    BY <2>3 DEF PlainSteps
  <2> QED BY <2>2, <2>4 DEF t
<1>2. CASE controllers[c].poll = "i440gx"
  <2>1. CASE s \cap Kinds = {}
    <3>1. t = <<>>
      BY <1>2, <2>1 DEF poll_of, poll_i440gx, When, Nothing
    <3> HIDE DEF t
    <3>2. t \in Seq(Steps) /\ 1 .. Len(t) = {}
      BY <3>1
    <3> QED BY <3>2 DEF t
  <2>2. CASE s \cap Kinds # {}
    <3> DEFINE x == Clear(Kinds)
               y == Clear({Eap.ce, Eap.ue})
    <3>1. t = <<ReportEap, x, y>>
      BY <1>2, <2>2 DEF poll_of, poll_i440gx, When
    <3>2. Kinds \in SUBSET StatusBits /\ {Eap.ce, Eap.ue} \in SUBSET StatusBits
      BY DEF StatusBits
    <3>3. x \in Steps /\ y \in Steps /\ ReportEap \in Steps
      BY <3>2, ClearType, ReportType
    <3>4. x.do = "clear" /\ y.do = "clear"
      BY DEF Clear
    <3> HIDE DEF t, x, y
    <3>5. t \in Seq(Steps) /\ Len(t) = 3 /\ t[3] = y
      BY <3>1, <3>3
    <3>6. \A n \in 1 .. Len(t) : t[n].do = "report by eap" => n < Len(t)
      <4> TAKE n \in 1 .. Len(t)
      <4>1. n = 3 \/ n < 3
        BY <3>5
      <4> QED BY <3>4, <3>5, <4>1
    <3> QED BY <3>5, <3>6 DEF t
  <2> QED BY <2>1, <2>2
<1> QED BY <1>1, <1>2

(* The polls that report what they read, and those that clear nothing but. *)
Telling == Polls \ {"nothing", "amd76x", "i440gx"}
Keepers == {"i850", "i860", "iE7520", "iE7221"}

LEMMA OnceTells ==
  ASSUME NEW s, NEW bits, NEW k \in s \cap Kinds
  PROVE  Told(Once(s, bits), k)
<1>1. Once(s, bits) = <<Report("ue" \notin s), Clear(bits)>>
  BY DEF Once, When
<1>2. Tells(Report("ue" \notin s), k)
  BY ReportType, ReportTells DEF Kinds
<1>3. 1 \in 1 .. Len(Once(s, bits)) /\ Once(s, bits)[1] = Report("ue" \notin s)
  BY <1>1
<1> QED BY <1>2, <1>3 DEF Told

LEMMA PairTells ==
  ASSUME NEW x, NEW y
  PROVE  /\ Told(<<x, y>>, "ce") <=> Tells(x, "ce") \/ Tells(y, "ce")
         /\ Told(<<x, y>>, "ue") <=> Tells(x, "ue") \/ Tells(y, "ue")
<1>1. Len(<<x, y>>) = 2 /\ <<x, y>>[1] = x /\ <<x, y>>[2] = y /\ 1 .. 2 = {1, 2}
  OBVIOUS
<1> QED BY <1>1 DEF Told

LEMMA PollTells ==
  ASSUME NEW c \in Chips, NEW s \in SUBSET StatusBits, NEW k \in s \cap Kinds,
         controllers[c].poll \in Telling,
         controllers[c].poll = "iE7221" => ~ Kinds \subseteq s,
         controllers[c].poll = "amd751" => s \cap Banks # {}
  PROVE  Told(poll_of(c, s), k)
<1> DEFINE p == controllers[c].poll
           Ce(bits) == When("ce" \in s, <<Report(TRUE), Clear(bits)>>)
           Ue(bits) == When("ue" \in s, <<Report(FALSE), Clear(bits)>>)
           Nerr == When("nerr" \in s, <<Clear({"nerr"})>>)
<1>1. /\ \A bits \in SUBSET StatusBits : Ce(bits) \in Seq(Steps) /\ Ue(bits) \in Seq(Steps)
      /\ Nerr \in Seq(Steps)
      /\ \A a, b \in Seq(Steps) : a \o b \in Seq(Steps)
  <2>1. \A bits \in SUBSET StatusBits : Clear(bits) \in Steps
    BY ClearType
  <2>2. \A bits \in SUBSET StatusBits :
          /\ <<Report(TRUE), Clear(bits)>> \in Seq(Steps)
          /\ <<Report(FALSE), Clear(bits)>> \in Seq(Steps)
          /\ <<Clear(bits)>> \in Seq(Steps)
    <3>1. \A x, y \in Steps : <<x, y>> \in Seq(Steps) /\ <<x>> \in Seq(Steps)
      OBVIOUS
    <3> QED BY <2>1, <3>1, ReportType
  <2>3. {"nerr"} \in SUBSET StatusBits
    BY DEF StatusBits
  <2>4. \A a, b \in Seq(Steps) : a \o b \in Seq(Steps)
    BY ConcatProperties
  <2>5. \A bits \in SUBSET StatusBits : Ce(bits) \in Seq(Steps) /\ Ue(bits) \in Seq(Steps)
    BY <2>2, WhenType
  <2>6. Nerr \in Seq(Steps)
    BY <2>2, <2>3, WhenType
  <2> QED BY <2>4, <2>5, <2>6
<1>2. \A bits : (k = "ce" => Told(Ce(bits), k)) /\ (k = "ue" => Told(Ue(bits), k))
  <2> TAKE bits
  <2>1. ASSUME k = "ce" PROVE Told(Ce(bits), k)
    <3>1. Ce(bits) = <<Report(TRUE), Clear(bits)>>
      BY <2>1 DEF When
    <3> QED BY <2>1, <3>1, PairTells, ReportTells
  <2>2. ASSUME k = "ue" PROVE Told(Ue(bits), k)
    <3>1. Ue(bits) = <<Report(FALSE), Clear(bits)>>
      BY <2>2 DEF When
    <3>2. Tells(Report(FALSE), "ue")
      BY ReportTells
    <3>3. Told(<<Report(FALSE), Clear(bits)>>, "ue")
      BY <3>2, PairTells
    <3> QED BY <2>2, <3>1, <3>3
  <2> QED BY <2>1, <2>2
<1>3. /\ Kinds \in SUBSET StatusBits /\ s \cap Kinds \in SUBSET StatusBits
      /\ {"ce"} \in SUBSET StatusBits /\ {"ue"} \in SUBSET StatusBits
  BY DEF StatusBits, Kinds
<1> HIDE DEF Ce, Ue, Nerr
<1>4. \A x, y \in SUBSET StatusBits :
        /\ Told(Ce(x) \o Ue(y), k)
        /\ Told((Ce(x) \o Ue(y)) \o Nerr, k)
  <2> TAKE x, y \in SUBSET StatusBits
  <2>1. Ce(x) \in Seq(Steps) /\ Ue(y) \in Seq(Steps) /\ Ce(x) \o Ue(y) \in Seq(Steps)
    BY <1>1
  <2>2. k = "ce" \/ k = "ue"
    BY DEF Kinds
  <2>3. Told(Ce(x) \o Ue(y), k)
    BY <1>2, <2>1, <2>2, JoinTold
  <2> QED BY <1>1, <2>1, <2>3, JoinTold
<1>5. CASE p \in {"i840", "i875", "i845", "i820", "i850", "i860"}
  <2>1. poll_of(c, s) \in {Once(s, Kinds), Once(s, s)}
    BY <1>5 DEF poll_of, poll_i840, poll_i875, poll_i845, poll_i820, poll_i850, poll_i860
  <2> QED BY <2>1, OnceTells
<1>6. CASE p = "iE7221"
  BY <1>6, OnceTells DEF poll_of, poll_iE7221
<1>7. CASE p = "amd64"
  BY <1>3, <1>4, <1>7 DEF poll_of, poll_amd64, Ce, Ue
<1>8. CASE p \in {"iE7xxx", "iE7520"}
  BY <1>3, <1>4, <1>8 DEF poll_of, poll_iE7xxx, poll_iE7520, Ce, Ue, Nerr
<1>9. CASE p = "amd751"
  <2> DEFINE count == Cardinality(s \cap Banks)
             all == [n \in 1 .. count |-> Report("ue" \notin s)]
             last == <<Clear(Kinds \cup Banks)>>
  <2>1. count \in Nat /\ count > 0
    BY <1>9, BanksCount
  <2>2. Kinds \cup Banks \in SUBSET StatusBits
    BY DEF StatusBits
  <2>3. last \in Seq(Steps)
    BY <2>2, ClearType
  <2>4. Tells(Report("ue" \notin s), k) /\ Report("ue" \notin s) \in Steps
    BY ReportType, ReportTells DEF Kinds
  <2> HIDE DEF count
  <2>5. all \in Seq(Steps) /\ Len(all) = count /\ all[1] = Report("ue" \notin s)
    <3>1. all \in [1 .. count -> Steps]
      BY <2>4
    <3> QED BY <2>1, <3>1, SeqDef
  <2>6. Told(all, k)
    BY <2>1, <2>4, <2>5 DEF Told
  <2>7. Told(all \o last, k)
    BY <2>3, <2>5, <2>6, JoinTold
  <2> QED BY <1>9, <2>7 DEF poll_of, poll_amd751, When, count
<1> QED BY <1>5, <1>6, <1>7, <1>8, <1>9 DEF Telling, Polls

(* What a careful poll is: it clears only what it has read, none of it     *)
(* twice and none of it untold.                                            *)
Careful(t, s) == ToldFirst(t, Kinds) /\ Apart(t) /\ Cleared(t) \subseteq s

LEMMA PairCareful ==
  ASSUME NEW x, NEW bits, Bits(x) = {}, \A k \in bits \cap Kinds : Tells(x, k)
  PROVE  /\ ToldFirst(<<x, Clear(bits)>>, Kinds) /\ Apart(<<x, Clear(bits)>>)
         /\ Cleared(<<x, Clear(bits)>>) = bits
<1> DEFINE t == <<x, Clear(bits)>>
<1>1. Len(t) = 2 /\ t[1] = x /\ t[2] = Clear(bits) /\ 1 .. 2 = {1, 2}
  OBVIOUS
<1>2. Bits(t[1]) = {} /\ Bits(t[2]) = bits
  BY ReportTells
<1> HIDE DEF t
<1>3. ToldFirst(t, Kinds)
  BY <1>1, <1>2 DEF ToldFirst
<1>4. Apart(t)
  BY <1>1, <1>2 DEF Apart
<1>5. Cleared(t) = bits
  BY <1>1, <1>2 DEF Cleared
<1> QED BY <1>3, <1>4, <1>5 DEF t

LEMMA SingleCareful ==
  ASSUME NEW bits, bits \cap Kinds = {}
  PROVE  /\ ToldFirst(<<Clear(bits)>>, Kinds) /\ Apart(<<Clear(bits)>>)
         /\ Cleared(<<Clear(bits)>>) = bits
<1> DEFINE t == <<Clear(bits)>>
<1>1. Len(t) = 1 /\ t[1] = Clear(bits) /\ 1 .. 1 = {1}
  OBVIOUS
<1>2. Bits(t[1]) = bits
  BY ReportTells
<1> HIDE DEF t
<1>3. ToldFirst(t, Kinds)
  BY <1>1, <1>2 DEF ToldFirst
<1>4. Apart(t)
  BY <1>1, <1>2 DEF Apart
<1>5. Cleared(t) = bits
  BY <1>1, <1>2 DEF Cleared
<1> QED BY <1>3, <1>4, <1>5 DEF t

LEMMA EmptyCareful ==
  ToldFirst(<<>>, Kinds) /\ Apart(<<>>) /\ Cleared(<<>>) = {}
<1>1. Len(<<>>) = 0 /\ 1 .. 0 = {}
  OBVIOUS
<1> QED BY <1>1 DEF ToldFirst, Apart, Cleared

LEMMA OnceCareful ==
  ASSUME NEW s \in SUBSET StatusBits
  PROVE  Careful(Once(s, s), s)
<1> DEFINE t == <<Report("ue" \notin s), Clear(s)>>
<1>1. CASE s \cap Kinds = {}
  BY <1>1, EmptyCareful DEF Once, When, Nothing, Careful
<1>2. CASE s \cap Kinds # {}
  <2>1. Once(s, s) = t
    BY <1>2 DEF Once, When
  <2>2. /\ Bits(Report("ue" \notin s)) = {}
        /\ \A k \in s \cap Kinds : Tells(Report("ue" \notin s), k)
    BY ReportType, ReportTells DEF Kinds
  <2> QED BY <2>1, <2>2, PairCareful DEF Careful
<1> QED BY <1>1, <1>2

LEMMA PollCareful ==
  ASSUME NEW c \in Chips, NEW s \in SUBSET StatusBits,
         controllers[c].poll \in Keepers,
         controllers[c].poll = "iE7221" => ~ Kinds \subseteq s
  PROVE  Careful(poll_of(c, s), s)
<1> DEFINE p == controllers[c].poll
<1>1. CASE p \in {"i850", "i860", "iE7221"}
  <2>1. poll_of(c, s) = Once(s, s)
    BY <1>1 DEF poll_of, poll_i850, poll_i860, poll_iE7221
  <2> QED BY <2>1, OnceCareful
<1>2. CASE p = "iE7520"
  <2> DEFINE a == When("ce" \in s, <<Report(TRUE), Clear({"ce"})>>)
             b == When("ue" \in s, <<Report(FALSE), Clear({"ue"})>>)
             d == When("nerr" \in s, <<Clear({"nerr"})>>)
  <2>1. /\ <<Report(TRUE), Clear({"ce"})>> \in Seq(Steps)
        /\ <<Report(FALSE), Clear({"ue"})>> \in Seq(Steps)
        /\ <<Clear({"nerr"})>> \in Seq(Steps)
    <3>1. Clear({"ce"}) \in Steps /\ Clear({"ue"}) \in Steps /\ Clear({"nerr"}) \in Steps
      BY ClearType DEF StatusBits, Kinds
    <3>2. \A x, y \in Steps : <<x, y>> \in Seq(Steps) /\ <<x>> \in Seq(Steps)
      OBVIOUS
    <3> QED BY <3>1, <3>2, ReportType
  <2>2. a \in Seq(Steps) /\ b \in Seq(Steps) /\ d \in Seq(Steps)
    BY <2>1, WhenType
  <2>3. ToldFirst(a, Kinds) /\ Apart(a) /\ Cleared(a) \subseteq s \cap {"ce"}
    <3>1. Bits(Report(TRUE)) = {} /\ \A k \in {"ce"} \cap Kinds : Tells(Report(TRUE), k)
      BY ReportTells
    <3>2. /\ ToldFirst(<<Report(TRUE), Clear({"ce"})>>, Kinds)
          /\ Apart(<<Report(TRUE), Clear({"ce"})>>)
          /\ Cleared(<<Report(TRUE), Clear({"ce"})>>) = {"ce"}
      BY <3>1, PairCareful
    <3> QED BY <3>2, EmptyCareful DEF When, Nothing
  <2>4. ToldFirst(b, Kinds) /\ Apart(b) /\ Cleared(b) \subseteq s \cap {"ue"}
    <3>1. Bits(Report(FALSE)) = {} /\ \A k \in {"ue"} \cap Kinds : Tells(Report(FALSE), k)
      BY ReportTells
    <3>2. /\ ToldFirst(<<Report(FALSE), Clear({"ue"})>>, Kinds)
          /\ Apart(<<Report(FALSE), Clear({"ue"})>>)
          /\ Cleared(<<Report(FALSE), Clear({"ue"})>>) = {"ue"}
      BY <3>1, PairCareful
    <3> QED BY <3>2, EmptyCareful DEF When, Nothing
  <2>5. ToldFirst(d, Kinds) /\ Apart(d) /\ Cleared(d) \subseteq s \cap {"nerr"}
    <3>1. {"nerr"} \cap Kinds = {}
      BY DEF Kinds
    <3>2. /\ ToldFirst(<<Clear({"nerr"})>>, Kinds) /\ Apart(<<Clear({"nerr"})>>)
          /\ Cleared(<<Clear({"nerr"})>>) = {"nerr"}
      BY <3>1, SingleCareful
    <3> QED BY <3>2, EmptyCareful DEF When, Nothing
  <2>6. poll_of(c, s) = (a \o b) \o d
    BY <1>2 DEF poll_of, poll_iE7520
  <2> HIDE DEF a, b, d
  <2>7. /\ ToldFirst(a \o b, Kinds) /\ Apart(a \o b)
        /\ Cleared(a \o b) = Cleared(a) \cup Cleared(b) /\ a \o b \in Seq(Steps)
    <3>1. Cleared(a) \cap Cleared(b) = {}
      BY <2>3, <2>4
    <3> QED BY <3>1, <2>2, <2>3, <2>4, JoinCareful, ConcatProperties
  <2>8. /\ ToldFirst((a \o b) \o d, Kinds) /\ Apart((a \o b) \o d)
        /\ Cleared((a \o b) \o d) = Cleared(a \o b) \cup Cleared(d)
    <3>1. Cleared(a \o b) \cap Cleared(d) = {}
      BY <2>3, <2>4, <2>5, <2>7
    <3> QED BY <3>1, <2>2, <2>5, <2>7, JoinCareful
  <2> QED BY <2>3, <2>4, <2>5, <2>6, <2>7, <2>8 DEF Careful
<1> QED BY <1>1, <1>2 DEF Keepers

(* The AMD 751 clears all of its bits at once; the E7221 with both errors  *)
(* clears them and does nothing else.                                      *)
LEMMA PollBanks ==
  ASSUME NEW c \in Chips, NEW s \in SUBSET StatusBits, controllers[c].poll = "amd751",
         NEW n \in 1 .. Len(poll_of(c, s)), poll_of(c, s)[n].do = "clear"
  PROVE  poll_of(c, s)[n].bits = Kinds \cup Banks
<1> DEFINE count == Cardinality(s \cap Banks)
           all == [i \in 1 .. count |-> Report("ue" \notin s)]
           last == <<Clear(Kinds \cup Banks)>>
<1>1. CASE s \cap Kinds = {}
  BY <1>1 DEF poll_of, poll_amd751, When, Nothing
<1>2. CASE s \cap Kinds # {}
  <2>1. poll_of(c, s) = all \o last
    BY <1>2 DEF poll_of, poll_amd751, When
  <2>2. count \in Nat
    BY BanksCount
  <2>3. Report("ue" \notin s) \in Steps /\ Report("ue" \notin s).do = "report"
    BY ReportType DEF Report
  <2> HIDE DEF count
  <2>4. all \in Seq(Steps) /\ Len(all) = count
    <3>1. all \in [1 .. count -> Steps] /\ DOMAIN all = 1 .. count
      BY <2>3
    <3>2. all \in Seq(Steps)
      BY <2>2, <3>1, SeqDef
    <3> QED BY <2>2, <3>1, <3>2, LenProperties
  <2>5. last \in Seq(Steps) /\ Len(last) = 1 /\ last[1] = Clear(Kinds \cup Banks)
    <3>1. Kinds \cup Banks \in SUBSET StatusBits
      BY DEF StatusBits
    <3>2. Clear(Kinds \cup Banks) \in Steps
      BY <3>1, ClearType
    <3>3. \A x : Len(<<x>>) = 1 /\ <<x>>[1] = x
      OBVIOUS
    <3>4. \A x \in Steps : <<x>> \in Seq(Steps)
      OBVIOUS
    <3>5. last \in Seq(Steps)
      BY <3>2, <3>4
    <3>6. Len(last) = 1 /\ last[1] = Clear(Kinds \cup Banks)
      BY <3>3
    <3> QED BY <3>5, <3>6
  <2>6. /\ Len(all \o last) = count + 1
        /\ \A i \in 1 .. count + 1 :
             (all \o last)[i] = IF i <= count THEN all[i] ELSE last[i - count]
    <3> HIDE DEF all, last
    <3>1. /\ Len(all \o last) = Len(all) + Len(last)
          /\ \A i \in 1 .. Len(all) + Len(last) :
               (all \o last)[i] = IF i <= Len(all) THEN all[i] ELSE last[i - Len(all)]
      BY <2>4, <2>5, ConcatProperties
    <3> QED BY <2>4, <2>5, <3>1
  <2>7. n \in 1 .. count + 1
    BY <2>1, <2>6
  <2>8. CASE n <= count
    <3>1. poll_of(c, s)[n] = Report("ue" \notin s)
      BY <2>1, <2>2, <2>6, <2>7, <2>8
    <3> QED BY <2>3, <3>1
  <2>9. CASE n = count + 1
    <3>1. poll_of(c, s)[n] = Clear(Kinds \cup Banks)
      BY <2>1, <2>2, <2>5, <2>6, <2>7, <2>9
    <3> QED BY <3>1 DEF Clear
  <2> QED BY <2>2, <2>7, <2>8, <2>9
<1> QED BY <1>1, <1>2

LEMMA PollBoth ==
  ASSUME NEW c, NEW s, controllers[c].poll = "iE7221", Kinds \subseteq s
  PROVE  poll_of(c, s) = <<Clear(s)>>
BY DEF poll_of, poll_iE7221

-----------------------------------------------------------------------------
(* The invariant.  Where polling is on it is warranted; the AMD 751 has a  *)
(* bank for its errors; what is due is told of by the rest of the poll;    *)
(* and for the careful controllers the rest of a poll clears a latched     *)
(* error only after a report of what the read saw of it.                   *)
Running == at # "boot"
BothSeen == Polling = "iE7221" /\ due = Kinds

IdleInv == at = "boot" => due = {} /\ todo = <<>>
WarrantInv ==
  Running =>
    /\ index = "unknown" => mode = {}
    /\ fail_safe \/ pci_check_direct(board) = "none" => index = "unknown"
    /\ poll => "detect" \in mode
    /\ ~ chosen => poll = (controllers[index].tested /\ "detect" \in mode)
BankInv ==
  controllers[board.chip].poll = "amd751" =>
    /\ status \cap Kinds # {} => status \cap Banks # {}
    /\ \A n \in 1 .. Len(todo) : todo[n].do = "clear" => todo[n].bits = Kinds \cup Banks
DueInv ==
  Running =>
    /\ Polling = "nothing" => due = {}
    /\ \/ \A k \in due : Told(todo, k)
       \/ BothSeen
       \/ Polling \in {"amd76x", "i440gx"}
EapInv ==
  \A n \in 1 .. Len(todo) : todo[n].do = "report by eap" => n < Len(todo)
BothInv ==
  Running /\ BothSeen =>
    Len(todo) <= 1 /\ \A n \in 1 .. Len(todo) : todo[n].do = "clear"
(* t clears what is in s, and of o only what it tells of first, due in d.  *)
TellsFirst(t, s, o, d) ==
  /\ Apart(t) /\ Cleared(t) \subseteq s
  /\ \A n \in 1 .. Len(t) : \A k \in Bits(t[n]) \cap o :
       k \in d /\ \E m \in 1 .. n - 1 : Tells(t[m], k)
KeepInv ==
  Running /\ Polling \in Keepers =>
    owed \subseteq status /\ (BothSeen \/ TellsFirst(todo, status, owed, due))

Inv == /\ TypeOK /\ todo \in Seq(Steps) /\ IdleInv /\ WarrantInv /\ BankInv
       /\ DueInv /\ EapInv /\ BothInv /\ KeepInv

(* What is left of a poll after its first step.                            *)
LEMMA TailType ==
  ASSUME NEW t \in Seq(Steps), t # <<>>
  PROVE  /\ Tail(t) \in Seq(Steps) /\ Len(t) \in Nat /\ Len(Tail(t)) \in Nat
         /\ Len(Tail(t)) = Len(t) - 1
         /\ Head(t) = t[1] /\ Head(t) \in Steps /\ 1 \in 1 .. Len(t)
         /\ \A n \in 1 .. Len(Tail(t)) :
              /\ n + 1 \in 1 .. Len(t) /\ Tail(t)[n] = t[n + 1]
              /\ n + 1 < Len(t) => n < Len(Tail(t))
         /\ \A n \in 1 .. Len(t) :
              n = 1 \/ (n - 1 \in 1 .. Len(Tail(t)) /\ Tail(t)[n - 1] = t[n])
<1> DEFINE r == Tail(t)
           rest == Len(Tail(t))
<1>1. /\ r \in Seq(Steps) /\ Len(t) \in Nat /\ rest \in Nat /\ rest = Len(t) - 1
      /\ Head(t) = t[1] /\ Head(t) \in Steps /\ 1 \in 1 .. Len(t)
      /\ \A n \in 1 .. rest : r[n] = t[n + 1]
  BY HeadTailProperties
<1> HIDE DEF r, rest
<1>2. \A n \in 1 .. rest :
        n + 1 \in 1 .. Len(t) /\ r[n] = t[n + 1] /\ (n + 1 < Len(t) => n < rest)
  BY <1>1
<1>3. \A n \in 1 .. Len(t) : n = 1 \/ (n - 1 \in 1 .. rest /\ r[n - 1] = t[n])
  <2> TAKE n \in 1 .. Len(t)
  <2>1. n # 1 => n - 1 \in 1 .. rest /\ (n - 1) + 1 = n
    BY <1>1
  <2> QED BY <1>1, <2>1
<1> QED BY <1>1, <1>2, <1>3 DEF r, rest

LEMMA AtStep ==
  ASSUME Inv, at = "poll"
  PROVE  /\ todo # <<>> /\ Tail(todo) \in Seq(Steps) /\ Len(Tail(todo)) = Len(todo) - 1
         /\ Len(todo) \in Nat /\ Len(Tail(todo)) \in Nat
         /\ Head(todo) = todo[1] /\ Head(todo) \in Steps /\ 1 \in 1 .. Len(todo)
         /\ \A n \in 1 .. Len(Tail(todo)) :
              /\ n + 1 \in 1 .. Len(todo) /\ Tail(todo)[n] = todo[n + 1]
              /\ n + 1 < Len(todo) => n < Len(Tail(todo))
         /\ \A n \in 1 .. Len(todo) :
              n = 1 \/ (n - 1 \in 1 .. Len(Tail(todo)) /\ Tail(todo)[n - 1] = todo[n])
<1>1. todo # <<>> /\ todo \in Seq(Steps)
  BY DEF Inv, TypeOK, Nothing
<1> QED BY <1>1, TailType, Zenon

(* A report of either kind takes from what is due all that it tells of,    *)
(* and from what is owed what it takes from what is due.                   *)
LEMMA ReportStep ==
  ASSUME Inv, print_ecc_err \/ ReportByEap
  PROVE  /\ at = "poll" /\ todo' = Tail(todo) /\ at' # "boot"
         /\ at' \in {"test", "poll", "scroll"}
         /\ (todo' # Nothing) <=> (at' \in {"poll", "scroll"})
         /\ Head(todo).do \in {"report", "report by eap"}
         /\ due' \subseteq due /\ owed' = owed \ (due \ due')
         /\ \A k \in due : Tells(Head(todo), k) => k \notin due'
         /\ ecc_ecount' \in Nat
         /\ UNCHANGED <<board, fail_safe, ctrl, status, starts, errors, fresh, chosen>>
<1> DEFINE Kept(corrected) ==
             /\ due' \subseteq due /\ owed' = owed \ (due \ due') /\ ecc_ecount' \in Nat
             /\ \A k \in due : (k = "ce" \/ ~ corrected) => k \notin due'
<1>1. ASSUME NEW corrected \in BOOLEAN, Discharge(corrected)
      PROVE  Kept(corrected)
  <2>1. due \subseteq Kinds /\ ecc_ecount \in Nat
    BY DEF Inv, TypeOK
  <2> QED BY <1>1, <2>1 DEF Discharge, Kinds
<1>2. CASE print_ecc_err
  <2>1. at = "poll" /\ Head(todo).do = "report"
    BY <1>2 DEF print_ecc_err, Step
  <2>2. Head(todo) \in Steps
    BY <2>1, AtStep
  <2>3. Head(todo).corrected \in BOOLEAN
    BY <2>1, <2>2, StepType
  <2>4. Discharge(Head(todo).corrected)
    BY <1>2 DEF print_ecc_err
  <2>5. Kept(Head(todo).corrected)
    BY <1>1, <2>3, <2>4
  <2>6. \A k : Tells(Head(todo), k) <=> k = "ce" \/ ~ Head(todo).corrected
    BY <2>1 DEF Tells
  <2>7. /\ todo' = Tail(todo) /\ at' \in {"test", "scroll"}
        /\ (todo' # Nothing) <=> at' = "scroll"
    BY <1>2 DEF print_ecc_err
  <2>8. UNCHANGED <<board, fail_safe, ctrl, status, starts, errors, fresh, chosen>>
    BY <1>2 DEF print_ecc_err
  <2> HIDE DEF Kept
  <2>9. \A k \in due : Tells(Head(todo), k) => k \notin due'
    BY <2>5, <2>6 DEF Kept
  <2> QED BY <2>1, <2>5, <2>7, <2>8, <2>9 DEF Kept
<1>3. CASE ReportByEap
  <2>1. at = "poll" /\ Head(todo).do = "report by eap"
    BY <1>3 DEF ReportByEap, Step
  <2> DEFINE rest == Len(Tail(todo))
  <2>6. rest = Len(todo) - 1 /\ Len(todo) \in Nat /\ 1 \in 1 .. Len(todo)
        /\ todo[1] = Head(todo)
    BY <2>1, AtStep
  <2> HIDE DEF rest
  <2>2. \A k : ~ Tells(Head(todo), k)
    BY <2>1 DEF Tells
  <2>3. UNCHANGED <<board, fail_safe, ctrl, status, starts, errors, fresh, chosen>>
    BY <1>3 DEF ReportByEap
  <2>4. CASE status \cap {Eap.ce, Eap.ue} = {}
    <3>1. Proceed /\ UNCHANGED <<ecc_ecount, due, owed>>
      BY <1>3, <2>4 DEF ReportByEap
    <3>2. ecc_ecount \in Nat
      BY DEF Inv, TypeOK
    <3> QED BY <2>1, <2>2, <2>3, <3>1, <3>2 DEF Proceed
  <2>5. CASE status \cap {Eap.ce, Eap.ue} # {}
    <3>1. Discharge(Eap.ue \notin status) /\ todo' = Tail(todo) /\ at' = "scroll"
      BY <1>3, <2>5 DEF ReportByEap
    <3>2. Len(todo) > 1
      BY <2>1, <2>6 DEF Inv, EapInv
    <3>3. todo' # Nothing
      <4>1. rest # 0
        BY <2>6, <3>2
      <4>2. Tail(todo) # <<>>
        <5>1. Len(<<>>) = 0
          OBVIOUS
        <5> QED BY <4>1, <5>1, Zenon DEF rest
      <4> QED BY <3>1, <4>2, Zenon DEF Nothing
    <3> QED BY <1>1, <2>1, <2>2, <2>3, <3>1, <3>3
  <2> QED BY <2>4, <2>5
<1> QED BY <1>2, <1>3

LEMMA ClearStep ==
  ASSUME Inv, ClearStatus
  PROVE  /\ at = "poll" /\ todo' = Tail(todo) /\ at' \in {"test", "poll"}
         /\ (todo' # Nothing) <=> (at' = "poll")
         /\ Head(todo).do = "clear" /\ status' = status \ Bits(Head(todo))
         /\ owed' = IF todo' = Nothing THEN owed \cap status' ELSE owed \cap (status' \cup due)
         /\ UNCHANGED <<board, fail_safe, ctrl, ecc_ecount, starts, errors, fresh, due, chosen>>
<1>1. at = "poll" /\ Head(todo).do = "clear" /\ todo' = Tail(todo)
  BY DEF ClearStatus, Step, Proceed
<1>2. at' = IF todo' = Nothing THEN "test" ELSE "poll"
  BY DEF ClearStatus, Proceed
<1>3. status' = status \ Bits(Head(todo))
  BY <1>1 DEF ClearStatus, Bits
<1>4. UNCHANGED <<board, fail_safe, ctrl, ecc_ecount, starts, errors, fresh, due, chosen>>
  BY DEF ClearStatus
<1>5. owed' = IF todo' = Nothing THEN owed \cap status' ELSE owed \cap (status' \cup due)
  BY DEF ClearStatus
<1> QED BY <1>1, <1>2, <1>3, <1>4, <1>5

(* The reading of the status, and what it decides.                         *)
LEMMA PollStart ==
  ASSUME Inv, poll_errors
  PROVE  /\ at = "test" /\ poll = TRUE /\ index \in Chips /\ status \in SUBSET StatusBits
         /\ todo' = poll_of(index, status) /\ todo' \in Seq(Steps)
         /\ due' = IF Polling = "nothing" THEN {} ELSE status \cap Kinds
         /\ at' \in {"test", "poll"} /\ ((todo' # Nothing) <=> (at' = "poll"))
         /\ UNCHANGED <<board, fail_safe, ctrl, status, ecc_ecount, starts, errors,
                        fresh, owed, chosen>>
<1>1. at = "test" /\ poll = TRUE
  BY DEF poll_errors, Inv, TypeOK
<1>2. board \in Board /\ index \in {"unknown", board.chip} /\ status \in SUBSET StatusBits
  BY BoardsAssumption DEF Inv, TypeOK, StatusBits
<1>3. index \in Chips
  BY <1>2, UnknownRow, IdentifiedType
<1>4. todo' = poll_of(index, status) /\ poll_of(index, status) \in Seq(Steps)
  BY <1>2, <1>3, PollType DEF poll_errors
<1>5. at' = IF todo' = Nothing THEN "test" ELSE "poll"
  BY DEF poll_errors
<1>6. /\ due' = IF Polling = "nothing" THEN {} ELSE status \cap Kinds
      /\ UNCHANGED <<board, fail_safe, ctrl, status, ecc_ecount, starts, errors,
                     fresh, owed, chosen>>
  BY DEF poll_errors
<1> QED BY <1>1, <1>2, <1>3, <1>4, <1>5, <1>6

(* A set-up: the controller is one there is, and its mode one it can be in.*)
LEMMA SetUpStep ==
  ASSUME Inv, find_controller
  PROVE  /\ at = "boot" /\ at' = "test" /\ todo = <<>> /\ todo' = <<>>
         /\ due = {} /\ due' = {} /\ chosen' = FALSE
         /\ board \in Board /\ index' \in {"unknown", board.chip} /\ index' \in Chips
         /\ fail_safe \/ pci_check_direct(board) = "none" => index' = "unknown"
         /\ index' = "unknown" => mode' = {}
         /\ cap' \subseteq UNKNOWN /\ mode' \subseteq UNKNOWN
         /\ poll' = (controllers[index'].tested /\ "detect" \in mode')
         /\ status' \subseteq status /\ owed' = owed \cap status'
         /\ controllers[board.chip].poll = "amd751" => status' = status
         /\ UNCHANGED <<board, fail_safe, ecc_ecount, starts, errors>>
<1>1. /\ at = "boot" /\ at' = "test" /\ chosen' = FALSE /\ due' = due /\ todo' = todo
      /\ owed' = owed \cap status'
      /\ UNCHANGED <<board, fail_safe, ecc_ecount, starts, errors>>
  BY DEF find_controller
<1>2. todo = <<>> /\ due = {}
  BY <1>1 DEF Inv, IdleInv
<1>3. board \in Board /\ mode \subseteq UNKNOWN
  BY BoardsAssumption DEF Inv, TypeOK
<1>4. index' = IF fail_safe THEN "unknown" ELSE Identified(board)
  BY DEF find_controller
<1>5. /\ index' \in {"unknown", board.chip} /\ index' \in Chips
      /\ fail_safe \/ pci_check_direct(board) = "none" => index' = "unknown"
  BY <1>3, <1>4, IdentifiedType, UnknownRow
<1>6. PICK s \in setup_ecc(index', board, mode) :
        cap' = s.cap /\ mode' = s.mode /\ status' = status \ s.clears
  BY DEF find_controller
<1>7. cap' \subseteq UNKNOWN /\ mode' \subseteq UNKNOWN
  BY <1>3, <1>5, <1>6, SetUpType
<1>8. index' = "unknown" => mode' = {}
  BY <1>6, UnknownSetUp
<1>9. poll' = (controllers[index'].tested /\ "detect" \in mode')
  <2>1. poll' = set_ecc_polling(-1, index', mode')
    BY DEF find_controller
  <2> QED BY <2>1 DEF set_ecc_polling
<1>10. ASSUME controllers[board.chip].poll = "amd751" PROVE status' = status
  <2>1. s.clears = {}
    <3>1. CASE index' = "unknown"
      BY <1>6, <3>1, UnknownRow DEF setup_ecc, setup_nothing, Sets
    <3>2. CASE index' = board.chip
      <4>1. controllers[index'].setup = "amd751"
        BY <1>3, <1>10, <3>2 DEF Board, controllers, Row
      <4>2. setup_ecc(index', board, mode) = {setup_amd751(board)}
        BY <4>1 DEF setup_ecc
      <4> QED BY <1>6, <4>2 DEF setup_amd751, Sets
    <3> QED BY <1>5, <3>1, <3>2
  <2> QED BY <1>6, <2>1
<1> QED BY <1>1, <1>2, <1>3, <1>5, <1>6, <1>7, <1>8, <1>9, <1>10

(* The keyboard, the scroll lock and a stutter leave the controller alone. *)
Quiet == ScrollOn \/ (\E val \in {-1, 0, 1} : EccPollingMode(val)) \/ UNCHANGED vars

LEMMA QuietStep ==
  ASSUME Quiet
  PROVE  /\ UNCHANGED <<board, fail_safe, index, cap, mode, status, todo, ecc_ecount, starts,
                       errors, due, owed>>
         /\ at' = at \/ (at = "scroll" /\ at' = "poll")
<1>1. CASE ScrollOn
  BY <1>1 DEF ScrollOn, ctrl, ghosts
<1>2. CASE \E val \in {-1, 0, 1} : EccPollingMode(val)
  BY <1>2 DEF EccPollingMode
<1>3. CASE UNCHANGED vars
  BY <1>3 DEF vars, ctrl, ghosts
<1> QED BY <1>1, <1>2, <1>3 DEF Quiet

LEMMA RestartStep ==
  ASSUME restart
  PROVE  /\ at' = "boot" /\ todo' = <<>> /\ due' = {} /\ ecc_ecount' = 0
         /\ starts < MaxRestarts /\ starts' = starts + 1 /\ fail_safe' \in {fail_safe, TRUE}
         /\ UNCHANGED <<board, ctrl, status, errors, fresh, owed, chosen>>
BY DEF restart, Nothing

LEMMA LatchStep ==
  ASSUME Inv, NEW k \in Kinds, NEW bank \in Banks, LatchError(k, bank)
  PROVE  /\ status \subseteq status' /\ k \in status' /\ status' \subseteq StatusBits
         /\ controllers[board.chip].poll = "amd751" => status' \cap Banks # {}
         /\ owed' \subseteq owed \cup ({k} \ status)
         /\ errors < MaxErrors /\ errors' = errors + 1
         /\ UNCHANGED <<board, fail_safe, ctrl, at, todo, ecc_ecount, starts, due, chosen>>
<1>1. status' = status \cup Latched(board.chip, k, bank)
  BY DEF LatchError
<1>2. k \in Latched(board.chip, k, bank)
  BY DEF Latched
<1>3. Latched(board.chip, k, bank) \subseteq StatusBits
  <2>1. k \in StatusBits /\ bank \in StatusBits /\ "nerr" \in StatusBits
    BY DEF StatusBits
  <2>2. Eap[k] \in StatusBits
    BY DEF StatusBits, Eap, Kinds
  <2> QED BY <2>1, <2>2 DEF Latched
<1>4. controllers[board.chip].poll = "amd751" => bank \in Latched(board.chip, k, bank)
  BY DEF Latched
<1>5. status \subseteq StatusBits
  BY DEF Inv, TypeOK, StatusBits
<1>6. owed' = IF k \in status THEN owed ELSE owed \cup {k}
  BY DEF LatchError
<1>7. /\ errors < MaxErrors /\ errors' = errors + 1
      /\ UNCHANGED <<board, fail_safe, ctrl, at, todo, ecc_ecount, starts, due, chosen>>
  BY DEF LatchError
<1> QED BY <1>1, <1>2, <1>3, <1>4, <1>5, <1>6, <1>7

LEMMA NextCases ==
  ASSUME [Next]_vars
  PROVE  \/ find_controller
         \/ poll_errors
         \/ print_ecc_err \/ ReportByEap
         \/ ClearStatus
         \/ Quiet
         \/ restart
         \/ \E k \in Kinds, bank \in Banks : LatchError(k, bank)
BY DEF Next, PollStep, Quiet

-----------------------------------------------------------------------------
(* Every step keeps every part of the invariant.                           *)
LEMMA TodoNext ==
  ASSUME Inv, [Next]_vars
  PROVE  todo' \in Seq(Steps) /\ EapInv'
<1>1. todo \in Seq(Steps) /\ EapInv
  BY DEF Inv
<1>2. ASSUME todo' = todo PROVE todo' \in Seq(Steps) /\ EapInv'
  BY <1>1, <1>2 DEF EapInv
<1>3. ASSUME todo' = <<>> PROVE todo' \in Seq(Steps) /\ EapInv'
  <2>1. <<>> \in Seq(Steps) /\ 1 .. Len(<<>>) = {}
    OBVIOUS
  <2> QED BY <1>3, <2>1 DEF EapInv
<1>4. ASSUME at = "poll", todo' = Tail(todo) PROVE todo' \in Seq(Steps) /\ EapInv'
  <2>1. Tail(todo) \in Seq(Steps)
    BY <1>4, AtStep
  <2>2. ASSUME NEW n \in 1 .. Len(Tail(todo)), Tail(todo)[n].do = "report by eap"
        PROVE  n < Len(Tail(todo))
    <3>1. /\ n + 1 \in 1 .. Len(todo) /\ todo[n + 1].do = "report by eap"
          /\ n + 1 < Len(todo) => n < Len(Tail(todo))
      BY <1>4, <2>2, AtStep
    <3>2. n + 1 < Len(todo)
      BY <1>1, <3>1 DEF EapInv
    <3> QED BY <3>1, <3>2
  <2> QED BY <1>4, <2>1, <2>2 DEF EapInv
<1>5. CASE poll_errors
  <2>1. /\ todo' = poll_of(index, status) /\ index \in Chips
        /\ status \in SUBSET StatusBits
    BY <1>5, PollStart
  <2> QED BY <2>1, PollType DEF EapInv
<1>6. CASE find_controller \/ restart
  BY <1>3, <1>6, SetUpStep, RestartStep
<1>7. CASE print_ecc_err \/ ReportByEap
  BY <1>4, <1>7, ReportStep
<1>8. CASE ClearStatus
  BY <1>4, <1>8, ClearStep
<1>9. CASE Quiet
  BY <1>2, <1>9, QuietStep
<1>10. CASE \E k \in Kinds, bank \in Banks : LatchError(k, bank)
  BY <1>2, <1>10, LatchStep
<1> QED BY <1>5, <1>6, <1>7, <1>8, <1>9, <1>10, NextCases

LEMMA IdleNext ==
  ASSUME Inv, [Next]_vars
  PROVE  IdleInv'
<1>1. at = "boot" => due = {} /\ todo = <<>>
  BY DEF Inv, IdleInv
<1>2. CASE find_controller \/ restart
  BY <1>2, SetUpStep, RestartStep DEF IdleInv
<1>3. CASE poll_errors
  BY <1>3, PollStart DEF IdleInv
<1>4. CASE print_ecc_err \/ ReportByEap
  BY <1>4, ReportStep DEF IdleInv
<1>5. CASE ClearStatus
  BY <1>5, ClearStep DEF IdleInv
<1>6. CASE Quiet
  BY <1>1, <1>6, QuietStep DEF IdleInv
<1>7. CASE \E k \in Kinds, bank \in Banks : LatchError(k, bank)
  BY <1>1, <1>7, LatchStep DEF IdleInv
<1> QED BY <1>2, <1>3, <1>4, <1>5, <1>6, <1>7, NextCases

LEMMA WarrantNext ==
  ASSUME Inv, [Next]_vars
  PROVE  WarrantInv'
<1>1. CASE find_controller
  <2>1. /\ index' = "unknown" => mode' = {}
        /\ fail_safe \/ pci_check_direct(board) = "none" => index' = "unknown"
        /\ poll' = (controllers[index'].tested /\ "detect" \in mode')
        /\ fail_safe' = fail_safe /\ board' = board
    BY <1>1, SetUpStep
  <2>2. (pci_check_direct(board))' = pci_check_direct(board)
    BY <2>1 DEF pci_check_direct
  <2> QED BY <2>1, <2>2 DEF WarrantInv
<1>2. ASSUME UNCHANGED <<board, fail_safe, ctrl, chosen>>, at # "boot"
      PROVE  WarrantInv'
  <2>1. WarrantInv /\ Running
    BY <1>2 DEF Inv, Running
  <2> QED BY <1>2, <2>1 DEF WarrantInv, Running, ctrl, pci_check_direct
<1>3. CASE poll_errors
  BY <1>2, <1>3, PollStart
<1>4. CASE print_ecc_err \/ ReportByEap
  BY <1>2, <1>4, ReportStep
<1>5. CASE ClearStatus
  BY <1>2, <1>5, ClearStep
<1>6. CASE restart
  BY <1>6, RestartStep DEF WarrantInv, Running
<1>7. CASE \E val \in {-1, 0, 1} : EccPollingMode(val)
  <2>1. PICK val \in {-1, 0, 1} : EccPollingMode(val)
    BY <1>7
  <2>2. /\ at # "boot" /\ at' = at /\ chosen' = (val # -1)
        /\ UNCHANGED <<board, fail_safe, index, mode>>
        /\ poll' = set_ecc_polling(val, index, mode)
    BY <2>1 DEF EccPollingMode, AtKeyboard
  <2>3. /\ index = "unknown" => mode = {}
        /\ fail_safe \/ pci_check_direct(board) = "none" => index = "unknown"
    BY <2>2 DEF Inv, WarrantInv, Running
  <2>4. poll' => "detect" \in mode
    BY <2>2 DEF set_ecc_polling
  <2>5. val = -1 => poll' = (controllers[index].tested /\ "detect" \in mode)
    BY <2>2 DEF set_ecc_polling
  <2>6. ~ chosen' => val = -1
    BY <2>2
  <2>7. (pci_check_direct(board))' = pci_check_direct(board)
    BY <2>2 DEF pci_check_direct
  <2> QED BY <2>2, <2>3, <2>4, <2>5, <2>6, <2>7 DEF WarrantInv
<1>8. CASE ScrollOn \/ UNCHANGED vars
  <2>1. UNCHANGED <<board, fail_safe, ctrl, chosen>> /\ (at = "boot" => at' = "boot")
    BY <1>8 DEF ScrollOn, vars, ghosts
  <2>2. CASE at = "boot"
    BY <2>1, <2>2 DEF WarrantInv, Running
  <2> QED BY <1>2, <2>1, <2>2
<1>9. CASE \E k \in Kinds, bank \in Banks : LatchError(k, bank)
  <2>1. UNCHANGED <<board, fail_safe, ctrl, chosen>> /\ (at = "boot" => at' = "boot")
    BY <1>9, LatchStep
  <2>2. CASE at = "boot"
    BY <2>1, <2>2 DEF WarrantInv, Running
  <2> QED BY <1>2, <2>1, <2>2
<1> QED BY <1>1, <1>3, <1>4, <1>5, <1>6, <1>7, <1>8, <1>9, NextCases DEF Quiet

LEMMA BankNext ==
  ASSUME Inv, [Next]_vars
  PROVE  BankInv'
<1> DEFINE Amd751 == controllers[board.chip].poll = "amd751"
<1>1. /\ Amd751 /\ status \cap Kinds # {} => status \cap Banks # {}
      /\ Amd751 => \A n \in 1 .. Len(todo) :
                      todo[n].do = "clear" => todo[n].bits = Kinds \cup Banks
  BY DEF Inv, BankInv
<1>2. ASSUME board' = board,
             Amd751 /\ status' \cap Kinds # {} => status' \cap Banks # {},
             Amd751 => \A n \in 1 .. Len(todo') :
                         todo'[n].do = "clear" => todo'[n].bits = Kinds \cup Banks
      PROVE  BankInv'
  BY <1>2 DEF BankInv
<1>3. ASSUME at = "poll", todo' = Tail(todo)
      PROVE  Amd751 => \A n \in 1 .. Len(todo') :
                         todo'[n].do = "clear" => todo'[n].bits = Kinds \cup Banks
  <2> SUFFICES ASSUME Amd751, NEW n \in 1 .. Len(Tail(todo)), Tail(todo)[n].do = "clear"
               PROVE  Tail(todo)[n].bits = Kinds \cup Banks
    BY <1>3
  <2>1. n + 1 \in 1 .. Len(todo) /\ Tail(todo)[n] = todo[n + 1]
    BY <1>3, AtStep
  <2> QED BY <1>1, <2>1
<1>4. CASE find_controller
  <2>1. /\ board' = board /\ (Amd751 => status' = status)
        /\ todo' = <<>> /\ 1 .. Len(<<>>) = {}
    BY <1>4, SetUpStep
  <2> QED BY <1>1, <1>2, <2>1
<1>5. CASE restart
  <2>1. board' = board /\ status' = status /\ todo' = <<>> /\ 1 .. Len(<<>>) = {}
    BY <1>5, RestartStep
  <2> QED BY <1>1, <1>2, <2>1
<1>6. CASE poll_errors
  <2>1. /\ board' = board /\ status' = status /\ status \in SUBSET StatusBits
        /\ todo' = poll_of(index, status) /\ index \in Chips
        /\ index \in {"unknown", board.chip}
    BY <1>6, PollStart DEF Inv, TypeOK
  <2>2. ASSUME Amd751, NEW n \in 1 .. Len(todo'), todo'[n].do = "clear"
        PROVE  todo'[n].bits = Kinds \cup Banks
    <3>1. CASE index = "unknown"
      <4>1. poll_of(index, status) = <<>>
        BY <3>1, UnknownRow DEF poll_of, Nothing
      <4>2. 1 .. Len(<<>>) = {}
        OBVIOUS
      <4> QED BY <2>1, <2>2, <4>1, <4>2
    <3>2. CASE index = board.chip
      BY <2>1, <2>2, <3>2, PollBanks
    <3> QED BY <2>1, <3>1, <3>2
  <2> QED BY <1>1, <1>2, <2>1, <2>2
<1>7. CASE print_ecc_err \/ ReportByEap
  <2>1. board' = board /\ status' = status /\ at = "poll" /\ todo' = Tail(todo)
    BY <1>7, ReportStep
  <2> QED BY <1>1, <1>2, <1>3, <2>1
<1>8. CASE ClearStatus
  <2>1. /\ board' = board /\ status' = status \ Bits(Head(todo)) /\ at = "poll"
        /\ todo' = Tail(todo) /\ Head(todo).do = "clear"
        /\ Head(todo) = todo[1] /\ 1 \in 1 .. Len(todo)
    BY <1>8, ClearStep, AtStep
  <2>2. Amd751 => Bits(Head(todo)) = Kinds \cup Banks
    BY <1>1, <2>1 DEF Bits
  <2> QED BY <1>2, <1>3, <2>1, <2>2
<1>9. CASE Quiet
  BY <1>1, <1>2, <1>9, QuietStep
<1>10. CASE \E k \in Kinds, bank \in Banks : LatchError(k, bank)
  <2>1. board' = board /\ todo' = todo /\ (Amd751 => status' \cap Banks # {})
    BY <1>10, LatchStep
  <2> QED BY <1>1, <1>2, <2>1
<1> QED BY <1>4, <1>5, <1>6, <1>7, <1>8, <1>9, <1>10, NextCases

LEMMA DueNext ==
  ASSUME Inv, [Next]_vars
  PROVE  DueInv'
<1> DEFINE Swapped == {"amd76x", "i440gx"}
<1>1. Running =>
        /\ Polling = "nothing" => due = {}
        /\ (\A k \in due : Told(todo, k)) \/ BothSeen \/ Polling \in Swapped
  BY DEF Inv, DueInv
<1>2. ASSUME UNCHANGED <<index, due, todo>>, at = "boot" => at' = "boot" PROVE DueInv'
  <2>1. UNCHANGED <<Polling, BothSeen>> /\ (Running' => Running)
    BY <1>2 DEF Polling, BothSeen, Running
  <2> QED BY <1>1, <1>2, <2>1 DEF DueInv, Told
<1>3. CASE find_controller
  <2>1. due' = {}
    BY <1>3, SetUpStep
  <2> QED BY <2>1 DEF DueInv
<1>4. CASE restart
  BY <1>4, RestartStep DEF DueInv, Running
<1>5. CASE poll_errors
  <2>1. /\ index' = index /\ index \in Chips /\ status \in SUBSET StatusBits
        /\ todo' = poll_of(index, status)
        /\ due' = IF Polling = "nothing" THEN {} ELSE status \cap Kinds
    BY <1>5, PollStart DEF ctrl
  <2>2. Polling' = Polling /\ Polling \in Polls
    BY <2>1, RowType DEF Polling
  <2>3. ASSUME Polling \in Telling, ~ (Polling = "iE7221" /\ Kinds \subseteq status)
        PROVE  \A k \in due' : Told(todo', k)
    <3> SUFFICES ASSUME NEW k \in status \cap Kinds PROVE Told(todo', k)
      BY <2>1
    <3>1. Polling = "amd751" => status \cap Banks # {}
      <4>1. Polling = "amd751" => index = board.chip
        BY UnknownRow DEF Polling, Inv, TypeOK
      <4> QED BY <4>1 DEF Inv, BankInv, Polling
    <3>2. Told(poll_of(index, status), k)
      BY <2>1, <2>3, <3>1, PollTells DEF Polling
    <3> QED BY <2>1, <3>2
  <2>4. Polling = "iE7221" /\ Kinds \subseteq status => BothSeen'
    BY <2>1, <2>2 DEF BothSeen
  <2>5. Polling = "nothing" \/ Polling \in Telling \/ Polling \in Swapped
    BY <2>2 DEF Telling
  <2>6. Polling = "nothing" => due' = {}
    BY <2>1
  <2> QED BY <2>2, <2>3, <2>4, <2>5, <2>6 DEF DueInv
<1>6. CASE print_ecc_err \/ ReportByEap
  <2>1. /\ at = "poll" /\ todo' = Tail(todo) /\ due' \subseteq due /\ index' = index
        /\ Head(todo).do # "clear" /\ \A k \in due : Tells(Head(todo), k) => k \notin due'
    BY <1>6, ReportStep DEF ctrl
  <2>2. /\ \A n \in 1 .. Len(todo) : n = 1 \/ (n - 1 \in 1 .. Len(Tail(todo))
                                             /\ Tail(todo)[n - 1] = todo[n])
        /\ Head(todo) = todo[1] /\ 1 \in 1 .. Len(todo)
    BY <2>1, AtStep
  <2>3. ~ BothSeen /\ Running
    BY <2>1, <2>2 DEF Inv, BothInv, Running
  <2>4. ASSUME NEW k \in due', Told(todo, k) PROVE Told(todo', k)
    <3>1. PICK n \in 1 .. Len(todo) : Tells(todo[n], k)
      BY <2>4 DEF Told
    <3>2. n # 1
      BY <2>1, <2>2, <3>1
    <3> QED BY <2>1, <2>2, <3>1, <3>2 DEF Told
  <2>5. Polling' = Polling
    BY <2>1 DEF Polling
  <2> QED BY <1>1, <2>1, <2>3, <2>4, <2>5 DEF DueInv
<1>7. CASE ClearStatus
  <2>1. /\ at = "poll" /\ todo' = Tail(todo) /\ UNCHANGED <<due, index>>
        /\ Head(todo).do = "clear"
    BY <1>7, ClearStep DEF ctrl
  <2>2. UNCHANGED <<Polling, BothSeen>> /\ Running
    BY <2>1 DEF Polling, BothSeen, Running
  <2>3. ASSUME NEW k, Told(todo, k) PROVE Told(todo', k)
    <3>1. PICK n \in 1 .. Len(todo) : Tells(todo[n], k)
      BY <2>3 DEF Told
    <3>2. n # 1
      <4>1. ~ Tells(Head(todo), k) /\ Head(todo) = todo[1]
        BY <2>1, AtStep DEF Tells
      <4> QED BY <3>1, <4>1
    <3>3. n - 1 \in 1 .. Len(Tail(todo)) /\ Tail(todo)[n - 1] = todo[n]
      BY <2>1, <3>2, AtStep
    <3> QED BY <2>1, <3>1, <3>3 DEF Told
  <2> QED BY <1>1, <2>1, <2>2, <2>3 DEF DueInv
<1>8. CASE Quiet
  BY <1>2, <1>8, QuietStep
<1>9. CASE \E k \in Kinds, bank \in Banks : LatchError(k, bank)
  BY <1>2, <1>9, LatchStep DEF ctrl
<1> QED BY <1>3, <1>4, <1>5, <1>6, <1>7, <1>8, <1>9, NextCases

LEMMA BothNext ==
  ASSUME Inv, [Next]_vars
  PROVE  BothInv'
<1> DEFINE OneClear == Len(todo) <= 1 /\ \A n \in 1 .. Len(todo) : todo[n].do = "clear"
<1>1. Running /\ BothSeen => OneClear
  BY DEF Inv, BothInv
<1>2. ASSUME UNCHANGED <<index, due, todo>>, at = "boot" => at' = "boot" PROVE BothInv'
  <2>1. UNCHANGED BothSeen /\ (Running' => Running)
    BY <1>2 DEF Polling, BothSeen, Running
  <2> QED BY <1>1, <1>2, <2>1 DEF BothInv
<1>3. CASE find_controller
  <2>1. due' = {}
    BY <1>3, SetUpStep
  <2> QED BY <2>1 DEF BothInv, BothSeen, Kinds
<1>4. CASE restart
  BY <1>4, RestartStep DEF BothInv, Running
<1>5. CASE poll_errors
  <2> SUFFICES ASSUME BothSeen' PROVE OneClear'
    BY DEF BothInv
  <2>1. /\ index' = index /\ index \in Chips /\ todo' = poll_of(index, status)
        /\ due' = IF Polling = "nothing" THEN {} ELSE status \cap Kinds
    BY <1>5, PollStart DEF ctrl
  <2>2. controllers[index].poll = "iE7221" /\ Kinds \subseteq status
    BY <2>1 DEF BothSeen, Polling
  <2>3. todo' = <<Clear(status)>>
    BY <2>1, <2>2, PollBoth
  <2>4. Clear(status).do = "clear"
    BY DEF Clear
  <2>5. \A x : Len(<<x>>) = 1 /\ <<x>>[1] = x
    OBVIOUS
  <2> QED BY <2>3, <2>4, <2>5
<1>6. CASE print_ecc_err \/ ReportByEap
  <2>1. /\ at = "poll" /\ due' \subseteq due /\ index' = index /\ Head(todo).do # "clear"
    BY <1>6, ReportStep DEF ctrl
  <2>2. Head(todo) = todo[1] /\ 1 \in 1 .. Len(todo)
    BY <2>1, AtStep
  <2>3. ~ BothSeen
    BY <1>1, <2>1, <2>2 DEF Running
  <2>4. BothSeen' => BothSeen
    BY <2>1 DEF BothSeen, Polling, Inv, TypeOK
  <2> QED BY <2>3, <2>4 DEF BothInv
<1>7. CASE ClearStatus
  <2>1. at = "poll" /\ todo' = Tail(todo) /\ UNCHANGED <<due, index>>
    BY <1>7, ClearStep DEF ctrl
  <2>2. UNCHANGED BothSeen /\ Running
    BY <2>1 DEF Polling, BothSeen, Running
  <2> SUFFICES ASSUME BothSeen PROVE OneClear'
    BY <2>2 DEF BothInv
  <2> DEFINE rest == Len(Tail(todo))
  <2>3. rest \in Nat /\ rest = Len(todo) - 1 /\ Len(todo) \in Nat
    BY <2>1, AtStep
  <2>4. Len(todo) <= 1
    BY <1>1, <2>2
  <2> HIDE DEF rest
  <2>5. rest <= 1 /\ 1 .. rest = {}
    BY <2>3, <2>4
  <2> QED BY <2>1, <2>5 DEF rest
<1>8. CASE Quiet
  BY <1>2, <1>8, QuietStep
<1>9. CASE \E k \in Kinds, bank \in Banks : LatchError(k, bank)
  BY <1>2, <1>9, LatchStep DEF ctrl
<1> QED BY <1>3, <1>4, <1>5, <1>6, <1>7, <1>8, <1>9, NextCases

(* What is so of the rest of a careful poll stays so as it goes on.        *)
LEMMA TailTellsFirst ==
  ASSUME Inv, at = "poll", NEW s, NEW o, NEW d, TellsFirst(todo, s, owed, due),
         o \subseteq owed,
         \A k \in o : k \in due => k \in d /\ ~ Tells(Head(todo), k),
         \A k \in Cleared(todo) : k \notin Bits(Head(todo)) => k \in s
  PROVE  TellsFirst(Tail(todo), s \ Bits(Head(todo)), o, d)
<1> DEFINE t == Tail(todo)
           rest == Len(Tail(todo))
<1>1. /\ Head(todo) = todo[1] /\ 1 \in 1 .. Len(todo) /\ rest \in Nat
      /\ \A n \in 1 .. rest : n + 1 \in 1 .. Len(todo) /\ t[n] = todo[n + 1]
  BY AtStep
<1> HIDE DEF t, rest
<1>2. \A m, n \in 1 .. rest : m # n => m + 1 # n + 1
  OBVIOUS
<1>3. \A m, n \in 1 .. rest : m # n => Bits(t[m]) \cap Bits(t[n]) = {}
  BY <1>1, <1>2 DEF TellsFirst, Apart
<1>4. ASSUME NEW n \in 1 .. rest, NEW x \in Bits(t[n])
      PROVE  x \in s \ Bits(Head(todo))
  <2>1. n + 1 # 1 /\ n + 1 \in 1 .. Len(todo) /\ x \in Bits(todo[n + 1])
    BY <1>1, <1>4
  <2>2. x \notin Bits(todo[1])
    BY <1>1, <2>1 DEF TellsFirst, Apart
  <2>3. x \in Cleared(todo)
    BY <2>1 DEF Cleared
  <2> QED BY <1>1, <2>2, <2>3
<1>5. ASSUME NEW n \in 1 .. rest, NEW k \in Bits(t[n]) \cap o
      PROVE  k \in d /\ \E m \in 1 .. n - 1 : Tells(t[m], k)
  <2>1. n + 1 \in 1 .. Len(todo) /\ k \in Bits(todo[n + 1]) \cap owed
    BY <1>1, <1>5
  <2>2. k \in due /\ \E m \in 1 .. (n + 1) - 1 : Tells(todo[m], k)
    BY <2>1 DEF TellsFirst
  <2>3. PICK m \in 1 .. (n + 1) - 1 : Tells(todo[m], k)
    BY <2>2
  <2>4. k \in d /\ m # 1
    BY <1>1, <1>5, <2>2, <2>3
  <2>5. m - 1 \in 1 .. n - 1 /\ m - 1 \in 1 .. rest /\ (m - 1) + 1 = m
    BY <1>1, <1>5, <2>3, <2>4
  <2>6. Tells(t[m - 1], k)
    BY <1>1, <2>3, <2>5
  <2> QED BY <2>4, <2>5, <2>6
<1>6. Cleared(t) \subseteq s \ Bits(Head(todo))
  BY <1>4 DEF Cleared, rest, t
<1>7. Apart(t)
  BY <1>3 DEF Apart, rest, t
<1> QED BY <1>5, <1>6, <1>7 DEF TellsFirst, t, rest

LEMMA KeepNext ==
  ASSUME Inv, [Next]_vars
  PROVE  KeepInv'
<1>1. Running /\ Polling \in Keepers =>
        owed \subseteq status /\ (BothSeen \/ TellsFirst(todo, status, owed, due))
  BY DEF Inv, KeepInv
<1>2. ASSUME UNCHANGED <<index, due, todo, owed, status>>, at = "boot" => at' = "boot"
      PROVE  KeepInv'
  <2>1. UNCHANGED <<Polling, BothSeen>> /\ (Running' => Running)
    BY <1>2 DEF Polling, BothSeen, Running
  <2> QED BY <1>1, <1>2, <2>1 DEF KeepInv
<1>3. CASE find_controller
  <2>1. todo' = <<>> /\ owed' \subseteq status'
    BY <1>3, SetUpStep
  <2>2. TellsFirst(<<>>, status', owed', due')
    <3>1. Apart(<<>>) /\ Cleared(<<>>) = {} /\ 1 .. Len(<<>>) = {}
      BY EmptyCareful
    <3> QED BY <3>1 DEF TellsFirst
  <2> QED BY <2>1, <2>2 DEF KeepInv
<1>4. CASE restart
  BY <1>4, RestartStep DEF KeepInv, Running
<1>5. CASE poll_errors
  <2>1. /\ at = "test" /\ index \in Chips /\ status \in SUBSET StatusBits
        /\ todo' = poll_of(index, status) /\ UNCHANGED <<index, status, owed>>
        /\ due' = IF Polling = "nothing" THEN {} ELSE status \cap Kinds
    BY <1>5, PollStart DEF ctrl
  <2>2. Polling' = Polling /\ Running
    BY <2>1 DEF Polling, Running
  <2> SUFFICES ASSUME Polling \in Keepers
               PROVE  /\ owed' \subseteq status'
                      /\ BothSeen' \/ TellsFirst(todo', status', owed', due')
    BY <2>2 DEF KeepInv
  <2>3. due' = status \cap Kinds
    BY <2>1 DEF Keepers
  <2>4. owed \subseteq status /\ owed \subseteq Kinds
    BY <1>1, <2>2 DEF Inv, TypeOK
  <2> SUFFICES ASSUME ~ BothSeen'
               PROVE  owed' \subseteq status' /\ TellsFirst(todo', status', owed', due')
    BY <2>1, <2>4
  <2>5. ~ (Polling = "iE7221" /\ Kinds \subseteq status)
    BY <2>2, <2>3 DEF BothSeen
  <2>6. Careful(poll_of(index, status), status)
    BY <2>1, <2>5, PollCareful DEF Polling
  <2>7. TellsFirst(poll_of(index, status), status, owed, status \cap Kinds)
    <3> DEFINE t == poll_of(index, status)
    <3> HIDE DEF t
    <3>1. ToldFirst(t, Kinds) /\ Apart(t) /\ Cleared(t) \subseteq status
      BY <2>6 DEF Careful, t
    <3>2. ASSUME NEW n \in 1 .. Len(t), NEW k \in Bits(t[n]) \cap owed
          PROVE  k \in status \cap Kinds /\ \E m \in 1 .. n - 1 : Tells(t[m], k)
      BY <2>4, <3>1, <3>2 DEF ToldFirst
    <3> QED BY <3>1, <3>2 DEF TellsFirst, t
  <2> QED BY <2>1, <2>3, <2>4, <2>7
<1>6. CASE print_ecc_err \/ ReportByEap
  <2>1. /\ at = "poll" /\ todo' = Tail(todo) /\ UNCHANGED <<index, status>>
        /\ Head(todo).do # "clear" /\ due' \subseteq due /\ owed' = owed \ (due \ due')
        /\ \A k \in due : Tells(Head(todo), k) => k \notin due'
    BY <1>6, ReportStep DEF ctrl
  <2>2. Polling' = Polling /\ Running
    BY <2>1 DEF Polling, Running
  <2> SUFFICES ASSUME Polling \in Keepers
               PROVE  owed' \subseteq status' /\ TellsFirst(todo', status', owed', due')
    BY <2>2 DEF KeepInv
  <2>3. ~ BothSeen
    BY <2>1, <2>2, AtStep DEF Inv, BothInv
  <2>4. owed \subseteq status /\ TellsFirst(todo, status, owed, due)
    BY <1>1, <2>2, <2>3
  <2>5. Cleared(todo) \subseteq status /\ Bits(Head(todo)) = {}
    BY <2>1, <2>4 DEF TellsFirst, Bits
  <2>6. /\ owed' \subseteq owed
        /\ \A k \in owed' : k \in due => k \in due' /\ ~ Tells(Head(todo), k)
    BY <2>1
  <2>7. TellsFirst(Tail(todo), status \ Bits(Head(todo)), owed', due')
    <3>1. \A k \in Cleared(todo) : k \notin Bits(Head(todo)) => k \in status
      BY <2>5
    <3> QED BY <2>1, <2>4, <2>6, <3>1, TailTellsFirst, Zenon
  <2> QED BY <2>1, <2>4, <2>5, <2>6, <2>7
<1>7. CASE ClearStatus
  <2>1. /\ at = "poll" /\ todo' = Tail(todo) /\ UNCHANGED <<index, due>>
        /\ Head(todo).do = "clear" /\ status' = status \ Bits(Head(todo))
        /\ owed' = IF todo' = Nothing THEN owed \cap status' ELSE owed \cap (status' \cup due)
    BY <1>7, ClearStep DEF ctrl
  <2>2. UNCHANGED <<Polling, BothSeen>> /\ Running
    BY <2>1 DEF Polling, BothSeen, Running
  <2>3. /\ Head(todo) = todo[1] /\ 1 \in 1 .. Len(todo)
        /\ \A k : ~ Tells(Head(todo), k)
    BY <2>1, AtStep DEF Tells
  <2> SUFFICES ASSUME Polling \in Keepers
               PROVE  /\ owed' \subseteq status'
                      /\ BothSeen \/ TellsFirst(todo', status', owed', due')
    BY <2>2 DEF KeepInv
  <2>4. CASE BothSeen
    <3>1. todo' = Nothing
      <4> DEFINE rest == Len(Tail(todo))
      <4>1. rest = Len(todo) - 1 /\ Len(todo) \in Nat /\ rest \in Nat /\ Tail(todo) \in Seq(Steps)
        BY <2>1, AtStep
      <4>2. Len(todo) <= 1
        BY <2>2, <2>4 DEF Inv, BothInv
      <4> HIDE DEF rest
      <4>3. rest = 0
        BY <4>1, <4>2
      <4>4. Tail(todo) = <<>>
        BY <4>1, <4>3, EmptySeq DEF rest
      <4> QED BY <2>1, <4>4, Zenon DEF Nothing
    <3> QED BY <2>1, <2>4, <3>1
  <2>5. CASE ~ BothSeen
    <3>1. owed \subseteq status /\ TellsFirst(todo, status, owed, due)
      BY <1>1, <2>2, <2>5
    <3>2. Bits(Head(todo)) \cap owed = {}
      <4> SUFFICES ASSUME NEW k \in Bits(Head(todo)) \cap owed PROVE FALSE
        OBVIOUS
      <4>1. PICK m \in 1 .. 1 - 1 : Tells(todo[m], k)
        BY <2>3, <3>1 DEF TellsFirst
      <4> QED BY <4>1
    <3>3. owed' \subseteq status' /\ owed' \subseteq owed
      BY <2>1, <3>1, <3>2
    <3>4. Cleared(todo) \subseteq status
      BY <3>1 DEF TellsFirst
    <3>5. TellsFirst(Tail(todo), status \ Bits(Head(todo)), owed', due)
      BY <2>1, <2>3, <3>1, <3>3, <3>4, TailTellsFirst
    <3> QED BY <2>1, <3>3, <3>5
  <2> QED BY <2>4, <2>5
<1>8. CASE Quiet
  BY <1>2, <1>8, QuietStep
<1>9. CASE \E k \in Kinds, bank \in Banks : LatchError(k, bank)
  <2>1. PICK k \in Kinds, bank \in Banks : LatchError(k, bank)
    BY <1>9
  <2>2. /\ status \subseteq status' /\ k \in status' /\ owed' \subseteq owed \cup ({k} \ status)
        /\ UNCHANGED <<index, at, todo, due>>
    BY <2>1, LatchStep DEF ctrl
  <2>3. UNCHANGED <<Polling, BothSeen, Running>>
    BY <2>2 DEF Polling, BothSeen, Running
  <2> SUFFICES ASSUME Running, Polling \in Keepers
               PROVE  /\ owed' \subseteq status'
                      /\ BothSeen \/ TellsFirst(todo, status', owed', due)
    BY <2>2, <2>3 DEF KeepInv
  <2>4. owed \subseteq status
    BY <1>1
  <2>5. ASSUME TellsFirst(todo, status, owed, due)
        PROVE  TellsFirst(todo, status', owed', due)
    <3>1. Apart(todo) /\ Cleared(todo) \subseteq status'
      BY <2>2, <2>5 DEF TellsFirst
    <3>2. ASSUME NEW n \in 1 .. Len(todo), NEW x \in Bits(todo[n]) \cap owed'
          PROVE  x \in due /\ \E m \in 1 .. n - 1 : Tells(todo[m], x)
      <4>1. x \in status
        BY <2>5, <3>2 DEF TellsFirst, Cleared
      <4>2. x \in owed
        BY <2>2, <4>1
      <4> QED BY <2>5, <4>2 DEF TellsFirst
    <3> QED BY <3>1, <3>2 DEF TellsFirst
  <2> QED BY <1>1, <2>2, <2>4, <2>5
<1> QED BY <1>3, <1>4, <1>5, <1>6, <1>7, <1>8, <1>9, NextCases

LEMMA TypeNext ==
  ASSUME Inv, [Next]_vars
  PROVE  TypeOK'
<1> DEFINE Known == board \in Boards /\ index \in {"unknown", board.chip}
           Modes == cap \subseteq UNKNOWN /\ mode \subseteq UNKNOWN
           Place == /\ at \in {"boot", "test", "poll", "scroll"}
                    /\ (todo # Nothing) <=> (at \in {"poll", "scroll"})
           Counts == /\ ecc_ecount \in Nat /\ starts \in 0 .. MaxRestarts
                     /\ errors \in 0 .. MaxErrors
           Errors == status \subseteq StatusBits /\ due \subseteq Kinds /\ owed \subseteq Kinds
           Flags == poll \in BOOLEAN /\ fail_safe \in BOOLEAN /\ chosen \in BOOLEAN
<1>1. Known /\ Modes /\ Place /\ Counts /\ Errors /\ Flags
  BY DEF Inv, TypeOK, StatusBits
<1>2. MaxErrors \in Nat /\ MaxRestarts \in Nat
  BY BoundsAssumption
<1>3. ASSUME Known', Modes', Place', Counts', Errors', Flags' PROVE TypeOK'
  <2>1. \A n \in 1 .. Len(todo') : todo'[n].do \in {"report", "report by eap", "clear"}
    <3>1. todo' \in Seq(Steps)
      BY TodoNext
    <3>2. \A n \in 1 .. Len(todo') : todo'[n] \in Steps
      BY <3>1, ElementOfSeq
    <3> QED BY <3>2, StepType
  <2>2. (todo' # Nothing) = (at' \in {"poll", "scroll"})
    BY <1>3
  <2> QED BY <1>3, <2>1, <2>2 DEF TypeOK, StatusBits
<1>4. CASE find_controller
  <2>1. Known' /\ Modes' /\ Place' /\ Counts'
    BY <1>1, <1>4, SetUpStep DEF Nothing
  <2>2. Errors'
    BY <1>1, <1>4, SetUpStep
  <2>3. Flags'
    <3>1. poll' = (controllers[index'].tested /\ "detect" \in mode') /\ chosen' = FALSE
          /\ fail_safe' = fail_safe
      BY <1>4, SetUpStep
    <3>2. poll' \in BOOLEAN
      BY <3>1
    <3> QED BY <1>1, <3>1, <3>2
  <2> QED BY <1>3, <2>1, <2>2, <2>3
<1>5. CASE poll_errors
  <2>1. Known' /\ Modes' /\ Counts' /\ Flags'
    BY <1>1, <1>5, PollStart DEF ctrl
  <2>2. Place'
    BY <1>5, PollStart
  <2>3. Errors'
    BY <1>1, <1>5, PollStart
  <2> QED BY <1>3, <2>1, <2>2, <2>3
<1>6. CASE print_ecc_err \/ ReportByEap
  <2>1. Known' /\ Modes' /\ Counts' /\ Flags'
    BY <1>1, <1>6, ReportStep DEF ctrl
  <2>2. Place'
    BY <1>6, ReportStep
  <2>3. Errors'
    BY <1>1, <1>6, ReportStep
  <2> QED BY <1>3, <2>1, <2>2, <2>3
<1>7. CASE ClearStatus
  <2>1. Known' /\ Modes' /\ Counts' /\ Flags'
    BY <1>1, <1>7, ClearStep DEF ctrl
  <2>2. Place'
    BY <1>7, ClearStep
  <2>3. Errors'
    BY <1>1, <1>7, ClearStep
  <2> QED BY <1>3, <2>1, <2>2, <2>3
<1>8. CASE Quiet
  <2>1. Known' /\ Modes' /\ Counts' /\ Errors'
    BY <1>1, <1>8, QuietStep
  <2>2. Place'
    BY <1>1, <1>8, QuietStep
  <2>3. Flags'
    <3>1. CASE ScrollOn \/ UNCHANGED vars
      BY <1>1, <3>1 DEF ScrollOn, vars, ctrl, ghosts
    <3>2. CASE \E val \in {-1, 0, 1} : EccPollingMode(val)
      BY <1>1, <3>2 DEF EccPollingMode, set_ecc_polling
    <3> QED BY <1>8, <3>1, <3>2 DEF Quiet
  <2> QED BY <1>3, <2>1, <2>2, <2>3
<1>9. CASE restart
  <2>1. Known' /\ Modes' /\ Errors' /\ Flags'
    BY <1>1, <1>9, RestartStep DEF ctrl
  <2>2. Place' /\ Counts'
    BY <1>1, <1>2, <1>9, RestartStep DEF Nothing
  <2> QED BY <1>3, <2>1, <2>2
<1>10. CASE \E k \in Kinds, bank \in Banks : LatchError(k, bank)
  <2>1. PICK k \in Kinds, bank \in Banks : LatchError(k, bank)
    BY <1>10
  <2>2. Known' /\ Modes' /\ Place' /\ Flags'
    BY <1>1, <2>1, LatchStep DEF ctrl
  <2>3. Counts'
    BY <1>1, <1>2, <2>1, LatchStep
  <2>4. Errors'
    BY <1>1, <2>1, LatchStep
  <2> QED BY <1>3, <2>2, <2>3, <2>4
<1> QED BY <1>4, <1>5, <1>6, <1>7, <1>8, <1>9, <1>10, NextCases

LEMMA InvInit ==
  ASSUME Init
  PROVE  Inv
<1>1. /\ board \in Boards /\ fail_safe \in BOOLEAN /\ index = "unknown"
      /\ cap = UNKNOWN /\ mode = UNKNOWN /\ poll = FALSE /\ status \in Leftover(board.chip)
      /\ at = "boot" /\ todo = <<>> /\ ecc_ecount = 0 /\ starts = 0 /\ errors = 0
      /\ due = {} /\ owed = {} /\ chosen = FALSE
  BY DEF Init, Nothing
<1>2. 1 .. Len(<<>>) = {} /\ <<>> \in Seq(Steps)
  OBVIOUS
<1>3. status \subseteq Kinds
  BY <1>1 DEF Leftover, Kinds
<1>4. TypeOK
  <2>1. 0 \in 0 .. MaxRestarts /\ 0 \in 0 .. MaxErrors
    BY BoundsAssumption
  <2>2. (todo # Nothing) = (at \in {"poll", "scroll"})
    BY <1>1 DEF Nothing
  <2> QED BY <1>1, <1>2, <1>3, <2>1, <2>2 DEF TypeOK
<1>5. BankInv
  <2>1. controllers[board.chip].poll = "amd751" => status = {}
    BY <1>1 DEF Leftover
  <2> QED BY <1>1, <1>2, <2>1 DEF BankInv
<1> QED BY <1>1, <1>2, <1>4, <1>5
        DEF Inv, IdleInv, WarrantInv, DueInv, EapInv, BothInv, KeepInv, Running

LEMMA InvNext ==
  ASSUME Inv, [Next]_vars
  PROVE  Inv'
BY TypeNext, TodoNext, IdleNext, WarrantNext, BankNext, DueNext, BothNext, KeepNext DEF Inv

(* Every reachable state satisfies the invariant.                          *)
THEOREM Invariance == Spec => []Inv
<1>1. Init => Inv
  BY InvInit
<1>2. Inv /\ [Next]_vars => Inv'
  BY InvNext
<1> QED BY <1>1, <1>2, PTL DEF Spec

-----------------------------------------------------------------------------
(* What the runs check on a small instance, for every machine and bound.   *)

(* The state of the polls always has its type: controller.c.               *)
THEOREM TypeCorrect == Spec => []TypeOK
<1>1. Inv => TypeOK
  BY DEF Inv
<1> QED BY <1>1, Invariance, PTL

(* Polling is on only where errors are detected, and as recommended until  *)
(* the user sets it: set_ecc_polling() and find_controller().              *)
THEOREM PollingWarranted == Spec => []PollWarranted
<1>1. ASSUME Inv PROVE PollWarranted
  <2> SUFFICES ASSUME Running
               PROVE  /\ poll => "detect" \in mode
                      /\ ~ chosen => poll = (controllers[index].tested /\ "detect" \in mode)
                      /\ fail_safe \/ pci_check_direct(board) = "none" => ~ poll
    BY DEF PollWarranted, Running
  <2>1. /\ index = "unknown" => mode = {}
        /\ fail_safe \/ pci_check_direct(board) = "none" => index = "unknown"
        /\ poll => "detect" \in mode
    BY <1>1 DEF Inv, WarrantInv
  <2>2. ~ chosen => poll = (controllers[index].tested /\ "detect" \in mode)
    BY <1>1 DEF Inv, WarrantInv
  <2>3. fail_safe \/ pci_check_direct(board) = "none" => ~ poll
    BY <2>1
  <2> QED BY <2>1, <2>2, <2>3
<1> QED BY <1>1, Invariance, PTL

(* A poll that is over has reported what it has seen, an uncorrectable     *)
(* error as uncorrected, whatever errors came and whatever the user did at *)
(* the scroll lock: the poll_*() functions and print_ecc_err().            *)
THEOREM SeenAlwaysReported == Spec => []SeenReported
<1>1. ASSUME Inv PROVE SeenReported
  <2> SUFFICES ASSUME at = "test"
               PROVE  due = {} \/ BothSeen \/ Polling \in {"amd76x", "i440gx"}
    BY DEF SeenReported, BothSeen
  <2>1. todo = <<>>
    BY <1>1 DEF Inv, TypeOK, Nothing
  <2>2. \A k : ~ Told(todo, k)
    BY <2>1 DEF Told
  <2> QED BY <1>1, <2>2 DEF Inv, DueInv, Running
<1> QED BY <1>1, Invariance, PTL

(* poll_i850(), poll_i860(), poll_iE7520() and poll_iE7221() never clear   *)
(* an error that was latched after they had read the status.               *)
THEOREM UnseenNeverLost == Spec => UnseenKept
<1> DEFINE Keeps == ClearStatus /\ Polling \in Keepers /\ ~ BothSeen => owed' = owed
<1>1. ASSUME Inv PROVE Keeps
  <2> SUFFICES ASSUME ClearStatus, Polling \in Keepers, ~ BothSeen
               PROVE  owed' = owed
    OBVIOUS
  <2>1. /\ at = "poll" /\ status' = status \ Bits(Head(todo))
        /\ owed' = IF todo' = Nothing THEN owed \cap status' ELSE owed \cap (status' \cup due)
        /\ Head(todo) = todo[1] /\ 1 \in 1 .. Len(todo)
    BY <1>1, ClearStep, AtStep
  <2>2. owed \subseteq status /\ TellsFirst(todo, status, owed, due)
    BY <1>1, <2>1 DEF Inv, KeepInv, Running
  <2>3. Bits(Head(todo)) \cap owed = {}
    <3> SUFFICES ASSUME NEW k \in Bits(Head(todo)) \cap owed PROVE FALSE
      OBVIOUS
    <3>1. PICK m \in 1 .. 1 - 1 : Tells(todo[m], k)
      BY <2>1, <2>2 DEF TellsFirst
    <3> QED BY <3>1
  <2> QED BY <2>1, <2>2, <2>3
<1>2. Inv => [Keeps]_vars
  BY <1>1
<1>3. [Keeps]_vars =>
        [ClearStatus /\ Polling \in {"i850", "i860", "iE7520", "iE7221"}
           /\ ~ (Polling = "iE7221" /\ due = Kinds) => owed' = owed]_vars
  BY DEF BothSeen, Keepers
<1> HIDE DEF Keeps
<1> QED BY <1>2, <1>3, Invariance, PTL DEF UnseenKept

-----------------------------------------------------------------------------
(* How many reports a poll still makes, none of which has more than five   *)
(* steps, and how many there are to be made of the status S by a poll p.   *)
Reporting(t, n) == IF n <= Len(t) /\ t[n].do # "clear" THEN 1 ELSE 0
Reports(t) ==
  Reporting(t, 1) + Reporting(t, 2) + Reporting(t, 3) + Reporting(t, 4) + Reporting(t, 5)
One(x, S) == IF x \in S THEN 1 ELSE 0
Load(p, S) == IF p = "amd751" THEN One("bank0", S) + One("bank1", S)
              ELSE One("ce", S) + One("ue", S)

LEMMA TwoCount ==
  ASSUME NEW S, NEW a, NEW b, a # b
  PROVE  Cardinality(S \cap {a, b}) = One(a, S) + One(b, S)
<1>1. IsFiniteSet({a}) /\ Cardinality({a}) = 1 /\ IsFiniteSet({b}) /\ Cardinality({b}) = 1
  BY FS_Singleton
<1>2. Cardinality({a, b}) = 2
  <2>1. {a, b} = {a} \cup {b} /\ b \notin {a}
    OBVIOUS
  <2>2. Cardinality({a} \cup {b}) = Cardinality({a}) + 1
    BY <1>1, <2>1, FS_AddElement
  <2> QED BY <1>1, <2>1, <2>2
<1>3. CASE a \in S /\ b \in S
  <2>1. S \cap {a, b} = {a, b}
    BY <1>3
  <2> QED BY <1>2, <1>3, <2>1 DEF One
<1>4. CASE a \in S /\ b \notin S
  <2>1. S \cap {a, b} = {a}
    BY <1>4
  <2> QED BY <1>1, <1>4, <2>1 DEF One
<1>5. CASE a \notin S /\ b \in S
  <2>1. S \cap {a, b} = {b}
    BY <1>5
  <2> QED BY <1>1, <1>5, <2>1 DEF One
<1>6. CASE a \notin S /\ b \notin S
  <2>1. S \cap {a, b} = {}
    BY <1>6
  <2> QED BY <1>6, <2>1, FS_EmptySet DEF One
<1> QED BY <1>3, <1>4, <1>5, <1>6

LEMMA LoadType ==
  ASSUME NEW p, NEW S, NEW T, T \subseteq S
  PROVE  Load(p, S) \in 0 .. 2 /\ Load(p, T) <= Load(p, S)
BY DEF Load, One

LEMMA ReportsType ==
  ASSUME NEW t
  PROVE  Reports(t) \in 0 .. 5 /\ \A n : Reporting(t, n) \in {0, 1}
<1>1. \A n : Reporting(t, n) \in {0, 1}
  BY DEF Reporting
<1> QED BY <1>1 DEF Reports

LEMMA ReportsOfFew ==
  /\ Reports(<<>>) = 0 /\ Cleared(<<>>) = {}
  /\ \A x : Reports(<<x>>) = (IF x.do = "clear" THEN 0 ELSE 1) /\ Cleared(<<x>>) = Bits(x)
<1>1. Reports(<<>>) = 0
  BY DEF Reports, Reporting
<1>2. ASSUME NEW x
      PROVE  Reports(<<x>>) = (IF x.do = "clear" THEN 0 ELSE 1) /\ Cleared(<<x>>) = Bits(x)
  <2>1. Len(<<x>>) = 1 /\ <<x>>[1] = x /\ 1 .. 1 = {1}
    OBVIOUS
  <2>2. Reports(<<x>>) = (IF x.do = "clear" THEN 0 ELSE 1)
    BY <2>1 DEF Reports, Reporting
  <2>3. Cleared(<<x>>) = Bits(x)
    BY <2>1 DEF Cleared
  <2> QED BY <2>2, <2>3
<1> QED BY <1>1, <1>2, EmptyCareful

LEMMA FiveSums ==
  ASSUME NEW r \in [1 .. 5 -> {0, 1}], NEW p \in [1 .. 5 -> {0, 1}],
         NEW q \in [1 .. 5 -> {0, 1}], NEW k \in 0 .. 5,
         \A n \in 1 .. 5 : IF n <= k THEN r[n] = p[n] /\ q[n + 5 - k] = 0
                                    ELSE r[n] = q[n - k] /\ p[n] = 0
  PROVE  r[1] + r[2] + r[3] + r[4] + r[5]
           = (p[1] + p[2] + p[3] + p[4] + p[5]) + (q[1] + q[2] + q[3] + q[4] + q[5])
OBVIOUS

LEMMA SmallSums ==
  \A m, n, o \in 0 .. 1 : m + n <= 5 /\ m + n + o <= 5 /\ (m + n) + 0 = m + n
OBVIOUS

(* Put together, their reports and their clears add up.                    *)
LEMMA JoinReports ==
  ASSUME NEW a \in Seq(Steps), NEW b \in Seq(Steps), Len(a) + Len(b) <= 5
  PROVE  /\ a \o b \in Seq(Steps) /\ Len(a \o b) = Len(a) + Len(b)
         /\ Reports(a \o b) = Reports(a) + Reports(b)
         /\ Cleared(a \o b) = Cleared(a) \cup Cleared(b)
<1> DEFINE t == a \o b
           La == Len(a)
           Lb == Len(b)
<1>1. /\ t \in Seq(Steps) /\ Len(t) = La + Lb /\ La \in Nat /\ Lb \in Nat
      /\ \A n \in 1 .. La + Lb : t[n] = IF n <= La THEN a[n] ELSE b[n - La]
  BY ConcatProperties
<1>2. La \in 0 .. 5 /\ Lb \in 0 .. 5 - La
  <2>1. La + Lb <= 5 /\ La \in Nat /\ Lb \in Nat
    BY <1>1
  <2> HIDE DEF La, Lb
  <2> QED BY <2>1
<1> HIDE DEF t
<1>3. Reports(t) = Reports(a) + Reports(b)
  <2> DEFINE r == [n \in 1 .. 5 |-> Reporting(t, n)]
             p == [n \in 1 .. 5 |-> Reporting(a, n)]
             q == [n \in 1 .. 5 |-> Reporting(b, n)]
  <2>1. La \in 0 .. 5 /\ Lb \in 0 .. 5 - La
    BY <1>2
  <2>2. r \in [1 .. 5 -> {0, 1}] /\ p \in [1 .. 5 -> {0, 1}] /\ q \in [1 .. 5 -> {0, 1}]
    BY ReportsType
  <2>3. ASSUME NEW n \in 1 .. 5
        PROVE  IF n <= La THEN r[n] = p[n] /\ q[n + 5 - La] = 0
                          ELSE r[n] = q[n - La] /\ p[n] = 0
    <3>1. CASE n <= La
      <4>1. n \in 1 .. La + Lb /\ t[n] = a[n]
        BY <1>1, <3>1
      <4>2. n + 5 - La \in 1 .. 5 /\ ~ (n + 5 - La <= Lb)
        BY <2>1, <3>1
      <4> HIDE DEF La, Lb
      <4>3. Reporting(b, n + 5 - La) = 0
        BY <4>2 DEF Reporting, Lb
      <4>4. Reporting(t, n) = Reporting(a, n)
        BY <1>1, <2>1, <3>1, <4>1 DEF Reporting, La
      <4> QED BY <3>1, <4>2, <4>3, <4>4
    <3>2. CASE ~ (n <= La)
      <4>1. n - La \in 1 .. 5 /\ (n <= La + Lb <=> n - La <= Lb)
        BY <2>1, <3>2
      <4>2. n <= La + Lb => t[n] = b[n - La]
        BY <1>1, <3>2
      <4> HIDE DEF La, Lb
      <4>3. Reporting(t, n) = Reporting(b, n - La)
        BY <1>1, <4>1, <4>2 DEF Reporting, Lb
      <4>4. Reporting(a, n) = 0
        BY <3>2 DEF Reporting, La
      <4> QED BY <3>2, <4>1, <4>3, <4>4
    <3> QED BY <3>1, <3>2
  <2>4. /\ Reports(t) = r[1] + r[2] + r[3] + r[4] + r[5]
        /\ Reports(a) = p[1] + p[2] + p[3] + p[4] + p[5]
        /\ Reports(b) = q[1] + q[2] + q[3] + q[4] + q[5]
    BY DEF Reports
  <2> HIDE DEF r, p, q
  <2>5. r[1] + r[2] + r[3] + r[4] + r[5]
          = (p[1] + p[2] + p[3] + p[4] + p[5]) + (q[1] + q[2] + q[3] + q[4] + q[5])
    <3> HIDE DEF La
    <3> QED BY <2>1, <2>2, <2>3, FiveSums
  <2> QED BY <2>4, <2>5
<1>4. Cleared(t) = Cleared(a) \cup Cleared(b)
  <2>1. \A n \in 1 .. La : n \in 1 .. Len(t) /\ t[n] = a[n]
    BY <1>1
  <2>2. \A n \in 1 .. Lb : n + La \in 1 .. Len(t) /\ t[n + La] = b[n]
    BY <1>1
  <2>3. \A n \in 1 .. Len(t) : n \in 1 .. La \/ (n - La \in 1 .. Lb /\ t[n] = b[n - La])
    BY <1>1
  <2>4. Cleared(t) \subseteq Cleared(a) \cup Cleared(b)
    BY <2>1, <2>3 DEF Cleared
  <2>5. Cleared(a) \subseteq Cleared(t)
    BY <2>1 DEF Cleared
  <2>6. Cleared(b) \subseteq Cleared(t)
    BY <2>2 DEF Cleared
  <2> QED BY <2>4, <2>5, <2>6
<1> QED BY <1>1, <1>3, <1>4 DEF t

(* A step less.                                                            *)
LEMMA TailReports ==
  ASSUME NEW t \in Seq(Steps), t # <<>>, Len(t) <= 5
  PROVE  /\ Len(Tail(t)) <= 5
         /\ Reports(t) = Reports(Tail(t)) + (IF Head(t).do = "clear" THEN 0 ELSE 1)
         /\ Cleared(t) = Bits(Head(t)) \cup Cleared(Tail(t))
<1> DEFINE h == <<Head(t)>>
<1>1. Head(t) \in Steps /\ Tail(t) \in Seq(Steps) /\ Len(t) \in Nat
      /\ Len(Tail(t)) = Len(t) - 1
  BY TailType
<1>2. t = h \o Tail(t) /\ h \in Seq(Steps) /\ Len(h) = 1
  <2>1. \A x \in Steps : <<x>> \in Seq(Steps) /\ Len(<<x>>) = 1 /\ <<x>>[1] = x
    OBVIOUS
  <2>2. h \in Seq(Steps) /\ Len(h) = 1 /\ h[1] = Head(t)
    BY <1>1, <2>1
  <2> HIDE DEF h
  <2>3. /\ h \o Tail(t) \in Seq(Steps) /\ Len(h \o Tail(t)) = 1 + Len(Tail(t))
        /\ \A i \in 1 .. 1 + Len(Tail(t)) :
             (h \o Tail(t))[i] = IF i <= 1 THEN h[i] ELSE Tail(t)[i - 1]
    <3>1. /\ h \o Tail(t) \in Seq(Steps) /\ Len(h \o Tail(t)) = Len(h) + Len(Tail(t))
          /\ \A i \in 1 .. Len(h) + Len(Tail(t)) :
               (h \o Tail(t))[i] = IF i <= Len(h) THEN h[i] ELSE Tail(t)[i - Len(h)]
      BY <1>1, <2>2, ConcatProperties, Zenon
    <3> QED BY <2>2, <3>1
  <2>4. Len(t) = Len(h \o Tail(t))
    BY <1>1, <2>3, TailType
  <2>5. ASSUME NEW n \in 1 .. Len(t) PROVE t[n] = (h \o Tail(t))[n]
    <3>1. n = 1 \/ (n - 1 \in 1 .. Len(Tail(t)) /\ Tail(t)[n - 1] = t[n])
      BY TailType
    <3>2. Head(t) = t[1]
      BY TailType
    <3> QED BY <1>1, <2>2, <2>3, <2>4, <3>1, <3>2
  <2>6. t = h \o Tail(t)
    BY <2>3, <2>4, <2>5, SeqEqual
  <2> QED BY <2>2, <2>6
<1>3. Reports(h) = (IF Head(t).do = "clear" THEN 0 ELSE 1) /\ Cleared(h) = Bits(Head(t))
  BY ReportsOfFew
<1> HIDE DEF h
<1>4. Reports(h \o Tail(t)) = Reports(h) + Reports(Tail(t))
      /\ Cleared(h \o Tail(t)) = Cleared(h) \cup Cleared(Tail(t))
  <2>1. Len(h) + Len(Tail(t)) <= 5
    BY <1>1, <1>2
  <2> QED BY <1>1, <1>2, <2>1, JoinReports
<1>5. Reports(Tail(t)) \in 0 .. 5 /\ Reports(h) \in 0 .. 5
  BY ReportsType
<1>6. Reports(t) = Reports(h) + Reports(Tail(t)) /\ Cleared(t) = Cleared(h) \cup Cleared(Tail(t))
  BY <1>2, <1>4, Zenon
<1>7. Len(Tail(t)) <= 5
  BY <1>1
<1>8. Reports(h) + Reports(Tail(t)) = Reports(Tail(t)) + Reports(h)
  BY <1>5
<1> QED BY <1>3, <1>6, <1>7, <1>8

(* A poll makes no more reports than there are errors in what it has read, *)
(* and then clears them all.                                               *)
Spends(t, p, s) ==
  /\ t \in Seq(Steps) /\ Len(t) <= 5
  /\ Reports(t) = 0 \/ (Reports(t) <= Load(p, s) /\ Load(p, s \ Cleared(t)) = 0)

LEMMA PairCount ==
  ASSUME NEW x \in Steps, x.do # "clear", Bits(x) = {}, NEW bits \in SUBSET StatusBits
  PROVE  /\ <<x, Clear(bits)>> \in Seq(Steps) /\ Len(<<x, Clear(bits)>>) = 2
         /\ Reports(<<x, Clear(bits)>>) = 1 /\ Cleared(<<x, Clear(bits)>>) = bits
<1> DEFINE y == Clear(bits)
<1>1. y \in Steps /\ y.do = "clear" /\ Bits(y) = bits
  BY ClearType DEF Clear, Bits
<1> HIDE DEF y
<1>2. \A z \in Steps : <<z>> \in Seq(Steps) /\ Len(<<z>>) = 1
  OBVIOUS
<1>3. <<x, y>> = <<x>> \o <<y>>
  OBVIOUS
<1>4. /\ Reports(<<x>>) = 1 /\ Reports(<<y>>) = 0 /\ Cleared(<<x>>) = {} /\ Cleared(<<y>>) = bits
  BY <1>1, ReportsOfFew
<1>5. Len(<<x>>) + Len(<<y>>) = 2 /\ Len(<<x>>) + Len(<<y>>) <= 5
  BY <1>1, <1>2
<1>6. /\ <<x>> \o <<y>> \in Seq(Steps) /\ Len(<<x>> \o <<y>>) = 2
      /\ Reports(<<x>> \o <<y>>) = Reports(<<x>>) + Reports(<<y>>)
      /\ Cleared(<<x>> \o <<y>>) = Cleared(<<x>>) \cup Cleared(<<y>>)
  BY <1>1, <1>2, <1>5, JoinReports, Zenon
<1>7. Reports(<<x>>) + Reports(<<y>>) = 1
  BY <1>4
<1> QED BY <1>3, <1>4, <1>6, <1>7 DEF y

LEMMA PairReports ==
  ASSUME NEW q \in BOOLEAN, NEW x \in {Report(TRUE), Report(FALSE), ReportEap},
         NEW bits \in SUBSET StatusBits
  PROVE  /\ When(q, <<x, Clear(bits)>>) \in Seq(Steps)
         /\ Len(When(q, <<x, Clear(bits)>>)) = IF q THEN 2 ELSE 0
         /\ Reports(When(q, <<x, Clear(bits)>>)) = IF q THEN 1 ELSE 0
         /\ Cleared(When(q, <<x, Clear(bits)>>)) = IF q THEN bits ELSE {}
         /\ When(q, <<x>>) \in Seq(Steps)
         /\ Len(When(q, <<x>>)) = IF q THEN 1 ELSE 0
         /\ Reports(When(q, <<x>>)) = IF q THEN 1 ELSE 0
         /\ Cleared(When(q, <<x>>)) = {}
         /\ When(q, <<Clear(bits)>>) \in Seq(Steps)
         /\ Len(When(q, <<Clear(bits)>>)) = IF q THEN 1 ELSE 0
         /\ Reports(When(q, <<Clear(bits)>>)) = 0
         /\ Cleared(When(q, <<Clear(bits)>>)) = IF q THEN bits ELSE {}
<1> DEFINE y == Clear(bits)
<1>1. /\ x \in Steps /\ y \in Steps /\ x.do # "clear" /\ y.do = "clear"
      /\ Bits(x) = {} /\ Bits(y) = bits
  <2>1. /\ Report(TRUE) \in Steps /\ Report(FALSE) \in Steps /\ ReportEap \in Steps
        /\ Report(TRUE).do = "report" /\ Report(FALSE).do = "report"
        /\ ReportEap.do = "report by eap"
    BY ReportType DEF Report, ReportEap, Steps
  <2>2. y \in Steps /\ y.do = "clear" /\ y.bits = bits
    BY ClearType DEF Clear
  <2> HIDE DEF y
  <2>3. x \in Steps /\ x.do # "clear"
    BY <2>1
  <2> QED BY <2>2, <2>3 DEF Bits
<1> HIDE DEF y
<1>2. \A z \in Steps : <<z>> \in Seq(Steps) /\ Len(<<z>>) = 1
  OBVIOUS
<1>4. /\ Reports(<<x>>) = 1 /\ Reports(<<y>>) = 0 /\ Cleared(<<x>>) = {} /\ Cleared(<<y>>) = bits
  BY <1>1, ReportsOfFew
<1>5. /\ <<x, y>> \in Seq(Steps) /\ Len(<<x, y>>) = 2 /\ Reports(<<x, y>>) = 1
      /\ Cleared(<<x, y>>) = bits
  BY <1>1, PairCount DEF y
<1>6. \A t : When(TRUE, t) = t /\ When(FALSE, t) = <<>>
  BY DEF When, Nothing
<1>7. Len(<<>>) = 0 /\ <<>> \in Seq(Steps)
  OBVIOUS
<1>8. CASE q = TRUE
  BY <1>1, <1>2, <1>4, <1>5, <1>6, <1>8 DEF y
<1>9. CASE q = FALSE
  BY <1>6, <1>7, <1>9, ReportsOfFew
<1> QED BY <1>8, <1>9

LEMMA OnceSpends ==
  ASSUME NEW p, p # "amd751", NEW s \in SUBSET StatusBits, NEW bits \in SUBSET StatusBits,
         s \cap Kinds \subseteq bits
  PROVE  Spends(Once(s, bits), p, s)
<1>1. CASE s \cap Kinds # {}
  <2> DEFINE x == Report("ue" \notin s)
             t == <<x, Clear(bits)>>
  <2>1. x \in Steps /\ x.do # "clear" /\ Bits(x) = {}
    BY ReportType DEF Report, Bits, Steps
  <2>2. Once(s, bits) = t
    BY <1>1 DEF Once, When
  <2> HIDE DEF x
  <2>3. t \in Seq(Steps) /\ Len(t) = 2 /\ Reports(t) = 1 /\ Cleared(t) = bits
    BY <2>1, PairCount
  <2>4. Load(p, s) >= 1 /\ Load(p, s \ bits) = 0
    BY <1>1 DEF Load, One, Kinds
  <2> HIDE DEF t
  <2> QED BY <2>2, <2>3, <2>4 DEF Spends
<1>2. CASE s \cap Kinds = {}
  <2>1. Once(s, bits) = <<>>
    BY <1>2 DEF Once, When, Nothing
  <2>2. <<>> \in Seq(Steps) /\ Len(<<>>) = 0
    OBVIOUS
  <2> QED BY <2>1, <2>2, ReportsOfFew DEF Spends
<1> QED BY <1>1, <1>2

(* The polls that report each kind with a clear of its own.                *)
LEMMA EachSpends ==
  ASSUME NEW p, p # "amd751", NEW s \in SUBSET StatusBits,
         NEW ce \in SUBSET StatusBits, NEW ue \in SUBSET StatusBits,
         "ce" \in s => "ce" \in ce, "ue" \in s => "ue" \in ue,
         NEW q \in BOOLEAN, NEW last \in SUBSET StatusBits,
         NEW t, t = When("ce" \in s, <<Report(TRUE), Clear(ce)>>)
                      \o When("ue" \in s, <<Report(FALSE), Clear(ue)>>)
                      \o When(q, <<Clear(last)>>)
  PROVE  Spends(t, p, s)
<1> DEFINE a == When("ce" \in s, <<Report(TRUE), Clear(ce)>>)
           b == When("ue" \in s, <<Report(FALSE), Clear(ue)>>)
           c == When(q, <<Clear(last)>>)
<1>1. ("ce" \in s) \in BOOLEAN /\ ("ue" \in s) \in BOOLEAN
  OBVIOUS
<1>2. /\ a \in Seq(Steps) /\ Len(a) = (IF "ce" \in s THEN 2 ELSE 0)
      /\ Reports(a) = One("ce", s) /\ Cleared(a) = IF "ce" \in s THEN ce ELSE {}
  BY <1>1, PairReports DEF One
<1>3. /\ b \in Seq(Steps) /\ Len(b) = (IF "ue" \in s THEN 2 ELSE 0)
      /\ Reports(b) = One("ue", s) /\ Cleared(b) = IF "ue" \in s THEN ue ELSE {}
  BY <1>1, PairReports DEF One
<1>4. /\ c \in Seq(Steps) /\ Len(c) = (IF q THEN 1 ELSE 0) /\ Reports(c) = 0
  BY PairReports
<1> HIDE DEF a, b, c
<1>5. /\ a \o b \in Seq(Steps) /\ Len(a \o b) = Len(a) + Len(b)
      /\ Reports(a \o b) = Reports(a) + Reports(b) /\ Cleared(a \o b) = Cleared(a) \cup Cleared(b)
  <2>1. Len(a) + Len(b) <= 5
    BY <1>2, <1>3
  <2> QED BY <1>2, <1>3, <2>1, JoinReports
<1>6. Len(a \o b) <= 4 /\ Len(c) <= 1
  BY <1>2, <1>3, <1>4, <1>5
<1>7. /\ (a \o b) \o c \in Seq(Steps) /\ Len((a \o b) \o c) <= 5
      /\ Reports((a \o b) \o c) = Reports(a \o b) + Reports(c)
      /\ Cleared((a \o b) \o c) = Cleared(a \o b) \cup Cleared(c)
  <2>1. Len(a \o b) + Len(c) <= 5
    BY <1>2, <1>3, <1>4, <1>6
  <2> QED BY <1>4, <1>5, <2>1, JoinReports
<1>8. t = (a \o b) \o c
  BY DEF a, b, c
<1>9. Reports(t) = Load(p, s) /\ {"ce", "ue"} \cap s \subseteq Cleared(t)
  <2>1. One("ce", s) \in 0 .. 1 /\ One("ue", s) \in 0 .. 1
    BY DEF One
  <2>2. Reports(t) = (One("ce", s) + One("ue", s)) + 0
    BY <1>2, <1>3, <1>4, <1>5, <1>7, <1>8
  <2>3. Load(p, s) = One("ce", s) + One("ue", s)
    BY DEF Load
  <2>4. Cleared(t) = (Cleared(a) \cup Cleared(b)) \cup Cleared(c)
    BY <1>5, <1>7, <1>8
  <2>5. "ce" \in s => "ce" \in Cleared(t)
    BY <1>2, <2>4
  <2>6. "ue" \in s => "ue" \in Cleared(t)
    BY <1>3, <2>4
  <2>7. {"ce", "ue"} \cap s \subseteq Cleared(t)
    BY <2>5, <2>6
  <2>8. Reports(t) = One("ce", s) + One("ue", s)
    BY <2>1, <2>2, SmallSums, Zenon
  <2> QED BY <2>3, <2>7, <2>8, Zenon
<1>10. Load(p, s \ Cleared(t)) = 0
  <2> DEFINE rest == s \ Cleared(t)
  <2>1. "ce" \notin rest /\ "ue" \notin rest
    BY <1>9
  <2> HIDE DEF rest
  <2>2. One("ce", rest) = 0 /\ One("ue", rest) = 0
    BY <2>1 DEF One
  <2>3. Load(p, rest) = 0
    BY <2>2 DEF Load
  <2> QED BY <2>3 DEF rest
<1>11. Reports(t) <= Load(p, s)
  BY <1>9, LoadType
<1> QED BY <1>7, <1>8, <1>10, <1>11 DEF Spends

LEMMA PollSpends ==
  ASSUME NEW c \in Chips, NEW s \in SUBSET StatusBits
  PROVE  Spends(poll_of(c, s), controllers[c].poll, s)
<1> DEFINE p == controllers[c].poll
           t == poll_of(c, s)
<1>1. p \in Polls
  BY RowType
<1>2. /\ Kinds \in SUBSET StatusBits /\ s \cap Kinds \in SUBSET StatusBits
      /\ {"nerr"} \in SUBSET StatusBits /\ {Eap.ce, Eap.ue} \in SUBSET StatusBits
      /\ {"ce"} \in SUBSET StatusBits /\ {"ue"} \in SUBSET StatusBits
      /\ Kinds \cup Banks \in SUBSET StatusBits
  BY DEF StatusBits, Kinds
<1>3. <<>> \in Seq(Steps) /\ Len(<<>>) = 0 /\ \A a \in Seq(Steps) : a \o <<>> = a
  <2>1. <<>> \in Seq(Steps) /\ Len(<<>>) = 0
    OBVIOUS
  <2>2. \A a \in Seq(Steps) : a \o <<>> = a
    BY ConcatEmptySeq
  <2> QED BY <2>1, <2>2
<1>4. CASE p = "nothing"
  BY <1>3, <1>4, ReportsOfFew DEF poll_of, Nothing, Spends
<1>5. CASE p \in {"i840", "i875", "i845", "i820", "i850", "i860"}
  BY <1>2, <1>5, OnceSpends DEF poll_of, poll_i840, poll_i875, poll_i845, poll_i820, poll_i850,
     poll_i860
<1>6. CASE p = "iE7221"
  <2>1. CASE Kinds \subseteq s
    <3>1. t = <<Clear(s)>>
      BY <1>6, <2>1, PollBoth
    <3>2. Clear(s) \in Steps /\ Clear(s).do = "clear"
      BY ClearType DEF Clear
    <3> HIDE DEF t
    <3>3. t \in Seq(Steps) /\ Len(t) = 1
      BY <3>1, <3>2
    <3>4. Reports(t) = 0
      BY <3>1, <3>2, ReportsOfFew
    <3>5. Spends(t, p, s)
      BY <3>3, <3>4 DEF Spends
    <3> QED BY <3>5 DEF t
  <2>2. CASE ~ (Kinds \subseteq s)
    BY <1>2, <1>6, <2>2, OnceSpends DEF poll_of, poll_iE7221
  <2> QED BY <2>1, <2>2
<1>7. CASE p = "amd64"
  <2> DEFINE a == When("ce" \in s, <<Report(TRUE), Clear(Kinds)>>)
             b == When("ue" \in s, <<Report(FALSE), Clear(Kinds)>>)
             c0 == When(FALSE, <<Clear(Kinds)>>)
  <2>1. c0 = <<>>
    BY DEF When, Nothing
  <2>2. a \in Seq(Steps) /\ b \in Seq(Steps)
    <3>1. ("ce" \in s) \in BOOLEAN /\ ("ue" \in s) \in BOOLEAN
      OBVIOUS
    <3> QED BY <1>2, <3>1, PairReports
  <2>3. t = a \o b
    BY <1>7 DEF poll_of, poll_amd64
  <2>4. (a \o b) \o c0 = a \o b
    <3> HIDE DEF a, b, c0
    <3>1. a \o b \in Seq(Steps)
      BY <2>2, ConcatProperties
    <3> QED BY <1>3, <2>1, <3>1
  <2>5. t = a \o b \o c0
    BY <2>3, <2>4
  <2>6. "ce" \in Kinds /\ "ue" \in Kinds
    BY DEF Kinds
  <2> QED BY <1>2, <1>7, <2>5, <2>6, EachSpends
<1>8. CASE p = "iE7xxx"
  <2>1. ("ce" \in s => "ce" \in s \cap Kinds) /\ ("ue" \in s => "ue" \in s \cap Kinds)
    BY DEF Kinds
  <2>2. t = When("ce" \in s, <<Report(TRUE), Clear(s \cap Kinds)>>)
             \o When("ue" \in s, <<Report(FALSE), Clear(s \cap Kinds)>>)
             \o When("nerr" \in s, <<Clear({"nerr"})>>)
    BY <1>8 DEF poll_of, poll_iE7xxx
  <2>3. ("nerr" \in s) \in BOOLEAN /\ p # "amd751"
    BY <1>8
  <2> HIDE DEF p, t
  <2>4. Spends(t, p, s)
    BY <1>2, <2>1, <2>2, <2>3, EachSpends
  <2> QED BY <2>4 DEF p, t
<1>9. CASE p = "iE7520"
  <2>1. "ce" \in {"ce"} /\ "ue" \in {"ue"}
    OBVIOUS
  <2>2. t = When("ce" \in s, <<Report(TRUE), Clear({"ce"})>>)
             \o When("ue" \in s, <<Report(FALSE), Clear({"ue"})>>)
             \o When("nerr" \in s, <<Clear({"nerr"})>>)
    BY <1>9 DEF poll_of, poll_iE7520
  <2>3. ("nerr" \in s) \in BOOLEAN /\ p # "amd751"
    BY <1>9
  <2> HIDE DEF p, t
  <2>4. Spends(t, p, s)
    BY <1>2, <2>1, <2>2, <2>3, EachSpends
  <2> QED BY <2>4 DEF p, t
<1>10. CASE p = "i440gx"
  <2> DEFINE q == (s \cap Kinds # {})
             x == <<ReportEap, Clear(Kinds)>>
             y == <<Clear({Eap.ce, Eap.ue})>>
             a == When(q, x)
             b == When(q, y)
  <2>1. q \in BOOLEAN
    OBVIOUS
  <2>2. t = When(q, <<ReportEap, Clear(Kinds), Clear({Eap.ce, Eap.ue})>>)
    BY <1>10 DEF poll_of, poll_i440gx
  <2>3. <<ReportEap, Clear(Kinds), Clear({Eap.ce, Eap.ue})>> = x \o y
    <3>1. \A e, f, g : <<e, f, g>> = <<e, f>> \o <<g>>
      OBVIOUS
    <3> QED BY <3>1
  <2>4. /\ a \in Seq(Steps) /\ Len(a) = (IF q THEN 2 ELSE 0)
        /\ Reports(a) = (IF q THEN 1 ELSE 0) /\ Cleared(a) = IF q THEN Kinds ELSE {}
    <3> HIDE DEF q
    <3> QED BY ZenonT(30), <1>2, <2>1, PairReports
  <2>5. /\ b \in Seq(Steps) /\ Len(b) = (IF q THEN 1 ELSE 0)
        /\ Reports(b) = 0 /\ Cleared(b) = IF q THEN {Eap.ce, Eap.ue} ELSE {}
    <3> HIDE DEF q
    <3>1. ReportEap \in {Report(TRUE), Report(FALSE), ReportEap}
      OBVIOUS
    <3> QED BY <1>2, <2>1, <3>1, PairReports
  <2>6. q => Load(p, s) >= 1
    BY <1>10 DEF Load, One, Kinds
  <2>7. Load(p, s \ Kinds) = 0 /\ Load(p, s \ (Kinds \cup {Eap.ce, Eap.ue})) = 0
    BY <1>10 DEF Load, One, Kinds
  <2>8. CASE q
    <3>1. t = a \o b
      BY <2>2, <2>3, <2>8 DEF When
    <3> HIDE DEF q, x, y, a, b, t, p
    <3>2. Len(a) = 2 /\ Len(b) = 1 /\ Reports(a) = 1 /\ Reports(b) = 0
      BY <2>4, <2>5, <2>8
    <3>3. /\ a \o b \in Seq(Steps) /\ Len(a \o b) = Len(a) + Len(b)
          /\ Reports(a \o b) = Reports(a) + Reports(b)
          /\ Cleared(a \o b) = Cleared(a) \cup Cleared(b)
      <4>1. Len(a) + Len(b) <= 5
        BY <3>2
      <4> QED BY <2>4, <2>5, <4>1, JoinReports, Zenon
    <3>4. t \in Seq(Steps) /\ Len(t) <= 5 /\ Reports(t) = 1
      BY <3>1, <3>2, <3>3
    <3>5. Cleared(t) = Kinds \cup {Eap.ce, Eap.ue}
      BY <2>4, <2>5, <2>8, <3>1, <3>3
    <3>6. Spends(t, p, s)
      BY <2>6, <2>7, <2>8, <3>4, <3>5, LoadType DEF Spends
    <3> QED BY <3>6 DEF t, p
  <2>9. CASE ~ q
    <3>1. t = <<>>
      BY <2>2, <2>9 DEF When, Nothing
    <3> QED BY <1>3, <3>1, ReportsOfFew DEF Spends
  <2> QED BY <2>8, <2>9
<1>11. CASE p = "amd76x"
  <2> DEFINE a == When("ue" \in s, <<Report(TRUE)>>)
             b == When("ce" \in s, <<Report(FALSE)>>)
             q == (s \cap Kinds # {})
             c0 == When(q, <<Clear(s)>>)
  <2>1. /\ a \in Seq(Steps) /\ Len(a) = (IF "ue" \in s THEN 1 ELSE 0)
        /\ Reports(a) = One("ue", s) /\ Cleared(a) = {}
    <3>1. ("ue" \in s) \in BOOLEAN
      OBVIOUS
    <3> QED BY <1>2, <3>1, PairReports DEF One
  <2>2. /\ b \in Seq(Steps) /\ Len(b) = (IF "ce" \in s THEN 1 ELSE 0)
        /\ Reports(b) = One("ce", s) /\ Cleared(b) = {}
    <3>1. ("ce" \in s) \in BOOLEAN
      OBVIOUS
    <3> QED BY <1>2, <3>1, PairReports DEF One
  <2>3. /\ c0 \in Seq(Steps) /\ Len(c0) = (IF q THEN 1 ELSE 0)
        /\ Reports(c0) = 0 /\ Cleared(c0) = IF q THEN s ELSE {}
    <3>1. q \in BOOLEAN /\ ReportEap \in {Report(TRUE), Report(FALSE), ReportEap}
      OBVIOUS
    <3> HIDE DEF q
    <3> QED BY <3>1, PairReports
  <2>4. t = (a \o b) \o c0
    BY <1>11 DEF poll_of, poll_amd76x
  <2>5. q \/ (One("ce", s) = 0 /\ One("ue", s) = 0)
    BY DEF One, Kinds
  <2>6. Load(p, s) = One("ce", s) + One("ue", s) /\ Load(p, s \ s) = 0
    <3>1. s \ s = {} /\ One("ce", {}) = 0 /\ One("ue", {}) = 0
      BY DEF One
    <3>2. Load(p, {}) = 0 /\ Load(p, s) = One("ce", s) + One("ue", s)
      BY <1>11, <3>1 DEF Load
    <3> QED BY <3>1, <3>2
  <2> HIDE DEF a, b, c0, q, t, p
  <2>7. One("ce", s) \in {0, 1} /\ One("ue", s) \in {0, 1}
    BY DEF One
  <2>8. Len(a) \in 0 .. 1 /\ Len(b) \in 0 .. 1 /\ Len(c0) \in 0 .. 1
    BY <2>1, <2>2, <2>3
  <2>9. /\ a \o b \in Seq(Steps) /\ Len(a \o b) = Len(a) + Len(b)
        /\ Reports(a \o b) = Reports(a) + Reports(b)
        /\ Cleared(a \o b) = Cleared(a) \cup Cleared(b)
    <3>1. Len(a) + Len(b) <= 5
      BY <2>8, SmallSums
    <3> QED BY <2>1, <2>2, <3>1, JoinReports, Zenon
  <2>10. /\ t \in Seq(Steps) /\ Len(t) = Len(a \o b) + Len(c0)
         /\ Reports(t) = Reports(a \o b) + Reports(c0)
         /\ Cleared(t) = Cleared(a \o b) \cup Cleared(c0)
    <3>1. Len(a \o b) + Len(c0) <= 5
      BY <2>8, <2>9, SmallSums
    <3> QED BY <2>3, <2>4, <2>9, <3>1, JoinReports, Zenon
  <2>11. Len(t) <= 5 /\ Reports(t) = One("ce", s) + One("ue", s)
    BY <2>1, <2>2, <2>3, <2>7, <2>8, <2>9, <2>10
  <2>12. q => Cleared(t) = s
    BY <2>1, <2>2, <2>3, <2>9, <2>10
  <2>13. CASE q
    <3>1. Reports(t) <= Load(p, s)
      BY <2>6, <2>7, <2>11
    <3>2. Load(p, s \ Cleared(t)) = 0
      BY <2>6, <2>12, <2>13
    <3>3. Spends(t, p, s)
      BY <2>10, <2>11, <3>1, <3>2 DEF Spends
    <3> QED BY <3>3 DEF t, p
  <2>14. CASE ~ q
    <3>1. Reports(t) = 0
      BY <2>5, <2>11, <2>14
    <3>2. Spends(t, p, s)
      BY <2>10, <2>11, <3>1 DEF Spends
    <3> QED BY <3>2 DEF t, p
  <2> QED BY <2>13, <2>14
<1>12. CASE p = "amd751"
  <2> DEFINE x == Report("ue" \notin s)
             count == Cardinality(s \cap Banks)
             all == [n \in 1 .. count |-> x]
             y == <<Clear(Kinds \cup Banks)>>
  <2>1. x \in Steps /\ x.do = "report"
    BY ReportType DEF Report, Steps
  <2>2. /\ count \in 0 .. 2 /\ count = Load(p, s)
    <3>1. count = One("bank0", s) + One("bank1", s)
      BY TwoCount DEF Banks
    <3> HIDE DEF count
    <3> QED BY <1>12, <3>1 DEF Load, One
  <2>3. /\ y \in Seq(Steps) /\ Len(y) = 1 /\ Reports(y) = 0 /\ Cleared(y) = Kinds \cup Banks
    <3>1. Clear(Kinds \cup Banks) \in Steps /\ Clear(Kinds \cup Banks).do = "clear"
          /\ Clear(Kinds \cup Banks).bits = Kinds \cup Banks
      BY <1>2, ClearType DEF Clear
    <3> DEFINE z == Clear(Kinds \cup Banks)
    <3> HIDE DEF z
    <3>2. <<z>> \in Seq(Steps) /\ Len(<<z>>) = 1
      BY <3>1 DEF z
    <3>3. Reports(<<z>>) = 0 /\ Cleared(<<z>>) = Kinds \cup Banks
      BY <3>1, ReportsOfFew DEF z, Bits
    <3> QED BY <3>2, <3>3 DEF z
  <2>4. t = IF s \cap Kinds # {} THEN all \o y ELSE <<>>
    BY <1>12 DEF poll_of, poll_amd751, When, Nothing
  <2>5. Load(p, s \ (Kinds \cup Banks)) = 0
    BY <1>12 DEF Load, One, Banks
  <2> HIDE DEF x
  <2>6. all \in Seq(Steps) /\ Len(all) = count /\ \A n \in 1 .. count : all[n] = x
    <3> HIDE DEF count
    <3>1. all \in [1 .. count -> Steps]
      BY <2>1
    <3>2. all \in Seq(Steps) /\ Len(all) = count
      BY <2>2, <3>1, SeqDef
    <3> QED BY <3>2
  <2> HIDE DEF count, all, y, t, p
  <2>7. Reports(all) = count
    <3>2. CASE count = 0
      BY <2>6, <3>2 DEF Reports, Reporting
    <3>3. CASE count = 1
      <4>1. all[1] = x
        BY <2>6, <3>3
      <4> QED BY <2>1, <2>6, <3>3, <4>1 DEF Reports, Reporting
    <3>4. CASE count = 2
      <4>1. all[1] = x /\ all[2] = x
        BY <2>6, <3>4
      <4> QED BY <2>1, <2>6, <3>4, <4>1 DEF Reports, Reporting
    <3> QED BY <2>2, <3>2, <3>3, <3>4
  <2>8. CASE s \cap Kinds # {}
    <3>1. t = all \o y
      BY <2>4, <2>8
    <3>2. /\ all \o y \in Seq(Steps) /\ Len(all \o y) = Len(all) + Len(y)
          /\ Reports(all \o y) = Reports(all) + Reports(y)
          /\ Cleared(all \o y) = Cleared(all) \cup Cleared(y)
      <4>1. Len(all) + Len(y) <= 5
        BY <2>2, <2>3, <2>6
      <4> QED BY <2>3, <2>6, <4>1, JoinReports, Zenon
    <3>3. t \in Seq(Steps) /\ Len(t) <= 5 /\ Reports(t) = Load(p, s)
      BY <2>2, <2>3, <2>6, <2>7, <3>1, <3>2
    <3>4. Cleared(all) = {}
      BY <2>1, <2>6 DEF Cleared, Bits
    <3>5. Load(p, s \ Cleared(t)) = 0
      BY <2>3, <2>5, <3>1, <3>2, <3>4
    <3>6. Reports(t) <= Load(p, s)
      BY <3>3, LoadType
    <3>7. Spends(t, p, s)
      BY <3>3, <3>5, <3>6 DEF Spends
    <3> QED BY <3>7 DEF t, p
  <2>9. CASE s \cap Kinds = {}
    <3>1. t = <<>>
      BY <2>4, <2>9
    <3>2. Spends(t, p, s)
      BY <1>3, <3>1, ReportsOfFew DEF Spends
    <3> QED BY <3>2 DEF t, p
  <2> QED BY <2>8, <2>9
<1> QED BY <1>1, <1>4, <1>5, <1>6, <1>7, <1>8, <1>9, <1>10, <1>11, <1>12 DEF Polls
-----------------------------------------------------------------------------
(* A controller that is watched owes no more reports than it has latched   *)
(* errors since it was set up: those made, those the poll in progress is   *)
(* going to make, and those of the bits it leaves.                         *)
Watching == "detect" \in mode /\ Polling # "nothing"
ToCome   == IF Watching THEN Load(Polling, status \ Cleared(todo)) ELSE 0
CountInv ==
  /\ controllers[board.chip].poll # "amd751" => status \cap Banks = {}
  /\ fresh \in Nat /\ Len(todo) <= 5
  /\ at = "boot" => ecc_ecount = 0
  /\ Running => ecc_ecount + Reports(todo) + ToCome <= fresh

LEMMA CountTypes ==
  ASSUME Inv
  PROVE  /\ ecc_ecount \in Nat /\ Reports(todo) \in 0 .. 5 /\ ToCome \in 0 .. 2
         /\ index \in {"unknown", board.chip}
<1>1. ecc_ecount \in Nat /\ index \in {"unknown", board.chip}
  BY DEF Inv, TypeOK
<1>2. ToCome \in 0 .. 2
  BY LoadType DEF ToCome
<1> QED BY <1>1, <1>2, ReportsType

(* Only the AMD 751 has banks, and its set-up forgets nothing.             *)
LEMMA CleanRow ==
  ASSUME NEW c \in Chips, SetUpClean(c)
  PROVE  controllers[c].poll # "amd751"
BY DEF SetUpClean, Chips, controllers, Row

LEMMA CleanSetUp ==
  ASSUME NEW c \in Chips, SetUpClean(c), NEW b \in Board, NEW m, NEW s \in setup_ecc(c, b, m)
  PROVE  Kinds \subseteq s.clears \/ "detect" \notin s.mode
<1>1. controllers[c].setup \in
        {"amd64", "k10", "iE7205", "iE7xxx", "iE7520", "i860", "i875", "i925"}
  BY DEF SetUpClean
<1> USE DEF Sets, All
<1>2. CASE controllers[c].setup \in {"amd64", "k10", "iE7205"}
  BY <1>2 DEF setup_ecc, setup_amd64, setup_k10, setup_iE7205
<1>3. CASE controllers[c].setup \in {"iE7xxx", "iE7520", "i860", "i875"}
  BY <1>3 DEF setup_ecc, setup_iE7xxx, setup_iE7520, setup_i860, setup_i875
<1>4. CASE controllers[c].setup = "i925"
  BY <1>4 DEF setup_ecc, setup_i925, NONE
<1> QED BY <1>1, <1>2, <1>3, <1>4

(* A set-up starts the count at what it leaves to be polled.               *)
LEMMA CountSetUp ==
  ASSUME Inv, CountInv, find_controller
  PROVE  CountInv'
<1>1. /\ at = "boot" /\ at' = "test" /\ todo' = <<>> /\ todo = <<>> /\ board \in Board
      /\ index' \in Chips /\ index' \in {"unknown", board.chip} /\ status' \subseteq status
      /\ board' = board /\ ecc_ecount' = ecc_ecount
  BY SetUpStep
<1>2. fresh' = IF SetUpClean(index') THEN 0 ELSE Outstanding(status')
  BY DEF find_controller
<1>3. controllers[board.chip].poll # "amd751" => status' \cap Banks = {}
  BY <1>1 DEF CountInv
<1>4. /\ Outstanding(status') \in Nat
      /\ status' \cap Banks # {} => Outstanding(status') = One("bank0", status') + One("bank1", status')
      /\ status' \cap Banks = {} => Outstanding(status') = One("ce", status') + One("ue", status')
  <2> DEFINE r == status'
  <2>1. Cardinality(r \cap {"bank0", "bank1"}) = One("bank0", r) + One("bank1", r)
    BY TwoCount
  <2>2. Cardinality(r \cap {"ce", "ue"}) = One("ce", r) + One("ue", r)
    BY TwoCount
  <2>3. \A x : One(x, r) \in 0 .. 1
    BY DEF One
  <2> HIDE DEF r
  <2>4. CASE r \cap Banks = {}
    <3>1. Outstanding(r) = Cardinality(r \cap {"ce", "ue"})
      BY <2>4 DEF Outstanding, Kinds
    <3>2. Outstanding(r) = One("ce", r) + One("ue", r)
      BY <3>1, <2>2
    <3>3. Outstanding(r) \in Nat
      BY <2>3, <3>2
    <3> QED BY <2>4, <3>2, <3>3 DEF r
  <2>5. CASE r \cap Banks # {}
    <3>1. Outstanding(r) = Cardinality(r \cap {"bank0", "bank1"})
      BY <2>5 DEF Outstanding, Banks
    <3>2. Outstanding(r) = One("bank0", r) + One("bank1", r)
      BY <3>1, <2>1
    <3>3. Outstanding(r) \in Nat
      BY <2>3, <3>2
    <3> QED BY <2>5, <3>2, <3>3 DEF r
  <2> QED BY <2>4, <2>5
<1>5. fresh' \in Nat
  BY <1>2, <1>4
<1>6. ToCome' <= fresh' /\ ToCome' \in 0 .. 2
  <2> DEFINE p == controllers[index'].poll
             load == Load(p, status')
  <2>1. ToCome' = (IF "detect" \in mode' /\ p # "nothing" THEN load ELSE 0)
    BY <1>1, ReportsOfFew DEF ToCome, Watching, Polling
  <2>2. load \in 0 .. 2
    BY LoadType
  <2>3. CASE ~ ("detect" \in mode' /\ p # "nothing")
    <3>1. ToCome' = 0
      BY <2>1, <2>3
    <3> QED BY <1>5, <3>1
  <2>4. CASE p # "nothing" /\ SetUpClean(index') /\ "detect" \in mode'
    <3>1. PICK s \in setup_ecc(index', board, mode) : mode' = s.mode /\ status' = status \ s.clears
      BY DEF find_controller
    <3>2. Kinds \subseteq s.clears
      BY <1>1, <2>4, <3>1, CleanSetUp
    <3>3. "ce" \notin status' /\ "ue" \notin status'
      BY <3>1, <3>2 DEF Kinds
    <3>4. p # "amd751"
      BY <1>1, <2>4, CleanRow
    <3>5. load = 0
      BY <3>3, <3>4 DEF Load, One
    <3> HIDE DEF load
    <3> QED BY <1>5, <2>1, <3>5
  <2>5. CASE p # "nothing" /\ ~ SetUpClean(index')
    <3>1. fresh' = Outstanding(status')
      BY <1>2, <2>5
    <3>2. index' = board.chip
      BY <1>1, <2>5, UnknownRow
    <3>3. CASE p = "amd751"
      <4>1. load = One("bank0", status') + One("bank1", status')
        BY <3>3 DEF Load
      <4>2. CASE status' \cap Banks # {}
        <5>1. load = fresh'
          BY <1>4, <3>1, <4>1, <4>2
        <5> HIDE DEF load
        <5> QED BY <1>5, <2>1, <2>2, <5>1
      <4>3. CASE status' \cap Banks = {}
        <5>1. "bank0" \notin status' /\ "bank1" \notin status'
          BY <4>3 DEF Banks
        <5>2. load = 0
          BY <4>1, <5>1 DEF One
        <5> HIDE DEF load
        <5> QED BY <1>5, <2>1, <5>2
      <4> QED BY <4>2, <4>3
    <3>4. CASE p # "amd751"
      <4>1. status' \cap Banks = {}
        BY <1>3, <3>2, <3>4
      <4>2. load = One("ce", status') + One("ue", status')
        BY <3>4 DEF Load
      <4>3. load = fresh'
        BY <1>4, <3>1, <4>1, <4>2
      <4> HIDE DEF load
      <4> QED BY <1>5, <2>1, <2>2, <4>3
    <3> QED BY <3>3, <3>4
  <2> QED BY <2>3, <2>4, <2>5
<1>7. ecc_ecount' = 0 /\ Reports(todo') = 0 /\ Len(todo') <= 5
  BY <1>1, ReportsOfFew DEF CountInv
<1>8. ecc_ecount' + Reports(todo') + ToCome' <= fresh'
  <2>1. \A n \in 0 .. 2 : (0 + 0) + n = n
    OBVIOUS
  <2>2. (ecc_ecount' + Reports(todo')) + ToCome' = ToCome'
    BY <1>6, <1>7, <2>1, Zenon
  <2> QED BY <1>6, <2>2
<1> QED BY <1>1, <1>3, <1>5, <1>7, <1>8 DEF CountInv, Running

(* A poll is going to make no more reports than there were to come.        *)
LEMMA CountPoll ==
  ASSUME Inv, CountInv, poll_errors
  PROVE  CountInv'
<1>1. /\ at = "test" /\ poll = TRUE /\ index \in Chips /\ status \in SUBSET StatusBits
      /\ todo' = poll_of(index, status) /\ at' \in {"test", "poll"}
      /\ UNCHANGED <<board, index, mode, status, ecc_ecount, fresh>>
  BY PollStart DEF ctrl
<1>2. todo = <<>> /\ "detect" \in mode
  BY <1>1 DEF Inv, TypeOK, Nothing, WarrantInv, Running
<1> DEFINE t == poll_of(index, status)
           load == Load(Polling, status)
           left == Load(Polling, status \ Cleared(t))
<1>3. Spends(t, Polling, status)
  BY <1>1, PollSpends DEF Polling
<1>4. Reports(todo) = 0 /\ Cleared(todo) = {}
  BY <1>2, ReportsOfFew
<1>5. left \in 0 .. 2 /\ left <= load /\ load \in 0 .. 2
  BY LoadType
<1>6. ToCome = (IF Polling # "nothing" THEN load ELSE 0)
  <2>1. status \ Cleared(todo) = status
    BY <1>4
  <2> QED BY <1>2, <2>1 DEF ToCome, Watching
<1>7. ToCome' = (IF Polling # "nothing" THEN left ELSE 0)
  BY <1>1, <1>2 DEF ToCome, Watching, Polling
<1>8. Polling = "nothing" => Reports(t) = 0
  BY ReportsOfFew DEF poll_of, Polling, Nothing
<1>9. Reports(t) \in 0 .. 5 /\ Len(t) <= 5 /\ (Reports(t) = 0 \/ (Reports(t) <= load /\ left = 0))
  BY <1>3, ReportsType DEF Spends
<1>10. /\ ecc_ecount \in Nat /\ fresh \in Nat
       /\ ecc_ecount + Reports(todo) + ToCome <= fresh
  BY <1>1, CountTypes DEF CountInv, Running
<1> HIDE DEF t, load, left
<1>11. ecc_ecount + Reports(t) + ToCome' <= fresh
  <2>1. Reports(t) + ToCome' <= ToCome /\ ToCome \in 0 .. 2 /\ ToCome' \in 0 .. 2
    BY <1>5, <1>6, <1>7, <1>8, <1>9
  <2>2. ecc_ecount + ToCome <= fresh
    BY <1>4, <1>10, <2>1
  <2> QED BY SMTT(30), <1>9, <1>10, <2>1, <2>2
<1>12. controllers[board.chip].poll # "amd751" => status \cap Banks = {}
  BY DEF CountInv
<1>13. fresh' = fresh /\ ecc_ecount' = ecc_ecount /\ status' = status /\ board' = board
       /\ todo' = t /\ at' # "boot"
  BY <1>1 DEF t
<1> QED BY <1>9, <1>10, <1>11, <1>12, <1>13 DEF CountInv, Running

(* A report is made and no longer to be made.                              *)
LEMMA CountReport ==
  ASSUME Inv, CountInv, print_ecc_err \/ ReportByEap
  PROVE  CountInv'
<1>1. /\ at = "poll" /\ todo' = Tail(todo) /\ at' # "boot"
      /\ Head(todo).do \in {"report", "report by eap"}
      /\ UNCHANGED <<board, index, mode, status, fresh>>
  BY ReportStep DEF ctrl
<1>2. ecc_ecount' \in {ecc_ecount, ecc_ecount + 1}
  BY DEF print_ecc_err, ReportByEap, Discharge
<1>3. todo \in Seq(Steps) /\ todo # <<>>
  BY <1>1, AtStep DEF Inv
<1>4. Head(todo).do # "clear"
  BY <1>1
<1>5. /\ Len(Tail(todo)) <= 5 /\ Reports(todo) = Reports(Tail(todo)) + 1
      /\ Cleared(todo) = Cleared(Tail(todo))
  <2>1. Len(todo) <= 5
    BY DEF CountInv
  <2>2. Bits(Head(todo)) = {}
    BY <1>4 DEF Bits
  <2> QED BY <1>3, <1>4, <2>1, <2>2, TailReports
<1>6. ToCome' = ToCome
  BY <1>1, <1>5 DEF ToCome, Watching, Polling
<1>7. /\ ecc_ecount \in Nat /\ fresh \in Nat /\ ToCome \in 0 .. 2
      /\ ecc_ecount + Reports(todo) + ToCome <= fresh
  BY <1>1, CountTypes DEF CountInv, Running
<1>8. Reports(Tail(todo)) \in 0 .. 5
  BY ReportsType
<1>9. ecc_ecount' + Reports(Tail(todo)) + ToCome <= fresh
  BY SMTT(30), <1>2, <1>5, <1>7, <1>8
<1>10. controllers[board.chip].poll # "amd751" => status \cap Banks = {}
  BY DEF CountInv
<1> QED BY <1>1, <1>5, <1>6, <1>7, <1>9, <1>10 DEF CountInv, Running

(* A clear takes from the status what was not counted as to come.          *)
LEMMA CountClear ==
  ASSUME Inv, CountInv, ClearStatus
  PROVE  CountInv'
<1>1. /\ at = "poll" /\ todo' = Tail(todo) /\ at' # "boot" /\ Head(todo).do = "clear"
      /\ status' = status \ Bits(Head(todo))
      /\ UNCHANGED <<board, index, mode, fresh, ecc_ecount>>
  BY ClearStep DEF ctrl
<1>2. todo \in Seq(Steps) /\ todo # <<>>
  BY <1>1, AtStep DEF Inv
<1>3. /\ Len(Tail(todo)) <= 5 /\ Reports(todo) = Reports(Tail(todo)) + 0
      /\ Cleared(todo) = Bits(Head(todo)) \cup Cleared(Tail(todo))
  <2>1. Len(todo) <= 5
    BY DEF CountInv
  <2> QED BY <1>1, <1>2, <2>1, TailReports
<1>4. status' \ Cleared(todo') = status \ Cleared(todo)
  BY <1>1, <1>3
<1>5. ToCome' = ToCome
  BY <1>1, <1>4 DEF ToCome, Watching, Polling
<1>6. Reports(Tail(todo)) \in 0 .. 5
  BY ReportsType
<1>7. Reports(todo') = Reports(todo)
  BY <1>1, <1>3, <1>6
<1>8. controllers[board.chip].poll # "amd751" => status' \cap Banks = {}
  BY <1>1 DEF CountInv
<1>9. /\ fresh \in Nat /\ ecc_ecount + Reports(todo) + ToCome <= fresh
  BY <1>1 DEF CountInv, Running
<1> QED BY <1>1, <1>3, <1>5, <1>7, <1>8, <1>9 DEF CountInv, Running

(* An error latched is one more to come at most.                           *)
LEMMA CountLatch ==
  ASSUME Inv, CountInv, NEW k \in Kinds, NEW bank \in Banks, LatchError(k, bank)
  PROVE  CountInv'
<1> DEFINE c == board.chip
           S == status \ Cleared(todo)
           T == status' \ Cleared(todo)
<1>1. /\ status' = status \cup Latched(c, k, bank) /\ fresh' = fresh + 1
      /\ UNCHANGED <<board, index, mode, at, todo, ecc_ecount>>
  BY DEF LatchError, ctrl
<1>2. /\ controllers[c].poll = "amd751" => Latched(c, k, bank) \cap Banks = {bank}
      /\ controllers[c].poll # "amd751" => Latched(c, k, bank) \cap Banks = {}
      /\ Latched(c, k, bank) \cap Kinds = {k}
  <2>1. Eap[k] \in {"eap-ce", "eap-ue"}
    BY DEF Eap, Kinds
  <2> QED BY <2>1 DEF Latched, Banks, Kinds
<1>3. index \in {"unknown", c}
  BY CountTypes
<1>4. ASSUME Polling # "nothing" PROVE Load(Polling, T) <= Load(Polling, S) + 1
  <2>1. index = c
    BY <1>3, <1>4, UnknownRow DEF Polling
  <2>2. \A x : One(x, S) \in 0 .. 1 /\ One(x, T) \in 0 .. 1
    BY DEF One
  <2>3. CASE Polling = "amd751"
    <3>1. \A x \in Banks : x # bank => (x \in T <=> x \in S)
      BY <1>1, <1>2, <2>1, <2>3 DEF Polling
    <3> HIDE DEF S, T
    <3>2. \A x \in Banks : x # bank => One(x, T) = One(x, S)
      BY <3>1 DEF One
    <3>3. One("bank0", T) + One("bank1", T) <= One("bank0", S) + One("bank1", S) + 1
      <4>1. CASE bank = "bank0"
        <5>1. One("bank1", T) = One("bank1", S)
          BY <3>2, <4>1 DEF Banks
        <5> QED BY <2>2, <5>1
      <4>2. CASE bank = "bank1"
        <5>1. One("bank0", T) = One("bank0", S)
          BY <3>2, <4>2 DEF Banks
        <5> QED BY <2>2, <5>1
      <4> QED BY <4>1, <4>2 DEF Banks
    <3> QED BY <2>3, <3>3 DEF Load
  <2>4. CASE Polling # "amd751"
    <3>1. \A x \in Kinds : x # k => (x \in T <=> x \in S)
      BY <1>1, <1>2
    <3> HIDE DEF S, T
    <3>2. \A x \in Kinds : x # k => One(x, T) = One(x, S)
      BY <3>1 DEF One
    <3>3. One("ce", T) + One("ue", T) <= One("ce", S) + One("ue", S) + 1
      <4>1. CASE k = "ce"
        <5>1. One("ue", T) = One("ue", S)
          BY <3>2, <4>1 DEF Kinds
        <5> QED BY <2>2, <5>1
      <4>2. CASE k = "ue"
        <5>1. One("ce", T) = One("ce", S)
          BY <3>2, <4>2 DEF Kinds
        <5> QED BY <2>2, <5>1
      <4> QED BY <4>1, <4>2 DEF Kinds
    <3> QED BY <2>4, <3>3 DEF Load
  <2> QED BY <2>3, <2>4
<1>5. Load(Polling, S) \in 0 .. 2 /\ Load(Polling, T) \in 0 .. 2
  BY LoadType
<1>6. ToCome = (IF Watching THEN Load(Polling, S) ELSE 0)
  BY DEF ToCome
<1>7. ToCome' = (IF Watching THEN Load(Polling, T) ELSE 0)
  BY <1>1 DEF ToCome, Watching, Polling
<1> HIDE DEF S, T
<1>8. ToCome' <= ToCome + 1 /\ ToCome' \in 0 .. 2 /\ ToCome \in 0 .. 2
  BY <1>4, <1>5, <1>6, <1>7 DEF Watching
<1>9. controllers[c].poll # "amd751" => status' \cap Banks = {}
  BY <1>1, <1>2 DEF CountInv
<1>10. ecc_ecount \in Nat /\ Reports(todo) \in 0 .. 5
  BY CountTypes
<1>11. fresh \in Nat /\ Len(todo) <= 5 /\ (at = "boot" => ecc_ecount = 0)
       /\ (Running => ecc_ecount + Reports(todo) + ToCome <= fresh)
  BY DEF CountInv
<1>12. Running => ecc_ecount + Reports(todo) + ToCome' <= fresh'
  BY SMTT(30), <1>1, <1>8, <1>10, <1>11
<1>13. fresh' \in Nat
  BY <1>1, <1>11
<1> QED BY <1>1, <1>9, <1>11, <1>12, <1>13 DEF CountInv, Running

LEMMA CountInit ==
  ASSUME Init
  PROVE  CountInv
<1>1. at = "boot" /\ todo = <<>> /\ ecc_ecount = 0 /\ fresh = 0
  BY DEF Init, Nothing
<1>2. status \cap Banks = {}
  BY DEF Init, Leftover, Kinds, Banks
<1> QED BY <1>1, <1>2 DEF CountInv, Running

LEMMA CountNext ==
  ASSUME Inv, CountInv, [Next]_vars
  PROVE  CountInv'
<1>1. CASE restart
  <2>1. /\ at' = "boot" /\ todo' = <<>> /\ ecc_ecount' = 0
        /\ UNCHANGED <<board, status, fresh>>
    BY <1>1, RestartStep
  <2> QED BY <2>1 DEF CountInv, Running
<1>2. CASE Quiet
  <2>1. /\ UNCHANGED <<board, index, mode, status, todo, ecc_ecount>>
        /\ at' = at \/ (at = "scroll" /\ at' = "poll")
    BY <1>2, QuietStep
  <2>2. fresh' = fresh
    BY <1>2 DEF Quiet, ScrollOn, EccPollingMode, vars, ghosts
  <2>3. ToCome' = ToCome
    BY <2>1 DEF ToCome, Watching, Polling
  <2>4. Reports(todo') = Reports(todo)
    BY <2>1
  <2> QED BY <2>1, <2>2, <2>3, <2>4 DEF CountInv, Running
<1> QED BY <1>1, <1>2, NextCases, CountSetUp, CountPoll, CountReport, CountClear, CountLatch

(* Whatever comes between the steps of a poll, the user's restarts and the *)
(* errors that arrive among them, no report is made of an error that was   *)
(* reported before or that the set-up was to forget, and what a poll has   *)
(* seen is reported: the poll_*() and setup_*() functions of controller.c, *)
(* with restart() in config.c.                                             *)
THEOREM ReportsAlwaysTrue == Spec => []ReportsTrue
<1>1. Init => CountInv
  BY CountInit
<1>2. Inv /\ Inv' /\ CountInv /\ [Next]_vars => CountInv'
  BY CountNext
<1>3. Inv /\ CountInv => NoPhantom
  <2> SUFFICES ASSUME Inv, CountInv, at # "boot" PROVE ecc_ecount <= fresh
    BY DEF NoPhantom
  <2>1. ecc_ecount \in Nat /\ Reports(todo) \in 0 .. 5 /\ ToCome \in 0 .. 2
    BY CountTypes
  <2>2. fresh \in Nat /\ ecc_ecount + Reports(todo) + ToCome <= fresh
    BY DEF CountInv, Running
  <2> QED BY <2>1, <2>2
<1>4. NoPhantom /\ SeenReported => ReportsTrue
  BY DEF ReportsTrue
<1> QED BY <1>1, <1>2, <1>3, <1>4, Invariance, SeenAlwaysReported, PTL DEF Spec
=============================================================================
