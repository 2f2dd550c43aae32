------------------------------ MODULE DmiProofs ------------------------------
(***************************************************************************)
(* Theorems about the devices that errors are blamed on, for every table   *)
(* that fits the arrays and addresses of any width.                        *)
(***************************************************************************)
EXTENDS Dmi, TLAPS

USE AddressesAssumption DEF IsDevice, IsMap

(* The arrays are what the table says once they have been filled, and      *)
(* until then nothing has been counted.                                    *)
Filled ==
  /\ dmi_initialized => mem_devs = open_dmi(table).devs /\ md_maps = open_dmi(table).maps
  /\ ~ dmi_initialized => /\ mem_devs = <<>> /\ md_maps = <<>>
                          /\ hits = {} /\ dmi_err_cnts = Clean

(* Device j is the match of an error at phys.                              *)
Hit(phys, j, maps, devs) ==
  \E i \in 1 .. Len(maps) : <<i, j>> \in Matches(Mapped(phys), maps, devs)

(* The devices blamed are those with a match, no more and no fewer.        *)
Counted ==
  ~ ecc => \A j \in 1 .. Len(mem_devs) :
    dmi_err_cnts[j] = 1 <=> \E p \in hits : Hit(p, j, md_maps, mem_devs)

Inv == TypeOK /\ Filled /\ Counted /\ hits \subseteq Physical

-----------------------------------------------------------------------------
(* Types.                                                                  *)
LEMMA OpenType ==
  ASSUME TypeOK
  PROVE  LET o == open_dmi(table)
         IN  /\ o.devs \in Seq(Structs) /\ o.maps \in Seq(Structs)
             /\ o.devs \in Seq({s \in Structs : s.type = 17})
             /\ o.maps \in Seq({s \in Structs : s.type \in {20, 1}})
             /\ Len(o.devs) + Len(o.maps) <= MAX_DMI_MEMDEVS
<1>1. table \in Tables
  BY DEF TypeOK
<1>2. /\ open_dmi(table).devs \in Seq({s \in Structs : s.type = 17})
      /\ open_dmi(table).maps \in Seq({s \in Structs : s.type \in {20, 1}})
      /\ Len(open_dmi(table).devs) + Len(open_dmi(table).maps) <= MAX_DMI_MEMDEVS
  BY <1>1, FitsAssumption
<1> DEFINE devs == open_dmi(table).devs
           maps == open_dmi(table).maps
<1> HIDE DEF devs, maps
<1>3. devs \in Seq({s \in Structs : s.type = 17}) => devs \in Seq(Structs)
  OBVIOUS
<1>4. maps \in Seq({s \in Structs : s.type \in {20, 1}}) => maps \in Seq(Structs)
  OBVIOUS
<1> QED BY <1>2, <1>3, <1>4 DEF devs, maps

(* Places in the arrays.                                                   *)
LEMMA MaxType == MAX_DMI_MEMDEVS \in Nat
BY FitsAssumption

LEMMA PlaceType ==
  ASSUME NEW devs \in Seq(Structs), NEW maps \in Seq(Structs),
         Len(devs) + Len(maps) <= MAX_DMI_MEMDEVS, NEW j \in 1 .. Len(devs)
  PROVE  j \in Devs
BY MaxType DEF Devs

(* Where the arrays are filled by this step or were before.                *)
LEMMA ReadyType ==
  ASSUME Inv, Ready, table' = table
  PROVE  /\ mem_devs' = open_dmi(table).devs /\ md_maps' = open_dmi(table).maps
         /\ mem_devs' \in Seq(Structs) /\ md_maps' \in Seq(Structs)
         /\ Len(mem_devs') + Len(md_maps') <= MAX_DMI_MEMDEVS
         /\ dmi_initialized'
         /\ Before \in [Devs -> {0, 1}]
<1>1. mem_devs' = open_dmi(table).devs /\ md_maps' = open_dmi(table).maps /\ dmi_initialized'
  BY DEF Ready, init_dmi, Inv, Filled, TypeOK
<1>2. Before \in [Devs -> {0, 1}]
  BY DEF Before, Clean, Inv, TypeOK
<1> QED BY <1>1, <1>2, OpenType DEF Inv

LEMMA PagesType ==
  ASSUME NEW devs \in Seq(Structs)
  PROVE  (IF devs = <<>> THEN 1 ELSE 1 + (Len(devs) - 1) \div PerPage) \in Nat \ {0}
<1>1. CASE devs = <<>>
  BY <1>1
<1>2. CASE devs # <<>>
  <2>1. Len(devs) - 1 \in Nat
    BY <1>2
  <2>2. \A n \in Nat, d \in Nat \ {0} : n \div d \in Nat
    OBVIOUS
  <2> QED BY <1>2, <2>1, <2>2
<1> QED BY <1>1, <1>2

(* What an error leaves behind has its type.                               *)
LEMMA VerdictType ==
  ASSUME NEW hit PROVE Verdict(hit) \in {-1, 0, 1}
BY DEF Verdict

LEMMA CountType ==
  ASSUME Inv, NEW phys, NEW adr, Count(phys, adr), ecc' \in BOOLEAN
  PROVE  TypeOK'
<1>1. table' = table /\ page' = page /\ Ready /\ page = 0
  BY DEF Count
<1>2. /\ mem_devs' \in Seq(Structs) /\ md_maps' \in Seq(Structs)
      /\ Len(mem_devs') + Len(md_maps') <= MAX_DMI_MEMDEVS
      /\ dmi_initialized' /\ Before \in [Devs -> {0, 1}]
  BY <1>1, ReadyType
<1>3. dmi_err_cnts' \in [Devs -> {0, 1}]
  BY <1>2 DEF Count, add_dmi_err, Blamed
<1>4. found' \in {-1, 0, 1}
  BY VerdictType DEF Count, add_dmi_err
<1>5. page' \in 0 .. Pages'
  <2>1. Pages' \in Nat \ {0}
    BY <1>2, PagesType DEF Pages
  <2> QED BY <1>1, <2>1
<1> QED BY <1>1, <1>2, <1>3, <1>4, <1>5 DEF TypeOK, Inv

-----------------------------------------------------------------------------
(* Counting.                                                               *)
LEMMA CountStep ==
  ASSUME Inv, NEW phys \in Physical, Count(phys, Mapped(phys)), UNCHANGED ecc
  PROVE  Counted'
<1> SUFFICES ASSUME ~ ecc, NEW j \in 1 .. Len(mem_devs')
             PROVE  (dmi_err_cnts'[j] = 1) <=> \E p \in hits' : Hit(p, j, md_maps', mem_devs')
  BY DEF Counted, Hit, Matches, Within, Shl10, Mapped
<1> DEFINE hit == Matches(Mapped(phys), md_maps', mem_devs')
<1>1. /\ mem_devs' = open_dmi(table).devs /\ md_maps' = open_dmi(table).maps
      /\ mem_devs' \in Seq(Structs) /\ md_maps' \in Seq(Structs)
      /\ Len(mem_devs') + Len(md_maps') <= MAX_DMI_MEMDEVS
      /\ Before \in [Devs -> {0, 1}]
  BY ReadyType DEF Count
<1>2. j \in Devs
  BY <1>1, PlaceType
<1>3. dmi_err_cnts'[j] = Blamed(j, hit) /\ hits' = hits \cup {phys}
  BY <1>2 DEF Count, add_dmi_err
<1>4. (\E m \in hit : m[2] = j) <=> Hit(phys, j, md_maps', mem_devs')
  BY DEF Hit, Matches
<1>5. (Before[j] = 1) <=> \E p \in hits : Hit(p, j, md_maps', mem_devs')
  <2>1. CASE dmi_initialized
    <3>1. mem_devs' = mem_devs /\ md_maps' = md_maps
      BY <2>1, <1>1 DEF Inv, Filled
    <3> QED BY <2>1, <3>1 DEF Before, Inv, Counted
  <2>2. CASE ~ dmi_initialized
    BY <2>2, <1>2 DEF Before, Clean, Inv, Filled
  <2> QED BY <2>1, <2>2
<1> HIDE DEF hit
<1> QED BY <1>1, <1>2, <1>3, <1>4, <1>5 DEF Blamed

LEMMA CountedKept ==
  ASSUME Counted, UNCHANGED <<mem_devs, md_maps, dmi_err_cnts, hits, ecc>>
  PROVE  Counted'
BY DEF Counted, Hit, Matches, Within, Shl10, Mapped

LEMMA InitInv == Init => Inv
<1> SUFFICES ASSUME Init PROVE Inv
  OBVIOUS
<1>1. mem_devs \in Seq(Structs) /\ md_maps \in Seq(Structs) /\ Len(mem_devs) = 0 /\ Len(md_maps) = 0
  BY DEF Init
<1>2. Pages \in Nat \ {0}
  BY <1>1, PagesType DEF Pages
<1>3. TypeOK
  <2>1. page \in 0 .. Pages
    BY <1>2 DEF Init
  <2>2. dmi_err_cnts \in [Devs -> {0, 1}]
    BY DEF Init, Clean
  <2>3. Len(mem_devs) + Len(md_maps) <= MAX_DMI_MEMDEVS
    BY <1>1, MaxType
  <2>4. table \in Tables /\ dmi_initialized \in BOOLEAN /\ found \in {-1, 0, 1} /\ ecc \in BOOLEAN
    BY DEF Init
  <2> QED BY <1>1, <2>1, <2>2, <2>3, <2>4 DEF TypeOK
<1>4. Filled /\ hits \subseteq Physical
  BY DEF Init, Filled
<1>5. Counted
  BY <1>1 DEF Counted
<1> QED BY <1>3, <1>4, <1>5 DEF Inv

LEMMA StepInv == Inv /\ [Next]_vars => Inv'
<1> SUFFICES ASSUME Inv, [Next]_vars PROVE Inv'
  OBVIOUS
<1>1. ASSUME NEW phys \in Physical, common_err(phys) PROVE Inv'
  <2>1. Count(phys, Mapped(phys)) /\ UNCHANGED ecc
    BY <1>1 DEF common_err
  <2>2. TypeOK'
    BY <2>1, CountType DEF Inv, TypeOK
  <2>3. Filled'
    BY <2>1, ReadyType DEF Count, Filled
  <2>4. hits' \subseteq Physical
    BY <2>1 DEF Count, Inv
  <2> QED BY <2>1, <2>2, <2>3, <2>4, CountStep DEF Inv
<1>2. ASSUME NEW phys \in Physical, print_ecc_err(phys) PROVE Inv'
  <2>1. Count(phys, phys \div PageBytes) /\ ecc' = TRUE
    BY <1>2 DEF print_ecc_err
  <2>2. TypeOK'
    BY <2>1, CountType
  <2>3. Filled'
    BY <2>1, ReadyType DEF Count, Filled
  <2>4. hits' \subseteq Physical
    BY <2>1 DEF Count, Inv
  <2> QED BY <2>1, <2>2, <2>3, <2>4 DEF Inv, Counted
<1>3. CASE print_dmi_info
  <2>1. Ready /\ table' = table /\ dmi_err_cnts' = Before /\ page' = 1 /\ UNCHANGED <<found, hits, ecc>>
    BY <1>3 DEF print_dmi_info
  <2>2. /\ mem_devs' = open_dmi(table).devs /\ md_maps' = open_dmi(table).maps
        /\ mem_devs' \in Seq(Structs) /\ md_maps' \in Seq(Structs)
        /\ Len(mem_devs') + Len(md_maps') <= MAX_DMI_MEMDEVS
        /\ dmi_initialized' /\ Before \in [Devs -> {0, 1}]
    BY <2>1, ReadyType
  <2>3. Pages' \in Nat \ {0}
    BY <2>2, PagesType DEF Pages
  <2>4. TypeOK'
    <3>1. page' \in 0 .. Pages'
      BY <2>1, <2>3
    <3> QED BY <2>1, <2>2, <3>1 DEF TypeOK, Inv
  <2>5. Filled'
    BY <2>1, <2>2 DEF Filled
  <2>6. Counted'
    <3>1. CASE dmi_initialized
      <4>1. mem_devs' = mem_devs /\ md_maps' = md_maps /\ dmi_err_cnts' = dmi_err_cnts
        BY <3>1, <2>1, <2>2 DEF Inv, Filled, Before
      <4> QED BY <4>1, <2>1, CountedKept DEF Inv
    <3>2. CASE ~ dmi_initialized
      <4>1. hits' = {} /\ dmi_err_cnts' = Clean
        BY <3>2, <2>1 DEF Inv, Filled, Before
      <4>2. \A j \in 1 .. Len(mem_devs') : j \in Devs
        BY <2>2, PlaceType
      <4> QED BY <4>1, <4>2 DEF Counted, Clean
    <3> QED BY <3>1, <3>2
  <2> QED BY <2>1, <2>4, <2>5, <2>6 DEF Inv
<1>4. CASE NextPage
  <2>1. UNCHANGED <<table, mem_devs, md_maps, dmi_err_cnts, dmi_initialized, found, hits, ecc>>
    BY <1>4 DEF NextPage, dmi
  <2>2. Pages \in Nat \ {0} /\ Pages' = Pages
    BY <2>1, PagesType DEF Inv, TypeOK, Pages
  <2>3. page' \in 0 .. Pages'
    BY <1>4, <2>2 DEF NextPage, Inv, TypeOK
  <2>4. Counted'
    BY <2>1, CountedKept DEF Inv
  <2> QED BY <2>1, <2>3, <2>4 DEF Inv, TypeOK, Filled, Clean
<1>5. CASE restart
  <2>1. /\ UNCHANGED <<table, mem_devs, md_maps, dmi_initialized, page, found>>
        /\ hits' = {} /\ ecc' = FALSE /\ dmi_err_cnts' = Clean
    BY <1>5 DEF restart, Cleared, Inv, Filled
  <2>2. Pages' = Pages
    BY <2>1 DEF Pages
  <2>3. TypeOK'
    BY <2>1, <2>2 DEF Inv, TypeOK, Clean
  <2>4. \A j \in 1 .. Len(mem_devs') : j \in Devs
    BY <2>1, PlaceType DEF Inv, TypeOK
  <2> QED BY <2>1, <2>3, <2>4 DEF Inv, Filled, Counted, Clean
<1>6. CASE UNCHANGED vars
  <2>1. UNCHANGED <<table, mem_devs, md_maps, dmi_err_cnts, dmi_initialized, page, found, hits, ecc>>
    BY <1>6 DEF vars, dmi
  <2>2. Pages' = Pages
    BY <2>1 DEF Pages
  <2>3. Counted'
    BY <2>1, CountedKept DEF Inv
  <2> QED BY <2>1, <2>2, <2>3 DEF Inv, TypeOK, Filled, Clean
<1> QED BY <1>1, <1>2, <1>3, <1>4, <1>5, <1>6 DEF Next

(* Every variable keeps its type and the arrays their length, whatever     *)
(* tables that fit are read and in whatever order errors, the display and  *)
(* restarts come.                                                          *)
THEOREM TypeCorrect == Spec => []TypeOK
<1>1. Inv => TypeOK
  BY DEF Inv
<1> QED BY <1>1, InitInv, StepInv, PTL DEF Spec

-----------------------------------------------------------------------------
(* Addresses.  Below 4 GB an error is found where it is, and the bounds of *)
(* a range are not cut.                                                    *)
LEMMA SmallMod ==
  ASSUME NEW n \in Nat, NEW d \in Nat \ {0}, n < d
  PROVE  n % d = n
OBVIOUS

LEMMA ModOfSecond ==
  ASSUME NEW n \in Nat, NEW d \in Nat \ {0}, d <= n, n < 2 * d
  PROVE  d + (n % d) = n
<1>1. n = d * (n \div d) + (n % d) /\ n % d \in 0 .. d - 1 /\ n \div d \in Nat
  OBVIOUS
<1> DEFINE q == n \div d
           r == n % d
<1>2. q \in Nat /\ r \in 0 .. d - 1 /\ n = d * q + r
  BY <1>1
<1> HIDE DEF q, r
<1>3. q = 1
  <2>1. CASE q = 0
    BY <2>1, <1>2
  <2>2. CASE q >= 2
    <3>1. d * q >= d * 2
      BY <2>2, <1>2
    <3> QED BY <3>1, <1>2
  <2> QED BY <2>1, <2>2, <1>2
<1> QED BY <1>2, <1>3 DEF q, r

LEMMA MappedLow ==
  ASSUME NEW p \in Nat, p < Low PROVE Mapped(p) = p
BY ModOfSecond DEF Low, Mapped

LEMMA ShiftLow ==
  ASSUME NEW n \in Nat, n * KB < Low PROVE Shl10(n) = n * KB
BY SmallMod DEF Low, Shl10

(* A range that ends below 4 GB holds what its bounds say.                 *)
LEMMA WithinLow ==
  ASSUME NEW p \in Nat, p < Low, NEW m \in Struct, m.start * KB <= p \/ m.start <= m.end,
         m.end * KB + KB <= Low
  PROVE  Within(Mapped(p), m) <=> m.start * KB <= p /\ p <= m.end * KB
<1>1. m.start \in Nat /\ m.end \in Nat
  BY DEF Struct
<1>2. m.start * KB \in Nat /\ m.end * KB \in Nat /\ Low \in Nat
  BY <1>1 DEF Low
<1>3. m.start <= m.end => m.start * KB <= m.end * KB
  BY <1>1
<1>4. m.start * KB < Low /\ m.end * KB < Low
  BY <1>2, <1>3
<1> QED BY <1>1, <1>2, <1>4, MappedLow, ShiftLow DEF Within

-----------------------------------------------------------------------------
LEMMA InvCause == Inv => CauseBlamed
<1> SUFFICES ASSUME Inv, AllLow, ~ ecc,
                    NEW j \in 1 .. Len(mem_devs), NEW p \in hits, NEW i \in 1 .. Len(md_maps),
                    md_maps[i].md_handle = mem_devs[j].handle,
                    p < Low, Covers(md_maps[i], p), p <= md_maps[i].end * KB
             PROVE  dmi_err_cnts[j] = 1
  BY DEF CauseBlamed
<1>1. p \in Nat /\ md_maps[i] \in Struct
  BY StructsAssumption DEF Inv, TypeOK
<1>2. md_maps[i].start * KB <= p /\ md_maps[i].end * KB + KB <= Low
  BY <1>1 DEF AllLow, Covers, Struct
<1>3. Within(Mapped(p), md_maps[i])
  BY <1>1, <1>2, WithinLow
<1>4. Hit(p, j, md_maps, mem_devs)
  BY <1>3 DEF Hit, Matches
<1> QED BY <1>4 DEF Inv, Counted

LEMMA InvForCause == Inv => BlamedForCause
<1> SUFFICES ASSUME Inv, AllLow, ~ ecc, \A p \in hits : p < Low,
                    NEW j \in 1 .. Len(mem_devs), dmi_err_cnts[j] = 1
             PROVE  \E p \in hits : Truly(j, p)
  BY DEF BlamedForCause
<1>1. PICK p \in hits : Hit(p, j, md_maps, mem_devs)
  BY DEF Inv, Counted
<1>2. PICK i \in 1 .. Len(md_maps) :
        Within(Mapped(p), md_maps[i]) /\ mem_devs[j].handle = md_maps[i].md_handle
  BY <1>1 DEF Hit, Matches
<1>3. p \in Nat /\ p < Low /\ md_maps[i] \in Structs /\ md_maps[i] \in Struct
  BY StructsAssumption DEF Inv, TypeOK
<1>4. md_maps[i].start * KB <= p /\ p <= md_maps[i].end * KB
  BY <1>2, <1>3, WithinLow DEF AllLow
<1>5. Covers(md_maps[i], p)
  <2>1. md_maps[i].start * KB \in Nat /\ md_maps[i].end * KB \in Nat
    <3>1. md_maps[i].start \in Nat /\ md_maps[i].end \in Nat
      BY <1>3 DEF Struct
    <3> QED BY <3>1
  <2> QED BY <1>3, <1>4, <2>1 DEF Covers
<1>6. md_maps[i].type = 20
  <2>1. mem_devs = open_dmi(table).devs /\ md_maps = open_dmi(table).maps
    BY DEF Inv, Filled
  <2>2. mem_devs \in Seq({s \in Structs : s.type = 17})
    BY <2>1, OpenType DEF Inv
  <2>3. md_maps \in Seq({s \in Structs : s.type \in {20, 1}})
    BY <2>1, OpenType DEF Inv
  <2>4. mem_devs[j] \in Structs /\ mem_devs[j].type = 17
    BY <2>2
  <2>5. md_maps[i].type \in {20, 1}
    BY <2>3
  <2> QED BY <2>4, <2>5, <1>2, <1>3, StructsAssumption
<1> QED BY <1>2, <1>5, <1>6 DEF Truly

(* The devices blamed are exactly those in whose memory errors were found  *)
(* since the last start: add_dmi_err() marks every device of every range   *)
(* that holds the address, and nothing but init() takes a mark off.        *)
THEOREM BlameAlwaysExact == Spec => []BlameExact
<1>1. Inv => BlameExact
  BY InvCause, InvForCause DEF BlameExact
<1> QED BY <1>1, InitInv, StepInv, PTL DEF Spec

-----------------------------------------------------------------------------
(* An error at phys, mapped to at most one device once.                    *)
LEMMA OneVerdict ==
  ASSUME Inv, NEW phys \in Physical, Count(phys, Mapped(phys)), OneDevice(Mapped(phys))
  PROVE  (found' = 1) <=> (dmi_err_cnts' # Before)
<1> DEFINE hit == Matches(Mapped(phys), md_maps', mem_devs')
<1>1. /\ Before \in [Devs -> {0, 1}]
      /\ Len(mem_devs') + Len(md_maps') <= MAX_DMI_MEMDEVS
      /\ mem_devs' \in Seq(Structs) /\ md_maps' \in Seq(Structs)
  BY ReadyType DEF Count
<1>2. dmi_err_cnts' = [n \in Devs |-> Blamed(n, hit)] /\ found' = Verdict(hit)
  BY DEF Count, add_dmi_err
<1>3. CASE hit = {}
  <2>1. dmi_err_cnts' = Before
    BY <1>1, <1>2, <1>3 DEF Blamed
  <2> QED BY <1>2, <1>3, <2>1 DEF Verdict
<1>4. CASE hit # {}
  <2>1. PICK m \in hit : hit = {m}
    BY <1>4 DEF OneDevice
  <2>2. m[1] \in Int /\ m[2] \in Int /\ m[2] \in Devs
    BY <1>1, PlaceType DEF Matches
  <2> HIDE DEF hit
  <2>3. m = CHOOSE l \in hit : \A n \in hit : n[1] < l[1] \/ (n[1] = l[1] /\ n[2] <= l[2])
    <3>1. \A n \in hit : n[1] < m[1] \/ (n[1] = m[1] /\ n[2] <= m[2])
      BY <2>1, <2>2
    <3> QED BY <2>1, <3>1
  <2>4. ~ \E n \in hit : n # m /\ n[2] = m[2]
    BY <2>1
  <2>5. Verdict(hit) = IF Before[m[2]] # 0 THEN 0 ELSE 1
    BY <1>4, <2>3, <2>4 DEF Verdict
  <2>6. dmi_err_cnts'[m[2]] = 1
    BY <1>2, <2>1, <2>2 DEF Blamed
  <2>7. \A n \in Devs : n # m[2] => dmi_err_cnts'[n] = Before[n]
    BY <1>2, <2>1 DEF Blamed
  <2>8. (dmi_err_cnts' # Before) <=> Before[m[2]] = 0
    BY <1>1, <1>2, <2>2, <2>6, <2>7
  <2> QED BY <1>1, <1>2, <2>2, <2>5, <2>8
<1> QED BY <1>3, <1>4

(* add_dmi_err() says that the list of bad devices has grown exactly when  *)
(* it has, for an address that is mapped once.                             *)
THEOREM ChangeAlwaysSaid == Spec => SaysChange
<1>1. ASSUME Inv, [Next]_vars
      PROVE  [\A phys \in Physical :
                hits' = hits \cup {phys} /\ hits' # hits /\ ~ ecc' /\ OneDevice(Mapped(phys)) =>
                  ((found' = 1) <=> (dmi_err_cnts' # Before))]_vars
  <2> SUFFICES ASSUME NEW phys \in Physical, hits' = hits \cup {phys}, hits' # hits, ~ ecc',
                      OneDevice(Mapped(phys))
               PROVE  (found' = 1) <=> (dmi_err_cnts' # Before)
    OBVIOUS
  <2>1. PICK p \in Physical : common_err(p)
    BY <1>1 DEF Next, print_ecc_err, print_dmi_info, NextPage, restart, vars
  <2>2. Count(p, Mapped(p)) /\ p = phys
    BY <2>1 DEF common_err, Count
  <2> QED BY <1>1, <2>2, OneVerdict
<1> QED BY <1>1, InitInv, StepInv, PTL DEF Spec, SaysChange
=============================================================================
