-------------------------------- MODULE Dmi --------------------------------
(***************************************************************************)
(* The DMI table and the memory devices it blames: dmi.c, with the calls   *)
(* of common_err() and of the menu and the reset of restart().             *)
(*                                                                         *)
(* A table is read once, when it is first needed.  Addresses are numbers   *)
(* of bytes modulo AddrBytes, a range of a table is in units of KB bytes.  *)
(***************************************************************************)
EXTENDS Integers, Sequences, FiniteSets

CONSTANTS
  Tables,           \* the DMI tables considered: see Table
  Structs,          \* the structures they are made of
  MAX_DMI_MEMDEVS,  \* length of the arrays
  PerPage,          \* devices on a page of the display, 8
  KB,               \* bytes in a kilobyte, 1024
  AddrBytes,        \* of the address space, 2^32
  WindowBytes,      \* of a window, 2^31
  PageBytes,        \* in a page, 4096
  Physical,         \* physical addresses where errors are considered
  MaxErrors         \* bound on the errors found

(* A structure has a type, a handle, and where the type is that of a mapped *)
(* address its range and the handle of its device.                         *)
Struct == [type : Nat, handle : Nat, start : Nat, end : Nat, md_handle : Nat]
Table == [anchor : BOOLEAN, checksum : BOOLEAN, major : Nat, minor : Nat,
          numstructs : Nat, structs : Seq(Structs)]

(* What the system information, of type 1, has where a mapped address has  *)
(* the handle of its device is not the handle of one.                      *)
ASSUME StructsAssumption ==
  /\ Structs \subseteq Struct
  /\ \A s, d \in Structs : s.type = 1 /\ d.type = 17 => s.md_handle # d.handle
ASSUME TablesAssumption == \A t \in Tables :
  /\ DOMAIN t = {"anchor", "checksum", "major", "minor", "numstructs", "structs"}
  /\ \A n \in 1 .. Len(t.structs) : t.structs[n] \in Structs
ASSUME AddressesAssumption ==
  /\ KB \in Nat \ {0} /\ WindowBytes \in Nat \ {0} /\ AddrBytes = 2 * WindowBytes
  /\ Physical \subseteq Nat /\ PageBytes \in Nat \ {0} /\ PerPage \in Nat \ {0}

VARIABLES
  table,            \* what the BIOS has left
  mem_devs,         \* mem_devs[0 .. mem_devs_count - 1]
  md_maps,          \* md_maps[0 .. md_maps_count - 1]
  dmi_err_cnts,
  dmi_initialized,
  page,             \* of the display of devices, 0 when it is not up
  found,            \* what add_dmi_err() returned last
  hits,             \* history: physical addresses of the errors since init()
  ecc               \* history: an ECC error has been among them

dmi  == <<mem_devs, md_maps, dmi_err_cnts, dmi_initialized>>
vars == <<table, dmi, page, found, hits, ecc>>

Devs == 1 .. MAX_DMI_MEMDEVS

----------------------------------------------------------------------------
(* open_dmi() walks the structures; the one with which their number passes *)
(* the one announced is taken, and is the last.  Type 1 is taken for a     *)
(* mapped address as type 20 is.                                           *)
Readable(t) == t.anchor /\ t.checksum /\ ~ (t.major < 2 /\ t.minor < 1)

Walked(t) ==
  SubSeq(t.structs, 1, IF t.numstructs < Len(t.structs) THEN t.numstructs + 1
                       ELSE Len(t.structs))

IsDevice(s) == s.type = 17
IsMap(s)    == s.type \in {20, 1}

open_dmi(t) ==
  IF Readable(t) THEN [devs |-> SelectSeq(Walked(t), IsDevice),
                       maps |-> SelectSeq(Walked(t), IsMap)]
  ELSE [devs |-> <<>>, maps |-> <<>>]

(* The arrays have no check of their length: what they get fits.           *)
ASSUME FitsAssumption ==
  /\ MAX_DMI_MEMDEVS \in Nat
  /\ \A t \in Tables :
       /\ open_dmi(t).devs \in Seq({s \in Structs : IsDevice(s)})
       /\ open_dmi(t).maps \in Seq({s \in Structs : IsMap(s)})
       /\ Len(open_dmi(t).devs) + Len(open_dmi(t).maps) <= MAX_DMI_MEMDEVS

init_dmi ==
  /\ mem_devs' = open_dmi(table).devs
  /\ md_maps' = open_dmi(table).maps
  /\ dmi_initialized' = TRUE

Ready == IF dmi_initialized THEN UNCHANGED <<mem_devs, md_maps, dmi_initialized>>
         ELSE init_dmi
Clean == [n \in Devs |-> 0]
Before == IF dmi_initialized THEN dmi_err_cnts ELSE Clean

(* The ends are shifted in 32 bits.                                        *)
Shl10(n) == (n * KB) % AddrBytes
Within_with_end_open(adr, m) == adr >= Shl10(m.start) /\ adr < Shl10(m.end)
Within(adr, m) == adr >= Shl10(m.start) /\ adr <= Shl10(m.end)

(* The pairs of a map and a device the two loops come to, in their order.  *)
Matches(adr, maps, devs) ==
  {m \in (1 .. Len(maps)) \X (1 .. Len(devs)) :
     Within(adr, maps[m[1]]) /\ devs[m[2]].handle = maps[m[1]].md_handle}

Blamed_with_count(n, hit) == IF \E m \in hit : m[2] = n THEN Before[n] + 1 ELSE Before[n]
Blamed(n, hit) == IF \E m \in hit : m[2] = n THEN 1 ELSE Before[n]

(* What the last of them made of it: a device that an earlier one has just *)
(* marked is not new to it.                                                *)
Verdict_with_no_zero(hit) == IF hit = {} THEN -1 ELSE 1
Verdict(hit) ==
  LET Last == CHOOSE m \in hit : \A n \in hit :
                n[1] < m[1] \/ (n[1] = m[1] /\ n[2] <= m[2])
      Again == \E m \in hit : m # Last /\ m[2] = Last[2]
  IN  IF hit = {} THEN -1 ELSE IF Before[Last[2]] # 0 \/ Again THEN 0 ELSE 1

add_dmi_err(adr) ==
  LET hit == Matches(adr, md_maps', mem_devs')
  IN  /\ dmi_err_cnts' = [n \in Devs |-> Blamed(n, hit)]
      /\ found' = Verdict(hit)

(* Where map_page() and emapping() make a physical address appear: every   *)
(* window but the first in the upper half of the address space.            *)
Mapped(phys) == IF phys < WindowBytes THEN phys
                ELSE WindowBytes + (phys % WindowBytes)

----------------------------------------------------------------------------
Init ==
  /\ table \in Tables
  /\ mem_devs = <<>> /\ md_maps = <<>> /\ dmi_err_cnts = Clean
  /\ dmi_initialized = FALSE
  /\ page = 0 /\ found = 0 /\ hits = {} /\ ecc = FALSE

(* What common_err() does first, for an error at phys.                     *)
Count(phys, adr) ==
  /\ page = 0 /\ phys \notin hits /\ Cardinality(hits) < MaxErrors
  /\ Ready
  /\ add_dmi_err(adr)
  /\ hits' = hits \cup {phys}
  /\ UNCHANGED <<table, page>>

(* An error that a test found; an error that the memory controller did,    *)
(* whose page print_ecc_err() passes for its address.                      *)
common_err(phys)    == Count(phys, Mapped(phys)) /\ UNCHANGED ecc
print_ecc_err(phys) == Count(phys, phys \div PageBytes) /\ ecc' = TRUE

(* The display of the menu; without a device it waits for a key as well.   *)
Pages == IF mem_devs = <<>> THEN 1 ELSE 1 + (Len(mem_devs) - 1) \div PerPage
print_dmi_info ==
  /\ page = 0 /\ page' = 1
  /\ Ready
  /\ dmi_err_cnts' = Before
  /\ UNCHANGED <<table, found, hits, ecc>>
NextPage ==
  /\ page # 0
  /\ page' = IF page < Pages THEN page + 1 ELSE 0
  /\ UNCHANGED <<table, dmi, found, hits, ecc>>

(* init() once more.                                                       *)
Cleared == IF dmi_initialized THEN Clean ELSE dmi_err_cnts
restart ==
  /\ page = 0
  /\ dmi_err_cnts' = Cleared
  /\ hits' = {} /\ ecc' = FALSE
  /\ UNCHANGED <<table, mem_devs, md_maps, dmi_initialized, page, found>>

Next ==
  \/ \E phys \in Physical : common_err(phys)
  \/ \E phys \in Physical : print_ecc_err(phys)
  \/ print_dmi_info
  \/ NextPage
  \/ restart

Spec == Init /\ [][Next]_vars

----------------------------------------------------------------------------
TypeOK ==
  /\ table \in Tables
  /\ mem_devs \in Seq(Structs) /\ md_maps \in Seq(Structs)
  /\ Len(mem_devs) + Len(md_maps) <= MAX_DMI_MEMDEVS
  /\ dmi_err_cnts \in [Devs -> {0, 1}] /\ dmi_initialized \in BOOLEAN
  /\ found \in {-1, 0, 1}
  /\ page \in 0 .. Pages /\ ecc \in BOOLEAN

(* What the table says of a physical address, in bytes that are not cut.   *)
Covers(m, phys) == phys \in m.start * KB .. m.end * KB + KB - 1
Truly(j, phys) == \E i \in 1 .. Len(md_maps) :
  md_maps[i].type = 20 /\ Covers(md_maps[i], phys) /\ md_maps[i].md_handle = mem_devs[j].handle
Low == WindowBytes * 2
AllLow == \A i \in 1 .. Len(md_maps) :
  md_maps[i].start <= md_maps[i].end /\ md_maps[i].end * KB + KB <= Low

(* A device is blamed only for an error in memory that is mapped to it,    *)
(* found since the last start, as long as all memory is below 4 GB, where  *)
(* the ends of a range and the address an error is found at are what they  *)
(* seem, and as long as the controller has reported none.                  *)
BlamedForCause ==
  AllLow /\ ~ ecc /\ (\A p \in hits : p < Low) =>
    \A j \in 1 .. Len(mem_devs) :
      dmi_err_cnts[j] = 1 => \E p \in hits : Truly(j, p)

(* An error in memory of a device is never forgotten: the device stays     *)
(* blamed until the next start, whenever the table came to be read.  The   *)
(* last kilobyte of a range is left out but for its first byte.            *)
CauseBlamed ==
  AllLow /\ ~ ecc => \A j \in 1 .. Len(mem_devs), p \in hits, i \in 1 .. Len(md_maps) :
    /\ md_maps[i].md_handle = mem_devs[j].handle
    /\ p < Low /\ Covers(md_maps[i], p) /\ p <= md_maps[i].end * KB
    => dmi_err_cnts[j] = 1

(* The devices blamed are those whose memory errors were found in.         *)
BlameExact == BlamedForCause /\ CauseBlamed

(* add_dmi_err() says whether the list of bad devices grew (dmi.c:282).    *)
(* This is so where an address is mapped to one device, once.              *)
OneDevice(adr) == \A m, n \in Matches(adr, md_maps', mem_devs') : m = n
SaysChange ==
  [][\A phys \in Physical :
       hits' = hits \cup {phys} /\ hits' # hits /\ ~ ecc' /\ OneDevice(Mapped(phys)) =>
         ((found' = 1) <=> (dmi_err_cnts' # Before))]_vars
=============================================================================
