----------------------------- MODULE Relocation -----------------------------
(***************************************************************************)
(* The relocation of the program by itself (reloc.c): each time run_at()   *)
(* has jumped to a copy, head.S calls _dl_start(), which changes the words *)
(* of that copy that hold addresses.  They are changed by the distance     *)
(* moved since the last time: nothing keeps the words as they were linked. *)
(*                                                                         *)
(* To the sequencer a jump is one step, so _dl_start() is part of it:      *)
(* nothing reads a word before it is done.  Addresses are lines, as in     *)
(* Sequencer, and differences do not wrap: words are taken modulo 2^32,    *)
(* where sums come out the same.                                           *)
(***************************************************************************)
EXTENDS SequencerProps

CONSTANTS
  Records,  \* the relocation records of the image
  Pointers  \* the pointers of its dynamic section, as linked

Kinds == {"NONE", "RELATIVE", "GLOB_DAT", "JMP_SLOT", "32", "PC32"}
Tags == {"PLTGOT", "STRTAB", "SYMTAB", "REL", "JMPREL"}

(* A record: the table it is in, its kind, where its word is and what that *)
(* was linked as, and the value of its symbol, which may be undefined.     *)
Record == [table : {"REL", "JMPREL"}, kind : Kinds, offset : Nat, linked : Int,
           value : Nat, undef : BOOLEAN]

ASSUME RecordsAssumption ==
  /\ Records \subseteq Record
  /\ DOMAIN Pointers \subseteq Tags /\ {"SYMTAB", "REL"} \subseteq DOMAIN Pointers
  /\ \A t \in DOMAIN Pointers : Pointers[t] \in Nat
  /\ \A r \in Records : r.table \in DOMAIN Pointers

(* An image is never put at address 0, which to the code means that there  *)
(* has been no relocation before.                                          *)
ASSUME AddressAssumption == Low > 0 /\ 0 \notin LoadAddrs

VARIABLES
  last_load_address,
  dynamic,  \* the pointers of the dynamic section
  word      \* what the word of each record holds

image == <<last_load_address, dynamic, word>>

-----------------------------------------------------------------------------
(* elf_machine_rel(): a word that holds w, when the image that was last at *)
(* ll is now at l.                                                         *)
Base(rec, addr) == IF rec.undef THEN 0 ELSE addr
First(ll) == ll = 0

Rel32(rec, w, l, ll) ==
  (IF First(ll) THEN w + rec.value ELSE w) + Base(rec, l) - Base(rec, ll)
RelPC32(rec, w, l, ll) ==
  (IF First(ll) THEN w + rec.value - rec.offset ELSE w)
    + (Base(rec, l) - l) - (Base(rec, ll) - ll)

elf_machine_rel(rec, w, l, ll) ==
  CASE rec.kind = "RELATIVE"               -> w + l - ll
    [] rec.kind \in {"GLOB_DAT", "JMP_SLOT"} -> Base(rec, l) + rec.value
    [] rec.kind = "32"                     -> Rel32(rec, w, l, ll)
    [] rec.kind = "PC32"                   -> RelPC32(rec, w, l, ll)
    [] rec.kind = "NONE"                   -> w

(* elf_get_dynamic_info(): the pointers move with the image.               *)
elf_get_dynamic_info(l, ll) == [t \in DOMAIN dynamic |-> dynamic[t] + l - ll]

(* elf_dynamic_do_rel(): a table that is not where its pointer says, or    *)
(* symbols that are not, are not read.                                     *)
Points(info, t, l) == info[t] = l + Pointers[t]
elf_dynamic_do_rel(info, l, ll) ==
  [r \in Records |-> IF Points(info, r.table, l) /\ Points(info, "SYMTAB", l)
                     THEN elf_machine_rel(r, word[r], l, ll) ELSE word[r]]

_dl_start(l) ==
  /\ last_load_address' = l
  /\ dynamic' = elf_get_dynamic_info(l, last_load_address)
  /\ word' = elf_dynamic_do_rel(dynamic', l, last_load_address)

-----------------------------------------------------------------------------
(* What each word has to hold when the image is at l: what it was linked   *)
(* for, there.                                                             *)
Symbol(rec, l) == rec.value + Base(rec, l)
Meaning(rec, l) ==
  CASE rec.kind = "RELATIVE"               -> rec.linked + l
    [] rec.kind \in {"GLOB_DAT", "JMP_SLOT"} -> Symbol(rec, l)
    [] rec.kind = "32"                     -> Symbol(rec, l) + rec.linked
    [] rec.kind = "PC32"                   -> Symbol(rec, l) + rec.linked - (l + rec.offset)
    [] rec.kind = "NONE"                   -> rec.linked

(* The boot loader leaves the image as it was linked, and startup_32 calls *)
(* _dl_start() for the first time.                                         *)
Loaded(l) ==
  /\ last_load_address = l
  /\ dynamic = [t \in DOMAIN Pointers |-> Pointers[t] + l]
  /\ word = [r \in Records |-> elf_machine_rel(r, r.linked, l, 0)]

(* A copy takes all the words with it; a jump to where the program is      *)
(* already moves nothing, and so changes nothing.                          *)
Moves == IF at' # at THEN _dl_start(at') ELSE UNCHANGED image

RelocInit == Init /\ Loaded(at)
RelocNext == Next /\ Moves
RelocSpec == RelocInit /\ [][RelocNext]_<<vars, image>>
RelocFairSpec == RelocSpec /\ WF_vars(Program)

(* The words of the copy that runs hold what they were linked for, however *)
(* often and by whatever way it has moved: what is added once is not added *)
(* again, what is relative to the image follows it, what is not stays      *)
(* (reloc.c).                                                              *)
WordsTrue == \A r \in Records : word[r] = Meaning(r, at)

(* The copy that runs is sound: it was not copied over the one that copied *)
(* it (run_at()), and it has been relocated to where it is (reloc.c).      *)
CopySound == NoSelfOverwrite /\ []WordsTrue
=============================================================================
