------------------------------ MODULE Coreboot ------------------------------
(***************************************************************************)
(* What linuxbios.c makes of a coreboot table: its checks, its records and *)
(* the ranges of its memory record.                                        *)
(*                                                                         *)
(* A header is what memory holds where one is looked for, with what        *)
(* follows it: the words its checksums are taken of (16 bits wide in the   *)
(* code, 0 .. WordMask here), and its records.  Sizes are counted in words *)
(* of four bytes.                                                          *)
(***************************************************************************)
EXTENDS Integers, SequencesExt

CONSTANT WordMask  \* 0xFFFF

ASSUME WordMaskAssumption == WordMask \in Nat \ {0}

RecordSize == 2  \* sizeof(struct lb_memory): tag and size
RangeSize  == 5  \* sizeof(struct lb_memory_range): start, size, type

MemoryRange == [addr : Nat, size : Nat, ram : BOOLEAN]
Record == [tag : {"memory", "forward", "other"}, size : Nat, ranges : Seq(MemoryRange),
           forward : Nat]
Header == [signature : BOOLEAN, header_bytes : BOOLEAN,
           words : Seq(0 .. WordMask),        \* of the header, its checksum included
           table_words : Seq(0 .. WordMask),  \* of the records
           table_checksum : 0 .. WordMask,
           table_bytes : Nat, table_entries : Nat,
           recs : Seq(Record)]                \* as they lie in memory, one after the other

(* A sum with the carry added back in, inverted.                           *)
AddWord(sum, word) ==
  IF sum + word > WordMask THEN sum + word - WordMask ELSE sum + word
ip_compute_csum(words) == WordMask - FoldLeft(AddWord, 0, words)

(* for_each_lbrec(): the records up to the first that has no size or does  *)
(* not end within the table.                                               *)
Ends(recs) == LET end[k \in 0 .. Len(recs)] == IF k = 0 THEN 0 ELSE end[k - 1] + recs[k].size
              IN  end
InTable(head, k) == head.recs[k].size >= 1 /\ Ends(head.recs)[k] <= head.table_bytes
Visited(head) ==
  {k \in DOMAIN head.recs : \A n \in 1 .. k : InTable(head, n)}
count_lb_records(head) == Cardinality(Visited(head))

(* What the search asks of a header, in this order.                        *)
Accepted(head) ==
  /\ head.signature /\ head.header_bytes
  /\ ip_compute_csum(head.words) = 0
  /\ ip_compute_csum(head.table_words) = head.table_checksum
  /\ count_lb_records(head) = head.table_entries

(* Only the first record may forward to another table.                     *)
Forwards(head) == head.recs # <<>> /\ head.recs[1].tag = "forward"

(* The first memory record, and how many ranges its size has room for.     *)
MemoryRecords(head) == {k \in Visited(head) : head.recs[k].tag = "memory"}
MemoryRecord(head) ==
  head.recs[CHOOSE k \in MemoryRecords(head) : \A n \in MemoryRecords(head) : k <= n]
Entries(rec) == (rec.size - RecordSize) \div RangeSize
=============================================================================
