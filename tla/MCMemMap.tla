------------------------------ MODULE MCMemMap ------------------------------
(***************************************************************************)
(* Pages of 3 units, a hole of two pages from unit 12 to 18, addresses up  *)
(* to 36, tables of at most three entries; a probe every two pages, from   *)
(* page 3 on, that gives up after two in vain.  Coreboot is looked for in  *)
(* four places; its checksums are of words of three bits.                  *)
(***************************************************************************)
EXTENDS MemMap

E(from, to, t) == [addr |-> from, size |-> to - from, type |-> t]

(* Conventional memory with a tail that is not a page, entries that end in *)
(* the hole, that lie in it and that begin in it, extended memory, and     *)
(* reserved, ACPI and NVS pieces inside, across and behind it.             *)
Low  == {E(0, 12, RAM), E(0, 11, RAM), E(11, 14, RESERVED), E(5, 7, RESERVED),
         E(10, 16, RAM), E(13, 16, ACPI)}
High == {E(18, 33, RAM), E(16, 26, RAM), E(24, 29, ACPI), E(24, 29, RESERVED),
         E(27, 33, NVS), E(20, 22, RESERVED)}
\* An entry that wraps.
Wrapping == E(30, 38, RAM)

AllTables ==
  {<<>>, <<Wrapping>>, <<E(0, 12, RAM), Wrapping>>}
    \cup {<<E(1, 2, RAM), E(2, 9, ACPI)>>, <<E(0, 3, RAM), E(4, 5, RAM), E(5, 12, ACPI)>>}
    \cup {<<a>> : a \in Low \cup High}
    \cup {<<a, b>> : a \in Low \cup High, b \in Low \cup High}
    \cup {<<a, b, c>> : a \in Low, b \in High, c \in Low \cup High}
    \cup {<<c, b, a>> : a \in Low, b \in High, c \in High}
\* Coreboot tables: in any of the places, behind others that are damaged, in the
\* place that a table forwards to, and none.
RangeOf(e) == [addr |-> e.addr, size |-> e.size, ram |-> e.type = RAM]
Rec(tag, size, ranges, to) == [tag |-> tag, size |-> size, ranges |-> ranges, forward |-> to]
Memory(t) == Rec("memory", 2 + 5 * Len(t), [k \in DOMAIN t |-> RangeOf(t[k])], 0)
Forward(to) == Rec("forward", 4, <<>>, to)
Other(size) == Rec("other", size, <<>>, 0)
Sized(recs, bytes, entries) ==
  [signature |-> TRUE, header_bytes |-> TRUE, words |-> <<3, 4>>, table_words |-> <<2, 7, 1>>,
   table_checksum |-> 4, table_bytes |-> bytes, table_entries |-> entries, recs |-> recs]
SizeOfAll(recs) == FoldLeft(LAMBDA a, r : a + r.size, 0, recs)
Head1(recs) == Sized(recs, SizeOfAll(recs), Len(recs))
OneTable == <<E(0, 12, RAM), E(11, 14, RESERVED), E(18, 33, RAM)>>
Good == Head1(<<Other(3), Memory(OneTable)>>)
Damaged == {[Good EXCEPT !.signature = FALSE], [Good EXCEPT !.header_bytes = FALSE],
            [Good EXCEPT !.words[2] = 5], [Good EXCEPT !.table_words[1] = 1],
            [Good EXCEPT !.table_entries = 3]}
SomeBoards ==
  {<<>>, 2 :> Good, 0 :> Head1(<<Forward(0)>>),
   0 :> Head1(<<>>), 4 :> Head1(<<Memory(<<>>)>>), 5 :> Head1(<<Other(2)>>),
   4 :> Head1(<<Memory(OneTable), Memory(<<E(0, 12, RAM)>>)>>),
   4 :> Sized(<<Other(2), Memory(OneTable)>>, 2, 1),
   4 :> Head1(<<Memory(OneTable \o <<E(33, 35, RAM)>>)>>),
   1 :> Head1(<<Forward(9)>>) @@ 9 :> Good,
   1 :> Head1(<<Other(2), Forward(9)>>) @@ 9 :> Good,
   1 :> Head1(<<Memory(<<E(0, 12, RAM)>>)>>) @@ 4 :> Good}
    \cup {0 :> d @@ 5 :> Good : d \in Damaged}
    \cup {4 :> Head1(<<Memory(t)>>) : t \in AllTables}

\* The probes behind the program and above the hole.
Answering == {{9} \cup s : s \in SUBSET {18, 24, 30}}
=============================================================================
