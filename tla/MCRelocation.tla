---------------------------- MODULE MCRelocation ----------------------------
(***************************************************************************)
(* An image with a record of each kind, in both tables, of symbols that    *)
(* are defined and of some that are not.                                   *)
(***************************************************************************)
EXTENDS MCSequencer, Relocation

R(table, kind, linked, undef) ==
  [table |-> table, kind |-> kind, offset |-> 1, linked |-> linked, value |-> 2, undef |-> undef]
AllRecords ==
  {R("REL", k, 1, u) : k \in Kinds \ {"JMP_SLOT"}, u \in BOOLEAN} \cup {R("JMPREL", "JMP_SLOT", 0, FALSE)}
SomePointers == "SYMTAB" :> 1 @@ "STRTAB" :> 1 @@ "REL" :> 2 @@ "JMPREL" :> 2
=============================================================================
