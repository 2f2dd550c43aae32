----------------------------- MODULE MCEccPoll -----------------------------
(***************************************************************************)
(* Every controller in every mode its registers can say, on a board where  *)
(* it is found, and one each on boards where it is not.                    *)
(***************************************************************************)
EXTENDS EccPoll

Found(c) ==
  [chip : {c}, field : 0 .. 3, bit : BOOLEAN,
   mechanism : IF c \in {"K8", "K10"} THEN {"type1"} ELSE {"type1", "type2"},
   bridge : {TRUE}, amd15 : {c \in {"K8", "K10"}}]
Hidden(c) ==
  [chip : {c}, field : {2}, bit : {TRUE}, mechanism : {"none", "type2"},
   bridge : {FALSE}, amd15 : {FALSE}]

AllBoards ==
  UNION {{b \in Found(c) : b.mechanism = "type2" => c \in {"i440GX"}}
           : c \in DOMAIN controllers}
    \cup Hidden("E7500") \cup Hidden("nhm")
=============================================================================
