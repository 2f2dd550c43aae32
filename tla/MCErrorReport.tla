---------------------------- MODULE MCErrorReport ----------------------------
(***************************************************************************)
(* Two words side by side in page 0 and one in page 1, pages of four.      *)
(***************************************************************************)
EXTENDS ErrorReport

SomeData    == {<<2, {1}>>, <<3, {1}>>, <<5, {2, 3}>>}
SomeAddress == {<<2, {2}, {1, 2, 3}>>}
SomeEcc     == {<<1, 0, TRUE>>}
=============================================================================
