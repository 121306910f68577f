----------------------------- MODULE MCT1Protocol -----------------------------
(* APDUs of one to three units, with answers of one to three, between a      *)
(* host and a card: a whole command in one block with a chained answer, a    *)
(* chained command with a chained answer, and one answered by a single block.*)
EXTENDS T1Protocol

CommandUnits == <<1, 3, 2>>
AnswerUnits == <<3, 2, 1>>
BothIfs == {1, 2}
=============================================================================
