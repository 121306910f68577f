----------------------------- MODULE MCCardStatus -----------------------------
(* Instances of CardStatus for TLC. *)
EXTENDS CardStatus

CONSTANT c1
OneClient == {c1}
Either    == BOOLEAN
===============================================================================
