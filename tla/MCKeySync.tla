------------------------------ MODULE MCKeySync ------------------------------
(* Two of the six keys: one more and one fewer to fetch than the other. *)
EXTENDS KeySync

CONSTANTS access, refresh

TwoSignatures == <<access, refresh>>
=============================================================================
