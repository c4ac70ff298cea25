------------------------------- MODULE MCClima -------------------------------
(* A small instance of Clima for TLC: one city and one text that is no URL. *)
EXTENDS Clima

CONSTANTS london, saoPaulo

Cities1 == {london}
Texts1 == {saoPaulo}
Questions == Cities1 \cup {NoText, Here}
=============================================================================
