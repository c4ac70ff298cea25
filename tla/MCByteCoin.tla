------------------------------ MODULE MCByteCoin ------------------------------
(* A small instance of ByteCoin for TLC. *)
EXTENDS ByteCoin

CONSTANTS aud, eur, usd

Currencies3 == {aud, eur, usd}
=============================================================================
