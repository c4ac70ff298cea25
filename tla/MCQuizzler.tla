------------------------------ MODULE MCQuizzler ------------------------------
(* Quizzler with the questions of both apps, once round and a little further. *)
EXTENDS Quizzler

OnceRound == 14
ThreeAtOnce == 3
=============================================================================
