------------------------------ MODULE MCSignIn ------------------------------
(* A small instance of SignIn for TLC: one account, which may or may not exist
   at launch. *)
EXTENDS SignIn

CONSTANT u1

Users1 == {u1}
=============================================================================
