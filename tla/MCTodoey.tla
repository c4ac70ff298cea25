------------------------------ MODULE MCTodoey ------------------------------
(* A small instance of Todoey for TLC: titles 1 < 2 < 3, where 1 and 3 contain
   the short text, and 3 the long one as well. *)
EXTENDS Todoey

CONSTANTS short, long

Titles3 == 1..3
Texts2 == {short, long}
TextsIn3 == [t \in Titles3 |-> CASE t = 1 -> {short}
                                 [] t = 2 -> {}
                                 [] t = 3 -> {short, long}]
=============================================================================
