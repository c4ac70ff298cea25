------------------------------ MODULE MCEggTimer ------------------------------
(* EggTimer with the times of the app. *)
EXTENDS EggTimer

Buttons == {"Soft", "Medium", "Hard"}
Times == [h \in Buttons |-> CASE h = "Soft" -> 300
                              [] h = "Medium" -> 420
                              [] h = "Hard" -> 720]
=============================================================================
