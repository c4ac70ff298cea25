-------------------------- MODULE MessageLifecycle --------------------------
(***************************************************************************)
(* What Flash Chat promises about one message, whatever the order of       *)
(* taps, callbacks, sign-outs, network answers and restarts: it moves      *)
(* forward through its phases, once, and a screen shows it only after it   *)
(* was stored on this device or committed by the backend.                  *)
(*                                                                         *)
(*    unsent -> queued -> stored -> committed -> gone                      *)
(*    queued -> lost (process killed)     stored -> refused                 *)
(*    unsent -> committed (somebody else's message)                        *)
(***************************************************************************)
CONSTANT Doc

VARIABLES phase,   \* phase[d]: how far message d has come
          seen     \* the messages on the screen

lifeVars == <<phase, seen>>

Phase == {"unsent", "queued", "stored", "committed", "refused", "gone",
          "lost"}

Moves == {<<"unsent", "queued">>, <<"queued", "stored">>,
          <<"stored", "committed">>, <<"stored", "refused">>,
          <<"committed", "gone">>, <<"unsent", "committed">>}

Showable == {d \in Doc : phase[d] \in {"stored", "committed", "refused", "gone"}}

(* The device may hold messages from an earlier session. *)
LifeInit == /\ phase \in [Doc -> {"unsent", "committed"}]
            /\ seen = {}

Move(d, p) == /\ <<phase[d], p>> \in Moves
              /\ phase' = [phase EXCEPT ![d] = p]
              /\ UNCHANGED seen

Show(S) == /\ S \subseteq Showable
           /\ seen' = S
           /\ UNCHANGED phase

(* A restart empties the screen and loses what was not stored yet. *)
Restart == /\ phase' = [d \in Doc |-> IF phase[d] = "queued" THEN "lost"
                                                             ELSE phase[d]]
           /\ seen' = {}

LifeNext == \/ \E d \in Doc, p \in Phase : Move(d, p)
            \/ \E S \in SUBSET Doc : Show(S)
            \/ Restart

LifeSpec == LifeInit /\ [][LifeNext]_lifeVars
=============================================================================
