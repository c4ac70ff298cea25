---------------------------- MODULE MCFlashChat ----------------------------
(* Small instances of FlashChat for TLC. *)
EXTENDS FlashChat, TLC

CONSTANTS d1, d2, d3, u1, u2, p1, p2

Docs2 == {d1, d2}
Docs3 == {d1, d2, d3}
WellFormed2 == {d1, d2}    \* in Docs3, d3 lacks a String sender or body
OneUser == {u1}
TwoUsers == {u1, u2}
Placeholders == {p1, p2}

(* One screen, its user and the backend. *)
SendingEnv == {"others write", "delete", "reject", "listen fails", "type"}
(* Accounts come and go. *)
AccountEnv == {"others write", "reject", "sign out", "disable account"}
(* The connection comes and goes and the app is killed. *)
RestartEnv == {"others write", "delete", "reject", "offline", "sign out"}

(* Everything that can keep a stored message from its row. *)
DisplayEnv == {"others write", "delete", "reject", "offline", "listen fails"}

\* d1 and d2 are both well-formed, and the accounts are alike
SymmetricDocs == Permutations({d1, d2})
Symmetric == SymmetricDocs \cup Permutations(TwoUsers)
=============================================================================
