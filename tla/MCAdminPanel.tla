----------------------------- MODULE MCAdminPanel -----------------------------
(***************************************************************************)
(* Instances of AdminPanel for TLC.                                        *)
(***************************************************************************)
EXTENDS AdminPanel, TLC

CONSTANTS p1, p2, u1, u2, g1

Ranges == {7, 30}
Nonces == 1..4

\* Tabs and users are interchangeable.
Symmetry == Permutations(Tab) \cup Permutations(User)
=============================================================================
