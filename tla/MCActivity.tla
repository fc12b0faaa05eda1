------------------------------ MODULE MCActivity -----------------------------
(***************************************************************************)
(* Instances of Activity for TLC.                                          *)
(***************************************************************************)
EXTENDS Activity, TLC

CONSTANTS e1, e2, e3, u1, u2, c1, c2, p1, p2

\* Settings of ACTIVITY_RETENTION_DAYS: one day, zero, and text.
Settings == {1, 0, NaN}

\* Rows, calls and apps are interchangeable; safety runs only.
Symmetry == Permutations(Event) \cup Permutations(Recorder) \cup Permutations(Client)
=============================================================================
