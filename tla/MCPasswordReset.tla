-------------------------- MODULE MCPasswordReset ---------------------------
(***************************************************************************)
(* Instances of PasswordReset for TLC.                                     *)
(***************************************************************************)
EXTENDS PasswordReset, TLC

CONSTANTS t1, t2, u1, r1, r2, b1, b2

\* Tokens, requests and browsers are interchangeable; safety runs only.
Symmetry == Permutations(Token) \cup Permutations(Redeem) \cup Permutations(Browser)
=============================================================================
