----------------------------- MODULE MCAuthCode -----------------------------
(***************************************************************************)
(* Instances of AuthCode for TLC.                                          *)
(***************************************************************************)
EXTENDS AuthCode

CONSTANTS k1, k2, u1, c1, c2, r1, r2, l1, x1, x2
=============================================================================
