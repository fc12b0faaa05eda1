----------------------------- MODULE MCBrowserApp -----------------------------
(***************************************************************************)
(* Instances of BrowserApp for TLC.                                        *)
(***************************************************************************)
EXTENDS BrowserApp

CONSTANTS u1, u2, c1

Tabs == 1..2
Tokens == 1..7
Nonces == 1..4
=============================================================================
