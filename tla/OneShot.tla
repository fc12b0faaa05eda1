------------------------------- MODULE OneShot ------------------------------
(***************************************************************************)
(* What authorization codes, invite tokens and password reset tokens have  *)
(* in common: a token is offered once, and of all the requests that try to *)
(* redeem it at most one takes it.  A token that lapsed, or whose redeemer *)
(* failed half-way, is gone all the same: it is never offered again.       *)
(***************************************************************************)
EXTENDS Naturals

CONSTANTS Token, Request, Null

VARIABLES
    offered,    \* tokens that can be taken
    gone,       \* tokens that were taken or that lapsed
    holding     \* [Request -> the token it took and is working on, or Null]

vars == <<offered, gone, holding>>

Init ==
    /\ offered = {}
    /\ gone = {}
    /\ holding = [r \in Request |-> Null]

Offer(t) ==
    /\ t \notin offered \cup gone
    /\ offered' = offered \cup {t}
    /\ UNCHANGED <<gone, holding>>

Take(r, t) ==
    /\ holding[r] = Null
    /\ t \in offered
    /\ offered' = offered \ {t}
    /\ gone' = gone \cup {t}
    /\ holding' = [holding EXCEPT ![r] = t]

Finish(r) ==
    /\ holding[r] # Null
    /\ holding' = [holding EXCEPT ![r] = Null]
    /\ UNCHANGED <<offered, gone>>

Lapse(S) ==
    /\ S \subseteq offered
    /\ offered' = offered \ S
    /\ gone' = gone \cup S
    /\ UNCHANGED holding

Next ==
    \/ \E t \in Token : Offer(t)
    \/ \E r \in Request, t \in Token : Take(r, t)
    \/ \E r \in Request : Finish(r)
    \/ \E S \in SUBSET offered : Lapse(S)

Spec == Init /\ [][Next]_vars
=============================================================================
