--------------------------- MODULE MCSessionStore ---------------------------
(***************************************************************************)
(* Instances of SessionStore for TLC.                                      *)
(***************************************************************************)
EXTENDS SessionStore, FiniteSets

CONSTANTS t1, t2, t3, p1, p2, d1, u1, c1

\* The database clock one unit behind the server's.
Behind == -1

\* Tokens are interchangeable, so it is enough to let them be committed in order.
InOrder == issued \in {{}, {t1}, {t1, t2}, {t1, t2, t3}}

SignIns == issued \ {g.to : g \in grants}
Open == {p \in Proc : txn[p].pc # "idle"}
Resets == {d \in Resetter : del[d].user # Null}

\* One sign-in and what it is refreshed to.  Callers present tokens that were stored
\* once.  When the last token is out, no reset runs and one refresh at a time; and
\* at the end of time there is only the cleanup job.
Bounded ==
    /\ InOrder
    /\ Cardinality(SignIns) <= 1
    /\ \A p \in Open : txn[p].token \in issued
    /\ issued = Token => Cardinality(Open) <= 1 /\ Resets = {}
    /\ now = MaxTime => Open = {} /\ Resets = {}
=============================================================================
