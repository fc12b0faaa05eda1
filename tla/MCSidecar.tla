------------------------------ MODULE MCSidecar ------------------------------
(***************************************************************************)
(* Instances of Sidecar for TLC.                                           *)
(***************************************************************************)
EXTENDS Sidecar, TLC

CONSTANTS u1, u2, ro1, ro2, t1, t2, t3, n1, n2, x1, x2

\* Users, roles, tokens, nonces and exchanges are interchangeable.
Symmetry ==
    Permutations(User) \cup Permutations(Role) \cup Permutations(Token)
        \cup Permutations(Nonce) \cup Permutations(Exchange)

Issued == Token \ Unissued

\* The bounds of the run sidecar.  Either there is one login, two lives of the access
\* token and all the refresh tokens, and admins leave the other user alone; or there
\* are two logins and one life; or one login and one exchange at a time, with the life
\* of the code on top.
OneLogin ==
    /\ Cardinality(drawn) <= 1
    /\ \A u \in User, ro \in Role :
         past[u][ro] # None => \E t \in Issued : store[t].user = u

TwoLogins == now <= 1 /\ Cardinality(Issued) <= 2

OneByOne == Cardinality({r \in Exchange : req[r].pc # "idle" \/ call[r].pc # "none"}) <= 1

Bounded ==
    /\ changes = 0 => \A u, v \in User : role[u] = role[v]
    /\ (OneLogin /\ (now <= 2 \/ OneByOne)) \/ TwoLogins
=============================================================================
