------------------------------ MODULE MCAccounts ------------------------------
(***************************************************************************)
(* Instances of Accounts for TLC.                                          *)
(***************************************************************************)
EXTENDS Accounts, FiniteSets, TLC

CONSTANTS t1, t2, u1, u2, m1, m2, n1, n2, a1, i1, r1, r2, p1

\* Ranks of roles.
OneRank == {0}
ThreeRanks == 0 .. 2

\* The admin's invites.
Lowest == {[app |-> a1, role |-> 0]}
OneList == {Lowest}

\* Ids, tokens and calls are interchangeable; safety runs only.
Symmetry == Permutations(Token) \cup Permutations(User) \cup Permutations(Redeem)

-----------------------------------------------------------------------------
(* Bounds of the run accounts, which looks at two things by turns: everything at *)
(* once around one email, one name and the lowest role, and one request at a     *)
(* time with all of them.                                                        *)

Entries ==
    ({users[u] : u \in User} \cup {invites[t] : t \in Token} \cup {red[r].row : r \in Redeem}
       \cup {iss[i] : i \in Issuer} \cup {imp[p] : p \in Importer}) \ {Null}

Race ==
    /\ \A x \in Entries : x.email \in {m1, Null}
    /\ \A r \in Redeem : red[r].name \in {n1, Null}
    /\ \A p \in Importer : imp[p].name \in {n1, Null}
    /\ \A u \in User : users[u] # Null => users[u].name = n1
    /\ \A g \in given : g.role = 0
    /\ \A i \in Issuer : iss[i].grants \subseteq Lowest
    /\ \A p \in Importer : imp[p].role \in {0, Null}

Busy ==
    {i \in Issuer : iss[i].pc # "idle"} \cup {r \in Redeem : red[r].pc # "idle"}
      \cup {p \in Importer : imp[p].pc # "idle"}

NameFor(e) == IF e = m1 THEN n1 ELSE n2

Chain ==
    /\ now = 0
    /\ Cardinality(Busy) <= 1
    /\ \A i \in Issuer : iss[i].pc # "idle" => iss[i].by # Null
    /\ \A u \in User : users[u] # Null => users[u].name = NameFor(users[u].email)
    /\ \A r \in Redeem : red[r].row # Null => red[r].name = NameFor(red[r].row.email)
    /\ \A p \in Importer : imp[p].name \in {n1, Null} /\ imp[p].role \in {2, Null}
    /\ \A g \in given : g.role > 0
    /\ \A rep \in reports : rep.user = Null
    /\ issued # {} => reports = {}

Bounded == Race \/ Chain
=============================================================================
