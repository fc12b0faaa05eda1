--------------------------- MODULE Accounts_proofs ---------------------------
(***************************************************************************)
(* Proofs that Accounts keeps its invariant, for any number of users,      *)
(* apps, roles, invites and concurrent requests.                           *)
(*                                                                         *)
(* The tables of accounts only grow: a row of users never changes or goes, *)
(* what was given out stays given out, and an invite that is gone stays    *)
(* gone.  So what one request has established stays true while the others  *)
(* run, which is half of every step's proof (the lemmas on Grow).          *)
(***************************************************************************)
EXTENDS Accounts, TLAPS

Grow ==
    /\ \A u \in User : users[u] # Null => users'[u] = users[u]
    /\ given \subseteq given' /\ issued \subseteq issued'
    /\ \A t \in issued : invites[t] = Null => invites'[t] = Null

\* A grant is a role, in an app that declares roles or an unknown one.
LEMMA GrantFacts ==
    /\ \A g \in Grant : g.app \in App /\ g.role \in Role /\ g.role \in Int
                         /\ (g.app \in RoleLess => g.role = -1)
    /\ \A a \in App, r \in Role : a \notin RoleLess => [app |-> a, role |-> r] \in Grant
  BY RoleAssumption DEF Grant

\* What holds of an invite's row keeps holding.
LEMMA RowOKGrows ==
    ASSUME Grow, NEW w \in Row, RowOK(w) PROVE RowOK(w)'
  <1>1. w.expected \in User \cup {Null}
    BY DEF Row
  <1>2. QED
    BY <1>1 DEF Grow, RowOK, Owner

\* What a running creation of an invite has established stays.
LEMMA IssOKGrows ==
    ASSUME Grow, NEW x \in Iss, IssOK(x) PROVE IssOK(x)'
  <1>1. x.expected \in User \cup {Null}
    BY DEF Iss
  <1>2. QED
    BY <1>1 DEF Grow, IssOK, Owner

\* What a running redemption has established stays.
LEMMA RedOKGrows ==
    ASSUME Grow, NEW x \in Red, RedOK(x) PROVE RedOK(x)'
  <1>1. x.pc \notin {"idle", "begun"} =>
          x.row \in Row /\ x.token \in issued' /\ RowOK(x.row)'
    <2> SUFFICES ASSUME x.pc \notin {"idle", "begun"}
                 PROVE  x.row \in Row /\ x.token \in issued' /\ RowOK(x.row)'
      OBVIOUS
    <2>1. x.row \in Row /\ x.token \in issued /\ RowOK(x.row)
      BY DEF RedOK
    <2>2. QED
      BY <2>1, RowOKGrows DEF Grow
  <1>2. x.pc \in {"consumed", "absent", "granting"} => invites'[x.token] = Null
    BY DEF RedOK, Grow
  <1>3. x.pc = "granting" =>
          /\ x.user \in User /\ users'[x.user] # Null /\ x.left \subseteq x.row.grants
          /\ x.created => users'[x.user].from = x.token
    BY DEF RedOK, Grow
  <1>4. /\ x.pc # "idle" => x.token \in Token /\ x.name \in Name
        /\ x.created => x.pc = "granting"
    BY DEF RedOK
  <1>5. QED
    BY <1>1, <1>2, <1>3, <1>4 DEF RedOK

\* What a running import has established stays.
LEMMA ImpOKGrows ==
    ASSUME Grow, NEW x \in Imp, ImpOK(x) PROVE ImpOK(x)'
  BY DEF Grow, ImpOK, Owner, Named

\* Requests that do not move keep what they have established.
LEMMA OthersKeep ==
    ASSUME CoreInv, Grow
    PROVE  /\ UNCHANGED iss => IssInv'
           /\ UNCHANGED red => RedInv'
           /\ UNCHANGED imp => ImpInv'
  <1>1. TypeOK /\ IssInv /\ RedInv /\ ImpInv
    BY DEF CoreInv
  <1>2. UNCHANGED iss => IssInv'
    BY <1>1, IssOKGrows DEF IssInv, TypeOK
  <1>3. UNCHANGED red => RedInv'
    BY <1>1, RedOKGrows DEF RedInv, TypeOK
  <1>4. UNCHANGED imp => ImpInv'
    BY <1>1, ImpOKGrows DEF ImpInv, TypeOK
  <1>5. QED
    BY <1>2, <1>3, <1>4

\* One creation of an invite moves.
LEMMA IssMoves ==
    ASSUME CoreInv, Grow, NEW i \in Issuer, NEW y \in Iss, IssOK(y)',
           iss' = [iss EXCEPT ![i] = y]
    PROVE  IssInv' /\ iss' \in [Issuer -> Iss]
  <1>1. TypeOK /\ IssInv
    BY DEF CoreInv
  <1>2. iss' \in [Issuer -> Iss]
    BY <1>1 DEF TypeOK
  <1>3. \A j \in Issuer : iss'[j] = y \/ iss'[j] = iss[j]
    BY <1>1 DEF TypeOK
  <1>4. \A j \in Issuer : iss[j] \in Iss
    BY <1>1 DEF TypeOK
  <1>5. \A x \in {iss[j] : j \in Issuer} : IssOK(x)'
    BY <1>1, <1>4, IssOKGrows DEF IssInv
  <1>6. QED
    BY <1>2, <1>3, <1>5 DEF IssInv

\* One redemption moves.
LEMMA RedMoves ==
    ASSUME CoreInv, Grow, NEW r \in Redeem, NEW y \in Red, RedOK(y)',
           red' = [red EXCEPT ![r] = y]
    PROVE  RedInv' /\ red' \in [Redeem -> Red]
  <1>1. TypeOK /\ RedInv
    BY DEF CoreInv
  <1>2. red' \in [Redeem -> Red]
    BY <1>1 DEF TypeOK
  <1>3. \A j \in Redeem : red'[j] = y \/ red'[j] = red[j]
    BY <1>1 DEF TypeOK
  <1>4. \A j \in Redeem : red[j] \in Red
    BY <1>1 DEF TypeOK
  <1>5. \A x \in {red[j] : j \in Redeem} : RedOK(x)'
    BY <1>1, <1>4, RedOKGrows DEF RedInv
  <1>6. QED
    BY <1>2, <1>3, <1>5 DEF RedInv

\* One import moves.
LEMMA ImpMoves ==
    ASSUME CoreInv, Grow, NEW p \in Importer, NEW y \in Imp, ImpOK(y)',
           imp' = [imp EXCEPT ![p] = y]
    PROVE  ImpInv' /\ imp' \in [Importer -> Imp]
  <1>1. TypeOK /\ ImpInv
    BY DEF CoreInv
  <1>2. imp' \in [Importer -> Imp]
    BY <1>1 DEF TypeOK
  <1>3. \A j \in Importer : imp'[j] = y \/ imp'[j] = imp[j]
    BY <1>1 DEF TypeOK
  <1>4. \A j \in Importer : imp[j] \in Imp
    BY <1>1 DEF TypeOK
  <1>5. \A x \in {imp[j] : j \in Importer} : ImpOK(x)'
    BY <1>1, <1>4, ImpOKGrows DEF ImpInv
  <1>6. QED
    BY <1>2, <1>3, <1>5 DEF ImpInv

\* Nothing is running in a request at rest.
LEMMA AtRest ==
    /\ NoIss \in Iss /\ NoRed \in Red /\ NoImp \in Imp
    /\ IssOK(NoIss) /\ RedOK(NoRed) /\ ImpOK(NoImp)
    /\ IssOK(NoIss)' /\ RedOK(NoRed)' /\ ImpOK(NoImp)'
  <1>1. NoIss \in Iss /\ NoRed \in Red /\ NoImp \in Imp
    BY DEF NoIss, Iss, NoRed, Red, NoImp, Imp, Status
  <1>2. NoIss.pc = "idle" /\ NoRed.pc = "idle" /\ NoImp.pc = "idle" /\ ~NoRed.created
    BY DEF NoIss, NoRed, NoImp
  <1>3. QED
    BY <1>1, <1>2 DEF IssOK, RedOK, ImpOK

\* The tables keep their part of the invariant while invites only go.
LEMMA TablesKeep ==
    ASSUME CoreInv, Grow, UNCHANGED <<users, access>>, issued' \subseteq Token,
           \A t \in Token : invites'[t] # Null => invites'[t] = invites[t]
    PROVE  TableInv' /\ InviteInv'
  <1>0. TypeOK /\ TableInv /\ InviteInv
    BY DEF CoreInv
  <1>1. TableInv'
    <2>1. \A t \in Token : invites'[t] # Null => t \in issued'
      BY <1>0 DEF TableInv, Grow
    <2>2. \A u \in User, a \in App : access'[u][a] # Null =>
            \E g \in given' : g.app = a /\ access'[u][a] <= g.role
      BY <1>0 DEF TableInv, Grow
    <2>3. QED
      BY <1>0, <2>1, <2>2 DEF TableInv
  <1>2. InviteInv'
    <2> SUFFICES ASSUME NEW t \in issued', NEW w, w = invites'[t], w # Null
                 PROVE  RowOK(w)'
      BY DEF InviteInv
    <2>1. w = invites[t] /\ t \in issued /\ w \in Row
      BY <1>0 DEF TypeOK, TableInv
    <2>2. RowOK(w)
      BY <1>0, <2>1 DEF InviteInv
    <2>3. QED
      BY <2>1, <2>2, RowOKGrows
  <1>3. QED
    BY <1>1, <1>2

\* What was noted keeps its account.
LEMMA NotesKeep ==
    ASSUME CoreInv, Grow
    PROVE  /\ UNCHANGED signedOn => SignOnIsOwn'
           /\ UNCHANGED reports => ImportLands'
  <1>0. TypeOK /\ SignOnIsOwn /\ ImportLands
    BY DEF CoreInv
  <1>1. UNCHANGED signedOn => SignOnIsOwn'
    BY <1>0 DEF SignOnIsOwn, Grow, TypeOK
  <1>2. UNCHANGED reports => ImportLands'
    <2> SUFFICES ASSUME UNCHANGED reports, NEW n \in reports
                 PROVE  \/ \E u \in User : n.user = u /\ Owner(u, n.email)'
                        \/ /\ NameIsUnique /\ n.user = Null
                           /\ \E u \in User : /\ Named(u, n.name)'
                                              /\ users'[u].email # n.email
      BY DEF ImportLands, Owner, Named
    <2>1. CASE \E u \in User : n.user = u /\ Owner(u, n.email)
      BY <2>1 DEF Owner, Grow
    <2>2. CASE /\ NameIsUnique /\ n.user = Null
               /\ \E u \in User : Named(u, n.name) /\ users[u].email # n.email
      BY <2>2 DEF Named, Grow
    <2>3. QED
      BY <1>0, <2>1, <2>2 DEF ImportLands
  <1>3. QED
    BY <1>1, <1>2

\* A step that leaves the tables and what was given alone only has to say what
\* the request that moves establishes.
LEMMA StillGrows ==
    ASSUME UNCHANGED <<users, given, issued, invites>> PROVE Grow
  BY DEF Grow

\* A creation of an invite moves and touches no table.
LEMMA OnlyIss ==
    ASSUME CoreInv, NEW i \in Issuer, NEW y \in Iss, IssOK(y)', iss' = [iss EXCEPT ![i] = y],
           UNCHANGED <<now, invites, issued, users, access, red, imp, given, signedOn, reports>>
    PROVE  CoreInv'
  <1>0. TypeOK
    BY DEF CoreInv
  <1>1. Grow /\ issued' \subseteq Token
    BY <1>0, StillGrows DEF TypeOK
  <1>2. IssInv' /\ iss' \in [Issuer -> Iss]
    BY <1>1, IssMoves
  <1>3. TypeOK'
    BY <1>0, <1>2 DEF TypeOK
  <1>4. TableInv' /\ InviteInv' /\ RedInv' /\ ImpInv' /\ SignOnIsOwn' /\ ImportLands'
    BY <1>1, TablesKeep, OthersKeep, NotesKeep
  <1>5. QED
    BY <1>2, <1>3, <1>4 DEF CoreInv

\* A redemption moves and touches no table.
LEMMA OnlyRed ==
    ASSUME CoreInv, NEW r \in Redeem, NEW y \in Red, RedOK(y)', red' = [red EXCEPT ![r] = y],
           UNCHANGED <<now, invites, issued, users, access, iss, imp, given, signedOn, reports>>
    PROVE  CoreInv'
  <1>0. TypeOK
    BY DEF CoreInv
  <1>1. Grow /\ issued' \subseteq Token
    BY <1>0, StillGrows DEF TypeOK
  <1>2. RedInv' /\ red' \in [Redeem -> Red]
    BY <1>1, RedMoves
  <1>3. TypeOK'
    BY <1>0, <1>2 DEF TypeOK
  <1>4. TableInv' /\ InviteInv' /\ IssInv' /\ ImpInv' /\ SignOnIsOwn' /\ ImportLands'
    BY <1>1, TablesKeep, OthersKeep, NotesKeep
  <1>5. QED
    BY <1>2, <1>3, <1>4 DEF CoreInv

\* An import moves and touches no table.
LEMMA OnlyImp ==
    ASSUME CoreInv, NEW p \in Importer, NEW y \in Imp, ImpOK(y)', imp' = [imp EXCEPT ![p] = y],
           UNCHANGED <<now, invites, issued, users, access, iss, red, given, signedOn, reports>>
    PROVE  CoreInv'
  <1>0. TypeOK
    BY DEF CoreInv
  <1>1. Grow /\ issued' \subseteq Token
    BY <1>0, StillGrows DEF TypeOK
  <1>2. ImpInv' /\ imp' \in [Importer -> Imp]
    BY <1>1, ImpMoves
  <1>3. TypeOK'
    BY <1>0, <1>2 DEF TypeOK
  <1>4. TableInv' /\ InviteInv' /\ IssInv' /\ RedInv' /\ SignOnIsOwn' /\ ImportLands'
    BY <1>1, TablesKeep, OthersKeep, NotesKeep
  <1>5. QED
    BY <1>2, <1>3, <1>4 DEF CoreInv

-----------------------------------------------------------------------------
(* Creating invites. *)

\* What an admin grants is not bounded by anything.
LEMMA AdminInviteKeeps ==
    ASSUME CoreInv, NEW i \in Issuer, NEW e \in Email, NEW G \in Grants, AdminInvite(i, e, G)
    PROVE  CoreInv'
  <1>1. PICK y \in Iss :
            /\ y = [NoIss EXCEPT !.pc = "checked", !.email = e, !.grants = G]
            /\ iss' = [iss EXCEPT ![i] = y]
    <2>1. G \in SUBSET Grant
      BY RoleAssumption
    <2>2. [NoIss EXCEPT !.pc = "checked", !.email = e, !.grants = G] \in Iss
      BY <2>1, AtRest DEF Iss
    <2>3. QED
      BY <2>2 DEF AdminInvite
  <1>2. y.pc = "checked" /\ y.email = e /\ y.by = Null
    BY <1>1 DEF NoIss
  <1>3. IssOK(y)'
    BY <1>2 DEF IssOK
  <1>4. UNCHANGED <<now, invites, issued, users, access, red, imp, given, signedOn, reports>>
    BY DEF AdminInvite
  <1>5. QED
    BY <1>1, <1>3, <1>4, OnlyIss

\* The rank check compares with what the inviter holds, which was given out.
LEMMA DelegatedInviteKeeps ==
    ASSUME CoreInv, NEW i \in Issuer, NEW e \in Email, NEW u \in User, NEW a \in App,
           NEW r \in Role, DelegatedInvite(i, e, u, a, r)
    PROVE  CoreInv'
  <1>0. TypeOK /\ TableInv
    BY DEF CoreInv
  <1>1. r >= 0 /\ access[u][a] # Null /\ r < access[u][a]
    BY DEF DelegatedInvite, MayInvite
  <1>2. PICK h \in given : h.app = a /\ access[u][a] <= h.role
    BY <1>0, <1>1 DEF TableInv
  <1>3. r \in Int /\ access[u][a] \in Int /\ h.role \in Int /\ h \in Grant
    <2>1. h \in Grant
      BY <1>0, <1>2 DEF TypeOK
    <2>2. access[u] \in [App -> Role \cup {Null}]
      BY <1>0 DEF TypeOK
    <2>3. access[u][a] \in Role /\ r \in Role
      BY <2>2, <1>1
    <2>4. QED
      BY <2>1, <2>3, RoleAssumption, GrantFacts
  <1>4. r < h.role
    BY <1>1, <1>2, <1>3
  <1>5. a \notin RoleLess
    BY <1>1, <1>2, <1>3, <1>4, GrantFacts
  <1>6. PICK G \in SUBSET Grant : G = {[app |-> a, role |-> r]}
    BY <1>5, GrantFacts
  <1>7. PICK y \in Iss :
            /\ y = [NoIss EXCEPT !.pc = "checked", !.email = e, !.by = u, !.grants = G, !.app = a]
            /\ iss' = [iss EXCEPT ![i] = y]
    <2>1. [NoIss EXCEPT !.pc = "checked", !.email = e, !.by = u, !.grants = G, !.app = a] \in Iss
      BY AtRest DEF Iss
    <2>2. QED
      BY <1>6, <2>1 DEF DelegatedInvite
  <1>8. y.pc = "checked" /\ y.email = e /\ y.by = u /\ y.grants = G
    BY <1>7 DEF NoIss
  <1>9. UNCHANGED <<now, invites, issued, users, access, red, imp, given, signedOn, reports>>
    BY DEF DelegatedInvite
  <1>10. IssOK(y)'
    BY <1>2, <1>4, <1>6, <1>8, <1>9 DEF IssOK
  <1>11. QED
    BY <1>7, <1>9, <1>10, OnlyIss

\* The invite is for the account that has its email.
LEMMA InviteLooksKeeps ==
    ASSUME CoreInv, NEW i \in Issuer, InviteLooks(i) PROVE CoreInv'
  <1>0. TypeOK /\ IssInv
    BY DEF CoreInv
  <1>1. iss[i].pc = "checked" /\ iss[i] \in Iss /\ IssOK(iss[i])
    BY <1>0 DEF InviteLooks, TypeOK, IssInv
  <1>2. PICK o \in User \cup {Null} :
            /\ IF o = Null THEN NobodyOwns(iss[i].email) ELSE Owner(o, iss[i].email)
            /\ iss' = [iss EXCEPT ![i] = [@ EXCEPT !.pc = "looked", !.expected = o,
                                                    !.expiresAt = now + Ttl]]
    BY DEF InviteLooks
  <1>3. PICK y \in Iss : /\ y = [iss[i] EXCEPT !.pc = "looked", !.expected = o,
                                                !.expiresAt = now + Ttl]
                         /\ iss' = [iss EXCEPT ![i] = y]
    <2>1. now + Ttl \in Int
      BY <1>0, TimesAssumption DEF TypeOK
    <2>2. QED
      BY <1>0, <1>1, <1>2, <2>1 DEF Iss, TypeOK
  <1>4. /\ y.pc = "looked" /\ y.expected = o /\ y.email = iss[i].email
        /\ y.by = iss[i].by /\ y.grants = iss[i].grants
    BY <1>1, <1>3 DEF Iss
  <1>5. UNCHANGED <<now, invites, issued, users, access, red, imp, given, signedOn, reports>>
    BY DEF InviteLooks
  <1>6. IssOK(y)'
    BY <1>1, <1>2, <1>4, <1>5 DEF IssOK, Owner
  <1>7. QED
    BY <1>3, <1>5, <1>6, OnlyIss

\* The row that is stored was looked up and ranked before.
LEMMA InviteStoredKeeps ==
    ASSUME CoreInv, NEW i \in Issuer, NEW t \in Token, InviteStored(i, t) PROVE CoreInv'
  <1>0. TypeOK /\ TableInv /\ InviteInv /\ IssInv
    BY DEF CoreInv
  <1>1. iss[i].pc = "looked" /\ iss[i] \in Iss /\ IssOK(iss[i]) /\ t \notin issued
    BY <1>0 DEF InviteStored, TypeOK, IssInv
  <1>2. PICK w \in Row :
            /\ w = [email |-> iss[i].email, grants |-> iss[i].grants,
                    expiresAt |-> iss[i].expiresAt, expected |-> iss[i].expected,
                    by |-> iss[i].by, byApp |-> Null]
            /\ invites' = [invites EXCEPT ![t] = w]
    <2>1. iss[i].email \in Email
      BY <1>1 DEF IssOK
    <2>2. [email |-> iss[i].email, grants |-> iss[i].grants,
           expiresAt |-> iss[i].expiresAt, expected |-> iss[i].expected,
           by |-> iss[i].by, byApp |-> Null] \in Row
      BY <2>1, <1>1 DEF Row, Iss
    <2>3. QED
      BY <2>2 DEF InviteStored
  <1>3. /\ issued' = issued \cup {t}
        /\ given' = IF iss[i].by = Null THEN given \cup iss[i].grants ELSE given
        /\ UNCHANGED <<now, users, access, red, imp, signedOn, reports>>
    BY DEF InviteStored
  <1>4. PICK y \in Iss :
            /\ y = IF iss[i].by = Null THEN NoIss
                   ELSE [iss[i] EXCEPT !.pc = "unpatched", !.token = t]
            /\ iss' = [iss EXCEPT ![i] = y]
    BY <1>0, <1>1, AtRest DEF InviteStored, Iss, TypeOK
  <1>5. /\ invites'[t] = w /\ w # Null
        /\ \A s \in Token : s # t => invites'[s] = invites[s]
    BY <1>0, <1>2, NullAssumption DEF TypeOK, Row
  <1>6. Grow
    BY <1>0, <1>1, <1>3, <1>5 DEF Grow, TypeOK
  <1>7. RowOK(w)'
    <2>1. /\ w.expected = iss[i].expected /\ w.email = iss[i].email
          /\ w.by = iss[i].by /\ w.grants = iss[i].grants
      BY <1>2
    <2>2. \A g \in Grant : g.role <= g.role
      BY GrantFacts
    <2>3. w.grants \subseteq Grant
      BY DEF Row
    <2>4. w.expected # Null => Owner(iss[i].expected, iss[i].email)
      BY <1>1, <2>1 DEF IssOK
    <2>5. w.by # Null => \A g \in w.grants : \E h \in given : h.app = g.app /\ g.role < h.role
      BY <1>1, <2>1 DEF IssOK
    <2>6. QED
      BY <1>3, <2>1, <2>2, <2>3, <2>4, <2>5 DEF RowOK, Owner
  <1>8. IssOK(y)'
    <2>1. CASE iss[i].by = Null
      BY <2>1, <1>4, AtRest
    <2>2. CASE iss[i].by # Null
      <3>1. /\ y.pc = "unpatched" /\ y.token = t /\ y.email = iss[i].email
            /\ y.by = iss[i].by /\ y.grants = iss[i].grants
        BY <2>2, <1>1, <1>4 DEF Iss
      <3>2. QED
        BY <2>2, <3>1, <1>1, <1>3 DEF IssOK
    <2>3. QED
      BY <2>1, <2>2
  <1>9. IssInv' /\ iss' \in [Issuer -> Iss]
    BY <1>4, <1>6, <1>8, IssMoves
  <1>10. given' \subseteq Grant /\ given \subseteq given'
    BY <1>0, <1>1, <1>3 DEF TypeOK, Iss
  <1>11. TypeOK'
    BY <1>0, <1>2, <1>3, <1>9, <1>10 DEF TypeOK
  <1>12. TableInv'
    <2>1. \A s \in Token : invites'[s] # Null => s \in issued'
      BY <1>0, <1>3, <1>5 DEF TableInv
    <2>2. \A u \in User, a \in App : access'[u][a] # Null =>
            \E g \in given' : g.app = a /\ access'[u][a] <= g.role
      BY <1>0, <1>3, <1>10 DEF TableInv
    <2>3. QED
      BY <1>0, <1>3, <2>1, <2>2 DEF TableInv
  <1>13. InviteInv'
    <2> SUFFICES ASSUME NEW s \in issued', NEW x, x = invites'[s], x # Null
                 PROVE  RowOK(x)'
      BY DEF InviteInv
    <2>1. CASE s = t
      BY <2>1, <1>5, <1>7
    <2>2. CASE s # t
      <3>1. s \in issued /\ x = invites[s] /\ x \in Row
        BY <2>2, <1>0, <1>3, <1>5 DEF TypeOK
      <3>2. RowOK(x)
        BY <3>1, <1>0 DEF InviteInv
      <3>3. QED
        BY <3>1, <3>2, <1>6, RowOKGrows
    <2>3. QED
      BY <2>1, <2>2
  <1>14. RedInv' /\ ImpInv' /\ SignOnIsOwn' /\ ImportLands'
    BY <1>3, <1>6, OthersKeep, NotesKeep
  <1>15. QED
    BY <1>9, <1>11, <1>12, <1>13, <1>14 DEF CoreInv

\* byApp is nothing the invariant speaks of.
LEMMA InvitePatchedKeeps ==
    ASSUME CoreInv, NEW i \in Issuer, InvitePatched(i) PROVE CoreInv'
  <1>0. TypeOK /\ TableInv /\ InviteInv /\ IssInv
    BY DEF CoreInv
  <1>1. iss[i].pc = "unpatched" /\ iss[i] \in Iss /\ iss[i].token \in issued
    BY <1>0 DEF InvitePatched, TypeOK, IssInv, IssOK
  <1>2. PICK t \in Token : t = iss[i].token
    BY <1>0, <1>1 DEF TypeOK
  <1>3. PICK w \in Row \cup {Null} :
            /\ w = IF invites[t] = Null THEN Null ELSE [invites[t] EXCEPT !.byApp = iss[i].app]
            /\ invites' = [invites EXCEPT ![t] = w]
    <2>1. invites[t] \in Row \cup {Null} /\ iss[i].app \in App \cup {Null}
      BY <1>0, <1>1 DEF TypeOK, Iss
    <2>2. (IF invites[t] = Null THEN Null ELSE [invites[t] EXCEPT !.byApp = iss[i].app])
            \in Row \cup {Null}
      BY <2>1 DEF Row
    <2>3. invites' = [invites EXCEPT ![t] = IF invites[t] = Null THEN Null
                                            ELSE [invites[t] EXCEPT !.byApp = iss[i].app]]
      BY <1>0, <1>2 DEF InvitePatched, TypeOK
    <2>4. QED
      BY <2>2, <2>3
  <1>4. /\ UNCHANGED <<now, issued, users, access, red, imp, given, signedOn, reports>>
        /\ iss' = [iss EXCEPT ![i] = NoIss]
    BY DEF InvitePatched
  <1>5. /\ invites' \in [Token -> Row \cup {Null}]
        /\ invites'[t] = w
        /\ \A s \in Token : s # t => invites'[s] = invites[s]
        /\ \A s \in Token : invites[s] = Null <=> invites'[s] = Null
    <2>1. w = Null <=> invites[t] = Null
      <3>1. Null \notin Row
        BY NullAssumption DEF Row
      <3>2. CASE invites[t] # Null
        <4>1. invites[t] \in Row /\ iss[i].app \in App \cup {Null}
          BY <1>0, <1>1, <3>2 DEF TypeOK, Iss
        <4>2. [invites[t] EXCEPT !.byApp = iss[i].app] \in Row
          BY <4>1 DEF Row
        <4>3. QED
          BY <1>3, <3>1, <3>2, <4>2
      <3>3. QED
        BY <1>3, <3>2
    <2>2. QED
      BY <1>0, <1>3, <2>1 DEF TypeOK
  <1>6. Grow
    BY <1>0, <1>4, <1>5 DEF Grow, TypeOK
  <1>7. IssInv' /\ iss' \in [Issuer -> Iss]
    BY <1>4, <1>6, IssMoves, AtRest
  <1>8. TypeOK'
    BY <1>0, <1>4, <1>5, <1>7 DEF TypeOK
  <1>9. TableInv'
    BY <1>0, <1>4, <1>5 DEF TableInv
  <1>10. InviteInv'
    <2> SUFFICES ASSUME NEW s \in issued', NEW x, x = invites'[s], x # Null
                 PROVE  RowOK(x)'
      BY DEF InviteInv
    <2>1. s \in issued /\ s \in Token /\ invites[s] # Null /\ invites[s] \in Row
      BY <1>0, <1>4, <1>5 DEF TypeOK
    <2>2. RowOK(invites[s])
      BY <1>0, <2>1 DEF InviteInv
    <2>3. /\ x.expected = invites[s].expected /\ x.email = invites[s].email
          /\ x.by = invites[s].by /\ x.grants = invites[s].grants
      BY <2>1, <1>3, <1>5 DEF Row
    <2>4. QED
      BY <2>2, <2>3, <1>4 DEF RowOK, Owner
  <1>11. RedInv' /\ ImpInv' /\ SignOnIsOwn' /\ ImportLands'
    BY <1>4, <1>6, OthersKeep, NotesKeep
  <1>12. QED
    BY <1>7, <1>8, <1>9, <1>10, <1>11 DEF CoreInv

\* A creation that fails leaves what it stored.
LEMMA InviteFailsKeeps ==
    ASSUME CoreInv, NEW i \in Issuer, InviteFails(i) PROVE CoreInv'
  BY OnlyIss, AtRest DEF InviteFails

-----------------------------------------------------------------------------
(* Redeeming. *)

\* A redemption moves, and invites go.
LEMMA InvitesGo ==
    ASSUME CoreInv, Grow, RedInv', red' \in [Redeem -> Red], now' \in Int,
           invites' \in [Token -> Row \cup {Null}],
           \A t \in Token : invites'[t] # Null => invites'[t] = invites[t],
           UNCHANGED <<issued, users, access, iss, imp, given, signedOn, reports>>
    PROVE  CoreInv'
  <1>0. TypeOK
    BY DEF CoreInv
  <1>1. TypeOK'
    BY <1>0 DEF TypeOK
  <1>2. TableInv' /\ InviteInv'
    BY <1>0, TablesKeep DEF TypeOK
  <1>3. IssInv' /\ ImpInv' /\ SignOnIsOwn' /\ ImportLands'
    BY OthersKeep, NotesKeep
  <1>4. QED
    BY <1>1, <1>2, <1>3 DEF CoreInv

\* A redemption starts with a token and a name.
LEMMA RedeemBeginKeeps ==
    ASSUME CoreInv, NEW r \in Redeem, NEW t \in Token, NEW n \in Name, RedeemBegin(r, t, n)
    PROVE  CoreInv'
  <1>1. PICK y \in Red : /\ y = [NoRed EXCEPT !.pc = "begun", !.token = t, !.name = n]
                         /\ red' = [red EXCEPT ![r] = y]
    BY DEF RedeemBegin, NoRed, Red
  <1>2. y.pc = "begun" /\ y.token = t /\ y.name = n /\ ~y.created
    BY <1>1 DEF NoRed
  <1>3. RedOK(y)'
    BY <1>2 DEF RedOK
  <1>4. QED
    BY <1>1, <1>3, OnlyRed DEF RedeemBegin

\* The row that is found satisfies the invariant of rows.
LEMMA RedeemLookupKeeps ==
    ASSUME CoreInv, NEW r \in Redeem, RedeemLookup(r) PROVE CoreInv'
  <1>0. TypeOK /\ TableInv /\ InviteInv /\ RedInv
    BY DEF CoreInv
  <1>1. red[r].pc = "begun" /\ red[r] \in Red /\ RedOK(red[r]) /\ red[r].token \in Token
    BY <1>0 DEF RedeemLookup, TypeOK, RedInv, RedOK
  <1>2. UNCHANGED <<now, invites, issued, users, access, iss, imp, given, signedOn, reports>>
    BY DEF RedeemLookup
  <1>3. CASE invites[red[r].token] = Null
    BY <1>2, <1>3, OnlyRed, AtRest DEF RedeemLookup
  <1>4. CASE invites[red[r].token] # Null
    <2>1. PICK w \in Row : w = invites[red[r].token]
      BY <1>0, <1>1, <1>4 DEF TypeOK
    <2>2. red[r].token \in issued /\ RowOK(w)
      BY <1>0, <1>1, <1>4, <2>1 DEF TableInv, InviteInv
    <2>3. PICK y \in Red : /\ y = [red[r] EXCEPT !.pc = "found", !.row = w]
                           /\ red' = [red EXCEPT ![r] = y]
      BY <1>0, <1>1, <1>4, <2>1 DEF RedeemLookup, Red, TypeOK
    <2>4. /\ y.pc = "found" /\ y.row = w /\ y.token = red[r].token /\ y.name = red[r].name
          /\ ~y.created
      BY <1>1, <2>3 DEF Red, RedOK
    <2>5. RowOK(w)'
      BY <2>2, <1>2 DEF RowOK, Owner
    <2>6. RedOK(y)'
      BY <1>1, <1>2, <2>2, <2>4, <2>5 DEF RedOK
    <2>7. QED
      BY <1>2, <2>3, <2>6, OnlyRed
  <1>5. QED
    BY <1>3, <1>4

\* The row stays what it was while its expiry is checked.
LEMMA RedeemCheckKeeps ==
    ASSUME CoreInv, NEW r \in Redeem, RedeemCheck(r) PROVE CoreInv'
  <1>0. TypeOK /\ RedInv
    BY DEF CoreInv
  <1>1. PICK x \in Red : x = red[r] /\ x.pc = "found" /\ RedOK(x)
    BY <1>0 DEF RedeemCheck, TypeOK, RedInv
  <1>2. UNCHANGED <<now, invites, issued, users, access, iss, imp, given, signedOn, reports>>
    BY DEF RedeemCheck
  <1>3. PICK c \in {"expired", "valid"} : red' = [red EXCEPT ![r].pc = c]
    BY DEF RedeemCheck
  <1>4. PICK y \in Red : /\ y = [x EXCEPT !.pc = c]
                         /\ red' = [red EXCEPT ![r] = y]
    BY <1>0, <1>1, <1>3 DEF Red, TypeOK
  <1>5. /\ y.pc = c /\ y.row = x.row /\ y.token = x.token /\ y.name = x.name
        /\ y.created = x.created
    BY <1>1, <1>4 DEF Red
  <1>6. RowOK(x.row)'
    BY <1>1, <1>2 DEF RedOK, RowOK, Owner
  <1>7. RedOK(y)'
    BY <1>1, <1>2, <1>3, <1>5, <1>6 DEF RedOK
  <1>8. QED
    BY <1>2, <1>4, <1>7, OnlyRed

\* An expired invite goes.
LEMMA RedeemDropExpiredKeeps ==
    ASSUME CoreInv, NEW r \in Redeem, RedeemDropExpired(r) PROVE CoreInv'
  <1>0. TypeOK
    BY DEF CoreInv
  <1>1. /\ UNCHANGED <<now, issued, users, access, iss, imp, given, signedOn, reports>>
        /\ red' = [red EXCEPT ![r] = NoRed]
        /\ invites' = [invites EXCEPT ![red[r].token] = Null]
    BY DEF RedeemDropExpired
  <1>2. /\ invites' \in [Token -> Row \cup {Null}]
        /\ \A t \in Token : invites'[t] # Null => invites'[t] = invites[t]
    BY <1>0, <1>1 DEF TypeOK
  <1>3. Grow
    BY <1>0, <1>1, <1>2 DEF Grow, TypeOK
  <1>4. RedInv' /\ red' \in [Redeem -> Red]
    BY <1>1, <1>3, RedMoves, AtRest
  <1>5. QED
    BY <1>0, <1>1, <1>2, <1>3, <1>4, InvitesGo DEF TypeOK

\* Who consumes an invite knows that it is gone, for good.
LEMMA RedeemConsumeKeeps ==
    ASSUME CoreInv, NEW r \in Redeem, RedeemConsume(r) PROVE CoreInv'
  <1>0. TypeOK /\ RedInv
    BY DEF CoreInv
  <1>1. PICK x \in Red : x = red[r] /\ x.pc = "valid" /\ RedOK(x) /\ x.token \in Token
    BY <1>0 DEF RedeemConsume, TypeOK, RedInv, RedOK
  <1>2. /\ UNCHANGED <<now, issued, users, access, iss, imp, given, signedOn, reports>>
        /\ invites' = [invites EXCEPT ![x.token] = Null]
    BY <1>1 DEF RedeemConsume
  <1>3. /\ invites' \in [Token -> Row \cup {Null}]
        /\ \A t \in Token : invites'[t] # Null => invites'[t] = invites[t]
        /\ invites'[x.token] = Null
    BY <1>0, <1>1, <1>2 DEF TypeOK
  <1>4. Grow
    BY <1>0, <1>2, <1>3 DEF Grow, TypeOK
  <1>5. CASE ~Won(r)
    <2>1. red' = [red EXCEPT ![r] = NoRed]
      BY <1>5 DEF RedeemConsume
    <2>2. RedInv' /\ red' \in [Redeem -> Red]
      BY <1>4, <2>1, RedMoves, AtRest
    <2>3. QED
      BY <1>0, <1>2, <1>3, <1>4, <2>2, InvitesGo DEF TypeOK
  <1>6. CASE Won(r)
    <2>1. PICK y \in Red : /\ y = [x EXCEPT !.pc = "consumed"]
                           /\ red' = [red EXCEPT ![r] = y]
      BY <1>0, <1>1, <1>6 DEF RedeemConsume, Red, TypeOK
    <2>2. /\ y.pc = "consumed" /\ y.row = x.row /\ y.token = x.token /\ y.name = x.name
          /\ y.created = x.created
      BY <1>1, <2>1 DEF Red
    <2>3. x.row \in Row /\ RowOK(x.row)'
      BY <1>1, <1>4, RowOKGrows DEF RedOK
    <2>4. RedOK(y)'
      BY <1>1, <1>2, <1>3, <2>2, <2>3 DEF RedOK
    <2>5. RedInv' /\ red' \in [Redeem -> Red]
      BY <1>4, <2>1, <2>4, RedMoves
    <2>6. QED
      BY <1>0, <1>2, <1>3, <1>4, <2>5, InvitesGo DEF TypeOK
  <1>7. QED
    BY <1>5, <1>6

\* The account that is found is one of the table.
LEMMA RedeemFindsKeeps ==
    ASSUME CoreInv, NEW r \in Redeem, NEW u \in User, RedeemFinds(r, u) PROVE CoreInv'
  <1>0. TypeOK /\ RedInv
    BY DEF CoreInv
  <1>1. PICK x \in Red : /\ x = red[r] /\ x.pc = "consumed" /\ RedOK(x)
                        /\ users[u] # Null
    BY <1>0 DEF RedeemFinds, TypeOK, RedInv, Owner
  <1>2. UNCHANGED <<now, invites, issued, users, access, iss, imp, given, signedOn, reports>>
    BY DEF RedeemFinds
  <1>3. CASE IsRace(x.row, u)
    BY <1>1, <1>2, <1>3, OnlyRed, AtRest DEF RedeemFinds
  <1>4. CASE ~IsRace(x.row, u)
    <2>1. x.row \in Row /\ RowOK(x.row)
      BY <1>1 DEF RedOK
    <2>2. PICK y \in Red : /\ y = [x EXCEPT !.pc = "granting", !.user = u,
                                                 !.left = x.row.grants]
                           /\ red' = [red EXCEPT ![r] = y]
      BY <1>0, <1>1, <1>4, <2>1 DEF RedeemFinds, Red, Row, TypeOK
    <2>3. /\ y.pc = "granting" /\ y.row = x.row /\ y.token = x.token
          /\ y.name = x.name /\ y.user = u /\ y.left = x.row.grants
          /\ y.created = x.created
      BY <1>1, <2>2 DEF Red
    <2>4. RowOK(x.row)'
      BY <2>1, <1>2 DEF RowOK, Owner
    <2>5. ~x.created
      BY <1>1 DEF RedOK
    <2>6. RedOK(y)'
      BY <1>1, <1>2, <2>1, <2>3, <2>4, <2>5 DEF RedOK
    <2>7. QED
      BY <1>2, <2>2, <2>6, OnlyRed
  <1>5. QED
    BY <1>3, <1>4

\* Nothing changes but what the request knows: nobody has the email.
LEMMA RedeemFindsNoneKeeps ==
    ASSUME CoreInv, NEW r \in Redeem, RedeemFindsNone(r) PROVE CoreInv'
  <1>0. TypeOK /\ RedInv
    BY DEF CoreInv
  <1>1. PICK x \in Red : x = red[r] /\ x.pc = "consumed" /\ RedOK(x)
    BY <1>0 DEF RedeemFindsNone, TypeOK, RedInv
  <1>2. UNCHANGED <<now, invites, issued, users, access, iss, imp, given, signedOn, reports>>
    BY DEF RedeemFindsNone
  <1>3. PICK y \in Red : /\ y = [x EXCEPT !.pc = "absent"]
                         /\ red' = [red EXCEPT ![r] = y]
    BY <1>0, <1>1 DEF RedeemFindsNone, Red, TypeOK
  <1>4. /\ y.pc = "absent" /\ y.row = x.row /\ y.token = x.token /\ y.name = x.name
        /\ y.created = x.created
    BY <1>1, <1>3 DEF Red
  <1>5. RowOK(x.row)'
    BY <1>1, <1>2 DEF RedOK, RowOK, Owner
  <1>6. RedOK(y)'
    BY <1>1, <1>2, <1>4, <1>5 DEF RedOK
  <1>7. QED
    BY <1>2, <1>3, <1>6, OnlyRed

\* An account is created, with an email nobody has.
LEMMA AccountAdded ==
    ASSUME CoreInv, NEW u \in User, NEW e \in Email, NEW n \in Name, NEW t \in Token \cup {Null},
           users[u] = Null, ~Clash(e, n), users' = Registered(u, e, n, t),
           UNCHANGED <<invites, issued, access, given>>
    PROVE  /\ Grow /\ TableInv' /\ InviteInv'
           /\ users' \in [User -> UserRow \cup {Null}]
           /\ users'[u] # Null /\ users'[u].from = t /\ users'[u].email = e
  <1>0. TypeOK /\ TableInv /\ InviteInv
    BY DEF CoreInv
  <1>1. PICK w \in UserRow : w = [email |-> e, name |-> n, from |-> t, after |-> issued]
    BY <1>0 DEF TypeOK, UserRow
  <1>2. w.email = e /\ w.from = t /\ w # Null
    BY <1>1, NullAssumption DEF UserRow
  <1>3. /\ users' \in [User -> UserRow \cup {Null}]
        /\ users'[u] = w
        /\ \A v \in User : v # u => users'[v] = users[v]
    BY <1>0, <1>1 DEF Registered, TypeOK
  <1>4. Grow
    BY <1>3 DEF Grow
  <1>5. TableInv'
    <2>1. \A v \in User : users[v] # Null => users[v].email # e
      BY DEF Clash, Owner
    <2>2. \A v, x \in User : users'[v] # Null /\ users'[x] # Null /\ users'[v].email = users'[x].email
                               => v = x
      BY <1>0, <1>2, <1>3, <2>1 DEF TableInv
    <2>3. \A s \in Token : invites'[s] # Null => s \in issued'
      BY <1>0 DEF TableInv
    <2>4. \A v \in User, a \in App : access'[v][a] # Null =>
            \E g \in given' : g.app = a /\ access'[v][a] <= g.role
      BY <1>0 DEF TableInv
    <2>5. QED
      BY <2>2, <2>3, <2>4 DEF TableInv
  <1>6. InviteInv'
    <2> SUFFICES ASSUME NEW s \in issued', NEW x, x = invites'[s], x # Null
                 PROVE  RowOK(x)'
      BY DEF InviteInv
    <2>1. x = invites[s] /\ s \in issued /\ x \in Row
      BY <1>0 DEF TypeOK
    <2>2. RowOK(x)
      BY <1>0, <2>1 DEF InviteInv
    <2>3. QED
      BY <1>4, <2>1, <2>2, RowOKGrows
  <1>7. QED
    BY <1>2, <1>3, <1>4, <1>5, <1>6

\* The account that a redemption creates is its own.
LEMMA RedeemCreatesKeeps ==
    ASSUME CoreInv, NEW r \in Redeem, NEW u \in User, RedeemCreates(r, u) PROVE CoreInv'
  <1>0. TypeOK /\ RedInv
    BY DEF CoreInv
  <1>1. PICK x \in Red : /\ x = red[r] /\ x.pc = "absent" /\ RedOK(x)
                         /\ x.token \in Token /\ x.name \in Name
                         /\ x.row \in Row /\ RowOK(x.row)
    BY <1>0 DEF RedeemCreates, TypeOK, RedInv, RedOK
  <1>2. x.row.email \in Email /\ x.row.grants \subseteq Grant
    BY <1>1 DEF Row
  <1>3. /\ users[u] = Null /\ ~Clash(x.row.email, x.name)
        /\ users' = Registered(u, x.row.email, x.name, x.token)
        /\ UNCHANGED <<now, invites, issued, access, iss, imp, given, signedOn, reports>>
    BY <1>1 DEF RedeemCreates
  <1>4. /\ Grow /\ TableInv' /\ InviteInv'
        /\ users' \in [User -> UserRow \cup {Null}]
        /\ users'[u] # Null /\ users'[u].from = x.token
    BY <1>1, <1>2, <1>3, AccountAdded
  <1>5. PICK y \in Red : /\ y = [x EXCEPT !.pc = "granting", !.user = u, !.created = TRUE,
                                          !.left = x.row.grants]
                         /\ red' = [red EXCEPT ![r] = y]
    BY <1>0, <1>1, <1>2 DEF RedeemCreates, Red, TypeOK
  <1>6. /\ y.pc = "granting" /\ y.row = x.row /\ y.token = x.token /\ y.name = x.name
        /\ y.user = u /\ y.left = x.row.grants
    BY <1>1, <1>5 DEF Red
  <1>7. RowOK(x.row)' /\ x.token \in issued
    BY <1>1, <1>4, RowOKGrows DEF RedOK
  <1>8. RedOK(y)'
    BY <1>1, <1>3, <1>4, <1>6, <1>7 DEF RedOK
  <1>9. RedInv' /\ red' \in [Redeem -> Red]
    BY <1>4, <1>5, <1>8, RedMoves
  <1>10. TypeOK'
    BY <1>0, <1>3, <1>4, <1>9 DEF TypeOK
  <1>11. IssInv' /\ ImpInv' /\ SignOnIsOwn' /\ ImportLands'
    BY <1>3, <1>4, OthersKeep, NotesKeep
  <1>12. QED
    BY <1>4, <1>9, <1>10, <1>11 DEF CoreInv

\* An access is set to something no higher than what was given out, or revoked.
LEMMA AccessSet ==
    ASSUME CoreInv, Grow, NEW u \in User, NEW a \in App, NEW k \in Role \cup {Null},
           access' = Granted(u, a, k), UNCHANGED <<invites, issued, users>>,
           k # Null => \E g \in given' : g.app = a /\ k <= g.role
    PROVE  /\ TableInv' /\ InviteInv'
           /\ access' \in [User -> [App -> Role \cup {Null}]]
  <1>0. TypeOK /\ TableInv /\ InviteInv
    BY DEF CoreInv
  <1>1. /\ access' \in [User -> [App -> Role \cup {Null}]]
        /\ \A v \in User, b \in App :
             access'[v][b] = IF v = u /\ b = a THEN k ELSE access[v][b]
    BY <1>0 DEF Granted, TypeOK
  <1>2. \A v \in User, b \in App : access'[v][b] # Null =>
          \E g \in given' : g.app = b /\ access'[v][b] <= g.role
    BY <1>0, <1>1 DEF TableInv, Grow
  <1>3. TableInv'
    BY <1>0, <1>2 DEF TableInv
  <1>4. InviteInv'
    <2> SUFFICES ASSUME NEW s \in issued', NEW x, x = invites'[s], x # Null
                 PROVE  RowOK(x)'
      BY DEF InviteInv
    <2>1. x = invites[s] /\ s \in issued /\ x \in Row
      BY <1>0 DEF TypeOK
    <2>2. RowOK(x)
      BY <1>0, <2>1 DEF InviteInv
    <2>3. QED
      BY <2>1, <2>2, RowOKGrows
  <1>5. QED
    BY <1>1, <1>3, <1>4

\* What an invite grants was given out, or is below what was.
LEMMA RedeemGrantsKeeps ==
    ASSUME CoreInv, NEW r \in Redeem, NEW g \in Grant, RedeemGrants(r, g) PROVE CoreInv'
  <1>0. TypeOK /\ RedInv
    BY DEF CoreInv
  <1>1. PICK x \in Red : /\ x = red[r] /\ x.pc = "granting" /\ RedOK(x) /\ g \in x.left
                         /\ access' = Granted(x.user, g.app, g.role)
    BY <1>0 DEF RedeemGrants, TypeOK, RedInv
  <1>2. x.user \in User /\ RowOK(x.row) /\ g \in x.row.grants /\ x.row \in Row
    BY <1>1 DEF RedOK
  <1>3. UNCHANGED <<now, invites, issued, users, iss, imp, given, signedOn, reports>>
    BY DEF RedeemGrants
  <1>4. Grow
    BY <1>3, StillGrows
  <1>5. g.app \in App /\ g.role \in Role /\ g.role \in Int
    BY GrantFacts
  <1>6. \E h \in given' : h.app = g.app /\ g.role <= h.role
    <2>1. PICK h \in given :
            h.app = g.app /\ IF x.row.by = Null THEN g.role <= h.role ELSE g.role < h.role
      BY <1>2 DEF RowOK
    <2>2. h.role \in Int
      BY <1>0, <2>1, GrantFacts DEF TypeOK
    <2>3. QED
      BY <1>3, <1>5, <2>1, <2>2
  <1>7. TableInv' /\ InviteInv' /\ access' \in [User -> [App -> Role \cup {Null}]]
    BY <1>1, <1>2, <1>3, <1>4, <1>5, <1>6, AccessSet
  <1>8. PICK y \in Red : /\ y = [x EXCEPT !.left = x.left \ {g}]
                         /\ red' = [red EXCEPT ![r] = y]
    BY <1>0, <1>1 DEF RedeemGrants, Red, TypeOK
  <1>9. /\ y.pc = "granting" /\ y.row = x.row /\ y.token = x.token /\ y.name = x.name
        /\ y.created = x.created /\ y.user = x.user /\ y.left \subseteq x.left
    BY <1>1, <1>8 DEF Red
  <1>10. RowOK(x.row)'
    BY <1>2, <1>4, RowOKGrows
  <1>11. RedOK(y)'
    BY <1>1, <1>3, <1>9, <1>10 DEF RedOK
  <1>12. RedInv' /\ red' \in [Redeem -> Red]
    BY <1>4, <1>8, <1>11, RedMoves
  <1>13. TypeOK'
    BY <1>0, <1>3, <1>7, <1>12 DEF TypeOK
  <1>14. IssInv' /\ ImpInv' /\ SignOnIsOwn' /\ ImportLands'
    BY <1>3, <1>4, OthersKeep, NotesKeep
  <1>15. QED
    BY <1>7, <1>12, <1>13, <1>14 DEF CoreInv

\* Who is signed on created the account.
LEMMA RedeemEndsKeeps ==
    ASSUME CoreInv, NEW r \in Redeem, RedeemEnds(r) PROVE CoreInv'
  <1>0. TypeOK /\ RedInv /\ SignOnIsOwn
    BY DEF CoreInv
  <1>1. PICK x \in Red : /\ x = red[r] /\ x.pc = "granting" /\ RedOK(x)
                         /\ x.user \in User /\ users[x.user] # Null /\ x.token \in Token
                         /\ x.created => users[x.user].from = x.token
    BY <1>0 DEF RedeemEnds, TypeOK, RedInv, RedOK
  <1>2. /\ UNCHANGED <<now, invites, issued, users, access, iss, imp, given, reports>>
        /\ red' = [red EXCEPT ![r] = NoRed]
        /\ signedOn' = IF x.created THEN signedOn \cup {[user |-> x.user, token |-> x.token]}
                       ELSE signedOn
    BY <1>1 DEF RedeemEnds, AccountCreated
  <1>3. Grow /\ issued' \subseteq Token
    BY <1>0, <1>2, StillGrows DEF TypeOK
  <1>4. RedInv' /\ red' \in [Redeem -> Red]
    BY <1>2, <1>3, RedMoves, AtRest
  <1>5. SignOnIsOwn'
    BY <1>0, <1>1, <1>2 DEF SignOnIsOwn
  <1>6. TypeOK'
    BY <1>0, <1>1, <1>2, <1>4 DEF TypeOK
  <1>7. TableInv' /\ InviteInv' /\ IssInv' /\ ImpInv' /\ ImportLands'
    BY <1>2, <1>3, TablesKeep, OthersKeep, NotesKeep
  <1>8. QED
    BY <1>4, <1>5, <1>6, <1>7 DEF CoreInv

\* A redemption that fails keeps what it did.
LEMMA RedeemFailKeeps ==
    ASSUME CoreInv, NEW r \in Redeem, RedeemFail(r) PROVE CoreInv'
  BY OnlyRed, AtRest DEF RedeemFail

-----------------------------------------------------------------------------
(* Importing. *)

\* An entry that passed the validation names a role only in an app with roles.
LEMMA ImportBeginKeeps ==
    ASSUME CoreInv, NEW p \in Importer, NEW e \in Email, NEW n \in Name, NEW a \in App,
           NEW k \in Role \cup {Null}, ImportBegin(p, e, n, a, k)
    PROVE  CoreInv'
  <1>1. PICK y \in Imp : /\ y = [NoImp EXCEPT !.pc = "begun", !.email = e, !.name = n,
                                              !.app = a, !.role = k]
                         /\ imp' = [imp EXCEPT ![p] = y]
    BY DEF ImportBegin, NoImp, Imp, Status
  <1>2. y.pc = "begun" /\ y.email = e /\ y.name = n /\ y.app = a /\ y.role = k
    BY <1>1 DEF NoImp
  <1>3. k # Null => a \notin RoleLess
    BY DEF ImportBegin
  <1>4. ImpOK(y)'
    BY <1>2, <1>3 DEF ImpOK
  <1>5. QED
    BY <1>1, <1>4, OnlyImp DEF ImportBegin

\* An entry goes on with the account that has its email ...
LEMMA ImportFindsKeeps ==
    ASSUME CoreInv, NEW p \in Importer, NEW u \in User, ImportFinds(p, u) PROVE CoreInv'
  <1>0. TypeOK /\ ImpInv
    BY DEF CoreInv
  <1>1. PICK x \in Imp : /\ x = imp[p] /\ x.pc \in {"begun", "clashed"} /\ ImpOK(x)
                         /\ Owner(u, x.email)
    BY <1>0 DEF ImportFinds, TypeOK, ImpInv
  <1>2. UNCHANGED <<now, invites, issued, users, access, iss, red, given, signedOn, reports>>
    BY DEF ImportFinds
  <1>3. PICK y \in Imp : /\ y = [x EXCEPT !.pc = "granting", !.user = u]
                         /\ imp' = [imp EXCEPT ![p] = y]
    BY <1>0, <1>1 DEF ImportFinds, Imp, TypeOK
  <1>4. /\ y.pc = "granting" /\ y.user = u /\ y.email = x.email /\ y.name = x.name
        /\ y.app = x.app /\ y.role = x.role
    BY <1>1, <1>3 DEF Imp
  <1>5. ImpOK(y)'
    BY <1>1, <1>2, <1>4 DEF ImpOK, Owner
  <1>6. QED
    BY <1>2, <1>3, <1>5, OnlyImp

\* ... or finds that there is none.
LEMMA ImportFindsNoneKeeps ==
    ASSUME CoreInv, NEW p \in Importer, ImportFindsNone(p) PROVE CoreInv'
  <1>0. TypeOK /\ ImpInv
    BY DEF CoreInv
  <1>1. PICK x \in Imp : x = imp[p] /\ x.pc = "begun" /\ ImpOK(x)
    BY <1>0 DEF ImportFindsNone, TypeOK, ImpInv
  <1>2. UNCHANGED <<now, invites, issued, users, access, iss, red, given, signedOn, reports>>
    BY DEF ImportFindsNone
  <1>3. PICK y \in Imp : y = [x EXCEPT !.pc = "absent"] /\ imp' = [imp EXCEPT ![p] = y]
    BY <1>0, <1>1 DEF ImportFindsNone, Imp, TypeOK
  <1>4. /\ y.pc = "absent" /\ y.email = x.email /\ y.name = x.name
        /\ y.app = x.app /\ y.role = x.role
    BY <1>1, <1>3 DEF Imp
  <1>5. ImpOK(y)'
    BY <1>1, <1>4 DEF ImpOK
  <1>6. QED
    BY <1>2, <1>3, <1>5, OnlyImp

\* The account that an import creates has the entry's email.
LEMMA ImportCreatesKeeps ==
    ASSUME CoreInv, NEW p \in Importer, NEW u \in User, ImportCreates(p, u) PROVE CoreInv'
  <1>0. TypeOK /\ ImpInv
    BY DEF CoreInv
  <1>1. PICK x \in Imp : /\ x = imp[p] /\ x.pc = "absent" /\ ImpOK(x)
                         /\ x.email \in Email /\ x.name \in Name
    BY <1>0 DEF ImportCreates, TypeOK, ImpInv, ImpOK
  <1>2. /\ users[u] = Null /\ ~Clash(x.email, x.name)
        /\ users' = Registered(u, x.email, x.name, Null)
        /\ UNCHANGED <<now, invites, issued, access, iss, red, given, signedOn, reports>>
    BY <1>1 DEF ImportCreates
  <1>3. /\ Grow /\ TableInv' /\ InviteInv'
        /\ users' \in [User -> UserRow \cup {Null}]
        /\ users'[u] # Null /\ users'[u].email = x.email
    BY <1>1, <1>2, AccountAdded
  <1>4. PICK y \in Imp : /\ y = [x EXCEPT !.pc = "granting", !.user = u, !.status = "created"]
                         /\ imp' = [imp EXCEPT ![p] = y]
    BY <1>0, <1>1 DEF ImportCreates, Imp, Status, TypeOK
  <1>5. /\ y.pc = "granting" /\ y.user = u /\ y.email = x.email /\ y.name = x.name
        /\ y.app = x.app /\ y.role = x.role
    BY <1>1, <1>4 DEF Imp
  <1>6. ImpOK(y)'
    BY <1>1, <1>3, <1>5 DEF ImpOK, Owner
  <1>7. ImpInv' /\ imp' \in [Importer -> Imp]
    BY <1>3, <1>4, <1>6, ImpMoves
  <1>8. TypeOK'
    BY <1>0, <1>2, <1>3, <1>7 DEF TypeOK
  <1>9. IssInv' /\ RedInv' /\ SignOnIsOwn' /\ ImportLands'
    BY <1>2, <1>3, OthersKeep, NotesKeep
  <1>10. QED
    BY <1>3, <1>7, <1>8, <1>9 DEF CoreInv

\* Where names may collide, a clash is one of emails.
LEMMA ImportClashesKeeps ==
    ASSUME CoreInv, NEW p \in Importer, ImportClashes(p) PROVE CoreInv'
  <1>0. TypeOK /\ ImpInv
    BY DEF CoreInv
  <1>1. PICK x \in Imp : /\ x = imp[p] /\ x.pc = "absent" /\ ImpOK(x)
                         /\ Clash(x.email, x.name)
    BY <1>0 DEF ImportClashes, TypeOK, ImpInv
  <1>2. UNCHANGED <<now, invites, issued, users, access, iss, red, given, signedOn, reports>>
    BY DEF ImportClashes
  <1>3. PICK y \in Imp : y = [x EXCEPT !.pc = "clashed"] /\ imp' = [imp EXCEPT ![p] = y]
    BY <1>0, <1>1 DEF ImportClashes, Imp, TypeOK
  <1>4. /\ y.pc = "clashed" /\ y.email = x.email /\ y.name = x.name
        /\ y.app = x.app /\ y.role = x.role
    BY <1>1, <1>3 DEF Imp
  <1>5. \E u \in User : Owner(u, x.email) \/ (NameIsUnique /\ Named(u, x.name))
    BY <1>1 DEF Clash
  <1>6. ImpOK(y)'
    BY <1>1, <1>2, <1>4, <1>5 DEF ImpOK, Owner, Named
  <1>7. QED
    BY <1>2, <1>3, <1>6, OnlyImp

\* An import gives up only where names may not collide, and another's account has
\* the name: the account behind a clash of emails is still there.
LEMMA ImportGivesUpKeeps ==
    ASSUME CoreInv, NEW p \in Importer, ImportGivesUp(p) PROVE CoreInv'
  <1>0. TypeOK /\ ImpInv /\ ImportLands
    BY DEF CoreInv
  <1>1. PICK x \in Imp : /\ x = imp[p] /\ x.pc = "clashed" /\ ImpOK(x)
                         /\ x.email \in Email /\ x.name \in Name /\ x.app \in App
                         /\ NobodyOwns(x.email)
    BY <1>0 DEF ImportGivesUp, TypeOK, ImpInv, ImpOK
  <1>2. NameIsUnique /\ \E u \in User : Named(u, x.name) /\ users[u].email # x.email
    BY <1>1 DEF ImpOK, NobodyOwns, Owner, Named
  <1>3. /\ UNCHANGED <<now, invites, issued, users, access, iss, red, given, signedOn>>
        /\ imp' = [imp EXCEPT ![p] = NoImp]
        /\ reports' = reports \cup {ReportOf(p, Null)}
    BY DEF ImportGivesUp
  <1>4. ReportOf(p, Null) \in Report
    BY <1>1 DEF ReportOf, Report, Imp
  <1>5. Grow /\ issued' \subseteq Token
    BY <1>0, <1>3, StillGrows DEF TypeOK
  <1>6. ImpInv' /\ imp' \in [Importer -> Imp]
    BY <1>3, <1>5, ImpMoves, AtRest
  <1>7. TypeOK'
    BY <1>0, <1>3, <1>4, <1>6 DEF TypeOK
  <1>8. TableInv' /\ InviteInv' /\ IssInv' /\ RedInv' /\ SignOnIsOwn'
    BY <1>3, <1>5, TablesKeep, OthersKeep, NotesKeep
  <1>9. ImportLands'
    <2>1. ReportOf(p, Null).user = Null /\ ReportOf(p, Null).email = x.email
            /\ ReportOf(p, Null).name = x.name
      BY <1>1 DEF ReportOf
    <2>2. QED
      BY <1>0, <1>2, <1>3, <2>1 DEF ImportLands, Owner, Named
  <1>10. QED
    BY <1>6, <1>7, <1>8, <1>9 DEF CoreInv

\* What an import grants it also gives out.
LEMMA ImportGrantsKeeps ==
    ASSUME CoreInv, NEW p \in Importer, ImportGrants(p) PROVE CoreInv'
  <1>0. TypeOK /\ TableInv /\ InviteInv /\ ImpInv /\ ImportLands
    BY DEF CoreInv
  <1>1. PICK x \in Imp : /\ x = imp[p] /\ x.pc = "granting" /\ ImpOK(x)
                         /\ x.email \in Email /\ x.name \in Name /\ x.app \in App
                         /\ x.user \in User /\ Owner(x.user, x.email)
                         /\ (x.role # Null => x.app \notin RoleLess)
    BY <1>0 DEF ImportGrants, TypeOK, ImpInv, ImpOK
  <1>2. /\ UNCHANGED <<now, invites, issued, users, iss, red, signedOn>>
        /\ imp' = [imp EXCEPT ![p] = NoImp]
        /\ reports' = reports \cup {ReportOf(p, x.user)}
        /\ IF x.role = Null THEN UNCHANGED <<access, given>>
           ELSE /\ access' = Granted(x.user, x.app, x.role)
                /\ given' = given \cup {[app |-> x.app, role |-> x.role]}
    BY <1>1 DEF ImportGrants
  <1>3. /\ ReportOf(p, x.user) \in Report
        /\ ReportOf(p, x.user).user = x.user /\ ReportOf(p, x.user).email = x.email
    BY <1>1 DEF ReportOf, Report, Imp
  <1>4. /\ Grow /\ TableInv' /\ InviteInv' /\ issued' \subseteq Token
        /\ access' \in [User -> [App -> Role \cup {Null}]] /\ given' \subseteq Grant
    <2>1. CASE x.role = Null
      <3>1. Grow /\ issued' \subseteq Token
        BY <1>0, <1>2, <2>1, StillGrows DEF TypeOK
      <3>2. QED
        BY <1>0, <1>2, <2>1, <3>1, TablesKeep DEF TypeOK
    <2>2. CASE x.role # Null
      <3>1. x.role \in Role
        BY <2>2 DEF Imp
      <3>2. Grow /\ issued' \subseteq Token
        BY <1>0, <1>2, <2>2 DEF Grow, TypeOK
      <3>3. PICK g \in Grant : g = [app |-> x.app, role |-> x.role]
        BY <1>1, <2>2, <3>1, GrantFacts
      <3>4. g.app = x.app /\ g.role = x.role /\ g.role <= g.role
        BY <3>3, GrantFacts
      <3>5. \E h \in given' : h.app = x.app /\ x.role <= h.role
        BY <1>2, <2>2, <3>3, <3>4
      <3>6. TableInv' /\ InviteInv' /\ access' \in [User -> [App -> Role \cup {Null}]]
        BY <1>1, <1>2, <2>2, <3>1, <3>2, <3>5, AccessSet
      <3>7. QED
        BY <1>0, <1>2, <2>2, <3>2, <3>3, <3>6 DEF TypeOK
    <2>3. QED
      BY <2>1, <2>2
  <1>5. ImpInv' /\ imp' \in [Importer -> Imp]
    BY <1>2, <1>4, ImpMoves, AtRest
  <1>6. TypeOK'
    BY <1>0, <1>2, <1>3, <1>4, <1>5 DEF TypeOK
  <1>7. IssInv' /\ RedInv' /\ SignOnIsOwn'
    BY <1>2, <1>4, OthersKeep, NotesKeep
  <1>8. ImportLands'
    BY <1>0, <1>1, <1>2, <1>3 DEF ImportLands, Owner, Named
  <1>9. QED
    BY <1>4, <1>5, <1>6, <1>7, <1>8 DEF CoreInv

\* An import that fails keeps what it did.
LEMMA ImportFailsKeeps ==
    ASSUME CoreInv, NEW p \in Importer, ImportFails(p) PROVE CoreInv'
  BY OnlyImp, AtRest DEF ImportFails

-----------------------------------------------------------------------------
(* The admin, cleanup and time. *)

\* Whatever the admin grants was given out.
LEMMA AdminGrantsKeeps ==
    ASSUME CoreInv, NEW u \in User, NEW g \in Grant, AdminGrants(u, g) PROVE CoreInv'
  <1>0. TypeOK
    BY DEF CoreInv
  <1>1. /\ access' = Granted(u, g.app, g.role) /\ given' = given \cup {g}
        /\ UNCHANGED <<now, invites, issued, users, iss, red, imp, signedOn, reports>>
    BY DEF AdminGrants
  <1>2. Grow
    BY <1>1 DEF Grow
  <1>3. g.app \in App /\ g.role \in Role /\ g.role <= g.role
    BY GrantFacts
  <1>4. \E h \in given' : h.app = g.app /\ g.role <= h.role
    BY <1>1, <1>3
  <1>5. TableInv' /\ InviteInv' /\ access' \in [User -> [App -> Role \cup {Null}]]
    BY <1>1, <1>2, <1>3, <1>4, AccessSet
  <1>6. TypeOK'
    BY <1>0, <1>1, <1>5 DEF TypeOK
  <1>7. IssInv' /\ RedInv' /\ ImpInv' /\ SignOnIsOwn' /\ ImportLands'
    BY <1>1, <1>2, OthersKeep, NotesKeep
  <1>8. QED
    BY <1>5, <1>6, <1>7 DEF CoreInv

\* Revoking leaves nothing that must have been given out.
LEMMA AdminRevokesKeeps ==
    ASSUME CoreInv, NEW u \in User, NEW a \in App, AdminRevokes(u, a) PROVE CoreInv'
  <1>0. TypeOK
    BY DEF CoreInv
  <1>1. /\ access' = Granted(u, a, Null)
        /\ UNCHANGED <<now, invites, issued, users, iss, red, imp, given, signedOn, reports>>
    BY DEF AdminRevokes
  <1>2. Grow
    BY <1>1, StillGrows
  <1>3. TableInv' /\ InviteInv' /\ access' \in [User -> [App -> Role \cup {Null}]]
    BY <1>1, <1>2, AccessSet
  <1>4. TypeOK'
    BY <1>0, <1>1, <1>3 DEF TypeOK
  <1>5. IssInv' /\ RedInv' /\ ImpInv' /\ SignOnIsOwn' /\ ImportLands'
    BY <1>1, <1>2, OthersKeep, NotesKeep
  <1>6. QED
    BY <1>3, <1>4, <1>5 DEF CoreInv

\* Cleanup only removes invites.
LEMMA PurgeInvitesKeeps ==
    ASSUME CoreInv, PurgeInvites PROVE CoreInv'
  <1>0. TypeOK /\ RedInv
    BY DEF CoreInv
  <1>1. /\ UNCHANGED <<now, issued, users, access, iss, red, imp, given, signedOn, reports>>
        /\ invites' = [t \in Token |->
                         IF invites[t] # Null /\ Overdue(invites[t]) THEN Null ELSE invites[t]]
    BY DEF PurgeInvites
  <1>2. /\ invites' \in [Token -> Row \cup {Null}]
        /\ \A t \in Token : invites'[t] # Null => invites'[t] = invites[t]
    BY <1>0, <1>1 DEF TypeOK
  <1>3. Grow
    BY <1>0, <1>1, <1>2 DEF Grow, TypeOK
  <1>4. RedInv'
    BY <1>1, <1>3, OthersKeep
  <1>5. QED
    BY <1>0, <1>1, <1>2, <1>3, <1>4, InvitesGo DEF TypeOK

\* Nothing the invariant speaks of depends on the clock.
LEMMA TickKeeps ==
    ASSUME CoreInv, Tick PROVE CoreInv'
  <1>0. TypeOK
    BY DEF CoreInv
  <1>1. /\ UNCHANGED <<invites, issued, users, access, iss, red, imp, given, signedOn, reports>>
        /\ now' = now + 1
    BY DEF Tick
  <1>2. Grow /\ RedInv'
    BY <1>1, StillGrows, OthersKeep
  <1>3. QED
    BY <1>0, <1>1, <1>2, InvitesGo DEF TypeOK

-----------------------------------------------------------------------------

\* The invariant holds before anything happened.
LEMMA InitCore == Init => CoreInv
  <1> SUFFICES ASSUME Init PROVE CoreInv
    OBVIOUS
  <1>1. TypeOK
    BY AtRest DEF Init, TypeOK
  <1>2. TableInv /\ InviteInv /\ SignOnIsOwn /\ ImportLands
    BY DEF Init, TableInv, InviteInv, SignOnIsOwn, ImportLands
  <1>3. IssInv /\ RedInv /\ ImpInv
    BY AtRest DEF Init, IssInv, RedInv, ImpInv
  <1>4. QED
    BY <1>1, <1>2, <1>3 DEF CoreInv

\* No step breaks it.
LEMMA NextCore == CoreInv /\ [Next]_vars => CoreInv'
  <1> SUFFICES ASSUME CoreInv, [Next]_vars PROVE CoreInv'
    OBVIOUS
  <1>1. CASE \E i \in Issuer, e \in Email, G \in Grants : AdminInvite(i, e, G)
    BY <1>1, AdminInviteKeeps
  <1>2. CASE \E i \in Issuer, e \in Email, u \in User, a \in App, r \in Role :
               DelegatedInvite(i, e, u, a, r)
    BY <1>2, DelegatedInviteKeeps
  <1>3. CASE \E i \in Issuer : InviteStep(i)
    BY <1>3, InviteLooksKeeps, InviteStoredKeeps, InvitePatchedKeeps, InviteFailsKeeps
       DEF InviteStep
  <1>4. CASE \E r \in Redeem, t \in Token, n \in Name : RedeemBegin(r, t, n)
    BY <1>4, RedeemBeginKeeps
  <1>5. CASE \E r \in Redeem : RedeemStep(r)
    BY <1>5, RedeemLookupKeeps, RedeemCheckKeeps, RedeemDropExpiredKeeps, RedeemConsumeKeeps,
       RedeemFindsKeeps, RedeemFindsNoneKeeps, RedeemCreatesKeeps, RedeemGrantsKeeps,
       RedeemEndsKeeps, RedeemFailKeeps DEF RedeemStep
  <1>6. CASE \E p \in Importer, e \in Email, n \in Name, a \in App, r \in Role \cup {Null} :
               ImportBegin(p, e, n, a, r)
    BY <1>6, ImportBeginKeeps
  <1>7. CASE \E p \in Importer : ImportStep(p)
    BY <1>7, ImportFindsKeeps, ImportFindsNoneKeeps, ImportCreatesKeeps, ImportClashesKeeps,
       ImportGivesUpKeeps, ImportGrantsKeeps, ImportFailsKeeps DEF ImportStep
  <1>8. CASE \E u \in User, g \in Grant : AdminGrants(u, g)
    BY <1>8, AdminGrantsKeeps
  <1>9. CASE \E u \in User, a \in App : AdminRevokes(u, a)
    BY <1>9, AdminRevokesKeeps
  <1>10. CASE PurgeInvites
    BY <1>10, PurgeInvitesKeeps
  <1>11. CASE Tick
    BY <1>11, TickKeeps
  <1>12. CASE UNCHANGED vars
    <2>1. UNCHANGED <<now, invites, issued, users, access, iss, red, imp, given, signedOn, reports>>
      BY <1>12 DEF vars
    <2>2. TypeOK' /\ Grow /\ issued' \subseteq Token
      BY <2>1, StillGrows DEF CoreInv, TypeOK
    <2>3. QED
      BY <2>1, <2>2, TablesKeep, OthersKeep, NotesKeep DEF CoreInv
  <1>13. QED
    BY <1>1, <1>2, <1>3, <1>4, <1>5, <1>6, <1>7, <1>8, <1>9, <1>10, <1>11, <1>12 DEF Next

\* The core of the invariant, with SignOnIsOwn and ImportLands among its conjuncts.
LEMMA CoreInvariance == Spec => []CoreInv
  BY InitCore, NextCore, PTL DEF Spec

\* Delegated invites never raise anybody above what an admin or an app gave out.
THEOREM DelegationNeverRaises == Spec => []NeverAboveGiven
  <1>1. CoreInv => NeverAboveGiven
    <2> SUFFICES ASSUME CoreInv PROVE NeverAboveGiven
      OBVIOUS
    <2>1. TypeOK /\ TableInv /\ InviteInv
      BY DEF CoreInv
    <2>2. \A t \in Token : invites[t] # Null /\ invites[t].by # Null =>
            \A g \in invites[t].grants : \E h \in given : h.app = g.app /\ g.role < h.role
      BY <2>1 DEF TableInv, InviteInv, RowOK
    <2>3. QED
      BY <2>1, <2>2 DEF NeverAboveGiven, TableInv
  <1>2. QED
    BY <1>1, CoreInvariance, PTL

\* POST /invite signs on only who chose the account's password.
THEOREM SignOnIsOnesOwn == Spec => []SignOnIsOwn
  <1>1. CoreInv => SignOnIsOwn
    BY DEF CoreInv
  <1>2. QED
    BY <1>1, CoreInvariance, PTL

\* An import ends with an account for every entry it reports, or else the account
\* of another email holds the entry's name.
THEOREM ImportsLand == Spec => []ImportLands
  <1>1. CoreInv => ImportLands
    BY DEF CoreInv
  <1>2. QED
    BY <1>1, CoreInvariance, PTL

\* The check against another account than the invite's finds nothing, since an
\* email has one account and keeps it.
THEOREM RaceCheckIsIdle == Spec => []NoRaceToReject
  <1>1. CoreInv => NoRaceToReject
    <2> SUFFICES ASSUME CoreInv, NEW r \in Redeem, NEW u \in User,
                        red[r].pc = "consumed", Owner(u, red[r].row.email)
                 PROVE  ~IsRace(red[r].row, u)
      BY DEF NoRaceToReject
    <2>1. TypeOK /\ TableInv /\ RedOK(red[r])
      BY DEF CoreInv, RedInv
    <2>2. PICK w \in Row : w = red[r].row /\ RowOK(w)
      BY <2>1 DEF RedOK
    <2>3. w.expected # Null => Owner(w.expected, w.email) /\ w.expected \in User
      BY <2>2 DEF RowOK, Row
    <2>4. QED
      BY <2>1, <2>2, <2>3 DEF IsRace, Owner, TableInv
  <1>2. QED
    BY <1>1, CoreInvariance, PTL

-----------------------------------------------------------------------------
(* The refinement of OneShot. *)

\* The invite that a redemption has consumed and works on.
Held(r) == IF red[r].pc \in {"consumed", "absent", "granting"} THEN red[r].token ELSE Null

\* A step that neither changes what the table offers nor what is held is
\* invisible to OneShot.
LEMMA TakeStutter ==
    ASSUME \A t \in Token : invites'[t] = Null <=> invites[t] = Null,
           UNCHANGED issued, issued \subseteq Token, \A r \in Redeem : Held(r)' = Held(r)
    PROVE  UNCHANGED Take!vars
  <1>1. /\ {t \in Token : invites'[t] # Null} = {t \in Token : invites[t] # Null}
        /\ {t \in issued' : invites'[t] = Null} = {t \in issued : invites[t] = Null}
    OBVIOUS
  <1>2. QED
    BY <1>1 DEF Take!vars, Held

\* Rows that leave the table while nothing else happens have lapsed.
LEMMA TakeLapse ==
    ASSUME TypeOK, TableInv, NEW S \in SUBSET Token,
           invites' = [t \in Token |-> IF t \in S THEN Null ELSE invites[t]],
           UNCHANGED issued, \A r \in Redeem : Held(r)' = Held(r)
    PROVE  Take!Next
  <1> DEFINE off == {t \in Token : invites[t] # Null}
             out == {t \in issued : invites[t] = Null}
  <1>1. PICK D \in SUBSET off : D = off \cap S
    OBVIOUS
  <1>2. off' = off \ D
    BY <1>1
  <1>3. out' = out \cup D
    BY <1>1 DEF TypeOK, TableInv
  <1>4. [r \in Redeem |-> Held(r)]' = [r \in Redeem |-> Held(r)]
    OBVIOUS
  <1>5. Take!Lapse(D)
    BY <1>2, <1>3, <1>4 DEF Take!Lapse, Held
  <1>6. QED
    BY <1>5 DEF Take!Next

\* A redemption that stops holding its invite, or goes on holding none.
LEMMA TakeFinish ==
    ASSUME TypeOK, NEW r \in Redeem, red' = [red EXCEPT ![r] = NoRed],
           UNCHANGED <<invites, issued>>
    PROVE  Take!Next \/ UNCHANGED Take!vars
  <1> DEFINE hd == [q \in Redeem |-> Held(q)]
  <1>1. NoRed.pc = "idle"
    BY DEF NoRed
  <1>2. Held(r)' = Null /\ \A q \in Redeem : q # r => Held(q)' = Held(q)
    BY <1>1 DEF Held, TypeOK
  <1>3. CASE Held(r) = Null
    BY <1>2, <1>3, TakeStutter DEF TypeOK
  <1>4. CASE Held(r) # Null
    <2>1. hd' = [hd EXCEPT ![r] = Null] /\ hd[r] # Null
      BY <1>2, <1>4
    <2>2. Take!Finish(r)
      BY <2>1 DEF Take!Finish, Held
    <2>3. QED
      BY <2>2 DEF Take!Next
  <1>5. QED
    BY <1>3, <1>4

\* The DELETE whose row count is one takes the invite.
LEMMA TakeTake ==
    ASSUME TypeOK, RedInv, NEW r \in Redeem, RedeemConsume(r), Won(r)
    PROVE  Take!Next
  <1> DEFINE off == {t \in Token : invites[t] # Null}
             out == {t \in issued : invites[t] = Null}
             hd == [q \in Redeem |-> Held(q)]
  <1>1. PICK t \in Token : /\ t = red[r].token /\ t \in issued
                           /\ red[r].pc = "valid" /\ invites[t] # Null
    BY DEF RedInv, RedOK, RedeemConsume, Won
  <1>2. invites' = [invites EXCEPT ![t] = Null] /\ issued' = issued /\ t \in off
    BY <1>1 DEF RedeemConsume
  <1>3. off' = off \ {t} /\ out' = out \cup {t}
    BY <1>1, <1>2 DEF TypeOK
  <1>4. Held(r)' = t /\ Held(r) = Null /\ \A q \in Redeem : q # r => Held(q)' = Held(q)
    BY <1>1 DEF RedeemConsume, Won, Held, TypeOK, Red
  <1>5. hd' = [hd EXCEPT ![r] = t] /\ hd[r] = Null
    BY <1>4
  <1>6. Take!Take(r, t)
    BY <1>2, <1>3, <1>5 DEF Take!Take, Held
  <1>7. QED
    BY <1>6 DEF Take!Next

\* A stored invite is offered.
LEMMA TakeOffer ==
    ASSUME TypeOK, TableInv, NEW i \in Issuer, NEW t \in Token, InviteStored(i, t),
           NEW w, w # Null, invites' = [invites EXCEPT ![t] = w]
    PROVE  Take!Next
  <1> DEFINE off == {s \in Token : invites[s] # Null}
             out == {s \in issued : invites[s] = Null}
  <1>1. invites'[t] # Null /\ \A s \in Token \ {t} : invites'[s] = invites[s]
    BY DEF TypeOK
  <1>2. t \notin issued /\ issued' = issued \cup {t} /\ UNCHANGED red
    BY DEF InviteStored
  <1>3. off' = off \cup {t} /\ out' = out
    BY <1>1, <1>2 DEF TableInv, TypeOK
  <1>4. t \notin off \cup out
    BY <1>2 DEF TableInv
  <1>5. Take!Offer(t)
    BY <1>2, <1>3, <1>4 DEF Take!Offer
  <1>6. QED
    BY <1>5 DEF Take!Next

\* Every step of a redemption is a step of OneShot or leaves it alone.
LEMMA TakeRedeemStep ==
    ASSUME CoreInv, NEW r \in Redeem, RedeemStep(r) PROVE Take!Next \/ UNCHANGED Take!vars
  <1>0. TypeOK /\ TableInv /\ RedInv
    BY DEF CoreInv
  <1>1. PICK x \in Red : x = red[r] /\ RedOK(x)
    BY <1>0 DEF TypeOK, RedInv
  <1>2. CASE RedeemLookup(r)
    <2>1. CASE invites[red[r].token] = Null
      BY <1>0, <1>2, <2>1, TakeFinish DEF RedeemLookup
    <2>2. CASE invites[red[r].token] # Null
      <3>1. \A q \in Redeem : Held(q)' = Held(q)
        BY <1>0, <1>1, <1>2, <2>2 DEF RedeemLookup, Held, TypeOK, Red
      <3>2. QED
        BY <1>0, <1>2, <3>1, TakeStutter DEF RedeemLookup, TypeOK
    <2>3. QED
      BY <2>1, <2>2
  <1>3. CASE RedeemCheck(r)
    <2>1. \A q \in Redeem : Held(q)' = Held(q)
      BY <1>0, <1>1, <1>3 DEF RedeemCheck, Held, TypeOK, Red
    <2>2. QED
      BY <1>0, <1>3, <2>1, TakeStutter DEF RedeemCheck, TypeOK
  <1>4. CASE RedeemDropExpired(r)
    <2>1. PICK S \in SUBSET Token : S = {x.token}
      BY <1>1, <1>4 DEF RedeemDropExpired, RedOK
    <2>2. invites' = [t \in Token |-> IF t \in S THEN Null ELSE invites[t]]
      BY <1>0, <1>1, <1>4, <2>1 DEF RedeemDropExpired, TypeOK
    <2>3. NoRed.pc = "idle"
      BY DEF NoRed
    <2>4. \A q \in Redeem : Held(q)' = Held(q)
      BY <1>0, <1>4, <2>3 DEF RedeemDropExpired, Held, TypeOK
    <2>5. QED
      BY <1>0, <1>4, <2>2, <2>4, TakeLapse DEF RedeemDropExpired
  <1>5. CASE RedeemConsume(r)
    <2>1. CASE Won(r)
      BY <1>0, <1>5, <2>1, TakeTake
    <2>2. CASE ~Won(r)
      <3>1. UNCHANGED <<invites, issued>> /\ red' = [red EXCEPT ![r] = NoRed]
        BY <1>0, <1>5, <2>2 DEF RedeemConsume, Won, TypeOK
      <3>2. QED
        BY <1>0, <3>1, TakeFinish
    <2>3. QED
      BY <2>1, <2>2
  <1>6. CASE \E u \in User : RedeemFinds(r, u)
    <2> PICK u \in User : RedeemFinds(r, u)
      BY <1>6
    <2>1. CASE IsRace(red[r].row, u)
      BY <1>0, <2>1, TakeFinish DEF RedeemFinds
    <2>2. CASE ~IsRace(red[r].row, u)
      <3>1. \A q \in Redeem : Held(q)' = Held(q)
        BY <1>0, <1>1, <2>2 DEF RedeemFinds, Held, TypeOK, Red
      <3>2. QED
        BY <1>0, <3>1, TakeStutter DEF RedeemFinds, TypeOK
    <2>3. QED
      BY <2>1, <2>2
  <1>7. CASE RedeemFindsNone(r) \/ (\E u \in User : RedeemCreates(r, u))
             \/ (\E g \in Grant : RedeemGrants(r, g))
    <2>1. PICK y \in Red : /\ y.token = x.token /\ red' = [red EXCEPT ![r] = y]
                           /\ y.pc \in {"absent", "granting"}
                           /\ x.pc \in {"consumed", "absent", "granting"}
      <3>1. CASE RedeemFindsNone(r)
        <4>1. PICK y \in Red : y = [x EXCEPT !.pc = "absent"]
          BY DEF Red
        <4>2. y.pc = "absent" /\ y.token = x.token /\ x.pc = "consumed"
          BY <1>1, <3>1, <4>1 DEF RedeemFindsNone, Red
        <4>3. red' = [red EXCEPT ![r] = y]
          BY <1>0, <1>1, <3>1, <4>1 DEF RedeemFindsNone, TypeOK
        <4>4. QED
          BY <4>2, <4>3
      <3>2. CASE \E u \in User : RedeemCreates(r, u)
        <4> PICK u \in User : RedeemCreates(r, u)
          BY <3>2
        <4>1. x.pc = "absent" /\ x.row.grants \in SUBSET Grant
          BY <1>1 DEF RedeemCreates, RedOK, Row
        <4>2. PICK y \in Red : y = [x EXCEPT !.pc = "granting", !.user = u, !.created = TRUE,
                                             !.left = x.row.grants]
          BY <4>1 DEF Red
        <4>3. y.pc = "granting" /\ y.token = x.token
          BY <4>2 DEF Red
        <4>4. red' = [red EXCEPT ![r] = y]
          BY <1>0, <1>1, <4>2 DEF RedeemCreates, TypeOK
        <4>5. QED
          BY <4>1, <4>3, <4>4
      <3>3. CASE \E g \in Grant : RedeemGrants(r, g)
        <4> PICK g \in Grant : RedeemGrants(r, g)
          BY <3>3
        <4>1. PICK y \in Red : y = [x EXCEPT !.left = x.left \ {g}]
          BY DEF Red
        <4>2. y.pc = x.pc /\ y.token = x.token /\ x.pc = "granting"
          BY <1>1, <4>1 DEF RedeemGrants, Red
        <4>3. red' = [red EXCEPT ![r] = y]
          BY <1>0, <1>1, <4>1 DEF RedeemGrants, TypeOK
        <4>4. QED
          BY <4>2, <4>3
      <3>4. QED
        BY <1>7, <3>1, <3>2, <3>3
    <2>2. \A q \in Redeem : Held(q)' = Held(q)
      BY <1>0, <1>1, <2>1 DEF Held, TypeOK
    <2>3. QED
      BY <1>0, <1>7, <2>2, TakeStutter DEF RedeemFindsNone, RedeemCreates, RedeemGrants, TypeOK
  <1>8. CASE RedeemEnds(r) \/ RedeemFail(r)
    BY <1>0, <1>8, TakeFinish DEF RedeemEnds, RedeemFail
  <1>9. QED
    BY <1>2, <1>3, <1>4, <1>5, <1>6, <1>7, <1>8 DEF RedeemStep

\* Every step is a step of OneShot or leaves it alone.
LEMMA TakeStep == CoreInv /\ [Next]_vars => [Take!Next]_(Take!vars)
  <1> SUFFICES ASSUME CoreInv, [Next]_vars PROVE Take!Next \/ UNCHANGED Take!vars
    OBVIOUS
  <1>0. TypeOK /\ TableInv /\ IssInv /\ RedInv
    BY DEF CoreInv
  <1>1. CASE \E i \in Issuer, t \in Token : InviteStored(i, t)
    <2> PICK i \in Issuer, t \in Token : InviteStored(i, t)
      BY <1>1
    <2>1. PICK w : /\ w = [email |-> iss[i].email, grants |-> iss[i].grants,
                           expiresAt |-> iss[i].expiresAt, expected |-> iss[i].expected,
                           by |-> iss[i].by, byApp |-> Null]
                   /\ invites' = [invites EXCEPT ![t] = w]
      BY DEF InviteStored
    <2>2. iss[i] \in Iss /\ iss[i].email \in Email
      BY <1>0 DEF TypeOK, IssInv, IssOK, InviteStored
    <2>3. w # Null
      BY <2>1, <2>2, NullAssumption DEF Iss
    <2>4. QED
      BY <1>0, <2>1, <2>3, TakeOffer
  <1>2. CASE \E i \in Issuer : InvitePatched(i)
    <2> PICK i \in Issuer : InvitePatched(i)
      BY <1>2
    <2>1. PICK x \in Iss : x = iss[i] /\ x.token \in Token
      BY <1>0 DEF TypeOK, IssInv, IssOK, InvitePatched
    <2>2. /\ invites' = [invites EXCEPT ![x.token] =
                           IF @ = Null THEN Null ELSE [@ EXCEPT !.byApp = x.app]]
          /\ UNCHANGED <<issued, red>>
      BY <2>1 DEF InvitePatched
    <2>3. \A k \in Row : [k EXCEPT !.byApp = x.app] # Null
      <3>1. Null \notin Row
        BY NullAssumption DEF Row
      <3>2. \A k \in Row : [k EXCEPT !.byApp = x.app] \in Row
        BY <2>1 DEF Row, Iss
      <3>3. QED
        BY <3>1, <3>2
    <2>4. \A t \in Token : invites'[t] = Null <=> invites[t] = Null
      BY <1>0, <2>1, <2>2, <2>3 DEF TypeOK
    <2>5. \A r \in Redeem : Held(r)' = Held(r)
      BY <2>2 DEF Held
    <2>6. QED
      BY <1>0, <2>2, <2>4, <2>5, TakeStutter DEF TypeOK
  <1>3. CASE \E r \in Redeem, t \in Token, n \in Name : RedeemBegin(r, t, n)
    <2> PICK r \in Redeem, t \in Token, n \in Name : RedeemBegin(r, t, n)
      BY <1>3
    <2>1. \A q \in Redeem : Held(q)' = Held(q)
      BY <1>0 DEF RedeemBegin, Held, TypeOK, NoRed
    <2>2. QED
      BY <1>0, <2>1, TakeStutter DEF RedeemBegin, TypeOK
  <1>4. CASE \E r \in Redeem : RedeemStep(r)
    BY <1>4, TakeRedeemStep
  <1>5. CASE PurgeInvites
    <2>1. PICK S \in SUBSET Token : S = {t \in Token : invites[t] # Null /\ Overdue(invites[t])}
      OBVIOUS
    <2>2. invites' = [t \in Token |-> IF t \in S THEN Null ELSE invites[t]]
      BY <1>5, <2>1 DEF PurgeInvites
    <2>3. QED
      BY <1>0, <1>5, <2>2, TakeLapse DEF PurgeInvites, Held
  <1>6. CASE UNCHANGED <<invites, issued, red>>
    BY <1>0, <1>6, TakeStutter DEF Held, TypeOK
  <1>7. QED
    <2>1. CASE \/ \E i \in Issuer, e \in Email, G \in Grants : AdminInvite(i, e, G)
               \/ \E i \in Issuer, e \in Email, u \in User, a \in App, r \in Role :
                    DelegatedInvite(i, e, u, a, r)
               \/ \E i \in Issuer : InviteLooks(i) \/ InviteFails(i)
      BY <1>6, <2>1 DEF AdminInvite, DelegatedInvite, InviteLooks, InviteFails
    <2>2. CASE \E p \in Importer : ImportStep(p)
      BY <1>6, <2>2 DEF ImportStep, ImportFinds, ImportFindsNone, ImportCreates, ImportClashes,
                        ImportGivesUp, ImportGrants, ImportFails
    <2>3. CASE \/ \E p \in Importer, e \in Email, n \in Name, a \in App, r \in Role \cup {Null} :
                    ImportBegin(p, e, n, a, r)
               \/ \E u \in User, g \in Grant : AdminGrants(u, g)
               \/ \E u \in User, a \in App : AdminRevokes(u, a)
               \/ Tick
               \/ UNCHANGED vars
      BY <1>6, <2>3 DEF ImportBegin, AdminGrants, AdminRevokes, Tick, vars
    <2>4. QED
      BY <1>1, <1>2, <1>3, <1>4, <1>5, <2>1, <2>2, <2>3 DEF Next, InviteStep

\* Before anything was invited nothing is offered.
LEMMA TakeInit == Init => Take!Init
  BY DEF Init, Take!Init, NoRed

\* Whatever the interleaving, an invite is taken by one redemption.
THEOREM OneShotInvites == Spec => ImplementsOneShot
  BY TakeInit, TakeStep, CoreInvariance, PTL DEF Spec, ImplementsOneShot, Take!Spec

-----------------------------------------------------------------------------
(* Accounts that were there before the invite for them. *)

\* Rows of users stay as they are; new ones note the invites issued before them.
LEMMA UsersMove ==
    ASSUME TypeOK, [Next]_vars, NEW u \in User
    PROVE  /\ users[u] # Null => users'[u] = users[u]
           /\ users[u] = Null /\ users'[u] # Null => users'[u].after = issued
  <1>1. CASE \E r \in Redeem, v \in User : RedeemCreates(r, v)
    BY <1>1 DEF RedeemCreates, Registered, TypeOK
  <1>2. CASE \E p \in Importer, v \in User : ImportCreates(p, v)
    BY <1>2 DEF ImportCreates, Registered, TypeOK
  <1>3. CASE users' = users
    BY <1>3
  <1>4. QED
    BY <1>1, <1>2, <1>3
       DEF Next, AdminInvite, DelegatedInvite, InviteStep, InviteLooks, InviteStored,
           InvitePatched, InviteFails, RedeemBegin, RedeemStep, RedeemLookup, RedeemCheck,
           RedeemDropExpired, RedeemConsume, RedeemFinds, RedeemFindsNone, RedeemGrants,
           RedeemEnds, RedeemFail, ImportBegin, ImportStep, ImportFinds, ImportFindsNone,
           ImportClashes, ImportGivesUp, ImportGrants, ImportFails, AdminGrants, AdminRevokes,
           PurgeInvites, Tick, vars

\* A row of an invite keeps the account it was issued for; a new one is stored with
\* the account that was looked up for it.
LEMMA InvitesMove ==
    ASSUME TypeOK, [Next]_vars, NEW t \in Token, invites'[t] # Null
    PROVE  \/ invites[t] # Null /\ invites'[t].expected = invites[t].expected
           \/ /\ t \notin issued /\ t \in issued'
              /\ \E i \in Issuer :
                   iss[i].pc = "looked" /\ invites'[t].expected = iss[i].expected
  <1>1. CASE \E i \in Issuer, s \in Token : InviteStored(i, s)
    <2> PICK i \in Issuer, s \in Token : InviteStored(i, s)
      BY <1>1
    <2>1. /\ iss[i].pc = "looked" /\ s \notin issued /\ s \in issued'
          /\ invites'[s].expected = iss[i].expected
          /\ \A o \in Token \ {s} : invites'[o] = invites[o]
      BY DEF InviteStored, TypeOK
    <2>2. QED
      BY <2>1
  <1>2. CASE \E i \in Issuer : InvitePatched(i)
    <2> PICK i \in Issuer : InvitePatched(i)
      BY <1>2
    <2>1. invites[t] = Null \/ invites[t] \in Row
      BY DEF TypeOK
    <2>2. CASE t # iss[i].token
      BY <2>2 DEF InvitePatched, TypeOK
    <2>3. CASE t = iss[i].token
      <3>1. invites'[t] = IF invites[t] = Null THEN Null ELSE [invites[t] EXCEPT !.byApp = iss[i].app]
        BY <2>3 DEF InvitePatched, TypeOK
      <3>2. invites[t] \in Row /\ invites[t] # Null /\ invites'[t] = [invites[t] EXCEPT !.byApp = iss[i].app]
        BY <2>1, <3>1
      <3>3. invites'[t].expected = invites[t].expected
        BY <3>2 DEF Row
      <3>4. QED
        BY <3>2, <3>3
    <2>4. QED
      BY <2>2, <2>3
  <1>3. CASE \A o \in Token : invites'[o] \in {Null, invites[o]}
    BY <1>3
  <1>4. CASE \E r \in Redeem : RedeemDropExpired(r) \/ RedeemConsume(r)
    BY <1>3, <1>4 DEF RedeemDropExpired, RedeemConsume, TypeOK
  <1>5. CASE PurgeInvites
    BY <1>3, <1>5 DEF PurgeInvites
  <1>6. CASE invites' = invites
    BY <1>6
  <1>7. QED
    BY <1>1, <1>2, <1>4, <1>5, <1>6
       DEF Next, AdminInvite, DelegatedInvite, InviteStep, InviteLooks,
           InviteFails, RedeemBegin, RedeemStep, RedeemLookup, RedeemCheck,
           RedeemFinds, RedeemFindsNone, RedeemCreates, RedeemGrants,
           RedeemEnds, RedeemFail, ImportBegin, ImportStep, ImportFinds, ImportFindsNone,
           ImportCreates, ImportClashes, ImportGivesUp, ImportGrants, ImportFails, AdminGrants,
           AdminRevokes, Tick, vars

\* A redemption keeps the row it has read.
LEMMA RedMove ==
    ASSUME TypeOK, [Next]_vars, NEW r \in Redeem, red'[r].pc \notin {"idle", "begun"}
    PROVE  \/ /\ red[r].pc \notin {"idle", "begun"}
              /\ red'[r].token = red[r].token /\ red'[r].row = red[r].row
           \/ /\ red[r].pc = "begun" /\ invites[red[r].token] # Null
              /\ red'[r].token = red[r].token /\ red'[r].row = invites[red[r].token]
  <1>0. red[r] \in Red /\ NoRed.pc = "idle"
    BY DEF TypeOK, NoRed
  <1>1. CASE \E q \in Redeem, t \in Token, n \in Name : RedeemBegin(q, t, n)
    <2> PICK q \in Redeem, t \in Token, n \in Name : RedeemBegin(q, t, n)
      BY <1>1
    <2>1. [NoRed EXCEPT !.pc = "begun", !.token = t, !.name = n].pc = "begun"
      BY DEF NoRed
    <2>2. QED
      BY <2>1 DEF RedeemBegin, TypeOK
  <1>2. CASE \E q \in Redeem : RedeemStep(q)
    <2> PICK q \in Redeem : RedeemStep(q)
      BY <1>2
    <2>1. CASE q # r
      <3>1. red'[r] = red[r]
        BY <2>1 DEF RedeemStep, RedeemLookup, RedeemCheck, RedeemDropExpired, RedeemConsume,
           RedeemFinds, RedeemFindsNone, RedeemCreates, RedeemGrants, RedeemEnds, RedeemFail, TypeOK
      <3>2. QED
        BY <3>1
    <2>2. CASE q = r
      <3>1. CASE RedeemLookup(r)
        BY <1>0, <3>1 DEF RedeemLookup, TypeOK, Red
      <3>2. CASE RedeemCheck(r) \/ RedeemFindsNone(r) \/ \E g \in Grant : RedeemGrants(r, g)
        BY <1>0, <3>2 DEF RedeemCheck, RedeemFindsNone, RedeemGrants, TypeOK, Red
      <3>3. CASE RedeemDropExpired(r) \/ RedeemEnds(r) \/ RedeemFail(r)
        BY <1>0, <3>3 DEF RedeemDropExpired, RedeemEnds, RedeemFail, TypeOK
      <3>4. CASE RedeemConsume(r)
        BY <1>0, <3>4 DEF RedeemConsume, TypeOK, Red
      <3>5. CASE \E u \in User : RedeemFinds(r, u)
        BY <1>0, <3>5 DEF RedeemFinds, TypeOK, Red
      <3>6. CASE \E u \in User : RedeemCreates(r, u)
        BY <1>0, <3>6 DEF RedeemCreates, TypeOK, Red
      <3>7. QED
        BY <2>2, <3>1, <3>2, <3>3, <3>4, <3>5, <3>6 DEF RedeemStep
    <2>3. QED
      BY <2>1, <2>2
  <1>3. CASE red' = red
    BY <1>3
  <1>4. QED
    BY <1>1, <1>2, <1>3
       DEF Next, AdminInvite, DelegatedInvite, InviteStep, InviteLooks, InviteStored,
           InvitePatched, InviteFails, ImportBegin, ImportStep, ImportFinds, ImportFindsNone,
           ImportCreates, ImportClashes, ImportGivesUp, ImportGrants, ImportFails, AdminGrants,
           AdminRevokes, PurgeInvites, Tick, vars

\* The account that an invite was issued for was there before the invite.
LEMMA PriorStep == CoreInv /\ PriorInv /\ [Next]_vars => PriorInv'
  <1> SUFFICES ASSUME CoreInv, PriorInv, [Next]_vars PROVE PriorInv'
    OBVIOUS
  <1>0. TypeOK /\ TypeOK' /\ issued \subseteq issued'
    <2>1. CoreInv'
      BY NextCore
    <2>2. issued \subseteq issued'
      BY DEF Next, AdminInvite, DelegatedInvite, InviteStep, InviteLooks, InviteStored,
           InvitePatched, InviteFails, RedeemBegin, RedeemStep, RedeemLookup, RedeemCheck,
           RedeemDropExpired, RedeemConsume, RedeemFinds, RedeemFindsNone, RedeemCreates,
           RedeemGrants, RedeemEnds, RedeemFail, ImportBegin, ImportStep, ImportFinds,
           ImportFindsNone, ImportCreates, ImportClashes, ImportGivesUp, ImportGrants,
           ImportFails, AdminGrants, AdminRevokes, PurgeInvites, Tick, vars
    <2>3. QED
      BY <2>1, <2>2 DEF CoreInv
  <1>1. ASSUME NEW u \in User, users'[u] # Null
        PROVE  users'[u].after \subseteq issued'
    BY <1>0, <1>1, UsersMove DEF PriorInv
  <1>2. \A w \in Row : RowOK(w) /\ w.expected # Null =>
          w.expected \in User /\ users[w.expected] # Null /\ users'[w.expected] = users[w.expected]
    BY <1>0, UsersMove DEF RowOK, Owner, Row
  <1>3. \A t \in Token : invites[t] # Null => invites[t] \in Row /\ RowOK(invites[t])
    BY <1>0 DEF CoreInv, TypeOK, TableInv, InviteInv
  <1>4. ASSUME NEW t \in Token, invites'[t] # Null
        PROVE  AccountFirst(t, invites[t])'
    <2>1. CASE invites[t] # Null /\ invites'[t].expected = invites[t].expected
      BY <1>2, <1>3, <2>1 DEF AccountFirst, PriorInv
    <2>2. ASSUME NEW i \in Issuer, t \notin issued, iss[i].pc = "looked",
                 invites'[t].expected = iss[i].expected, iss[i].expected # Null
          PROVE  t \notin users'[iss[i].expected].after
      <3>1. iss[i] \in Iss /\ IssOK(iss[i])
        BY <1>0 DEF CoreInv, IssInv, TypeOK
      <3>2. PICK u \in User : u = iss[i].expected /\ users[u] # Null
        BY <2>2, <3>1 DEF IssOK, Owner, Iss
      <3>3. users[u].after \subseteq issued /\ users'[u] = users[u]
        BY <1>0, <3>2, UsersMove DEF PriorInv
      <3>4. QED
        BY <2>2, <3>2, <3>3
    <2>3. QED
      BY <1>0, <1>4, <2>1, <2>2, InvitesMove DEF AccountFirst
  <1>5. ASSUME NEW r \in Redeem, red'[r].pc \notin {"idle", "begun"}
        PROVE  AccountFirst(red[r].token, red[r].row)'
    <2>1. red[r] \in Red /\ RedOK(red[r])
      BY <1>0 DEF CoreInv, RedInv, TypeOK
    <2>2. CASE /\ red[r].pc \notin {"idle", "begun"}
               /\ red'[r].token = red[r].token /\ red'[r].row = red[r].row
      <3>1. red[r].row \in Row /\ RowOK(red[r].row) /\ AccountFirst(red[r].token, red[r].row)
        BY <2>1, <2>2 DEF RedOK, PriorInv
      <3>2. QED
        BY <1>2, <2>2, <3>1 DEF AccountFirst
    <2>3. CASE /\ red[r].pc = "begun" /\ invites[red[r].token] # Null
               /\ red'[r].token = red[r].token /\ red'[r].row = invites[red[r].token]
      <3>1. red[r].token \in Token
        BY <2>1, <2>3 DEF RedOK
      <3>2. AccountFirst(red[r].token, invites[red[r].token])
        BY <2>3, <3>1 DEF PriorInv
      <3>3. QED
        BY <1>2, <1>3, <2>3, <3>1, <3>2 DEF AccountFirst
    <2>4. QED
      BY <1>0, <1>5, <2>2, <2>3, RedMove
  <1>6. QED
    BY <1>1, <1>4, <1>5 DEF PriorInv, AccountFirst

\* A redemption that found an account gives the grants to that one, which is the one
\* that the invite names, if it names one.
LEMMA GrantingMove ==
    ASSUME TypeOK, [Next]_vars, NEW r \in Redeem, red'[r].pc = "granting"
    PROVE  \/ /\ red[r].pc = "granting" /\ red'[r].row = red[r].row
              /\ red'[r].user = red[r].user /\ red'[r].created = red[r].created
           \/ ~IsRace(red'[r].row, red'[r].user)
           \/ red'[r].created
  <1>0. red[r] \in Red /\ NoRed.pc = "idle"
    BY DEF TypeOK, NoRed
  <1>1. CASE \E q \in Redeem, t \in Token, n \in Name : RedeemBegin(q, t, n)
    <2> PICK q \in Redeem, t \in Token, n \in Name : RedeemBegin(q, t, n)
      BY <1>1
    <2>1. [NoRed EXCEPT !.pc = "begun", !.token = t, !.name = n].pc = "begun"
      BY DEF NoRed
    <2>2. QED
      BY <2>1 DEF RedeemBegin, TypeOK
  <1>2. CASE \E q \in Redeem : RedeemStep(q)
    <2> PICK q \in Redeem : RedeemStep(q)
      BY <1>2
    <2>1. CASE q # r
      <3>1. red'[r] = red[r]
        BY <2>1 DEF RedeemStep, RedeemLookup, RedeemCheck, RedeemDropExpired, RedeemConsume,
           RedeemFinds, RedeemFindsNone, RedeemCreates, RedeemGrants, RedeemEnds, RedeemFail, TypeOK
      <3>2. QED
        BY <3>1
    <2>2. CASE q = r
      <3>1. CASE RedeemLookup(r)
        BY <1>0, <3>1 DEF RedeemLookup, TypeOK, Red
      <3>2. CASE RedeemCheck(r) \/ RedeemFindsNone(r) \/ \E g \in Grant : RedeemGrants(r, g)
        BY <1>0, <3>2 DEF RedeemCheck, RedeemFindsNone, RedeemGrants, TypeOK, Red
      <3>3. CASE RedeemDropExpired(r) \/ RedeemEnds(r) \/ RedeemFail(r)
        BY <1>0, <3>3 DEF RedeemDropExpired, RedeemEnds, RedeemFail, TypeOK
      <3>4. CASE RedeemConsume(r)
        BY <1>0, <3>4 DEF RedeemConsume, TypeOK, Red
      <3>5. CASE \E u \in User : RedeemFinds(r, u)
        <4> PICK u \in User : RedeemFinds(r, u)
          BY <3>5
        <4>1. CASE IsRace(red[r].row, u)
          BY <1>0, <4>1 DEF RedeemFinds, TypeOK
        <4>2. CASE ~IsRace(red[r].row, u)
          <5>1. red'[r].row = red[r].row /\ red'[r].user = u
            BY <1>0, <4>2 DEF RedeemFinds, TypeOK, Red
          <5>2. QED
            BY <4>2, <5>1
        <4>3. QED
          BY <4>1, <4>2
      <3>6. CASE \E u \in User : RedeemCreates(r, u)
        BY <1>0, <3>6 DEF RedeemCreates, TypeOK, Red
      <3>7. QED
        BY <2>2, <3>1, <3>2, <3>3, <3>4, <3>5, <3>6 DEF RedeemStep
    <2>3. QED
      BY <2>1, <2>2
  <1>3. CASE red' = red
    BY <1>3
  <1>4. QED
    BY <1>1, <1>2, <1>3
       DEF Next, AdminInvite, DelegatedInvite, InviteStep, InviteLooks, InviteStored,
           InvitePatched, InviteFails, ImportBegin, ImportStep, ImportFinds, ImportFindsNone,
           ImportCreates, ImportClashes, ImportGivesUp, ImportGrants, ImportFails, AdminGrants,
           AdminRevokes, PurgeInvites, Tick, vars

\* An invite for an account reaches that one.
LEMMA LateStep ==
    CoreInv /\ PriorInv /\ LateAccountsAreNew /\ [Next]_vars => LateAccountsAreNew'
  <1> SUFFICES ASSUME CoreInv, PriorInv, LateAccountsAreNew, [Next]_vars,
                      NEW r \in Redeem, red'[r].pc = "granting", ~red'[r].created,
                      red'[r].row.expected # Null
               PROVE  /\ red'[r].user = red'[r].row.expected
                      /\ red'[r].token \notin users'[red'[r].user].after
    BY DEF LateAccountsAreNew
  <1>1. TypeOK
    BY DEF CoreInv
  <1>2. red'[r].user = red'[r].row.expected
    BY <1>1, GrantingMove DEF IsRace, LateAccountsAreNew
  <1>3. PriorInv'
    BY PriorStep
  <1>4. red'[r].token \notin users'[red'[r].row.expected].after
    BY <1>3 DEF PriorInv, AccountFirst
  <1>5. QED
    BY <1>2, <1>4

\* The invariant of accounts, invites and running requests, SignOnIsOwn and
\* ImportLands among its conjuncts.
THEOREM Invariance == Spec => []IInv
  <1>1. Init => PriorInv /\ LateAccountsAreNew
    BY DEF Init, PriorInv, LateAccountsAreNew, NoRed
  <1>2. QED
    BY <1>1, CoreInvariance, PriorStep, LateStep, PTL DEF Spec, IInv

\* An account that came up after an invite was issued takes the grants only if the
\* invite was issued for an email without an account.
THEOREM InvitesReachTheirAccounts == Spec => []LateAccountsAreNew
  <1>1. IInv => LateAccountsAreNew
    BY DEF IInv
  <1>2. QED
    BY <1>1, Invariance, PTL

=============================================================================
