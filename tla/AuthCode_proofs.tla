--------------------------- MODULE AuthCode_proofs --------------------------
(***************************************************************************)
(* Theorems about AuthCode for every number of codes, users, clients,      *)
(* redirect URIs, sign-ins and exchanges, and every validity and delay.    *)
(***************************************************************************)
EXTENDS AuthCode, TLAPS

\* The initial state satisfies every part of the invariant.
LEMMA InitIInv == Init => IInv
BY NullAssumption, TimesAssumption
   DEF Init, IInv, TypeOK, ConsumedInv, ExInv, IssuedInv, OneTokenPerCode,
       NoEx, Ex, NoLogin

\* An exchange that ends without minting leaves the others as they are; the
\* code it presented may be gone from the table or not.
LEMMA ExchangeEndIInv ==
    ASSUME IInv, NEW x \in Exchange,
           ex' = [ex EXCEPT ![x] = NoEx],
           \/ UNCHANGED codes
           \/ ex[x].pc # "idle" /\ codes' = [codes EXCEPT ![ex[x].code] = Null],
           UNCHANGED <<now, access, login, issued, minted>>
    PROVE  IInv'
<1> USE DEF IInv
<1>a. NoEx \in Ex /\ NoEx.pc = "idle"
  BY DEF Ex, NoEx
<1>b. \A k \in Code : codes'[k] \in {Null, codes[k]}
  BY DEF TypeOK, ExInv
<1>1. TypeOK'
  BY <1>a DEF TypeOK, ExInv
<1>2. ConsumedInv'
  BY <1>a, <1>b DEF ConsumedInv, TypeOK, ExInv
<1>3. ExInv'
  BY <1>a, <1>b DEF ExInv, TypeOK, Lapsed, Addressed
<1>4. IssuedInv'
  BY <1>b DEF IssuedInv, TypeOK
<1>5. OneTokenPerCode'
  BY DEF OneTokenPerCode
<1> QED BY <1>1, <1>2, <1>3, <1>4, <1>5

\* The table only loses rows, and every exchange stays where it is.
LEMMA PurgeIInv ==
    ASSUME IInv, codes' \in [Code -> Row \cup {Null}],
           \A k \in Code : codes'[k] \in {Null, codes[k]},
           UNCHANGED <<now, access, login, ex, issued, minted>>
    PROVE  IInv'
<1> USE DEF IInv
<1>1. TypeOK'
  BY DEF TypeOK
<1>2. ConsumedInv'
  BY DEF ConsumedInv, TypeOK, ExInv
<1>3. ExInv'
  BY DEF ExInv, TypeOK, Lapsed, Addressed
<1>4. IssuedInv'
  BY DEF IssuedInv, TypeOK
<1>5. OneTokenPerCode'
  BY DEF OneTokenPerCode
<1> QED BY <1>1, <1>2, <1>3, <1>4, <1>5

\* issueCode stores a code that was never stored before.
LEMMA IssueCodeIInv ==
    ASSUME IInv, NEW l \in Login, NEW k \in Code, IssueCode(l, k)
    PROVE  IInv'
<1> USE DEF IInv
<1> DEFINE r == [user |-> login[l].user, client |-> login[l].client,
                 uri |-> login[l].uri, expiresAt |-> now + Ttl]
<1>a. r \in Row
  BY TimesAssumption DEF IssueCode, TypeOK, Row, NoLogin
<1>b. /\ codes' = [codes EXCEPT ![k] = r] /\ k \notin issued
      /\ issued' = issued \cup {k} /\ login' = [login EXCEPT ![l] = NoLogin]
      /\ UNCHANGED <<now, access, ex, minted>>
  BY DEF IssueCode
<1> HIDE DEF r
<1>1. TypeOK'
  BY <1>a, <1>b DEF TypeOK
<1>2. ConsumedInv'
  BY <1>b DEF ConsumedInv, TypeOK, ExInv
<1>3. ExInv'
  BY <1>b DEF ExInv, TypeOK, Lapsed, Addressed
<1>4. IssuedInv'
  BY <1>b DEF IssuedInv, TypeOK
<1>5. OneTokenPerCode'
  BY <1>b DEF OneTokenPerCode
<1> QED BY <1>1, <1>2, <1>3, <1>4, <1>5

\* A running exchange moves on to x, and the table is as it was.
LEMMA ExchangeMoveIInv ==
    ASSUME IInv, NEW x \in Exchange, NEW y \in Ex,
           ex' = [ex EXCEPT ![x] = y],
           y.pc \notin {"idle", "consumed"},
           y.pc = "claims" => ex[x].pc = "consumed" /\ y.code = ex[x].code,
           y.code \in Code, y.client \in Client, y.uri \in Uri,
           y.pc # "begun" =>
             y.row \in Row /\ y.code \in issued /\ codes[y.code] \in {Null, y.row},
           y.pc = "expired" => y.row.expiresAt < now,
           y.pc \in {"valid", "claims"} => y.row.client = y.client /\ y.row.uri = y.uri,
           UNCHANGED <<now, codes, access, login, issued, minted>>
    PROVE  IInv'
<1> USE DEF IInv
<1>1. TypeOK'
  BY DEF TypeOK
<1>2. ConsumedInv'
  BY DEF ConsumedInv, TypeOK
<1>3. ExInv'
  BY DEF ExInv, TypeOK, Lapsed, Addressed
<1>4. IssuedInv' /\ OneTokenPerCode'
  BY DEF IssuedInv, OneTokenPerCode
<1> QED BY <1>1, <1>2, <1>3, <1>4

\* The DELETE that removes the row makes its exchange the only one to go on.
LEMMA ExchangeWinIInv ==
    ASSUME IInv, NEW x \in Exchange, ExchangeConsume(x), Won(x)
    PROVE  IInv'
<1> USE DEF IInv
<1> DEFINE y == [ex[x] EXCEPT !.pc = "consumed"]
<1>0. ex[x] \in Ex
  BY DEF TypeOK
<1>a. y \in Ex /\ y.pc = "consumed" /\ y.code = ex[x].code /\ y.client = ex[x].client
      /\ y.uri = ex[x].uri /\ y.row = ex[x].row
  BY <1>0 DEF Ex
<1>b. /\ ex' = [ex EXCEPT ![x] = y] /\ ex[x].pc = "valid" /\ codes[ex[x].code] # Null
      /\ codes' = [codes EXCEPT ![ex[x].code] = Null]
      /\ UNCHANGED <<now, access, login, issued, minted>>
  BY DEF ExchangeConsume, Won
<1> HIDE DEF y
<1>c. \A k \in Code : codes'[k] \in {Null, codes[k]}
  BY <1>b DEF TypeOK, ExInv
<1>1. TypeOK'
  BY <1>a, <1>b DEF TypeOK, ExInv
<1>2. ConsumedInv'
  BY <1>a, <1>b, <1>c DEF ConsumedInv, TypeOK, ExInv, IssuedInv
<1>3. ExInv'
  BY <1>a, <1>b, <1>c DEF ExInv, TypeOK, Lapsed, Addressed
<1>4. IssuedInv'
  BY <1>b, <1>c DEF IssuedInv, TypeOK
<1>5. OneTokenPerCode'
  BY <1>b DEF OneTokenPerCode
<1> QED BY <1>1, <1>2, <1>3, <1>4, <1>5

\* The token is minted for a code that no other token was minted for.
LEMMA ExchangeMintIInv ==
    ASSUME IInv, NEW x \in Exchange, ExchangeMint(x)
    PROVE  IInv'
<1> USE DEF IInv
<1> DEFINE m == [code |-> ex[x].code, user |-> ex[x].row.user, client |-> ex[x].client,
                 uri |-> ex[x].uri, apps |-> ex[x].apps, by |-> x, at |-> ex[x].at]
<1>0. ex[x] \in Ex /\ ex[x].row \in Row /\ ex[x].code \in Code
      /\ ex[x].client \in Client /\ ex[x].uri \in Uri /\ ex[x].pc = "claims"
  BY DEF TypeOK, ExchangeMint, ExInv
<1>a. /\ m \in [code : Code, user : User, client : Client, uri : Uri,
                apps : SUBSET Client, by : Exchange, at : Int]
      /\ m.code = ex[x].code
  BY <1>0 DEF Ex, Row
<1>b. /\ ex' = [ex EXCEPT ![x] = NoEx] /\ minted' = minted \cup {m}
      /\ UNCHANGED <<now, codes, access, login, issued>>
  BY DEF ExchangeMint
<1>c. NoEx \in Ex /\ NoEx.pc = "idle"
  BY DEF Ex, NoEx
<1> HIDE DEF m
<1>1. TypeOK'
  BY <1>a, <1>b, <1>c DEF TypeOK
<1>2. ConsumedInv'
  BY <1>0, <1>a, <1>b, <1>c DEF ConsumedInv, TypeOK, ExInv
<1>3. ExInv'
  BY <1>b, <1>c DEF ExInv, TypeOK, Lapsed, Addressed
<1>4. IssuedInv'
  BY <1>0, <1>a, <1>b DEF IssuedInv, ConsumedInv, ExInv
<1>5. OneTokenPerCode'
  BY <1>0, <1>a, <1>b DEF OneTokenPerCode, ConsumedInv
<1> QED BY <1>1, <1>2, <1>3, <1>4, <1>5

-----------------------------------------------------------------------------

\* The invariant is inductive: one case per action.
LEMMA NextIInv == IInv /\ [Next]_vars => IInv'
<1> SUFFICES ASSUME IInv, [Next]_vars PROVE IInv'
  OBVIOUS
<1>0. TypeOK /\ ConsumedInv /\ ExInv /\ IssuedInv /\ OneTokenPerCode
  BY DEF IInv
<1>1. CASE \E l \in Login, u \in User, c \in Client, r \in Uri : LoginAllowed(l, u, c, r)
  <2>1. TypeOK'
    BY <1>0, <1>1 DEF LoginAllowed, TypeOK
  <2>2. ConsumedInv' /\ ExInv' /\ IssuedInv' /\ OneTokenPerCode'
    BY <1>0, <1>1 DEF LoginAllowed, ConsumedInv, ExInv, IssuedInv, OneTokenPerCode, Lapsed, Addressed
  <2> QED BY <2>1, <2>2 DEF IInv
<1>2. CASE \E l \in Login, k \in Code : IssueCode(l, k)
  BY <1>2, IssueCodeIInv
<1>3. CASE \E l \in Login : LoginFails(l)
  <2>1. TypeOK'
    BY <1>0, <1>3 DEF LoginFails, TypeOK
  <2>2. ConsumedInv' /\ ExInv' /\ IssuedInv' /\ OneTokenPerCode'
    BY <1>0, <1>3 DEF LoginFails, ConsumedInv, ExInv, IssuedInv, OneTokenPerCode, Lapsed, Addressed
  <2> QED BY <2>1, <2>2 DEF IInv
<1>4. CASE \E x \in Exchange, k \in Code, c \in Client, r \in Uri : ExchangeBegin(x, k, c, r)
  <2> PICK x \in Exchange, k \in Code, c \in Client, r \in Uri : ExchangeBegin(x, k, c, r)
    BY <1>4
  <2>0. NoEx \in Ex
    BY DEF Ex, NoEx
  <2>a. PICK y \in Ex : y = [NoEx EXCEPT !.pc = "begun", !.code = k, !.client = c, !.uri = r]
    BY <2>0 DEF Ex
  <2>1. y.pc = "begun" /\ y.code = k /\ y.client = c /\ y.uri = r
    BY <2>0, <2>a DEF Ex
  <2>2. ex' = [ex EXCEPT ![x] = y] /\ UNCHANGED <<now, codes, access, login, issued, minted>>
    BY <2>a DEF ExchangeBegin
  <2> QED BY <2>1, <2>2, ExchangeMoveIInv
<1>5. CASE \E x \in Exchange : ExchangeStep(x) \/ ExchangeFail(x)
  <2> PICK x \in Exchange : ExchangeStep(x) \/ ExchangeFail(x)
    BY <1>5
  <2>0. ex[x] \in Ex
    BY <1>0 DEF TypeOK
  <2>1. CASE ExchangeLookup(x)
    <3>1. ex[x].code \in Code /\ ex[x].client \in Client /\ ex[x].uri \in Uri
      BY <1>0, <2>1 DEF ExchangeLookup, ExInv
    <3>2. CASE codes[ex[x].code] = Null
      BY <2>1, <3>2, ExchangeEndIInv DEF ExchangeLookup
    <3>3. CASE codes[ex[x].code] # Null
      <4>a. PICK y \in Ex : y = [ex[x] EXCEPT !.pc = "found", !.row = codes[ex[x].code]]
        BY <1>0, <2>0, <3>1 DEF Ex, TypeOK
      <4>1. /\ y.pc = "found" /\ y.code = ex[x].code /\ y.client = ex[x].client
            /\ y.uri = ex[x].uri /\ y.row = codes[y.code]
        BY <2>0, <4>a DEF Ex
      <4>2. y.row \in Row /\ y.code \in issued
        BY <1>0, <3>1, <3>3, <4>1 DEF TypeOK, IssuedInv
      <4>3. ex' = [ex EXCEPT ![x] = y] /\ UNCHANGED <<now, codes, access, login, issued, minted>>
        BY <2>1, <3>3, <4>a DEF ExchangeLookup
      <4> QED BY <3>1, <4>1, <4>2, <4>3, ExchangeMoveIInv
    <3> QED BY <3>2, <3>3
  <2>2. CASE ExchangeCheck(x)
    <3>1. /\ ex[x].code \in Code /\ ex[x].client \in Client /\ ex[x].uri \in Uri
          /\ ex[x].row \in Row /\ ex[x].code \in issued
          /\ codes[ex[x].code] \in {Null, ex[x].row}
      BY <1>0, <2>2 DEF ExchangeCheck, ExInv
    <3>2. CASE Lapsed(ex[x].row)
      <4>a. PICK y \in Ex : y = [ex[x] EXCEPT !.pc = "expired"]
        BY <1>0, <2>0 DEF Ex, AppsOf, TypeOK
      <4>1. /\ y.pc = "expired" /\ y.code = ex[x].code /\ y.client = ex[x].client
            /\ y.uri = ex[x].uri /\ y.row = ex[x].row
        BY <2>0, <4>a DEF Ex
      <4>2. ex' = [ex EXCEPT ![x] = y] /\ UNCHANGED <<now, codes, access, login, issued, minted>>
        BY <2>2, <3>2, <4>a DEF ExchangeCheck
      <4> QED BY <3>1, <3>2, <4>1, <4>2, ExchangeMoveIInv DEF Lapsed
    <3>3. CASE ~Lapsed(ex[x].row) /\ Addressed(x)
      <4>a. PICK y \in Ex : y = [ex[x] EXCEPT !.pc = "valid", !.at = now]
        BY <1>0, <2>0 DEF Ex, AppsOf, TypeOK
      <4>1. /\ y.pc = "valid" /\ y.code = ex[x].code /\ y.client = ex[x].client
            /\ y.uri = ex[x].uri /\ y.row = ex[x].row
        BY <2>0, <4>a DEF Ex
      <4>2. ex' = [ex EXCEPT ![x] = y] /\ UNCHANGED <<now, codes, access, login, issued, minted>>
        BY <2>2, <3>3, <4>a DEF ExchangeCheck
      <4> QED BY <3>1, <3>3, <4>1, <4>2, ExchangeMoveIInv DEF Addressed
    <3>4. CASE ~Lapsed(ex[x].row) /\ ~Addressed(x)
      BY <2>2, <3>4, ExchangeEndIInv DEF ExchangeCheck
    <3> QED BY <3>2, <3>3, <3>4
  <2>3. CASE ExchangeDropExpired(x)
    BY <2>3, ExchangeEndIInv DEF ExchangeDropExpired
  <2>4. CASE ExchangeConsume(x)
    <3>1. CASE Won(x)
      BY <2>4, <3>1, ExchangeWinIInv
    <3>2. CASE ~Won(x)
      BY <2>4, <3>2, ExchangeEndIInv DEF ExchangeConsume
    <3> QED BY <3>1, <3>2
  <2>5. CASE ExchangeClaims(x)
    <3>a. PICK y \in Ex : y = [ex[x] EXCEPT !.pc = "claims", !.apps = AppsOf(ex[x].row.user)]
      BY <1>0, <2>0 DEF Ex, AppsOf, TypeOK
    <3>1. /\ ex[x].code \in Code /\ ex[x].client \in Client /\ ex[x].uri \in Uri
          /\ ex[x].row \in Row /\ ex[x].code \in issued
          /\ codes[ex[x].code] \in {Null, ex[x].row}
          /\ ex[x].row.client = ex[x].client /\ ex[x].row.uri = ex[x].uri
      BY <1>0, <2>5 DEF ExchangeClaims, ExInv, Addressed
    <3>2. /\ y.pc = "claims" /\ y.code = ex[x].code /\ y.client = ex[x].client
          /\ y.uri = ex[x].uri /\ y.row = ex[x].row
      BY <2>0, <3>a DEF Ex
    <3>3. /\ ex' = [ex EXCEPT ![x] = y] /\ ex[x].pc = "consumed"
          /\ UNCHANGED <<now, codes, access, login, issued, minted>>
      BY <2>5, <3>a DEF ExchangeClaims
    <3> QED BY <3>1, <3>2, <3>3, ExchangeMoveIInv
  <2>6. CASE ExchangeMint(x)
    BY <2>6, ExchangeMintIInv
  <2>7. CASE ExchangeFail(x)
    BY <2>7, ExchangeEndIInv DEF ExchangeFail
  <2> QED BY <2>1, <2>2, <2>3, <2>4, <2>5, <2>6, <2>7 DEF ExchangeStep
<1>6. CASE PurgeCodes
  <2>1. codes' \in [Code -> Row \cup {Null}] /\ \A k \in Code : codes'[k] \in {Null, codes[k]}
    BY <1>0, <1>6 DEF PurgeCodes, TypeOK
  <2> QED BY <1>6, <2>1, PurgeIInv DEF PurgeCodes
<1>7. CASE \E u \in User, c \in Client : GrantAccess(u, c) \/ RevokeAccess(u, c)
  <2>1. TypeOK'
    BY <1>0, <1>7 DEF GrantAccess, RevokeAccess, TypeOK
  <2>2. ConsumedInv' /\ ExInv' /\ IssuedInv' /\ OneTokenPerCode'
    BY <1>0, <1>7 DEF GrantAccess, RevokeAccess, ConsumedInv, ExInv, IssuedInv, OneTokenPerCode,
                Lapsed, Addressed
  <2> QED BY <2>1, <2>2 DEF IInv
<1>8. CASE Tick
  <2>1. now' = now + 1 /\ now \in Int /\ UNCHANGED <<codes, access, login, ex, issued, minted>>
    BY <1>0, <1>8 DEF Tick, TypeOK
  <2>2. TypeOK'
    BY <1>0, <2>1 DEF TypeOK
  <2>3. ExInv'
    BY <1>0, <2>1 DEF ExInv, Lapsed, Addressed, Row
  <2>4. ConsumedInv' /\ IssuedInv' /\ OneTokenPerCode'
    BY <1>0, <2>1 DEF ConsumedInv, IssuedInv, OneTokenPerCode
  <2> QED BY <2>2, <2>3, <2>4 DEF IInv
<1>9. CASE UNCHANGED vars
  BY <1>0, <1>9 DEF vars, IInv, TypeOK, ConsumedInv, ExInv, IssuedInv, OneTokenPerCode, Lapsed, Addressed
<1> QED BY <1>1, <1>2, <1>3, <1>4, <1>5, <1>6, <1>7, <1>8, <1>9 DEF Next

\* The invariant holds in every reachable state of exchangeCode and its callers.
THEOREM Invariance == Spec => []IInv
BY InitIInv, NextIInv, PTL DEF Spec

\* A code is redeemed at most once, however many exchanges present it.
THEOREM SingleUse == Spec => []OneTokenPerCode
<1>1. IInv => OneTokenPerCode
  BY DEF IInv
<1> QED BY <1>1, Invariance, PTL

-----------------------------------------------------------------------------

\* Rows that cleanup deletes have lapsed before.
LEMMA OverdueIsLapsed ==
    ASSUME TypeOK, NEW r \in Row, Overdue(r)
    PROVE  Lapsed(r)
BY TimesAssumption DEF Overdue, Lapsed, Row, TypeOK

\* A code that has not lapsed leaves the table only by the DELETE of an exchange
\* whose client and redirect URI are the code's own.
THEOREM OnlyItsClientEnds == Spec => OnlyItsClientEndsACode
<1> DEFINE A == \A k \in Code :
                  codes[k] # Null /\ codes'[k] = Null /\ ~Lapsed(codes[k]) =>
                    \E x \in Exchange : /\ ex[x].code = k
                                        /\ ex[x].client = codes[k].client
                                        /\ ex[x].uri = codes[k].uri
<1>1. IInv /\ [Next]_vars => [A]_vars
  <2> SUFFICES ASSUME IInv, Next, NEW k \in Code,
                      codes[k] # Null, codes'[k] = Null, ~Lapsed(codes[k])
               PROVE  \E x \in Exchange : /\ ex[x].code = k
                                          /\ ex[x].client = codes[k].client
                                          /\ ex[x].uri = codes[k].uri
    OBVIOUS
  <2>0. codes \in [Code -> Row \cup {Null}] /\ TypeOK
    BY DEF IInv, TypeOK
  <2>1. ~\E l \in Login, j \in Code : IssueCode(l, j)
    <3> SUFFICES ASSUME NEW l \in Login, NEW j \in Code, IssueCode(l, j) PROVE FALSE
      OBVIOUS
    <3>1. [user |-> login[l].user, client |-> login[l].client,
           uri |-> login[l].uri, expiresAt |-> now + Ttl] # Null
      <4>1. [user |-> login[l].user, client |-> login[l].client,
             uri |-> login[l].uri, expiresAt |-> now + Ttl] \in Row
        BY <2>0, TimesAssumption DEF IssueCode, TypeOK, Row, NoLogin
      <4> QED BY <4>1, NullAssumption DEF Row
    <3> QED BY <2>0, <3>1 DEF IssueCode
  <2>2. ~PurgeCodes
    BY <2>0, OverdueIsLapsed DEF PurgeCodes
  <2>3. PICK x \in Exchange : ExchangeDropExpired(x) \/ ExchangeConsume(x)
    BY <2>1, <2>2 DEF Next, LoginAllowed, LoginFails, ExchangeBegin, ExchangeStep,
                      ExchangeLookup, ExchangeCheck, ExchangeClaims, ExchangeMint,
                      ExchangeFail, GrantAccess, RevokeAccess, Tick
  <2>4. ex[x].code = k
    BY <2>0, <2>3 DEF ExchangeDropExpired, ExchangeConsume
  <2>5. codes[k] = ex[x].row
    BY <2>3, <2>4 DEF ExchangeDropExpired, ExchangeConsume, IInv, ExInv
  <2>6. ExchangeConsume(x)
    BY <2>3, <2>5 DEF ExchangeDropExpired, IInv, ExInv
  <2>7. Addressed(x)
    BY <2>6 DEF ExchangeConsume, IInv, ExInv
  <2> QED BY <2>4, <2>5, <2>7 DEF Addressed
<1> QED BY <1>1, Invariance, PTL DEF Spec, OnlyItsClientEndsACode

-----------------------------------------------------------------------------
(* The refinement of OneShot. *)

\* The code an exchange has consumed and not yet turned into a token.
Held(x) == IF ex[x].pc \in {"consumed", "claims"} THEN ex[x].code ELSE Null

\* A step that neither changes what the table offers nor what is held is
\* invisible to OneShot.
LEMMA TakeStutter ==
    ASSUME UNCHANGED <<codes, issued>>, \A x \in Exchange : Held(x)' = Held(x)
    PROVE  UNCHANGED Take!vars
BY DEF Take!vars, Held

\* Rows that leave the table while nothing else happens have lapsed.
LEMMA TakeLapse ==
    ASSUME TypeOK, IssuedInv, NEW S \in SUBSET Code,
           codes' = [k \in Code |-> IF k \in S THEN Null ELSE codes[k]],
           UNCHANGED issued, \A x \in Exchange : Held(x)' = Held(x)
    PROVE  Take!Next
<1> DEFINE off == {k \in Code : codes[k] # Null}
           out == {k \in issued : codes[k] = Null}
<1>0. PICK Dead \in SUBSET off : Dead = off \cap S
  OBVIOUS
<1>1. off' = off \ Dead
  BY <1>0
<1>2. out' = out \cup Dead
  BY <1>0 DEF TypeOK, IssuedInv
<1>3. [x \in Exchange |-> Held(x)]' = [x \in Exchange |-> Held(x)]
  OBVIOUS
<1>4. Take!Lapse(Dead)
  BY <1>1, <1>2, <1>3 DEF Take!Lapse, Held
<1> QED BY <1>4 DEF Take!Next

\* Ending an exchange gives up what it held.
LEMMA TakeFinish ==
    ASSUME TypeOK, NEW x \in Exchange, ex' = [ex EXCEPT ![x] = NoEx],
           UNCHANGED <<codes, issued>>
    PROVE  Take!Next \/ UNCHANGED Take!vars
<1> DEFINE hd == [y \in Exchange |-> Held(y)]
<1>1. Held(x)' = Null /\ \A y \in Exchange : y # x => Held(y)' = Held(y)
  BY DEF Held, TypeOK, NoEx
<1>2. CASE Held(x) = Null
  BY <1>1, <1>2, TakeStutter
<1>3. CASE Held(x) # Null
  <2>1. hd' = [hd EXCEPT ![x] = Null] /\ hd[x] # Null
    BY <1>1, <1>3
  <2>2. Take!Finish(x)
    BY <2>1 DEF Take!Finish, Held
  <2> QED BY <2>2 DEF Take!Next
<1> QED BY <1>2, <1>3

\* The DELETE whose row count is one takes the code.
LEMMA TakeTake ==
    ASSUME TypeOK, ExInv, IssuedInv, NEW x \in Exchange, ExchangeConsume(x), Won(x)
    PROVE  Take!Next
<1> DEFINE off == {k \in Code : codes[k] # Null}
           out == {k \in issued : codes[k] = Null}
           hd == [y \in Exchange |-> Held(y)]
<1>0. ex[x].code \in Code /\ ex[x].code \in issued /\ ex[x].pc = "valid"
      /\ codes[ex[x].code] # Null
  BY DEF ExInv, ExchangeConsume, Won
<1>1. PICK k \in Code : k = ex[x].code
  BY <1>0
<1>2. codes' = [codes EXCEPT ![k] = Null] /\ issued' = issued /\ k \in off
  BY <1>0, <1>1 DEF ExchangeConsume
<1>3. off' = off \ {k} /\ out' = out \cup {k}
  BY <1>0, <1>1, <1>2 DEF TypeOK
<1>4. Held(x)' = k /\ Held(x) = Null /\ \A y \in Exchange : y # x => Held(y)' = Held(y)
  BY <1>0, <1>1 DEF ExchangeConsume, Won, Held, TypeOK, Ex
<1>5. hd' = [hd EXCEPT ![x] = k] /\ hd[x] = Null
  BY <1>4
<1>6. Take!Take(x, k)
  BY <1>2, <1>3, <1>5 DEF Take!Take, Held
<1> QED BY <1>6 DEF Take!Next

\* issueCode offers a new code.
LEMMA TakeOffer ==
    ASSUME TypeOK, IssuedInv, NEW l \in Login, NEW k \in Code, IssueCode(l, k)
    PROVE  Take!Next
<1> DEFINE off == {j \in Code : codes[j] # Null}
           out == {j \in issued : codes[j] = Null}
<1>1. codes'[k] # Null
  <2>1. [user |-> login[l].user, client |-> login[l].client,
         uri |-> login[l].uri, expiresAt |-> now + Ttl] \in Row
    BY TimesAssumption DEF IssueCode, TypeOK, Row, NoLogin
  <2> QED BY <2>1, NullAssumption DEF IssueCode, TypeOK, Row
<1>2. \A j \in Code \ {k} : codes'[j] = codes[j]
  BY DEF IssueCode, TypeOK
<1>3. k \notin issued /\ issued' = issued \cup {k} /\ UNCHANGED ex
  BY DEF IssueCode
<1>4. off' = off \cup {k} /\ out' = out
  BY <1>1, <1>2, <1>3 DEF IssuedInv, TypeOK
<1>5. k \notin off \cup out
  BY <1>3 DEF IssuedInv
<1>6. Take!Offer(k)
  BY <1>3, <1>4, <1>5 DEF Take!Offer
<1> QED BY <1>6 DEF Take!Next

\* Every step of AuthCode is a step of OneShot or leaves it alone.
LEMMA TakeStep == IInv /\ [Next]_vars => [Take!Next]_(Take!vars)
<1> SUFFICES ASSUME IInv, [Next]_vars PROVE Take!Next \/ UNCHANGED Take!vars
  OBVIOUS
<1>0. TypeOK /\ ExInv /\ IssuedInv
  BY DEF IInv
<1>1. CASE \E l \in Login, k \in Code : IssueCode(l, k)
  BY <1>0, <1>1, TakeOffer
<1>2. CASE \E x \in Exchange, k \in Code, c \in Client, r \in Uri : ExchangeBegin(x, k, c, r)
  <2> PICK x \in Exchange, k \in Code, c \in Client, r \in Uri : ExchangeBegin(x, k, c, r)
    BY <1>2
  <2>1. NoEx \in Ex
    BY DEF Ex, NoEx
  <2>2. \A y \in Exchange : Held(y)' = Held(y)
    BY <1>0, <2>1 DEF ExchangeBegin, Held, TypeOK, Ex
  <2> QED BY <2>2, TakeStutter DEF ExchangeBegin
<1>3. CASE \E x \in Exchange : ExchangeStep(x) \/ ExchangeFail(x)
  <2> PICK x \in Exchange : ExchangeStep(x) \/ ExchangeFail(x)
    BY <1>3
  <2>0. ex[x] \in Ex
    BY <1>0 DEF TypeOK
  <2>1. CASE ExchangeLookup(x) \/ ExchangeCheck(x) \/ ExchangeClaims(x)
    <3>a. ASSUME ExchangeLookup(x) PROVE \A y \in Exchange : Held(y)' = Held(y)
      BY <1>0, <2>0, <3>a DEF ExchangeLookup, Held, TypeOK, Ex, NoEx
    <3>b. ASSUME ExchangeCheck(x) PROVE \A y \in Exchange : Held(y)' = Held(y)
      BY <1>0, <2>0, <3>b DEF ExchangeCheck, Held, TypeOK, Ex, NoEx
    <3>c. ASSUME ExchangeClaims(x) PROVE \A y \in Exchange : Held(y)' = Held(y)
      BY <1>0, <2>0, <3>c DEF ExchangeClaims, Held, TypeOK, Ex, NoEx
    <3>1. \A y \in Exchange : Held(y)' = Held(y)
      BY <2>1, <3>a, <3>b, <3>c
    <3> QED BY <2>1, <3>1, TakeStutter DEF ExchangeLookup, ExchangeCheck, ExchangeClaims
  <2>2. CASE ExchangeMint(x) \/ ExchangeFail(x)
    BY <1>0, <2>2, TakeFinish DEF ExchangeMint, ExchangeFail
  <2>3. CASE ExchangeDropExpired(x)
    <3>1. PICK k \in Code : k = ex[x].code
      BY <1>0, <2>3 DEF ExchangeDropExpired, ExInv
    <3>2. codes' = [j \in Code |-> IF j \in {k} THEN Null ELSE codes[j]]
      BY <1>0, <2>3, <3>1 DEF ExchangeDropExpired, TypeOK
    <3>3. \A y \in Exchange : Held(y)' = Held(y)
      BY <1>0, <2>3 DEF ExchangeDropExpired, Held, TypeOK, NoEx
    <3>4. {k} \in SUBSET Code
      OBVIOUS
    <3> QED BY <1>0, <2>3, <3>2, <3>3, <3>4, TakeLapse DEF ExchangeDropExpired
  <2>4. CASE ExchangeConsume(x) /\ Won(x)
    BY <1>0, <2>4, TakeTake
  <2>5. CASE ExchangeConsume(x) /\ ~Won(x)
    <3>1. codes' = codes /\ ex' = [ex EXCEPT ![x] = NoEx] /\ issued' = issued
      BY <1>0, <2>5 DEF ExchangeConsume, Won, ExInv, TypeOK
    <3> QED BY <1>0, <3>1, TakeFinish
  <2> QED BY <2>1, <2>2, <2>3, <2>4, <2>5 DEF ExchangeStep
<1>4. CASE PurgeCodes
  <2>1. PICK S \in SUBSET Code : S = {k \in Code : codes[k] # Null /\ Overdue(codes[k])}
    OBVIOUS
  <2>2. codes' = [k \in Code |-> IF k \in S THEN Null ELSE codes[k]]
    BY <1>4, <2>1 DEF PurgeCodes
  <2> QED BY <1>0, <1>4, <2>2, TakeLapse DEF PurgeCodes, Held
<1>5. CASE \/ \E l \in Login, u \in User, c \in Client, r \in Uri : LoginAllowed(l, u, c, r)
           \/ \E l \in Login : LoginFails(l)
           \/ \E u \in User, c \in Client : GrantAccess(u, c) \/ RevokeAccess(u, c)
           \/ Tick
           \/ UNCHANGED vars
  <2>1. UNCHANGED <<codes, issued, ex>>
    BY <1>5 DEF LoginAllowed, LoginFails, GrantAccess, RevokeAccess, Tick, vars
  <2> QED BY <2>1, TakeStutter DEF Held
<1> QED BY <1>1, <1>2, <1>3, <1>4, <1>5 DEF Next

\* The empty table offers nothing.
LEMMA TakeInit == Init => Take!Init
BY DEF Init, Take!Init, NoEx

\* The table of codes with its DELETE-and-count implements a one-shot token.
THEOREM OneShotCodes == Spec => ImplementsOneShot
BY TakeInit, TakeStep, Invariance, PTL DEF Spec, ImplementsOneShot, Take!Spec

-----------------------------------------------------------------------------
(* What follows from the one-shot token. *)

\* Codes that can be exchanged, and codes that are gone for good.
Offered == {k \in Code : codes[k] # Null}
Gone == {k \in issued : codes[k] = Null}

\* A one-shot token that is gone stays gone, and what an exchange begins to hold
\* was on offer.
LEMMA TakeKeeps ==
    ASSUME [Take!Next]_(Take!vars)
    PROVE  /\ Gone \subseteq Gone'
           /\ \A x \in Exchange :
                \/ Held(x)' \in {Held(x), Null}
                \/ /\ Held(x)' \in Offered /\ Held(x)' \in Gone'
                   /\ \A y \in Exchange \ {x} : Held(y)' = Held(y)
<1>1. CASE UNCHANGED Take!vars
  BY <1>1 DEF Take!vars, Held, Gone
<1>2. CASE \E k \in Code : Take!Offer(k)
  BY <1>2 DEF Take!Offer, Held, Gone
<1>3. CASE \E x \in Exchange, k \in Code : Take!Take(x, k)
  <2> PICK x \in Exchange, k \in Code : Take!Take(x, k)
    BY <1>3
  <2>1. k \in Offered /\ Gone' = Gone \cup {k}
    BY DEF Take!Take, Offered, Gone
  <2>2. [y \in Exchange |-> Held(y)]' = [[y \in Exchange |-> Held(y)] EXCEPT ![x] = k]
    BY DEF Take!Take, Held
  <2>3. Held(x)' = k /\ \A y \in Exchange \ {x} : Held(y)' = Held(y)
    BY <2>2
  <2> QED BY <2>1, <2>3
<1>4. CASE \E x \in Exchange : Take!Finish(x)
  <2> PICK x \in Exchange : Take!Finish(x)
    BY <1>4
  <2>1. Gone' = Gone
    BY DEF Take!Finish, Gone
  <2>2. [y \in Exchange |-> Held(y)]' = [[y \in Exchange |-> Held(y)] EXCEPT ![x] = Null]
    BY DEF Take!Finish, Held
  <2>3. Held(x)' = Null /\ \A y \in Exchange \ {x} : Held(y)' = Held(y)
    BY <2>2
  <2> QED BY <2>1, <2>3
<1>5. CASE \E S \in SUBSET Offered : Take!Lapse(S)
  BY <1>5 DEF Take!Lapse, Held, Gone
<1> QED BY <1>1, <1>2, <1>3, <1>4, <1>5 DEF Take!Next, Offered

\* A code that is spent stays so, and is not minted from.
LEMMA SpentStays ==
    ASSUME IInv, [Next]_vars, NEW k \in Code, Spent(k), \A m \in minted : m.code # k
    PROVE  Spent(k)' /\ \A m \in minted' : m.code # k
<1>1. [Take!Next]_(Take!vars)
  BY TakeStep
<1>2. k \in Gone /\ k \notin Offered /\ k # Null
  BY NullAssumption DEF Spent, Gone, Offered
<1>3. \A x \in Exchange : Held(x) # k
  BY <1>2 DEF Spent, Held
<1>4. k \in Gone' /\ \A x \in Exchange : Held(x)' # k
  BY <1>1, <1>2, <1>3, TakeKeeps
<1>5. \A m \in minted' : m.code # k
  <2>1. CASE \E x \in Exchange : ExchangeMint(x)
    <3> PICK x \in Exchange : ExchangeMint(x)
      BY <2>1
    <3>1. ex[x].code # k
      BY <1>3 DEF ExchangeMint, Held
    <3> QED BY <3>1 DEF ExchangeMint
  <2>2. CASE minted' = minted
    BY <2>2
  <2> QED
    BY <2>1, <2>2 DEF Next, LoginAllowed, IssueCode, LoginFails, ExchangeBegin, ExchangeStep,
       ExchangeLookup, ExchangeCheck, ExchangeDropExpired, ExchangeConsume, ExchangeClaims,
       ExchangeFail, PurgeCodes, GrantAccess, RevokeAccess, Tick, vars
<1> QED BY <1>4, <1>5 DEF Spent, Gone, Held

\* A code that lapsed or was lost half-way never becomes a token.
THEOREM LostForGood == Spec => LostStaysLost
<1> SUFFICES ASSUME NEW k \in Code
             PROVE  Spec => [](Spent(k) /\ (\A m \in minted : m.code # k)
                                 => [](\A m \in minted : m.code # k))
  BY DEF LostStaysLost
<1> DEFINE Unminted == \A m \in minted : m.code # k
<1>1. IInv /\ [Next]_vars /\ Spent(k) /\ Unminted => Spent(k)' /\ Unminted'
  BY SpentStays
<1> HIDE DEF Unminted
<1>2. Spec => [](Spent(k) /\ Unminted => []Unminted)
  BY <1>1, Invariance, PTL DEF Spec
<1> QED BY <1>2 DEF Unminted

=============================================================================
