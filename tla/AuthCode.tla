------------------------------ MODULE AuthCode ------------------------------
(***************************************************************************)
(* Authorization codes: the table homectl_auth.authorization_codes, the    *)
(* two handlers of routes/authorize.router.ts that issue a code, the       *)
(* exchange behind POST /token (modules/auth-code/auth-code.service.ts),   *)
(* and the DELETE of runCleanup on this table.                             *)
(*                                                                         *)
(* Every awaited statement of an exchange is a step, so exchanges of one   *)
(* code, revocations of access and the cleanup job run in between.         *)
(* Requests that are refused before they touch the table (an unknown       *)
(* client, a wrong secret, missing fields) change nothing and are left out.*)
(***************************************************************************)
EXTENDS Integers

CONSTANTS
    Code,           \* authorization codes (a draw never repeats)
    User, Client,
    Uri,            \* redirect URIs on some app's allow-list
    Login,          \* concurrent GET /authorize and POST /login requests
    Exchange,       \* concurrent POST /token requests
    Ttl,            \* CODE_TTL_SECONDS
    Keep,           \* how long cleanup leaves an expired row (1 day)
    MaxTime,        \* bound on the clock
    Null

ASSUME TimesAssumption == Ttl \in Nat /\ Keep \in Nat /\ MaxTime \in Nat

ASSUME NullAssumption ==
    /\ Null \notin Code
    /\ Null \notin [user : User, client : Client, uri : Uri, expiresAt : Int]

VARIABLES
    now,
    codes,          \* [Code -> row, or Null]
    access,         \* set of <<user, client>>: the rows of app_access
    login,          \* [Login -> a sign-in between its access check and issueCode]
    ex,             \* [Exchange -> the running exchangeCode]
    issued,         \* history: every code that was ever stored
    minted          \* history: the access tokens signed by exchanges

vars == <<now, codes, access, login, ex, issued, minted>>

Row == [user : User, client : Client, uri : Uri, expiresAt : Int]

NoLogin == [pc |-> "idle"]

Ex == [pc : {"idle", "begun", "found", "expired", "valid", "consumed", "claims"},
       code : Code \cup {Null}, client : Client \cup {Null}, uri : Uri \cup {Null},
       row : Row \cup {Null}, at : Int, apps : SUBSET Client]

NoEx == [pc |-> "idle", code |-> Null, client |-> Null, uri |-> Null,
         row |-> Null, at |-> 0, apps |-> {}]

\* The type invariant: rows, running exchanges and minted tokens have the shape
\* of the code's types (ExchangeCodeInput, ExchangeCodeResult).
TypeOK ==
    /\ now \in Int
    /\ codes \in [Code -> Row \cup {Null}]
    /\ access \subseteq User \X Client
    /\ login \in [Login -> {NoLogin} \cup
                    [pc : {"allowed"}, user : User, client : Client, uri : Uri]]
    /\ ex \in [Exchange -> Ex]
    /\ issued \subseteq Code
    /\ minted \subseteq [code : Code, user : User, client : Client, uri : Uri,
                         apps : SUBSET Client, by : Exchange, at : Int]

Init ==
    /\ now = 0
    /\ codes = [c \in Code |-> Null]
    /\ access \in SUBSET (User \X Client)
    /\ login = [l \in Login |-> NoLogin]
    /\ ex = [x \in Exchange |-> NoEx]
    /\ issued = {}
    /\ minted = {}

-----------------------------------------------------------------------------
(* Issuing.  The user has proved who they are, by password or by the SSO     *)
(* cookie; hasAccess is one statement, issueCode a later one.                *)

LoginAllowed(l, u, c, r) ==
    /\ login[l] = NoLogin
    /\ <<u, c>> \in access
    /\ login' = [login EXCEPT ![l] =
                   [pc |-> "allowed", user |-> u, client |-> c, uri |-> r]]
    /\ UNCHANGED <<now, codes, access, ex, issued, minted>>

IssueCode(l, k) ==
    /\ login[l].pc = "allowed"
    /\ k \notin issued
    /\ codes' = [codes EXCEPT ![k] =
                   [user |-> login[l].user, client |-> login[l].client,
                    uri |-> login[l].uri, expiresAt |-> now + Ttl]]
    /\ issued' = issued \cup {k}
    /\ login' = [login EXCEPT ![l] = NoLogin]
    /\ UNCHANGED <<now, access, ex, minted>>

LoginFails(l) ==
    /\ login[l].pc = "allowed"
    /\ login' = [login EXCEPT ![l] = NoLogin]
    /\ UNCHANGED <<now, codes, access, ex, issued, minted>>

-----------------------------------------------------------------------------
(* exchangeCode. *)

\* The client has proved its secret; it may present any code and any URI.
ExchangeBegin(x, k, c, r) ==
    /\ ex[x].pc = "idle"
    /\ ex' = [ex EXCEPT ![x] =
                [NoEx EXCEPT !.pc = "begun", !.code = k, !.client = c, !.uri = r]]
    /\ UNCHANGED <<now, codes, access, login, issued, minted>>

\* SELECT, without deleting.
ExchangeLookup(x) ==
    /\ ex[x].pc = "begun"
    /\ ex' = [ex EXCEPT ![x] =
                IF codes[ex[x].code] = Null THEN NoEx
                ELSE [@ EXCEPT !.pc = "found", !.row = codes[ex[x].code]]]
    /\ UNCHANGED <<now, codes, access, login, issued, minted>>

Lapsed(r) == r.expiresAt < now

\* The code was issued to this client for this redirect URI.
Addressed_AnyClient(x) == ex[x].row.uri = ex[x].uri
Addressed(x) ==
    /\ ex[x].row.client = ex[x].client
    /\ ex[x].row.uri = ex[x].uri

\* The checks on the row that was read, without an await in between.
ExchangeCheck(x) ==
    /\ ex[x].pc = "found"
    /\ ex' = [ex EXCEPT ![x] =
                IF Lapsed(ex[x].row) THEN [@ EXCEPT !.pc = "expired"]
                ELSE IF Addressed(x) THEN [@ EXCEPT !.pc = "valid", !.at = now]
                ELSE NoEx]
    /\ UNCHANGED <<now, codes, access, login, issued, minted>>

ExchangeDropExpired(x) ==
    /\ ex[x].pc = "expired"
    /\ codes' = [codes EXCEPT ![ex[x].code] = Null]
    /\ ex' = [ex EXCEPT ![x] = NoEx]
    /\ UNCHANGED <<now, access, login, issued, minted>>

\* DELETE ... and its row count: only one exchange deletes the row.
Won_IgnoreCount(x) == TRUE
Won(x) == codes[ex[x].code] # Null

ExchangeConsume(x) ==
    /\ ex[x].pc = "valid"
    /\ codes' = [codes EXCEPT ![ex[x].code] = Null]
    /\ ex' = [ex EXCEPT ![x] = IF Won(x) THEN [@ EXCEPT !.pc = "consumed"] ELSE NoEx]
    /\ UNCHANGED <<now, access, login, issued, minted>>

\* getAccessForUser.
AppsOf(u) == {c \in Client : <<u, c>> \in access}

ExchangeClaims(x) ==
    /\ ex[x].pc = "consumed"
    /\ ex' = [ex EXCEPT ![x] = [@ EXCEPT !.pc = "claims", !.apps = AppsOf(ex[x].row.user)]]
    /\ UNCHANGED <<now, codes, access, login, issued, minted>>

\* signAccessToken, and the response.
ExchangeMint(x) ==
    /\ ex[x].pc = "claims"
    /\ minted' = minted \cup
         {[code |-> ex[x].code, user |-> ex[x].row.user, client |-> ex[x].client,
           uri |-> ex[x].uri, apps |-> ex[x].apps, by |-> x, at |-> ex[x].at]}
    /\ ex' = [ex EXCEPT ![x] = NoEx]
    /\ UNCHANGED <<now, codes, access, login, issued>>

\* A statement fails or the server dies: the request ends where it is, and a
\* code it has consumed is lost.
ExchangeFail(x) ==
    /\ ex[x].pc # "idle"
    /\ ex' = [ex EXCEPT ![x] = NoEx]
    /\ UNCHANGED <<now, codes, access, login, issued, minted>>

-----------------------------------------------------------------------------
(* Everybody else. *)

\* runCleanup: DELETE ... WHERE expires_at < NOW() - INTERVAL '1 day'.
Overdue_KeepsAll(r) == FALSE
Overdue(r) == r.expiresAt < now - Keep

PurgeCodes ==
    /\ \E c \in Code : codes[c] # Null /\ Overdue(codes[c])
    /\ codes' = [c \in Code |->
                   IF codes[c] # Null /\ Overdue(codes[c]) THEN Null ELSE codes[c]]
    /\ UNCHANGED <<now, access, login, ex, issued, minted>>

GrantAccess(u, c) ==
    /\ access' = access \cup {<<u, c>>}
    /\ UNCHANGED <<now, codes, login, ex, issued, minted>>

RevokeAccess(u, c) ==
    /\ access' = access \ {<<u, c>>}
    /\ UNCHANGED <<now, codes, login, ex, issued, minted>>

Tick ==
    /\ now < MaxTime
    /\ now' = now + 1
    /\ UNCHANGED <<codes, access, login, ex, issued, minted>>

ExchangeStep(x) ==
    \/ ExchangeLookup(x)
    \/ ExchangeCheck(x)
    \/ ExchangeDropExpired(x)
    \/ ExchangeConsume(x)
    \/ ExchangeClaims(x)
    \/ ExchangeMint(x)

Next ==
    \/ \E l \in Login, u \in User, c \in Client, r \in Uri : LoginAllowed(l, u, c, r)
    \/ \E l \in Login, k \in Code : IssueCode(l, k)
    \/ \E l \in Login : LoginFails(l)
    \/ \E x \in Exchange, k \in Code, c \in Client, r \in Uri : ExchangeBegin(x, k, c, r)
    \/ \E x \in Exchange : ExchangeStep(x)
    \/ \E x \in Exchange : ExchangeFail(x)
    \/ PurgeCodes
    \/ \E u \in User, c \in Client : GrantAccess(u, c) \/ RevokeAccess(u, c)
    \/ Tick

Spec == Init /\ [][Next]_vars

\* The server answers each request it took, and the cleanup job keeps running
\* while time goes on (to the bound).
Fairness ==
    /\ \A x \in Exchange : WF_vars(ExchangeStep(x))
    /\ WF_vars(PurgeCodes)
    /\ WF_vars(Tick)

FairSpec == Spec /\ Fairness

-----------------------------------------------------------------------------
(* Properties. *)

\* However many exchanges present one code at once, at most one of them mints
\* a token (auth-code.service.ts:116-123).
OneTokenPerCode ==
    \A m, n \in minted : m.code = n.code => m = n

\* Only the exchange of the client and redirect URI a code was issued for can
\* use it up before it expires: a wrong client, a wrong URI, a failed request
\* and the cleanup job leave it alone (auth-code.service.ts:95-123).
OnlyItsClientEndsACode ==
    [][\A k \in Code :
         codes[k] # Null /\ codes'[k] = Null /\ ~Lapsed(codes[k]) =>
           \E x \in Exchange :
             /\ ex[x].code = k
             /\ ex[x].client = codes[k].client
             /\ ex[x].uri = codes[k].uri]_vars

\* The table of codes with its DELETE-and-count implements a one-shot token.
Take == INSTANCE OneShot WITH
    Token <- Code, Request <- Exchange,
    offered <- {k \in Code : codes[k] # Null},
    gone <- {k \in issued : codes[k] = Null},
    holding <- [x \in Exchange |->
                  IF ex[x].pc \in {"consumed", "claims"} THEN ex[x].code ELSE Null]

ImplementsOneShot == Take!Spec

\* A code that is gone, without an exchange that still works on it.
Spent(k) ==
    /\ k \in issued /\ codes[k] = Null
    /\ \A x \in Exchange : ex[x].pc \in {"consumed", "claims"} => ex[x].code # k

\* A code that lapsed, or that a failed exchange took with it, mints nothing any
\* more, however often it is presented: the user has to sign in again
\* (auth-code.service.ts:95-123).
LostStaysLost ==
    \A k \in Code :
        [](Spent(k) /\ (\A m \in minted : m.code # k) => [](\A m \in minted : m.code # k))

\* No code outlives the purge delay for ever, whether or not anyone presents it
\* (cleanup.ts:34-39).
CodesGoAway ==
    \A k \in Code : codes[k] # Null /\ codes[k].expiresAt + Keep < MaxTime ~> codes[k] = Null

-----------------------------------------------------------------------------
(* The inductive invariant of the proofs. *)

\* Consumed codes are out of the table, held by one exchange, not yet minted.
ConsumedInv ==
    /\ \A x, y \in Exchange :
         /\ ex[x].pc \in {"consumed", "claims"}
         /\ ex[y].pc \in {"consumed", "claims"}
         /\ ex[x].code = ex[y].code
         => x = y
    /\ \A x \in Exchange : ex[x].pc \in {"consumed", "claims"} =>
         /\ codes[ex[x].code] = Null
         /\ \A m \in minted : m.code # ex[x].code

\* What a running exchange has established: a row it read is still the row, if
\* the row is there, and a check that was passed stays passed.
ExInv ==
    \A x \in Exchange :
        /\ ex[x].pc # "idle" => ex[x].code \in Code /\ ex[x].client \in Client /\ ex[x].uri \in Uri
        /\ ex[x].pc \notin {"idle", "begun"} =>
             /\ ex[x].row \in Row /\ ex[x].code \in issued
             /\ codes[ex[x].code] \in {Null, ex[x].row}
        /\ ex[x].pc = "expired" => Lapsed(ex[x].row)
        /\ ex[x].pc \in {"valid", "consumed", "claims"} => Addressed(x)

\* Stored and minted codes were issued, and a minted code is out of the table.
IssuedInv ==
    /\ \A k \in Code : codes[k] # Null => k \in issued
    /\ \A m \in minted : m.code \in issued /\ codes[m.code] = Null

\* Together the parts are preserved by every step of exchangeCode, and they
\* imply OneTokenPerCode.
IInv == TypeOK /\ ConsumedInv /\ ExInv /\ IssuedInv /\ OneTokenPerCode
=============================================================================
