-------------------------- MODULE BrowserApp_proofs --------------------------
(***************************************************************************)
(* Proofs that BrowserApp keeps its invariant, and of its safety           *)
(* properties, for any number of tabs, requests and users.                 *)
(***************************************************************************)
EXTENDS BrowserApp, FiniteSetTheorems, TLAPS

Calls == Tab \cup Call

(* Names that nobody holds. *)

\* A function has no more values than arguments.
LEMMA ImageIsSmall ==
    ASSUME NEW S, IsFiniteSet(S), NEW X, NEW f \in [S -> X]
    PROVE  LET T == {f[x] : x \in S} IN IsFiniteSet(T) /\ Cardinality(T) <= Cardinality(S)
  <1> DEFINE T == {f[x] : x \in S}
  <1>1. f \in Surjection(S, T)
    BY DEF Surjection
  <1> HIDE DEF T
  <1>2. IsFiniteSet(T) /\ Cardinality(T) <= Cardinality(S)
    BY <1>1, FS_Surjection
  <1>3. QED
    BY <1>2 DEF T

\* The sum of two sizes bounds that of the union.
LEMMA UnionIsSmall ==
    ASSUME NEW S, IsFiniteSet(S), NEW T, IsFiniteSet(T)
    PROVE  IsFiniteSet(S \cup T) /\ Cardinality(S \cup T) <= Cardinality(S) + Cardinality(T)
  <1>1. IsFiniteSet(S \cap T)
    BY FS_Subset
  <1>2. /\ IsFiniteSet(S \cup T)
        /\ Cardinality(S \cup T) = Cardinality(S) + Cardinality(T) - Cardinality(S \cap T)
    BY FS_Union
  <1>3. /\ Cardinality(S) \in Nat /\ Cardinality(T) \in Nat /\ Cardinality(S \cap T) \in Nat
    BY <1>1, FS_CardinalityType
  <1>4. QED
    BY <1>2, <1>3

LEMMA Sizes ==
    /\ IsFiniteSet(Tab) /\ IsFiniteSet(Call) /\ IsFiniteSet(Calls)
    /\ Cardinality(Tab) \in Nat /\ Cardinality(Call) \in Nat
    /\ Cardinality(Calls) <= Cardinality(Tab) + Cardinality(Call)
  <1>1. IsFiniteSet(Tab) /\ IsFiniteSet(Call) /\ IsFiniteSet(Calls)
    BY NamesAssumption, FS_Subset DEF Calls
  <1>2. QED
    BY <1>1, UnionIsSmall, FS_CardinalityType DEF Calls

\* A token for a new session is one that nobody holds.
LEMMA SpareIsFree ==
    ASSUME TypeOK, HeldInv
    PROVE  Spare \in Token /\ Spare \notin Held
  <1> DEFINE h == [c \in Calls |-> IF call[c].with = None THEN call[c].new ELSE call[c].with]
             g == [t \in Tab |-> page[t].new.refresh]
             H == {h[c] : c \in Calls}
             G == {g[t] : t \in Tab}
             J == {jar.refresh}
             S == Held \cap Token
  <1>1. S \subseteq (J \cup G) \cup H
    <2>1. \A c \in Calls : {call[c].with, call[c].new} \subseteq {h[c], None, Keep}
      BY DEF HeldInv, Calls
    <2>2. None \notin Token /\ Keep \notin Token
      BY NamesAssumption
    <2>3. DOMAIN call = Calls
      BY DEF TypeOK, Calls
    <2>4. \A t \in Tab : page[t].new.refresh = g[t]
      OBVIOUS
    <2> HIDE DEF h, g
    <2>5. ASSUME NEW k \in S PROVE k \in (J \cup G) \cup H
      <3>1. k \in Token /\ k # None /\ k # Keep
        BY <2>2
      <3>2. \/ k = jar.refresh \/ \E c \in Calls : k = call[c].with \/ k = call[c].new
            \/ \E t \in Tab : k = page[t].new.refresh
        BY <2>3 DEF Held
      <3>3. QED
        BY <2>1, <2>4, <3>1, <3>2
    <2>6. QED
      BY <2>5
  <1>2. IsFiniteSet(J) /\ Cardinality(J) = 1
    BY FS_Singleton
  <1>3. IsFiniteSet(G) /\ Cardinality(G) <= Cardinality(Tab)
    <2>1. g \in [Tab -> {page[t].new.refresh : t \in Tab}]
      OBVIOUS
    <2> HIDE DEF g
    <2>2. QED
      BY <2>1, Sizes, ImageIsSmall
  <1>4. IsFiniteSet(H) /\ Cardinality(H) <= Cardinality(Calls)
    <2>1. h \in [Calls -> {h[c] : c \in Calls}]
      OBVIOUS
    <2> HIDE DEF h
    <2>2. QED
      BY <2>1, Sizes, ImageIsSmall
  <1> HIDE DEF J, G, H
  <1>5. IsFiniteSet(J \cup G) /\ Cardinality(J \cup G) <= Cardinality(J) + Cardinality(G)
    BY <1>2, <1>3, UnionIsSmall
  <1>6. /\ IsFiniteSet((J \cup G) \cup H)
        /\ Cardinality((J \cup G) \cup H) <= Cardinality(J \cup G) + Cardinality(H)
    BY <1>4, <1>5, UnionIsSmall
  <1>7. IsFiniteSet(S) /\ Cardinality(S) <= Cardinality((J \cup G) \cup H)
    BY <1>1, <1>6, FS_Subset
  <1>8. /\ Cardinality(S) \in Nat /\ Cardinality((J \cup G) \cup H) \in Nat /\ Cardinality(J \cup G) \in Nat
        /\ Cardinality(G) \in Nat /\ Cardinality(H) \in Nat /\ Cardinality(Calls) \in Nat
    BY <1>3, <1>4, <1>5, <1>6, <1>7, Sizes, FS_CardinalityType
  <1>9. Cardinality(S) <= 1 + Cardinality(Call) + 2 * Cardinality(Tab)
    BY <1>2, <1>3, <1>4, <1>5, <1>6, <1>7, <1>8, Sizes
  <1>10. Token \ S # {}
    BY <1>9, NamesAssumption
  <1>11. \E k \in Token : k \notin Held
    BY <1>10
  <1>12. QED
    BY <1>11 DEF Spare

\* A state parameter for a new login is one that no tab has.
LEMMA NonceIsFree ==
    ASSUME TypeOK
    PROVE  LET n == CHOOSE n \in Nonce : n # jar.state /\ \A q \in Tab : n # page[q].nonce
           IN n \in Nonce
  <1> DEFINE g == [t \in Tab |-> page[t].nonce]
             G == {g[t] : t \in Tab}
             J == {jar.state}
             S == (J \cup G) \cap Nonce
  <1>1. IsFiniteSet(J) /\ Cardinality(J) = 1
    BY FS_Singleton
  <1>2. IsFiniteSet(G) /\ Cardinality(G) <= Cardinality(Tab)
    <2>1. g \in [Tab -> {page[t].nonce : t \in Tab}]
      OBVIOUS
    <2> HIDE DEF g
    <2>2. QED
      BY <2>1, Sizes, ImageIsSmall
  <1>3. \A t \in Tab : page[t].nonce \in G
    OBVIOUS
  <1> HIDE DEF G
  <1>4. IsFiniteSet(J \cup G) /\ Cardinality(J \cup G) <= Cardinality(J) + Cardinality(G)
    BY <1>1, <1>2, UnionIsSmall
  <1>5. IsFiniteSet(S) /\ Cardinality(S) <= Cardinality(J \cup G)
    BY <1>4, FS_Subset
  <1>6. /\ Cardinality(S) \in Nat /\ Cardinality(J \cup G) \in Nat /\ Cardinality(G) \in Nat
    BY <1>2, <1>4, <1>5, FS_CardinalityType
  <1>7. Cardinality(S) <= 1 + Cardinality(Tab)
    BY <1>1, <1>2, <1>4, <1>5, <1>6, Sizes
  <1>8. Nonce \ S # {}
    BY <1>7, NamesAssumption
  <1>9. \E n \in Nonce : n # jar.state /\ \A q \in Tab : n # page[q].nonce
    BY <1>3, <1>8
  <1>10. QED
    BY <1>9

-----------------------------------------------------------------------------
(* Records. *)

LEMMA KeepAllIs ==
    KeepAll \in SetCookies /\ KeepAll.refresh = Keep /\ KeepAll.sso = Keep /\ KeepAll.state = Keep
  BY DEF KeepAll, SetCookies

LEMMA BlankIs ==
    /\ Blank \in Page /\ Blank.at = "closed" /\ Blank.next = "closed" /\ Blank.new = KeepAll
    /\ Blank.nonce = None /\ Blank.token = None
    /\ Visit \in Page /\ Visit.at = "request" /\ Visit.next = "closed" /\ Visit.new = KeepAll
    /\ Visit.nonce = None /\ Visit.token = None
  BY KeepAllIs DEF Blank, Visit, Page, Place

LEMMA NoCallIs ==
    /\ NoCall \in Request /\ NoCall.tab = None /\ NoCall.pc = "idle" /\ NoCall.with = None
    /\ NoCall.new = Keep /\ NoCall.bearer = None /\ NoCall.kind = "fetch" /\ ~NoCall.again
  BY DEF NoCall, Request

LEMMA RefreshIs ==
    ASSUME TypeOK, NEW t \in Tab \cup {None}, NEW kind \in {"boot", "fetch"}, NEW again \in BOOLEAN
    PROVE  /\ Refresh(t, kind, again) \in Request /\ Refresh(t, kind, again).with = jar.refresh
           /\ Refresh(t, kind, again).new = Keep /\ Refresh(t, kind, again).bearer = None
  BY DEF Refresh, NoCall, Request, TypeOK, Jar

\* The cookies after a response are cookies.
LEMMA AfterIsJar ==
    ASSUME TypeOK, NEW new \in SetCookies
    PROVE  /\ After(new) \in Jar
           /\ After(new).refresh = IF new.refresh = Keep THEN jar.refresh ELSE new.refresh
           /\ After(new).state = IF new.state = Keep THEN jar.state ELSE new.state
  BY DEF TypeOK, Jar, SetCookies, After

LEMMA AfterRefresh ==
    ASSUME TypeOK, NEW k \in Token \cup {None, Keep}
    PROVE  LET new == [KeepAll EXCEPT !.refresh = k] IN
           /\ After(new) \in Jar /\ After(new).state = jar.state
           /\ After(new).refresh = IF k = Keep THEN jar.refresh ELSE k
  <1> DEFINE new == [KeepAll EXCEPT !.refresh = k]
  <1>1. new \in SetCookies /\ new.refresh = k /\ new.state = Keep
    BY DEF KeepAll, SetCookies
  <1> HIDE DEF new
  <1>2. /\ After(new) \in Jar /\ After(new).state = jar.state
        /\ After(new).refresh = IF k = Keep THEN jar.refresh ELSE k
    BY <1>1, AfterIsJar
  <1>3. QED
    BY <1>2 DEF new

-----------------------------------------------------------------------------
(* What pages and requests hold. *)

\* The refresh tokens and the access tokens that are around.
Keys == {None, Keep} \cup Held
Carried == {None} \cup {page[t].token : t \in Tab} \cup {call[c].bearer : c \in Calls}

PageOk(p, K, C) == p \in Page /\ p.new.refresh \in K \ {None} /\ p.token \in C

CallOk(r, K, C) ==
    r \in Request /\ r.with \in K /\ r.new \in K /\ (r.with = None \/ r.new = Keep) /\ r.bearer \in C

\* After the step all hold refresh tokens of K and access tokens of C.
PagesOk(K, C) == page' \in [Tab -> Page] /\ \A t \in Tab : PageOk(page'[t], K, C)
CallsOk(K, C) == call' \in [Calls -> Request] /\ \A c \in Calls : CallOk(call'[c], K, C)
JarOk(K) == jar' \in Jar /\ jar'.refresh \in K

LEMMA NowOk ==
    ASSUME TypeOK, HeldInv, NEW K, NEW C, Keys \subseteq K, Carried \subseteq C
    PROVE  /\ \A t \in Tab : PageOk(page[t], K, C)
           /\ \A c \in Calls : CallOk(call[c], K, C)
           /\ jar \in Jar /\ jar.refresh \in K /\ {None, Keep} \subseteq K /\ None \in C
           /\ PageOk(Blank, K, C) /\ PageOk(Visit, K, C) /\ CallOk(NoCall, K, C)
           /\ (UNCHANGED page => PagesOk(K, C))
           /\ (UNCHANGED call => CallsOk(K, C))
           /\ (UNCHANGED jar => JarOk(K))
  <1>1. jar \in Jar /\ jar.refresh \in K /\ {None, Keep} \subseteq K /\ None \in C
    BY DEF TypeOK, Keys, Carried, Held
  <1>2. ASSUME NEW t \in Tab PROVE PageOk(page[t], K, C)
    <2>1. page[t] \in Page /\ page[t].new.refresh \in Held /\ page[t].token \in Carried
      BY DEF TypeOK, Held, Carried
    <2>2. QED
      BY <2>1 DEF HeldInv, PageOk, Keys
  <1>3. ASSUME NEW c \in Calls PROVE CallOk(call[c], K, C)
    <2>1. call[c] \in Request /\ call[c].with \in Held /\ call[c].new \in Held /\ call[c].bearer \in Carried
      BY DEF TypeOK, Held, Carried, Calls
    <2>2. call[c].with = None \/ call[c].new = Keep
      BY DEF HeldInv, Calls
    <2>3. QED
      BY <2>1, <2>2 DEF CallOk, Keys
  <1>4. PageOk(Blank, K, C) /\ PageOk(Visit, K, C) /\ CallOk(NoCall, K, C)
    BY <1>1, BlankIs, NoCallIs, KeepAllIs, NamesAssumption DEF PageOk, CallOk
  <1>5. QED
    BY <1>1, <1>2, <1>3, <1>4 DEF PagesOk, CallsOk, JarOk, TypeOK, Calls

\* One page changes.
LEMMA PageSet ==
    ASSUME TypeOK, HeldInv, NEW K, NEW C, Keys \subseteq K, Carried \subseteq C,
           NEW t \in Tab \cup {None}, NEW p, PageOk(p, K, C), page' = [page EXCEPT ![t] = p]
    PROVE  PagesOk(K, C) /\ \A q \in Tab \ {t} : page'[q] = page[q]
  <1>1. page \in [Tab -> Page] /\ p \in Page
    BY DEF TypeOK, PageOk
  <1>2. /\ page' \in [Tab -> Page] /\ \A q \in Tab : page'[q] = IF q = t THEN p ELSE page[q]
    BY <1>1
  <1>3. \A q \in Tab : PageOk(page[q], K, C)
    BY NowOk
  <1>4. \A q \in Tab : PageOk(page'[q], K, C)
    BY <1>2, <1>3
  <1>5. QED
    BY <1>2, <1>4 DEF PagesOk

\* One request changes.
LEMMA CallSet ==
    ASSUME TypeOK, HeldInv, NEW K, NEW C, Keys \subseteq K, Carried \subseteq C,
           NEW c \in Calls, NEW r, CallOk(r, K, C), call' = [call EXCEPT ![c] = r]
    PROVE  CallsOk(K, C)
  BY NowOk DEF TypeOK, CallsOk, CallOk, Calls

\* The page of a request goes.
LEMMA OrphanedIs ==
    ASSUME TypeOK, HeldInv, NEW K, NEW C, Keys \subseteq K, Carried \subseteq C, NEW t
    PROVE  /\ call' = Orphaned(t) => CallsOk(K, C)
           /\ \A c \in Calls : call' = [Orphaned(t) EXCEPT ![c] = NoCall] => CallsOk(K, C)
  <1> DEFINE o == Orphaned(t)
  <1>1. DOMAIN call = Calls
    BY DEF TypeOK, Calls
  <1>2. ASSUME NEW c \in Calls PROVE CallOk(o[c], K, C)
    <2> DEFINE r == [call[c] EXCEPT !.tab = None]
    <2>1. CallOk(call[c], K, C) /\ CallOk(NoCall, K, C)
      BY NowOk
    <2>2. /\ r \in Request /\ r.with = call[c].with /\ r.new = call[c].new /\ r.bearer = call[c].bearer
      BY <2>1 DEF CallOk, Request
    <2>3. CallOk(r, K, C)
      BY <2>1, <2>2 DEF CallOk
    <2>4. o[c] \in {call[c], r, NoCall}
      BY <1>1 DEF Orphaned
    <2>5. QED
      BY <2>1, <2>3, <2>4
  <1>3. o = [c \in Calls |-> o[c]]
    BY <1>1 DEF Orphaned
  <1> HIDE DEF o
  <1>4. CallOk(NoCall, K, C)
    BY NowOk
  <1>5. call' = o => CallsOk(K, C)
    BY <1>2, <1>3 DEF CallsOk, CallOk
  <1>6. ASSUME NEW c \in Calls, call' = [o EXCEPT ![c] = NoCall]
        PROVE  CallsOk(K, C)
    BY <1>2, <1>3, <1>4, <1>6 DEF CallsOk, CallOk
  <1>7. QED
    BY <1>5, <1>6 DEF o

\* What a page in a login becomes.
LEMMA PageMoves ==
    ASSUME TypeOK, HeldInv, NEW K, NEW C, Keys \subseteq K, Carried \subseteq C, NEW t \in Tab
    PROVE  /\ \A a \in Place : PageOk([page[t] EXCEPT !.at = a], K, C)
           /\ \A a \in Place : PageOk([page[t] EXCEPT !.at = a, !.next = "closed", !.new = KeepAll], K, C)
           /\ \A a \in (Access \cup {None}) \cap C : PageOk([page[t] EXCEPT !.token = a], K, C)
           /\ \A a \in Place : PageOk([Blank EXCEPT !.at = a], K, C)
  <1>1. PageOk(page[t], K, C) /\ PageOk(Blank, K, C) /\ Keep \in K /\ None # Keep
    BY NowOk, NamesAssumption
  <1>2. ASSUME NEW a \in Place PROVE PageOk([page[t] EXCEPT !.at = a], K, C)
    BY <1>1 DEF PageOk, Page
  <1>3. ASSUME NEW a \in Place
        PROVE PageOk([page[t] EXCEPT !.at = a, !.next = "closed", !.new = KeepAll], K, C)
    <2> DEFINE g == [page[t] EXCEPT !.at = a, !.next = "closed", !.new = KeepAll]
    <2>1. g \in Page /\ g.new = KeepAll /\ g.token = page[t].token
      BY <1>1, KeepAllIs DEF PageOk, Page, Place
    <2> HIDE DEF g
    <2>2. PageOk(g, K, C)
      BY <1>1, <2>1, KeepAllIs DEF PageOk
    <2>3. QED
      BY <2>2 DEF g
  <1>4. ASSUME NEW a \in (Access \cup {None}) \cap C PROVE PageOk([page[t] EXCEPT !.token = a], K, C)
    BY <1>1 DEF PageOk, Page
  <1>5. ASSUME NEW a \in Place PROVE PageOk([Blank EXCEPT !.at = a], K, C)
    BY <1>1 DEF PageOk, Page
  <1>6. QED
    BY <1>2, <1>3, <1>4, <1>5

\* The redirects of a login.
LEMMA RedirectIs ==
    ASSUME TypeOK, HeldInv, NEW K, NEW C, Keys \subseteq K, Carried \subseteq C, NEW n \in Nonce
    PROVE  LET g == [Blank EXCEPT !.at = "wait", !.next = "authorize", !.nonce = n, !.new.state = n] IN
           /\ PageOk(g, K, C) /\ g.at = "wait" /\ g.next = "authorize" /\ g.nonce = n /\ g.new.state = n
  <1> DEFINE k == [KeepAll EXCEPT !.state = n]
             g == [Blank EXCEPT !.at = "wait", !.next = "authorize", !.nonce = n, !.new.state = n]
  <1>1. k \in SetCookies /\ k.refresh = Keep /\ k.state = n
    BY DEF KeepAll, SetCookies
  <1>2. g = [Blank EXCEPT !.at = "wait", !.next = "authorize", !.nonce = n, !.new = k]
    BY DEF Blank
  <1> HIDE DEF k
  <1>3. /\ g \in Page /\ g.at = "wait" /\ g.next = "authorize" /\ g.nonce = n /\ g.new = k /\ g.token = None
    BY <1>1, <1>2, BlankIs DEF Page, Place
  <1> HIDE DEF g
  <1>4. PageOk(g, K, C)
    BY <1>1, <1>3, NowOk, NamesAssumption DEF PageOk
  <1>5. QED
    BY <1>1, <1>3, <1>4 DEF g

LEMMA SignInIs ==
    ASSUME TypeOK, HeldInv, NEW K, NEW C, Keys \cup {Spare} \subseteq K, Carried \subseteq C,
           NEW t \in Tab, NEW sso \in User \cup {Keep}, SignIn(t, sso)
    PROVE  /\ PagesOk(K, C) /\ \A q \in Tab \ {t} : page'[q] = page[q]
           /\ page'[t].at = "wait" /\ page'[t].next = "callback"
           /\ page'[t].nonce = page[t].nonce /\ page'[t].new.state = Keep
  <1> DEFINE k == [KeepAll EXCEPT !.refresh = Spare, !.sso = sso]
             g == [page[t] EXCEPT !.at = "wait", !.next = "callback", !.new = k]
  <1>1. Spare \in Token /\ Spare # None
    BY SpareIsFree, NamesAssumption
  <1>2. k \in SetCookies /\ k.refresh = Spare /\ k.state = Keep
    BY <1>1 DEF KeepAll, SetCookies
  <1> HIDE DEF k
  <1>3. page[t] \in Page /\ page[t].token \in C
    BY NowOk DEF PageOk
  <1>4. /\ g \in Page /\ g.at = "wait" /\ g.next = "callback" /\ g.nonce = page[t].nonce /\ g.new = k
        /\ g.token = page[t].token
    BY <1>2, <1>3 DEF Page, Place
  <1>5. page' = [page EXCEPT ![t] = g]
    BY DEF SignIn, TypeOK, k
  <1> HIDE DEF g
  <1>6. PageOk(g, K, C)
    BY <1>1, <1>2, <1>3, <1>4 DEF PageOk
  <1>7. PagesOk(K, C) /\ (\A q \in Tab \ {t} : page'[q] = page[q]) /\ page'[t] = g
    BY <1>5, <1>6, PageSet DEF TypeOK
  <1>8. QED
    BY <1>2, <1>4, <1>7

LEMMA AnswerIs ==
    ASSUME TypeOK, HeldInv, NEW K, NEW C, Keys \subseteq K, Carried \subseteq C,
           NEW t \in Tab, NEW place \in {"request", "error"}, NEW s \in {None, Keep}, Answer(t, place, s)
    PROVE  /\ PagesOk(K, C) /\ \A q \in Tab \ {t} : page'[q] = page[q]
           /\ page'[t].at = "wait" /\ page'[t].next = place
           /\ page'[t].nonce = None /\ page'[t].new.state = s
  <1> DEFINE k == [KeepAll EXCEPT !.state = s]
             g == [Blank EXCEPT !.at = "wait", !.next = place, !.new.state = s]
  <1>1. k \in SetCookies /\ k.refresh = Keep /\ k.state = s
    BY DEF KeepAll, SetCookies
  <1>2. g = [Blank EXCEPT !.at = "wait", !.next = place, !.new = k]
    BY DEF Blank
  <1> HIDE DEF k
  <1>3. /\ g \in Page /\ g.at = "wait" /\ g.next = place /\ g.nonce = None /\ g.new = k /\ g.token = None
    BY <1>1, <1>2, BlankIs DEF Page, Place
  <1>4. page' = [page EXCEPT ![t] = g]
    BY DEF Answer
  <1> HIDE DEF g
  <1>5. PageOk(g, K, C)
    BY <1>1, <1>3, NowOk, NamesAssumption DEF PageOk
  <1>6. PagesOk(K, C) /\ (\A q \in Tab \ {t} : page'[q] = page[q]) /\ page'[t] = g
    BY <1>4, <1>5, PageSet DEF TypeOK
  <1>7. QED
    BY <1>1, <1>3, <1>6

-----------------------------------------------------------------------------
(* What a step keeps. *)

\* After a step that leaves rows s, the tokens that are held have their rows.
LEMMA RowsKept ==
    ASSUME NEW s \in [Token -> Row \cup {None}], NEW K, NEW C, Note(s),
           \A k \in Token \cap K : s[k] # None, PagesOk(K, C), CallsOk(K, C), JarOk(K)
    PROVE  store' \in [Token -> Row \cup {None}] /\ HeldInv'
  <1>1. Held' \subseteq K
    BY DEF Held, PagesOk, PageOk, CallsOk, CallOk, JarOk, Calls
  <1> DEFINE held == Held'
  <1>2. store' = [k \in Token |-> IF k \in held THEN s[k] ELSE None]
    BY DEF Note
  <1>3. held \subseteq K
    BY <1>1
  <1>4. store' \in [Token -> Row \cup {None}] /\ \A k \in Token : k \in held => store'[k] # None
    <2> HIDE DEF held
    <2>1. QED
      BY <1>2, <1>3
  <1>5. \A c \in Tab \cup Call : (call[c].with = None \/ call[c].new = Keep)'
    BY DEF CallsOk, CallOk, Calls
  <1>6. \A t \in Tab : (page[t].new.refresh # None)'
    BY DEF PagesOk, PageOk
  <1>7. QED
    BY <1>4, <1>5, <1>6 DEF HeldInv

\* Access tokens of C are earned after the step.
LEMMA EarnedKept ==
    ASSUME NEW K, NEW C, PagesOk(K, C), CallsOk(K, C), \A a \in C : Earned(a)'
    PROVE  EarnedInv'
  <1>1. ASSUME NEW t \in Tab PROVE Earned(page[t].token)'
    <2>1. page'[t].token \in C
      BY DEF PagesOk, PageOk
    <2>2. QED
      BY <2>1 DEF Earned
  <1>2. ASSUME NEW c \in Tab \cup Call PROVE Earned(call[c].bearer)'
    <2>1. call'[c].bearer \in C
      BY DEF CallsOk, CallOk, Calls
    <2>2. QED
      BY <2>1 DEF Earned
  <1>3. QED
    BY <1>1, <1>2 DEF EarnedInv

LEMMA SameEarned ==
    ASSUME TypeOK, EarnedInv, UNCHANGED <<now, access, lost>>, NEW a \in Carried
    PROVE  Earned(a)'
  <1>1. Earned(a)
    BY MarksAssumption DEF Carried, EarnedInv, Earned, Calls
  <1>2. QED
    BY <1>1 DEF Earned

\* Without rivals one tab at most is in a login flow.
LEMMA OneFlow ==
    ASSUME NEW s, Note(s), ~rivals', NEW p \in Tab, NEW q \in Tab, InFlow(p)', InFlow(q)'
    PROVE  p = q
  <1> DEFINE F == {t \in Tab : InFlow(t)'}
  <1>1. ~(Cardinality(F) > 1)
    BY DEF Note
  <1>2. IsFiniteSet(F) /\ p \in F /\ q \in F
    BY Sizes, FS_Subset
  <1> HIDE DEF F
  <1>3. SUFFICES ASSUME p # q PROVE FALSE
    OBVIOUS
  <1>4. /\ IsFiniteSet({p}) /\ Cardinality({p}) = 1
        /\ IsFiniteSet({p} \cup {q}) /\ Cardinality({p} \cup {q}) = 2
    <2>1. IsFiniteSet({p}) /\ Cardinality({p}) = 1
      BY FS_Singleton
    <2>2. QED
      BY <1>3, <2>1, FS_AddElement
  <1>5. {p} \cup {q} \subseteq F
    BY <1>2
  <1>6. 2 <= Cardinality(F) /\ Cardinality(F) \in Nat
    BY <1>2, <1>4, <1>5, FS_Subset, FS_CardinalityType
  <1>7. QED
    BY <1>1, <1>6

\* The parts of the invariant after a step.
LEMMA StepOk ==
    ASSUME Base, NEW s \in [Token -> Row \cup {None}], NEW K, NEW C, Note(s),
           \A k \in Token \cap K : s[k] # None, PagesOk(K, C), CallsOk(K, C), JarOk(K),
           now' \in 0..MaxTime, events' \in 0..MaxEvents, access' \in [User -> BOOLEAN],
           lost' \in [User -> (0..MaxTime) \cup {None}], who' \in User \cup {None}, smooth' \in BOOLEAN,
           \A a \in C : Earned(a)', ~rivals => \A t \in Tab : FlowOk(t)'
    PROVE  Base'
  <1>1. store' \in [Token -> Row \cup {None}] /\ HeldInv'
    BY RowsKept
  <1>2. EarnedInv'
    BY EarnedKept
  <1>3. raced' \in BOOLEAN /\ rivals' \in BOOLEAN /\ (rivals => rivals')
    <2>1. raced \in BOOLEAN /\ rivals \in BOOLEAN
      BY DEF Base, TypeOK
    <2>2. (raced' \in BOOLEAN) /\ (rivals' = TRUE \/ rivals' = FALSE) /\ (rivals => rivals')
      BY <2>1, Zenon DEF Note, Clash
    <2>3. QED
      BY <2>2
  <1>4. TypeOK'
    BY <1>1, <1>3 DEF TypeOK, PagesOk, CallsOk, JarOk, Calls
  <1>5. FlowInv'
    <2>1. ASSUME ~rivals', NEW p \in Tab, NEW q \in Tab, InFlow(p)', InFlow(q)' PROVE p = q
      BY <2>1, OneFlow
    <2>2. ASSUME ~rivals', NEW t \in Tab PROVE FlowOk(t)'
      BY <1>3, <2>2
    <2>3. QED
      BY <2>1, <2>2 DEF FlowInv
  <1>6. QED
    BY <1>1, <1>2, <1>4, <1>5 DEF Base

\* A page that is in no login.
Away(t) == page[t].at \notin {"authorize", "form", "callback", "wait"}

LEMMA AwayIsOk ==
    ASSUME NEW t \in Tab, Away(t)'
    PROVE  FlowOk(t)'
  BY DEF Away, FlowOk, PastRedirect

\* Only the page of t changes.
LEMMA OneMoves ==
    ASSUME Base, jar'.state = jar.state, NEW t,
           \A q \in Tab \ {t} : page'[q] = page[q], ~rivals /\ t \in Tab => FlowOk(t)'
    PROVE  ~rivals => \A q \in Tab : FlowOk(q)'
  <1>1. ASSUME ~rivals, NEW q \in Tab PROVE FlowOk(q)'
    <2>1. CASE q = t
      BY <1>1, <2>1
    <2>2. CASE q # t
      <3>1. FlowOk(q) /\ page'[q] = page[q]
        BY <1>1, <2>2 DEF Base, FlowInv
      <3>2. QED
        BY <3>1 DEF FlowOk, PastRedirect
    <2>3. QED
      BY <2>1, <2>2
  <1>2. QED
    BY <1>1

\* A token for u is minted in the rows s.
LEMMA InsertIs ==
    ASSUME TypeOK, HeldInv, NEW s \in [Token -> Row \cup {None}], NEW u \in User,
           \A k \in Token : s[k] = None => store[k] = None
    PROVE  LET r == [s EXCEPT ![Spare] = FreshRow(u)] IN
           /\ r \in [Token -> Row \cup {None}]
           /\ \A k \in Token \cap (Keys \cup {Spare}) : r[k] # None
  <1> DEFINE r == [s EXCEPT ![Spare] = FreshRow(u)]
  <1>1. Spare \in Token
    BY SpareIsFree
  <1>2. FreshRow(u) \in Row /\ FreshRow(u) # None
    <2>1. FreshRow(u) \in Row
      BY DEF FreshRow, Row
    <2>2. QED
      BY <2>1, MarksAssumption
  <1>3. \A k \in Token \cap Keys : s[k] # None
    BY NamesAssumption DEF HeldInv, Keys
  <1>4. r \in [Token -> Row \cup {None}] /\ \A k \in Token : r[k] = IF k = Spare THEN FreshRow(u) ELSE s[k]
    BY <1>1, <1>2
  <1>5. QED
    BY <1>2, <1>3, <1>4

LEMMA StoreIs ==
    ASSUME TypeOK, HeldInv
    PROVE  /\ store \in [Token -> Row \cup {None}]
           /\ \A k \in Token \cap Keys : store[k] # None
           /\ \A K : /\ Ended(K) \in [Token -> Row \cup {None}]
                     /\ \A k \in Token \cap Keys : Ended(K)[k] # None
  <1>1. store \in [Token -> Row \cup {None}] /\ \A k \in Token \cap Keys : store[k] # None
    BY NamesAssumption DEF TypeOK, HeldInv, Keys
  <1>2. ASSUME NEW K PROVE /\ Ended(K) \in [Token -> Row \cup {None}]
                           /\ \A k \in Token \cap Keys : Ended(K)[k] # None
    <2> DEFINE r(k) == [store[k] EXCEPT !.usedAt = None, !.ended = TRUE]
    <2>1. ASSUME NEW k \in Token, store[k] # None PROVE r(k) \in Row
      BY <1>1, <2>1 DEF Row
    <2>2. Ended(K) = [k \in Token |-> IF k \in K /\ store[k] # None THEN r(k) ELSE store[k]]
      BY DEF Ended
    <2> HIDE DEF r
    <2>3. QED
      BY <1>1, <2>1, <2>2, MarksAssumption
  <1>3. QED
    BY <1>1, <1>2

LEMMA EventIs ==
    ASSUME TypeOK, Event \/ UNCHANGED events
    PROVE  events' \in 0..MaxEvents
  BY TimesAssumption DEF TypeOK, Event

\* A step that mints no token.
LEMMA PlainStep ==
    ASSUME Base, NEW s \in [Token -> Row \cup {None}], \A k \in Token \cap Keys : s[k] # None, Note(s),
           UNCHANGED <<now, grants>>, Event \/ UNCHANGED events, who' \in User \cup {None},
           smooth' \in BOOLEAN, PagesOk(Keys, Carried), CallsOk(Keys, Carried), JarOk(Keys),
           ~rivals => \A t \in Tab : FlowOk(t)'
    PROVE  Base'
  <1>1. TypeOK /\ HeldInv /\ EarnedInv
    BY DEF Base
  <1>2. UNCHANGED <<now, access, lost>>
    BY DEF grants
  <1>3. \A a \in Carried : Earned(a)'
    BY <1>1, <1>2, SameEarned
  <1>4. /\ now' \in 0..MaxTime /\ access' \in [User -> BOOLEAN]
        /\ lost' \in [User -> (0..MaxTime) \cup {None}]
    BY <1>1, <1>2 DEF TypeOK
  <1>5. events' \in 0..MaxEvents
    BY <1>1, EventIs
  <1>6. QED
    BY <1>3, <1>4, <1>5, StepOk

\* A step of the page of t alone, or of its requests too.
LEMMA PageStep ==
    ASSUME Base, Note(store), UNCHANGED <<now, jar, grants, who>>, Event \/ UNCHANGED events,
           smooth' \in BOOLEAN, PagesOk(Keys, Carried), CallsOk(Keys, Carried), NEW t,
           \A q \in Tab \ {t} : page'[q] = page[q], ~rivals /\ t \in Tab => FlowOk(t)'
    PROVE  Base'
  <1>1. TypeOK /\ HeldInv
    BY DEF Base
  <1>2. store \in [Token -> Row \cup {None}] /\ \A k \in Token \cap Keys : store[k] # None
    BY <1>1, StoreIs
  <1>3. JarOk(Keys) /\ who' \in User \cup {None} /\ jar'.state = jar.state
    <2>1. UNCHANGED jar /\ Keys \subseteq Keys /\ Carried \subseteq Carried
      OBVIOUS
    <2>2. JarOk(Keys)
      BY <1>1, <2>1, NowOk
    <2>3. QED
      BY <1>1, <2>2 DEF TypeOK
  <1>4. ~rivals => \A q \in Tab : FlowOk(q)'
    BY <1>3, OneMoves
  <1>5. UNCHANGED <<now, grants>>
    OBVIOUS
  <1>6. QED
    BY <1>2, <1>3, <1>4, <1>5, PlainStep

\* A step of a request, which leaves rows s.
LEMMA CallStepOk ==
    ASSUME Base, NEW s \in [Token -> Row \cup {None}], \A k \in Token \cap Keys : s[k] # None, Note(s),
           UNCHANGED <<now, jar, page, grants, who>>, Event \/ UNCHANGED events,
           smooth' \in BOOLEAN, CallsOk(Keys, Carried)
    PROVE  Base'
  <1>1. TypeOK /\ HeldInv
    BY DEF Base
  <1>2. PagesOk(Keys, Carried) /\ JarOk(Keys)
    <2>1. UNCHANGED page /\ UNCHANGED jar /\ Keys \subseteq Keys /\ Carried \subseteq Carried
      OBVIOUS
    <2>2. QED
      BY <1>1, <2>1, NowOk
  <1>3. who' \in User \cup {None} /\ jar'.state = jar.state
    BY <1>1 DEF TypeOK
  <1>4. None \notin Tab /\ \A q \in Tab \ {None} : page'[q] = page[q]
    BY NamesAssumption
  <1>5. ~rivals => \A q \in Tab : FlowOk(q)'
    BY <1>3, <1>4, OneMoves
  <1>6. UNCHANGED <<now, grants>>
    OBVIOUS
  <1>7. QED
    BY <1>2, <1>3, <1>5, <1>6, PlainStep

-----------------------------------------------------------------------------
(* Navigations. *)

\* smooth is a Boolean in the steps that look at what is under way.
LEMMA SmoothIs ==
    ASSUME TypeOK
    PROVE  /\ UNCHANGED smooth => smooth' \in BOOLEAN
           /\ \A t : smooth' = (smooth /\ \A c \in Refreshing : call[c].tab # t) => smooth' \in BOOLEAN
           /\ smooth' = (smooth /\ \A c \in DOMAIN call : call[c].pc \notin {"refresh", "refreshed"}) =>
                 smooth' \in BOOLEAN
  <1>1. smooth \in BOOLEAN
    BY DEF TypeOK
  <1>2. QED
    BY <1>1

LEMMA OpenStep ==
    ASSUME Base, NEW t \in Tab, Open(t)
    PROVE  Base'
  <1>1. TypeOK /\ HeldInv /\ Keys \subseteq Keys /\ Carried \subseteq Carried
    BY DEF Base
  <1>2. page' = [page EXCEPT ![t] = Visit] /\ call' = Orphaned(t)
    BY DEF Open
  <1>3. PagesOk(Keys, Carried) /\ \A q \in Tab \ {t} : page'[q] = page[q]
    <2>1. PageOk(Visit, Keys, Carried)
      BY <1>1, NowOk
    <2>2. QED
      BY <1>1, <1>2, <2>1, PageSet
  <1>4. CallsOk(Keys, Carried)
    BY <1>1, <1>2, OrphanedIs
  <1>5. FlowOk(t)'
    <2>1. page'[t] = Visit
      BY <1>1, <1>2 DEF TypeOK
    <2>2. Away(t)'
      BY <2>1, BlankIs DEF Away
    <2>3. QED
      BY <2>2, AwayIsOk
  <1>6. smooth' \in BOOLEAN /\ Event /\ Note(store) /\ UNCHANGED <<now, jar, grants, who>>
    BY <1>1, SmoothIs DEF Open
  <1>7. QED
    BY <1>3, <1>4, <1>5, <1>6, PageStep

\* A step that only tab t's page takes.
LEMMA TabAlone ==
    ASSUME Base, Note(store), UNCHANGED <<now, jar, call, grants, who, smooth>>, Event \/ UNCHANGED events,
           NEW t \in Tab, PagesOk(Keys, Carried), \A q \in Tab \ {t} : page'[q] = page[q],
           ~rivals => FlowOk(t)'
    PROVE  Base'
  <1>1. TypeOK /\ HeldInv /\ Keys \subseteq Keys /\ Carried \subseteq Carried
    BY DEF Base
  <1>2. CallsOk(Keys, Carried)
    BY <1>1, NowOk
  <1>3. smooth' \in BOOLEAN
    BY <1>1, SmoothIs
  <1>4. QED
    BY <1>2, <1>3, PageStep

LEMMA GetPageStep ==
    ASSUME Base, NEW t \in Tab, GetPage(t)
    PROVE  Base'
  <1>1. TypeOK /\ HeldInv /\ Keys \subseteq Keys /\ Carried \subseteq Carried
    BY DEF Base
  <1>2. Note(store) /\ UNCHANGED <<now, jar, call, grants, who, smooth>> /\ UNCHANGED events
    BY DEF GetPage
  <1>3. CASE page' = [page EXCEPT ![t].at = "load"]
    <2> DEFINE g == [page[t] EXCEPT !.at = "load"]
    <2>1. page' = [page EXCEPT ![t] = g] /\ g.at = "load"
      BY <1>1, <1>3 DEF TypeOK, Page
    <2>2. PageOk(g, Keys, Carried)
      BY <1>1, PageMoves DEF Place
    <2> HIDE DEF g
    <2>3. PagesOk(Keys, Carried) /\ \A q \in Tab \ {t} : page'[q] = page[q]
      BY <1>1, <2>1, <2>2, PageSet
    <2>4. Away(t)'
      BY <1>1, <2>1 DEF Away, TypeOK
    <2>5. QED
      BY <1>2, <2>3, <2>4, AwayIsOk, TabAlone
  <1>4. CASE \E n \in Nonce :
                page' = [page EXCEPT ![t] = [Blank EXCEPT !.at = "wait", !.next = "authorize",
                                                  !.nonce = n, !.new.state = n]]
    <2>1. PICK n \in Nonce :
                page' = [page EXCEPT ![t] = [Blank EXCEPT !.at = "wait", !.next = "authorize",
                                                  !.nonce = n, !.new.state = n]]
      BY <1>4
    <2> DEFINE g == [Blank EXCEPT !.at = "wait", !.next = "authorize", !.nonce = n, !.new.state = n]
    <2>2. /\ PageOk(g, Keys, Carried) /\ g.at = "wait" /\ g.next = "authorize" /\ g.nonce = n
          /\ g.new.state = n
      BY <1>1, RedirectIs
    <2>3. page' = [page EXCEPT ![t] = g]
      BY <2>1
    <2> HIDE DEF g
    <2>4. PagesOk(Keys, Carried) /\ \A q \in Tab \ {t} : page'[q] = page[q]
      BY <1>1, <2>2, <2>3, PageSet
    <2>5. page'[t] = g /\ n # None
      BY <1>1, <2>3, NamesAssumption DEF TypeOK
    <2>6. FlowOk(t)'
      BY <2>2, <2>5 DEF FlowOk, PastRedirect
    <2>7. QED
      BY <1>2, <2>4, <2>6, TabAlone
  <1>5. QED
    <2>1. (CHOOSE n \in Nonce : n # jar.state /\ \A q \in Tab : n # page[q].nonce) \in Nonce
      BY <1>1, NonceIsFree
    <2>2. QED
      BY <1>3, <1>4, <2>1 DEF GetPage

LEMMA AuthorizeByFormStep ==
    ASSUME Base, NEW t \in Tab, AuthorizeByForm(t)
    PROVE  Base'
  <1>1. TypeOK /\ HeldInv /\ Keys \subseteq Keys /\ Carried \subseteq Carried
    BY DEF Base
  <1>2. Note(store) /\ UNCHANGED <<now, jar, call, grants, who, smooth>> /\ UNCHANGED events
    BY DEF AuthorizeByForm
  <1> DEFINE g == [page[t] EXCEPT !.at = "form"]
  <1>3. page' = [page EXCEPT ![t] = g]
    BY <1>1 DEF AuthorizeByForm, TypeOK
  <1>4. g.at = "form" /\ g.nonce = page[t].nonce /\ g.new = page[t].new
    BY <1>1 DEF TypeOK, Page
  <1>5. PageOk(g, Keys, Carried)
    BY <1>1, PageMoves DEF Place
  <1> HIDE DEF g
  <1>6. PagesOk(Keys, Carried) /\ \A q \in Tab \ {t} : page'[q] = page[q]
    BY <1>1, <1>3, <1>5, PageSet
  <1>7. page'[t] = g
    BY <1>1, <1>3 DEF TypeOK
  <1>8. ~rivals => FlowOk(t)'
    <2>1. ~rivals => FlowOk(t)
      BY DEF Base, FlowInv
    <2>2. QED
      BY <1>2, <1>4, <1>7, <2>1 DEF FlowOk, PastRedirect, AuthorizeByForm
  <1>9. QED
    BY <1>2, <1>6, <1>8, TabAlone

LEMMA CallbackStep ==
    ASSUME Base, NEW t \in Tab, CallbackRefused(t) \/ CallbackAccepted(t) \/ CallbackFailed(t)
    PROVE  Base'
  <1>1. TypeOK /\ HeldInv /\ Keys \subseteq Keys /\ Carried \subseteq Carried
    BY DEF Base
  <1>2. Note(store) /\ UNCHANGED <<now, jar, call, grants, who, smooth>> /\ (Event \/ UNCHANGED events)
    BY DEF CallbackRefused, CallbackAccepted, CallbackFailed
  <1>3. PICK place \in {"request", "error"}, s \in {None, Keep} : Answer(t, place, s)
    BY DEF CallbackRefused, CallbackAccepted, CallbackFailed
  <1>4. /\ PagesOk(Keys, Carried) /\ \A q \in Tab \ {t} : page'[q] = page[q]
        /\ page'[t].at = "wait" /\ page'[t].next \in {"request", "error"}
    BY <1>1, <1>3, AnswerIs
  <1>5. FlowOk(t)'
    BY <1>4 DEF FlowOk, PastRedirect
  <1>6. QED
    BY <1>2, <1>4, <1>5, TabAlone

LEMMA ArriveStep ==
    ASSUME Base, NEW t \in Tab, Arrive(t)
    PROVE  Base'
  <1>1. TypeOK /\ HeldInv /\ Keys \subseteq Keys /\ Carried \subseteq Carried
    BY DEF Base
  <1>2. /\ Note(store) /\ UNCHANGED <<now, call, grants, events, smooth>> /\ page[t].at = "wait"
        /\ jar' = After(page[t].new)
        /\ who' = IF page[t].new.refresh = Keep THEN who ELSE store[page[t].new.refresh].user
    BY DEF Arrive
  <1> DEFINE g == [page[t] EXCEPT !.at = page[t].next, !.next = "closed", !.new = KeepAll]
  <1>3. page[t] \in Page /\ page[t].next \in Place /\ page[t].new \in SetCookies
    BY <1>1 DEF TypeOK, Page
  <1>4. page' = [page EXCEPT ![t] = g]
    BY <1>1 DEF Arrive, TypeOK
  <1>5. /\ g.at = page[t].next /\ g.next = "closed" /\ g.nonce = page[t].nonce /\ g.new = KeepAll
    BY <1>3 DEF Page
  <1>6. PageOk(g, Keys, Carried)
    BY <1>1, <1>3, PageMoves
  <1> HIDE DEF g
  <1>7. PagesOk(Keys, Carried) /\ \A q \in Tab \ {t} : page'[q] = page[q]
    BY <1>1, <1>4, <1>6, PageSet
  <1>8. page'[t] = g
    BY <1>1, <1>4 DEF TypeOK
  <1>9. JarOk(Keys) /\ jar'.state = IF page[t].new.state = Keep THEN jar.state ELSE page[t].new.state
    <2>1. PageOk(page[t], Keys, Carried) /\ jar.refresh \in Keys
      BY <1>1, NowOk
    <2>2. QED
      BY <1>1, <1>2, <1>3, <2>1, AfterIsJar DEF JarOk, PageOk
  <1>10. who' \in User \cup {None}
    <2>1. CASE page[t].new.refresh = Keep
      BY <1>1, <1>2, <2>1 DEF TypeOK
    <2>2. CASE page[t].new.refresh # Keep
      <3> DEFINE k == page[t].new.refresh
      <3>1. k \in Token
        BY <1>1, <1>3, <2>2 DEF SetCookies, HeldInv
      <3>2. store[k] \in Row
        BY <1>1, <3>1 DEF TypeOK, HeldInv, Held
      <3>3. QED
        BY <1>2, <2>2, <3>2 DEF Row
    <2>3. QED
      BY <2>1, <2>2
  <1>11. ~rivals => \A q \in Tab : FlowOk(q)'
    <2> SUFFICES ASSUME ~rivals, NEW q \in Tab PROVE FlowOk(q)'
      OBVIOUS
    <2>1. /\ \A p, r \in Tab : InFlow(p) /\ InFlow(r) => p = r
          /\ FlowOk(t) /\ FlowOk(q)
      BY DEF Base, FlowInv
    <2>2. CASE q = t
      <3>1. page[t].next = "authorize" \/ page[t].next = "callback" \/ page[t].next \notin {"authorize", "form", "callback"}
        BY <1>2, <2>1 DEF FlowOk
      <3>2. CASE page[t].next = "authorize"
        <4>1. page[t].nonce # None /\ page[t].new.state = page[t].nonce
          BY <1>2, <2>1, <3>2 DEF FlowOk
        <4>2. page[t].nonce # Keep
          BY <1>3, <4>1, NamesAssumption DEF Page
        <4>3. QED
          BY <1>5, <1>8, <1>9, <2>2, <3>2, <4>1, <4>2, KeepAllIs DEF FlowOk, PastRedirect
      <3>3. CASE page[t].next = "callback"
        <4>1. page[t].nonce # None /\ jar.state = page[t].nonce /\ page[t].new.state = Keep
          BY <1>2, <2>1, <3>3 DEF FlowOk, PastRedirect
        <4>2. QED
          BY <1>5, <1>8, <1>9, <2>2, <3>3, <4>1, KeepAllIs DEF FlowOk, PastRedirect
      <3>4. CASE page[t].next \notin {"authorize", "form", "callback"}
        BY <1>5, <1>8, <2>2, <3>4 DEF FlowOk, PastRedirect
      <3>5. QED
        BY <3>1, <3>2, <3>3, <3>4
    <2>3. CASE q # t
      <3>1. page'[q] = page[q]
        BY <1>7, <2>3
      <3>2. CASE page[t].new.state = Keep
        BY <1>9, <2>1, <3>1, <3>2 DEF FlowOk, PastRedirect
      <3>3. CASE page[t].new.state # Keep
        <4>1. InFlow(t) /\ ~InFlow(q)
          BY <2>1, <2>3, <3>3 DEF InFlow
        <4>2. page[q].nonce = None
          BY <4>1 DEF InFlow
        <4>3. ~PastRedirect(q)
          BY <2>1, <4>2 DEF FlowOk
        <4>4. QED
          BY <2>1, <3>1, <4>3 DEF FlowOk, PastRedirect
      <3>4. QED
        BY <3>2, <3>3
    <2>4. QED
      BY <2>2, <2>3
  <1>12. CallsOk(Keys, Carried) /\ smooth' \in BOOLEAN
    BY <1>1, <1>2, NowOk, SmoothIs
  <1>13. store \in [Token -> Row \cup {None}] /\ \A k \in Token \cap Keys : store[k] # None
    BY <1>1, StoreIs
  <1>14. QED
    BY <1>2, <1>7, <1>9, <1>10, <1>11, <1>12, <1>13, PlainStep

\* A login's redirect to the callback, with a new token for u.
LEMMA SignInStep ==
    ASSUME Base, NEW t \in Tab, NEW u \in User, NEW sso \in User \cup {Keep}, SignIn(t, sso),
           page[t].at \in {"authorize", "form"}, Note(Insert(store, u)),
           UNCHANGED <<now, jar, call, grants, who, smooth>>, Event \/ UNCHANGED events
    PROVE  Base'
  <1> DEFINE K == Keys \cup {Spare}
             r == [store EXCEPT ![Spare] = FreshRow(u)]
  <1>1. TypeOK /\ HeldInv /\ Keys \subseteq K /\ Keys \cup {Spare} \subseteq K /\ Carried \subseteq Carried
    BY DEF Base
  <1>2. r \in [Token -> Row \cup {None}] /\ \A k \in Token \cap (Keys \cup {Spare}) : r[k] # None
    <2>1. store \in [Token -> Row \cup {None}] /\ \A k \in Token : store[k] = None => store[k] = None
      BY <1>1 DEF TypeOK
    <2>2. QED
      BY <1>1, <2>1, InsertIs
  <1>3. Note(r)
    BY DEF Insert
  <1> HIDE DEF K, r
  <1>4. /\ PagesOk(K, Carried) /\ \A q \in Tab \ {t} : page'[q] = page[q]
        /\ page'[t].at = "wait" /\ page'[t].next = "callback"
        /\ page'[t].nonce = page[t].nonce /\ page'[t].new.state = Keep
    BY <1>1, SignInIs
  <1>5. CallsOk(K, Carried) /\ JarOk(K)
    BY <1>1, NowOk
  <1>6. \A a \in Carried : Earned(a)'
    <2>1. EarnedInv /\ UNCHANGED <<now, access, lost>>
      BY DEF Base, grants
    <2>2. QED
      BY <1>1, <2>1, SameEarned
  <1>7. ~rivals => FlowOk(t)'
    <2>1. ~rivals => FlowOk(t)
      BY DEF Base, FlowInv
    <2>2. QED
      BY <1>4, <2>1 DEF FlowOk, PastRedirect
  <1>8. ~rivals => \A q \in Tab : FlowOk(q)'
    BY <1>4, <1>7, OneMoves
  <1>9. /\ now' \in 0..MaxTime /\ events' \in 0..MaxEvents /\ access' \in [User -> BOOLEAN]
        /\ lost' \in [User -> (0..MaxTime) \cup {None}] /\ who' \in User \cup {None} /\ smooth' \in BOOLEAN
    BY <1>1, EventIs DEF TypeOK, grants
  <1>10. \A k \in Token \cap K : r[k] # None
    BY <1>2 DEF K
  <1>11. QED
    BY <1>2, <1>3, <1>4, <1>5, <1>6, <1>8, <1>9, <1>10, StepOk

LEMMA LoginStep ==
    ASSUME Base, NEW t \in Tab
    PROVE  /\ AuthorizeBySso(t) => Base'
           /\ \A u \in User : Login(t, u) => Base'
  <1>1. ASSUME AuthorizeBySso(t) PROVE Base'
    <2>1. jar.sso \in User
      BY <1>1 DEF AuthorizeBySso, SsoSuffices, Base, TypeOK, Jar
    <2>2. /\ SignIn(t, Keep) /\ page[t].at \in {"authorize", "form"} /\ Note(Insert(store, jar.sso))
          /\ UNCHANGED <<now, jar, call, grants, who, smooth>> /\ UNCHANGED events
      BY <1>1 DEF AuthorizeBySso
    <2>3. QED
      BY <2>1, <2>2, SignInStep
  <1>2. ASSUME NEW u \in User, Login(t, u) PROVE Base'
    <2>1. PICK sso \in User \cup {Keep} : SignIn(t, sso)
      BY <1>2 DEF Login
    <2>2. /\ page[t].at \in {"authorize", "form"} /\ Note(Insert(store, u))
          /\ UNCHANGED <<now, jar, call, grants, who, smooth>> /\ Event
      BY <1>2 DEF Login
    <2>3. QED
      BY <2>1, <2>2, SignInStep
  <1>3. QED
    BY <1>1, <1>2

-----------------------------------------------------------------------------
(* Requests of a page. *)

\* What a request becomes.
LEMMA CallMoves ==
    ASSUME TypeOK, HeldInv, NEW K, NEW C, Keys \subseteq K, Carried \subseteq C, NEW t \in Tab \cup {None}
    PROVE  /\ \A kind \in {"boot", "fetch"}, again \in BOOLEAN : CallOk(Refresh(t, kind, again), K, C)
           /\ \A kind \in {"logout", "leave"} :
                 CallOk([NoCall EXCEPT !.tab = t, !.kind = kind, !.pc = "logout", !.with = jar.refresh], K, C)
           /\ \A a \in (Access \cup {None}) \cap C, again \in BOOLEAN :
                 CallOk([NoCall EXCEPT !.tab = t, !.pc = "api", !.bearer = a, !.again = again], K, C)
           /\ \A a \in (Access \cup {None}) \cap C :
                 CallOk([NoCall EXCEPT !.tab = t, !.pc = "api", !.bearer = a], K, C)
  <1>1. jar \in Jar /\ jar.refresh \in K /\ {None, Keep} \subseteq K /\ None \in C
    BY NowOk
  <1>2. jar.refresh \in Token \cup {None}
    BY <1>1 DEF Jar
  <1>3. ASSUME NEW kind \in {"boot", "fetch"}, NEW again \in BOOLEAN
        PROVE  CallOk(Refresh(t, kind, again), K, C)
    <2> DEFINE r == Refresh(t, kind, again)
    <2>1. r \in Request /\ r.with = jar.refresh /\ r.new = Keep /\ r.bearer = None
      BY RefreshIs
    <2> HIDE DEF r
    <2>2. CallOk(r, K, C)
      BY <1>1, <2>1 DEF CallOk
    <2>3. QED
      BY <2>2 DEF r
  <1>4. ASSUME NEW kind \in {"logout", "leave"}
        PROVE  CallOk([NoCall EXCEPT !.tab = t, !.kind = kind, !.pc = "logout", !.with = jar.refresh], K, C)
    <2> DEFINE r == [NoCall EXCEPT !.tab = t, !.kind = kind, !.pc = "logout", !.with = jar.refresh]
    <2>1. r \in Request /\ r.with = jar.refresh /\ r.new = Keep /\ r.bearer = None
      BY <1>2 DEF NoCall, Request
    <2> HIDE DEF r
    <2>2. CallOk(r, K, C)
      BY <1>1, <2>1 DEF CallOk
    <2>3. QED
      BY <2>2 DEF r
  <1>5. ASSUME NEW a \in (Access \cup {None}) \cap C, NEW again \in BOOLEAN
        PROVE  CallOk([NoCall EXCEPT !.tab = t, !.pc = "api", !.bearer = a, !.again = again], K, C)
    <2> DEFINE r == [NoCall EXCEPT !.tab = t, !.pc = "api", !.bearer = a, !.again = again]
    <2>1. r \in Request /\ r.with = None /\ r.new = Keep /\ r.bearer = a
      BY DEF NoCall, Request
    <2> HIDE DEF r
    <2>2. CallOk(r, K, C)
      BY <1>1, <2>1 DEF CallOk
    <2>3. QED
      BY <2>2 DEF r
  <1>6. ASSUME NEW a \in (Access \cup {None}) \cap C
        PROVE  CallOk([NoCall EXCEPT !.tab = t, !.pc = "api", !.bearer = a], K, C)
    <2> DEFINE r == [NoCall EXCEPT !.tab = t, !.pc = "api", !.bearer = a]
    <2>1. r \in Request /\ r.with = None /\ r.new = Keep /\ r.bearer = a
      BY DEF NoCall, Request
    <2> HIDE DEF r
    <2>2. CallOk(r, K, C)
      BY <1>1, <2>1 DEF CallOk
    <2>3. QED
      BY <2>2 DEF r
  <1>7. QED
    BY <1>3, <1>4, <1>5, <1>6

LEMMA LoadStep ==
    ASSUME Base, NEW t \in Tab, Load(t)
    PROVE  Base'
  <1>1. TypeOK /\ HeldInv /\ Keys \subseteq Keys /\ Carried \subseteq Carried
    BY DEF Base
  <1> DEFINE g == [page[t] EXCEPT !.at = "shell"]
             r == Refresh(t, "boot", FALSE)
  <1>2. page' = [page EXCEPT ![t] = g] /\ g.at = "shell"
    BY <1>1 DEF Load, TypeOK, Page
  <1>3. PageOk(g, Keys, Carried)
    BY <1>1, PageMoves DEF Place
  <1>4. CallOk(r, Keys, Carried) /\ call' = [call EXCEPT ![t] = r]
    BY <1>1, CallMoves DEF Load
  <1> HIDE DEF g, r
  <1>5. PagesOk(Keys, Carried) /\ \A q \in Tab \ {t} : page'[q] = page[q]
    BY <1>1, <1>2, <1>3, PageSet
  <1>6. CallsOk(Keys, Carried)
    <2>1. t \in Calls
      BY DEF Calls
    <2>2. QED
      BY <1>1, <1>4, <2>1, CallSet
  <1>7. FlowOk(t)'
    <2>1. Away(t)'
      BY <1>1, <1>2 DEF Away, TypeOK
    <2>2. QED
      BY <2>1, AwayIsOk
  <1>8. Note(store) /\ UNCHANGED <<now, jar, grants, who>> /\ UNCHANGED events /\ smooth' \in BOOLEAN
    BY <1>1, SmoothIs DEF Load
  <1>9. QED
    BY <1>5, <1>6, <1>7, <1>8, PageStep

LEMMA LeaveStep ==
    ASSUME Base, NEW t \in Tab, Leave(t)
    PROVE  Base'
  <1>1. TypeOK /\ HeldInv /\ Keys \subseteq Keys /\ Carried \subseteq Carried
    BY DEF Base
  <1> DEFINE g == [Blank EXCEPT !.at = "leave"]
  <1>2. page' = [page EXCEPT ![t] = g] /\ call' = Orphaned(t)
    BY DEF Leave
  <1>3. PageOk(g, Keys, Carried) /\ g.at = "leave"
    BY <1>1, PageMoves DEF Place, Blank
  <1> HIDE DEF g
  <1>4. PagesOk(Keys, Carried) /\ \A q \in Tab \ {t} : page'[q] = page[q]
    BY <1>1, <1>2, <1>3, PageSet
  <1>5. CallsOk(Keys, Carried)
    BY <1>1, <1>2, OrphanedIs
  <1>6. FlowOk(t)'
    <2>1. Away(t)'
      BY <1>1, <1>2, <1>3 DEF Away, TypeOK
    <2>2. QED
      BY <2>1, AwayIsOk
  <1>7. Note(store) /\ UNCHANGED <<now, jar, grants, who>> /\ Event /\ smooth' \in BOOLEAN
    BY <1>1, SmoothIs DEF Leave
  <1>8. QED
    BY <1>4, <1>5, <1>6, <1>7, PageStep

\* A step that sends request c anew, or ends it.
LEMMA SendStep ==
    ASSUME Base, NEW c \in Calls, NEW r, CallOk(r, Keys, Carried), call' = [call EXCEPT ![c] = r],
           NEW s \in [Token -> Row \cup {None}], \A k \in Token \cap Keys : s[k] # None, Note(s),
           UNCHANGED <<now, jar, page, grants, who, smooth>>, Event \/ UNCHANGED events
    PROVE  Base'
  <1>1. TypeOK /\ HeldInv /\ Keys \subseteq Keys /\ Carried \subseteq Carried
    BY DEF Base
  <1>2. CallsOk(Keys, Carried) /\ smooth' \in BOOLEAN
    BY <1>1, CallSet, SmoothIs
  <1>3. QED
    BY <1>2, CallStepOk

LEMMA RequestStep ==
    ASSUME Base, NEW t \in Tab, NEW c \in Calls, Fetch(t, c) \/ Logout(t, c) \/ LeaveScript(t)
    PROVE  Base'
  <1>1. TypeOK /\ HeldInv /\ Keys \subseteq Keys /\ Carried \subseteq Carried
    BY DEF Base
  <1>2. /\ Note(store) /\ UNCHANGED <<now, jar, page, grants, who, smooth>>
        /\ Event \/ UNCHANGED events
    BY DEF Fetch, Logout, LeaveScript
  <1>3. \E d \in Calls : \E r : CallOk(r, Keys, Carried) /\ call' = [call EXCEPT ![d] = r]
    <2>1. CASE Fetch(t, c)
      <3>1. PageOk(page[t], Keys, Carried)
        BY <1>1, NowOk
      <3>2. page[t].token \in (Access \cup {None}) \cap Carried
        BY <3>1 DEF PageOk, Page
      <3> DEFINE a == page[t].token
                 r1 == Refresh(t, "fetch", FALSE)
                 r2 == [NoCall EXCEPT !.tab = t, !.pc = "api", !.bearer = a]
      <3>3. CallOk(r1, Keys, Carried) /\ CallOk(r2, Keys, Carried)
        BY <1>1, <3>2, CallMoves
      <3>4. call' = [call EXCEPT ![c] = r1] \/ call' = [call EXCEPT ![c] = r2]
        BY <2>1 DEF Fetch
      <3> HIDE DEF r1, r2
      <3>5. QED
        BY <3>3, <3>4
    <2>2. CASE Logout(t, c)
      BY <1>1, <2>2, CallMoves DEF Logout
    <2>3. CASE LeaveScript(t)
      <3>1. t \in Calls
        BY DEF Calls
      <3>2. QED
        BY <1>1, <2>3, <3>1, CallMoves DEF LeaveScript
    <2>4. QED
      BY <2>1, <2>2, <2>3
  <1>4. store \in [Token -> Row \cup {None}] /\ \A k \in Token \cap Keys : store[k] # None
    BY <1>1, StoreIs
  <1>5. QED
    BY <1>2, <1>3, <1>4, SendStep

LEMMA ServeStep ==
    ASSUME Base, NEW c \in Calls, Serve(c) \/ Reject(c)
    PROVE  Base'
  <1>1. TypeOK /\ HeldInv /\ Keys \subseteq Keys /\ Carried \subseteq Carried
    BY DEF Base
  <1>2. /\ Note(store) /\ UNCHANGED <<now, jar, page, grants, who, smooth>>
        /\ UNCHANGED events
    BY DEF Serve, Reject, Unauthorized
  <1> DEFINE r == Refresh(call[c].tab, "fetch", TRUE)
  <1>3. call' = [call EXCEPT ![c] = NoCall] \/ call' = [call EXCEPT ![c] = r]
    BY DEF Serve, Reject, Unauthorized
  <1>4. CallOk(NoCall, Keys, Carried) /\ CallOk(r, Keys, Carried)
    <2>1. jar.refresh \in Keys /\ {None, Keep} \subseteq Keys /\ None \in Carried
      BY <1>1, NowOk
    <2>2. call[c].tab \in Tab \cup {None}
      BY <1>1 DEF TypeOK, Request, Calls
    <2>3. r \in Request /\ r.with = jar.refresh /\ r.new = Keep /\ r.bearer = None
      BY <1>1, <2>2, RefreshIs
    <2> HIDE DEF r
    <2>4. QED
      BY <1>1, <2>1, <2>3, NowOk DEF CallOk
  <1>5. store \in [Token -> Row \cup {None}] /\ \A k \in Token \cap Keys : store[k] # None
    BY <1>1, StoreIs
  <1> HIDE DEF r
  <1>6. QED
    BY <1>2, <1>3, <1>4, <1>5, SendStep

\* The page of tab t, if there is one, begins again or gets token a.
LEMMA PageSettles ==
    ASSUME Base, NEW t \in Tab \cup {None}, NEW a \in (Access \cup {None}) \cap Carried,
           \/ page' = [page EXCEPT ![t] = Visit]
           \/ page' = [page EXCEPT ![t] = [@ EXCEPT !.token = a]]
    PROVE  /\ PagesOk(Keys, Carried) /\ \A q \in Tab \ {t} : page'[q] = page[q]
           /\ ~rivals /\ t \in Tab /\ jar'.state = jar.state => FlowOk(t)'
  <1>1. TypeOK /\ HeldInv /\ Keys \subseteq Keys /\ Carried \subseteq Carried
    BY DEF Base
  <1>2. CASE t \notin Tab
    <2>1. page' = page
      BY <1>1, <1>2 DEF TypeOK
    <2>2. QED
      BY <1>1, <1>2, <2>1, NowOk
  <1>3. CASE t \in Tab /\ page' = [page EXCEPT ![t] = Visit]
    <2>1. PageOk(Visit, Keys, Carried)
      BY <1>1, NowOk
    <2>2. PagesOk(Keys, Carried) /\ \A q \in Tab \ {t} : page'[q] = page[q]
      BY <1>1, <1>3, <2>1, PageSet
    <2>3. Away(t)'
      BY <1>1, <1>3, BlankIs DEF Away, TypeOK
    <2>4. QED
      BY <1>3, <2>2, <2>3, AwayIsOk
  <1>4. CASE t \in Tab /\ page' = [page EXCEPT ![t] = [@ EXCEPT !.token = a]]
    <2> DEFINE g == [page[t] EXCEPT !.token = a]
    <2>1. PageOk(g, Keys, Carried)
      BY <1>1, <1>4, PageMoves
    <2>2. g.at = page[t].at /\ g.next = page[t].next /\ g.nonce = page[t].nonce /\ g.new = page[t].new
      BY <1>1, <1>4 DEF TypeOK, Page
    <2>3. page' = [page EXCEPT ![t] = g]
      BY <1>1, <1>4 DEF TypeOK
    <2> HIDE DEF g
    <2>4. PagesOk(Keys, Carried) /\ \A q \in Tab \ {t} : page'[q] = page[q]
      BY <1>1, <2>1, <2>3, PageSet
    <2>5. page'[t] = g
      BY <1>1, <1>4, <2>3 DEF TypeOK
    <2>6. ASSUME ~rivals, jar'.state = jar.state PROVE FlowOk(t)'
      <3>1. FlowOk(t)
        BY <1>4, <2>6 DEF Base, FlowInv
      <3>2. QED
        BY <2>2, <2>5, <2>6, <3>1 DEF FlowOk, PastRedirect
    <2>7. QED
      BY <2>4, <2>6
  <1>5. QED
    BY <1>2, <1>3, <1>4

LEMMA ContinueIs ==
    ASSUME Base, NEW c \in Calls, NEW a \in {None, call[c].bearer}, Continue(c, a)
    PROVE  /\ PagesOk(Keys, Carried) /\ CallsOk(Keys, Carried)
           /\ \E t \in Tab \cup {None} :
                 /\ \A q \in Tab \ {t} : page'[q] = page[q]
                 /\ ~rivals /\ t \in Tab /\ jar'.state = jar.state => FlowOk(t)'
  <1>1. TypeOK /\ HeldInv /\ Keys \subseteq Keys /\ Carried \subseteq Carried
    BY DEF Base
  <1>2. call[c] \in Request
    BY <1>1 DEF TypeOK, Calls
  <1>3. call[c].again \in BOOLEAN /\ a \in (Access \cup {None}) \cap Carried
    BY <1>2 DEF Request, Carried
  <1> PICK t \in Tab \cup {None} : t = call[c].tab
    BY <1>2 DEF Request
  <1>4. \/ page' = [page EXCEPT ![t] = Visit]
        \/ page' = [page EXCEPT ![t] = [@ EXCEPT !.token = a]]
    BY DEF Continue
  <1>5. CallsOk(Keys, Carried)
    <2>1. CASE call' = [Orphaned(t) EXCEPT ![c] = NoCall]
      BY <1>1, <2>1, OrphanedIs
    <2>2. CASE call' = [call EXCEPT ![c] = NoCall]
      <3>1. CallOk(NoCall, Keys, Carried)
        BY <1>1, NowOk
      <3>2. QED
        BY <1>1, <2>2, <3>1, CallSet
    <2>3. CASE call' = [call EXCEPT ![c] = [NoCall EXCEPT !.tab = t, !.pc = "api", !.bearer = a,
                                                          !.again = call[c].again]]
      <3> DEFINE r == [NoCall EXCEPT !.tab = t, !.pc = "api", !.bearer = a, !.again = call[c].again]
      <3>1. CallOk(r, Keys, Carried)
        BY <1>1, <1>3, CallMoves
      <3>2. call' = [call EXCEPT ![c] = r]
        BY <2>3
      <3> HIDE DEF r
      <3>3. QED
        BY <1>1, <3>1, <3>2, CallSet
    <2>4. QED
      BY <2>1, <2>2, <2>3 DEF Continue
  <1>6. /\ PagesOk(Keys, Carried) /\ \A q \in Tab \ {t} : page'[q] = page[q]
        /\ ~rivals /\ t \in Tab /\ jar'.state = jar.state => FlowOk(t)'
    BY <1>3, <1>4, PageSettles
  <1>7. QED
    BY <1>5, <1>6

\* The jar with the refresh cookie that request c brings.
LEMMA BroughtIs ==
    ASSUME TypeOK, HeldInv, NEW c \in Calls, jar' = After([KeepAll EXCEPT !.refresh = call[c].new])
    PROVE  JarOk(Keys) /\ jar'.state = jar.state
  <1>1. call[c].new \in Token \cup {None, Keep} /\ call[c].new \in Keys /\ jar.refresh \in Keys
    BY DEF TypeOK, Calls, Request, Keys, Held
  <1>2. QED
    BY <1>1, AfterRefresh DEF JarOk

\* A step that ends what a page waits for.
LEMMA SettledStep ==
    ASSUME Base, Note(store), UNCHANGED <<now, grants>>, Event \/ UNCHANGED events,
           who' \in User \cup {None}, smooth' \in BOOLEAN, JarOk(Keys), jar'.state = jar.state,
           PagesOk(Keys, Carried), CallsOk(Keys, Carried), NEW t,
           \A q \in Tab \ {t} : page'[q] = page[q], ~rivals /\ t \in Tab => FlowOk(t)'
    PROVE  Base'
  <1>1. TypeOK /\ HeldInv
    BY DEF Base
  <1>2. store \in [Token -> Row \cup {None}] /\ \A k \in Token \cap Keys : store[k] # None
    BY <1>1, StoreIs
  <1>3. ~rivals => \A q \in Tab : FlowOk(q)'
    BY OneMoves
  <1>4. QED
    BY <1>2, <1>3, PlainStep

LEMMA BootstrapStep ==
    ASSUME Base, NEW c \in Calls, Bootstrapped(c) \/ LoseRefresh(c)
    PROVE  Base'
  <1>1. TypeOK /\ HeldInv
    BY DEF Base
  <1>2. PICK a \in {None, call[c].bearer} : Continue(c, a)
    BY DEF Bootstrapped, LoseRefresh, Granted
  <1>3. JarOk(Keys) /\ jar'.state = jar.state
    <2>1. CASE Bootstrapped(c)
      BY <1>1, <2>1, BroughtIs DEF Bootstrapped
    <2>2. CASE LoseRefresh(c)
      <3>1. UNCHANGED jar /\ Keys \subseteq Keys /\ Carried \subseteq Carried
        BY <2>2 DEF LoseRefresh
      <3>2. QED
        BY <1>1, <3>1, NowOk
    <2>3. QED
      BY <2>1, <2>2
  <1>4. PagesOk(Keys, Carried) /\ CallsOk(Keys, Carried)
    BY <1>2, ContinueIs
  <1>5. PICK t \in Tab \cup {None} :
          /\ \A q \in Tab \ {t} : page'[q] = page[q]
          /\ ~rivals /\ t \in Tab /\ jar'.state = jar.state => FlowOk(t)'
    BY <1>2, ContinueIs
  <1>6. /\ Note(store) /\ UNCHANGED <<now, grants>> /\ (Event \/ UNCHANGED events)
        /\ who' \in User \cup {None} /\ smooth' \in BOOLEAN
    BY <1>1 DEF Bootstrapped, LoseRefresh, TypeOK
  <1>7. QED
    BY <1>3, <1>4, <1>5, <1>6, SettledStep

LEMMA LogoutStep ==
    ASSUME Base, NEW c \in Calls, LoggedOut(c) \/ LoseLogout(c)
    PROVE  Base'
  <1>1. TypeOK /\ HeldInv /\ Keys \subseteq Keys /\ Carried \subseteq Carried
    BY DEF Base
  <1>2. AfterLogout(c)
    BY DEF LoggedOut, LoseLogout
  <1> PICK t \in Tab \cup {None} : t = call[c].tab
    BY <1>1 DEF TypeOK, Calls, Request
  <1>3. JarOk(Keys) /\ jar'.state = jar.state
    <2>1. CASE LoggedOut(c)
      BY <1>1, <2>1, BroughtIs DEF LoggedOut
    <2>2. CASE LoseLogout(c)
      BY <1>1, <2>2, NowOk DEF LoseLogout
    <2>3. QED
      BY <2>1, <2>2
  <1>4. None \in (Access \cup {None}) \cap Carried
    BY <1>1 DEF TypeOK, Calls, Request, Carried
  <1>5. \/ page' = [page EXCEPT ![t] = Visit]
        \/ page' = [page EXCEPT ![t] = [@ EXCEPT !.token = None]]
    BY <1>2 DEF AfterLogout
  <1>6. CallsOk(Keys, Carried)
    <2>1. CallOk(NoCall, Keys, Carried)
      BY <1>1, NowOk
    <2>2. QED
      BY <1>1, <1>2, <2>1, CallSet DEF AfterLogout
  <1>7. /\ Note(store) /\ UNCHANGED <<now, grants>> /\ (Event \/ UNCHANGED events)
        /\ who' \in User \cup {None} /\ smooth' \in BOOLEAN
    BY <1>1 DEF LoggedOut, LoseLogout, TypeOK
  <1>8. /\ PagesOk(Keys, Carried) /\ \A q \in Tab \ {t} : page'[q] = page[q]
        /\ ~rivals /\ t \in Tab /\ jar'.state = jar.state => FlowOk(t)'
    BY <1>4, <1>5, PageSettles
  <1>9. QED
    BY <1>3, <1>6, <1>7, <1>8, SettledStep

-----------------------------------------------------------------------------
(* homectl-auth. *)

LEMMA RespondIs ==
    ASSUME TypeOK, HeldInv, NEW K, NEW C, Keys \subseteq K, Carried \subseteq C, NEW c \in Calls,
           NEW pc \in {"refreshed", "loggedOut"}, NEW new \in (Token \cup {None, Keep}) \cap K,
           NEW a \in (Access \cup {None}) \cap C, Respond(c, pc, new, a)
    PROVE  CallsOk(K, C)
  <1> DEFINE g == [call[c] EXCEPT !.pc = pc, !.with = None, !.new = new, !.bearer = a]
  <1>1. CallOk(call[c], K, C) /\ CallOk(NoCall, K, C) /\ None \in K
    BY NowOk
  <1>2. g \in Request /\ g.with = None /\ g.new = new /\ g.bearer = a
    BY <1>1 DEF CallOk, Request
  <1>3. call' = [call EXCEPT ![c] = NoCall] \/ call' = [call EXCEPT ![c] = g]
    BY DEF Respond, TypeOK, Calls
  <1> HIDE DEF g
  <1>4. CallOk(g, K, C)
    BY <1>1, <1>2 DEF CallOk
  <1>5. QED
    BY <1>1, <1>3, <1>4, CallSet

LEMMA AnsweredStep ==
    ASSUME Base, NEW c \in Calls, Refuse(c) \/ EndSession(c)
    PROVE  Base'
  <1>1. TypeOK /\ HeldInv /\ Keys \subseteq Keys /\ Carried \subseteq Carried
    BY DEF Base
  <1>2. UNCHANGED <<now, jar, page, grants, who>> /\ UNCHANGED events /\ smooth' \in BOOLEAN
    BY <1>1, SmoothIs DEF Refuse, EndSession
  <1>3. None \in (Access \cup {None}) \cap Carried /\ {None, Keep} \subseteq (Token \cup {None, Keep}) \cap Keys
    BY DEF Carried, Keys
  <1>4. PICK pc \in {"refreshed", "loggedOut"}, new \in (Token \cup {None, Keep}) \cap Keys :
          Respond(c, pc, new, None)
    BY <1>3 DEF Refuse, EndSession, ClearedBy
  <1>5. CallsOk(Keys, Carried)
    BY <1>1, <1>3, <1>4, RespondIs
  <1>6. PICK s \in [Token -> Row \cup {None}] : (\A k \in Token \cap Keys : s[k] # None) /\ Note(s)
    BY <1>1, StoreIs DEF Refuse, EndSession
  <1>7. QED
    BY <1>2, <1>5, <1>6, CallStepOk

\* A rotation leaves the rows of all tokens that are held, and mints one.
LEMMA RotatedIs ==
    ASSUME Base, NEW c \in Calls, call[c].with # None, call[c].pc = "refresh"
    PROVE  LET k == call[c].with IN
           /\ store[k] \in Row /\ Rotated(k) \in [Token -> Row \cup {None}]
           /\ \A q \in Token \cap (Keys \cup {Spare}) : Rotated(k)[q] # None
  <1> DEFINE k == call[c].with
             row == [store[k] EXCEPT !.usedAt = IF @ = None THEN now ELSE @]
             s == [store EXCEPT ![k] = row]
  <1>1. TypeOK /\ HeldInv
    BY DEF Base
  <1>2. k \in Token
    BY <1>1 DEF TypeOK, Calls, Request
  <1>3. store[k] \in Row
    BY <1>1, <1>2 DEF TypeOK, HeldInv, Held, Calls
  <1>4. row \in Row
    <2>1. now \in Int
      BY <1>1 DEF TypeOK
    <2>2. QED
      BY <1>3, <2>1 DEF Row
  <1>5. store[k].user \in User
    BY <1>3 DEF Row
  <1> DEFINE u == store[k].user
  <1>6. s = [store EXCEPT ![k].usedAt = IF @ = None THEN now ELSE @]
    BY <1>1, <1>2 DEF TypeOK
  <1>7. Rotated(k) = [s EXCEPT ![Spare] = FreshRow(u)]
    BY <1>6, Zenon DEF Rotated, Insert
  <1> HIDE DEF k, row, u
  <1>8. s \in [Token -> Row \cup {None}] /\ \A q \in Token : s[q] = None => store[q] = None
    BY <1>1, <1>2, <1>4, MarksAssumption DEF TypeOK
  <1> HIDE DEF s
  <1>9. /\ Rotated(k) \in [Token -> Row \cup {None}]
        /\ \A q \in Token \cap (Keys \cup {Spare}) : Rotated(k)[q] # None
    <2>1. u \in User
      BY <1>5 DEF u
    <2>2. QED
      BY <1>1, <1>7, <1>8, <2>1, InsertIs
  <1>10. QED
    BY <1>3, <1>9 DEF k

\* A refresh that rotates: the cookie is the successor or cleared, the access token a new one or none.
LEMMA RotateStep ==
    ASSUME Base, NEW c \in Calls, Admit(c) \/ Expel(c)
    PROVE  Base'
  <1> PICK k : k = call[c].with
    OBVIOUS
  <1> DEFINE K == Keys \cup {Spare}
             b == [sub |-> store[k].user, exp |-> now + AccessTtl]
  <1>1. TypeOK /\ HeldInv /\ Keys \subseteq K
    BY DEF Base
  <1>2. k # None /\ call[c].pc = "refresh"
    BY DEF Admit, Expel, Good
  <1>3. /\ store[k] \in Row /\ Rotated(k) \in [Token -> Row \cup {None}]
        /\ \A q \in Token \cap K : Rotated(k)[q] # None
    BY <1>2, RotatedIs
  <1>4. UNCHANGED <<now, jar, page, grants, events, who, smooth>> /\ Note(Rotated(k))
    BY DEF Admit, Expel
  <1>5. Spare \in Token
    BY <1>1, SpareIsFree
  <1>6. now \in Int /\ AccessTtl \in Int
    BY <1>1, TimesAssumption DEF TypeOK
  <1>7. b \in Access /\ b.sub = store[k].user /\ b.exp = now + AccessTtl
    BY <1>3, <1>6 DEF Access, Row
  <1> PICK C : C = Carried \cup (IF Admit(c) THEN {b} ELSE {})
    OBVIOUS
  <1>8. Carried \subseteq C /\ None \in (Access \cup {None}) \cap C
    BY DEF Carried
  <1>9. CallsOk(K, C)
    <2>1. CASE Admit(c)
      <3>1. Respond(c, "refreshed", Spare, b) /\ b \in C
        BY <2>1 DEF Admit
      <3> HIDE DEF b
      <3>2. b \in (Access \cup {None}) \cap C /\ Spare \in (Token \cup {None, Keep}) \cap K
        BY <1>5, <1>7, <3>1
      <3> HIDE DEF K
      <3>3. QED
        BY <1>1, <1>8, <3>1, <3>2, RespondIs
    <2>2. CASE Expel(c)
      <3>1. Respond(c, "refreshed", None, None)
        BY <2>2 DEF Expel
      <3>2. None \in (Token \cup {None, Keep}) \cap K
        BY DEF Keys
      <3> HIDE DEF K
      <3>3. QED
        BY <1>1, <1>8, <3>1, <3>2, RespondIs
    <2>3. QED
      BY <2>1, <2>2
  <1>10. \A a \in C : Earned(a)'
    <2>1. EarnedInv /\ UNCHANGED <<now, access, lost>>
      BY <1>4 DEF Base, grants
    <2>2. \A a \in Carried : Earned(a)'
      BY <1>1, <2>1, SameEarned
    <2>3. ASSUME Admit(c), NEW a, a = b PROVE Earned(a)'
      <3>1. access[store[k].user]
        BY <2>3 DEF Admit, HasAccess
      <3>2. a.sub = store[k].user /\ a.exp = now + AccessTtl
        BY <1>7, <2>3
      <3>3. QED
        BY <1>6, <2>1, <3>1, <3>2 DEF Earned
    <2> HIDE DEF b
    <2>4. QED
      BY <2>2, <2>3
  <1> HIDE DEF K, b
  <1>11. PagesOk(K, C) /\ JarOk(K) /\ jar'.state = jar.state
    BY <1>1, <1>4, <1>8, NowOk
  <1>12. ~rivals => \A q \in Tab : FlowOk(q)'
    <2>1. None \notin Tab /\ \A q \in Tab \ {None} : page'[q] = page[q]
      BY <1>4, NamesAssumption
    <2>2. QED
      BY <1>11, <2>1, OneMoves
  <1>13. /\ now' \in 0..MaxTime /\ events' \in 0..MaxEvents /\ access' \in [User -> BOOLEAN]
         /\ lost' \in [User -> (0..MaxTime) \cup {None}] /\ who' \in User \cup {None} /\ smooth' \in BOOLEAN
    BY <1>1, <1>4 DEF TypeOK, grants
  <1>14. QED
    BY <1>3, <1>4, <1>9, <1>10, <1>11, <1>12, <1>13, StepOk

LEMMA ResetStep ==
    ASSUME Base, NEW u \in User, Reset(u)
    PROVE  Base'
  <1>1. TypeOK /\ HeldInv /\ Keys \subseteq Keys /\ Carried \subseteq Carried
    BY DEF Base
  <1>2. /\ UNCHANGED <<now, jar, page, grants, who>> /\ UNCHANGED call /\ Event /\ smooth' \in BOOLEAN
        /\ \E K : Note(Ended(K))
    BY <1>1, SmoothIs DEF Reset
  <1>3. CallsOk(Keys, Carried)
    BY <1>1, <1>2, NowOk
  <1>4. PICK s \in [Token -> Row \cup {None}] : (\A k \in Token \cap Keys : s[k] # None) /\ Note(s)
    BY <1>1, <1>2, StoreIs
  <1>5. QED
    BY <1>2, <1>3, <1>4, CallStepOk

\* A step that changes no cookie, page or request.
LEMMA StillStep ==
    ASSUME Base, Note(store), UNCHANGED <<jar, page, call, who>>, Event \/ UNCHANGED events,
           now' \in 0..MaxTime, access' \in [User -> BOOLEAN],
           lost' \in [User -> (0..MaxTime) \cup {None}], smooth' \in BOOLEAN,
           \A a \in Carried : Earned(a) => Earned(a)'
    PROVE  Base'
  <1>1. TypeOK /\ HeldInv /\ Keys \subseteq Keys /\ Carried \subseteq Carried
    BY DEF Base
  <1>2. PagesOk(Keys, Carried) /\ CallsOk(Keys, Carried) /\ JarOk(Keys)
    BY <1>1, NowOk
  <1>3. \A a \in Carried : Earned(a)'
    <2>1. \A a \in Carried : Earned(a)
      BY MarksAssumption DEF Base, Carried, EarnedInv, Earned, Calls
    <2>2. QED
      BY <2>1
  <1>4. store \in [Token -> Row \cup {None}] /\ \A k \in Token \cap Keys : store[k] # None
    BY <1>1, StoreIs
  <1>5. ~rivals => \A q \in Tab : FlowOk(q)'
    <2>1. None \notin Tab /\ \A q \in Tab \ {None} : page'[q] = page[q]
      BY NamesAssumption
    <2>2. jar'.state = jar.state
      OBVIOUS
    <2>3. QED
      BY <2>1, <2>2, OneMoves
  <1>6. events' \in 0..MaxEvents /\ who' \in User \cup {None}
    BY <1>1, EventIs DEF TypeOK
  <1>7. QED
    BY <1>2, <1>3, <1>4, <1>5, <1>6, StepOk

LEMMA ChangeAccessStep ==
    ASSUME Base, NEW u \in User, ChangeAccess(u)
    PROVE  Base'
  <1>1. TypeOK
    BY DEF Base
  <1>2. /\ now' = now /\ UNCHANGED <<jar, page, call, who>> /\ Event /\ Note(store)
        /\ smooth' \in BOOLEAN
        /\ access' = [access EXCEPT ![u] = ~@] /\ lost' = [lost EXCEPT ![u] = IF access[u] THEN now ELSE @]
    BY <1>1, SmoothIs DEF ChangeAccess
  <1>3. access \in [User -> BOOLEAN] /\ now \in 0..MaxTime /\ lost \in [User -> (0..MaxTime) \cup {None}]
    BY <1>1 DEF TypeOK
  <1>4. access' \in [User -> BOOLEAN] /\ lost' \in [User -> (0..MaxTime) \cup {None}]
    <2>1. (IF access[u] THEN now ELSE lost[u]) \in (0..MaxTime) \cup {None} /\ (~access[u]) \in BOOLEAN
      BY <1>3
    <2>2. QED
      BY <1>2, <1>3, <2>1
  <1>5. ASSUME NEW a \in Carried, Earned(a) PROVE Earned(a)'
    <2> SUFFICES ASSUME a \in Access PROVE Earned(a)'
      BY DEF Earned
    <2>1. /\ a.exp <= now + AccessTtl /\ a.sub \in User /\ a.exp \in Int
          /\ access[a.sub] \/ (lost[a.sub] # None /\ lost[a.sub] >= a.exp - AccessTtl)
      BY <1>5 DEF Earned, Access
    <2>2. now # None /\ now \in Int /\ AccessTtl \in Int /\ TimesAssumption
      BY <1>3, MarksAssumption, TimesAssumption
    <2>3. CASE a.sub # u
      <3>1. access'[a.sub] = access[a.sub] /\ lost'[a.sub] = lost[a.sub]
        BY <1>2, <1>3, <2>1, <2>3
      <3>2. QED
        BY <1>2, <2>1, <3>1 DEF Earned
    <2>4. CASE a.sub = u /\ access[u]
      <3>1. lost'[a.sub] = now
        BY <1>2, <1>3, <2>4
      <3>2. now >= a.exp - AccessTtl
        BY <2>1, <2>2
      <3>3. QED
        BY <1>2, <2>1, <2>2, <3>1, <3>2 DEF Earned
    <2>5. CASE a.sub = u /\ ~access[u]
      <3>1. access'[a.sub]
        BY <1>2, <1>3, <2>5
      <3>2. QED
        BY <1>2, <2>1, <3>1 DEF Earned
    <2>6. QED
      BY <2>3, <2>4, <2>5
  <1>6. now' \in 0..MaxTime
    BY <1>2, <1>3
  <1>7. QED
    BY <1>2, <1>4, <1>5, <1>6, StillStep

LEMMA TickStep ==
    ASSUME Base, Tick
    PROVE  Base'
  <1>1. TypeOK
    BY DEF Base
  <1>2. now' = now + 1 /\ now < MaxTime /\ UNCHANGED <<jar, page, call, who>> /\ UNCHANGED <<events, access, lost>>
        /\ Note(store) /\ smooth' \in BOOLEAN
    BY <1>1, SmoothIs DEF Tick, grants
  <1>3. now \in 0..MaxTime /\ MaxTime \in Nat
    BY <1>1, TimesAssumption DEF TypeOK
  <1>4. now' \in 0..MaxTime
    BY <1>2, <1>3
  <1>5. ASSUME NEW a \in Carried, Earned(a) PROVE Earned(a)'
    <2> SUFFICES ASSUME a \in Access PROVE Earned(a)'
      BY DEF Earned
    <2>1. /\ a.exp <= now + AccessTtl /\ a.exp \in Int
          /\ access[a.sub] \/ (lost[a.sub] # None /\ lost[a.sub] >= a.exp - AccessTtl)
      BY <1>5 DEF Earned, Access
    <2>2. AccessTtl \in Int
      BY TimesAssumption
    <2>3. a.exp <= now' + AccessTtl
      BY <1>2, <1>3, <2>1, <2>2
    <2>4. QED
      BY <1>2, <2>1, <2>3 DEF Earned
  <1>6. access' \in [User -> BOOLEAN] /\ lost' \in [User -> (0..MaxTime) \cup {None}]
    BY <1>1, <1>2 DEF TypeOK
  <1>7. QED
    BY <1>2, <1>4, <1>5, <1>6, StillStep

LEMMA CookieStep ==
    ASSUME Base, CookieExpires
    PROVE  Base'
  <1>1. TypeOK /\ HeldInv /\ EarnedInv
    BY DEF Base
  <1>2. /\ UNCHANGED <<now, page, call, store, access, lost, who, raced, smooth>> /\ Event
        /\ \/ jar' = [jar EXCEPT !.sso = None] /\ UNCHANGED rivals
           \/ jar' = [jar EXCEPT !.state = None] /\ rivals' = TRUE
    BY DEF CookieExpires, grants
  <1>3. jar' \in Jar /\ jar'.refresh = jar.refresh /\ ((jar'.state = jar.state /\ rivals' = rivals) \/ rivals' = TRUE)
    BY <1>1, <1>2 DEF TypeOK, Jar
  <1>4. TypeOK'
    BY <1>1, <1>2, <1>3, EventIs DEF TypeOK
  <1>5. HeldInv'
    BY <1>1, <1>2, <1>3 DEF HeldInv, Held
  <1>6. EarnedInv'
    BY <1>1, <1>2 DEF EarnedInv, Earned
  <1>7. FlowInv'
    <2>1. CASE rivals' = TRUE
      BY <2>1 DEF FlowInv
    <2>2. CASE jar'.state = jar.state /\ rivals' = rivals
      <3>1. FlowInv /\ UNCHANGED page
        BY <1>2 DEF Base
      <3>2. QED
        BY <2>2, <3>1 DEF FlowInv, FlowOk, PastRedirect, InFlow
    <2>3. QED
      BY <1>3, <2>1, <2>2
  <1>8. QED
    BY <1>4, <1>5, <1>6, <1>7 DEF Base

-----------------------------------------------------------------------------
(* All steps. *)

LEMMA InitBase ==
    ASSUME Init
    PROVE  Base
  <1>1. page = [t \in Tab |-> Blank] /\ call = [c \in Calls |-> NoCall]
    BY DEF Init, Calls
  <1>2. TypeOK
    <2>1. /\ now \in 0..MaxTime /\ events \in 0..MaxEvents
      BY TimesAssumption DEF Init
    <2>2. jar \in Jar
      BY DEF Init, Jar
    <2>3. page \in [Tab -> Page] /\ call \in [Tab \cup Call -> Request]
      BY <1>1, BlankIs, NoCallIs DEF Calls
    <2>4. /\ store \in [Token -> Row \cup {None}] /\ access \in [User -> BOOLEAN]
          /\ lost \in [User -> (0..MaxTime) \cup {None}] /\ who \in User \cup {None}
          /\ raced \in BOOLEAN /\ rivals \in BOOLEAN /\ smooth \in BOOLEAN
      BY DEF Init
    <2>5. QED
      BY <2>1, <2>2, <2>3, <2>4 DEF TypeOK
  <1>3. /\ \A t \in Tab : page[t] = Blank
        /\ \A c \in Calls : call[c] = NoCall
        /\ DOMAIN call = Calls /\ jar.refresh = None
    BY <1>1 DEF Init
  <1>4. HeldInv
    <2>1. Held \subseteq {None, Keep}
      BY <1>3, BlankIs, NoCallIs, KeepAllIs DEF Held
    <2>2. QED
      BY <1>3, <2>1, BlankIs, NoCallIs, KeepAllIs, NamesAssumption DEF HeldInv, Calls
  <1>5. EarnedInv
    BY <1>3, BlankIs, NoCallIs, MarksAssumption DEF EarnedInv, Earned, Calls
  <1>6. FlowInv
    <2>1. \A t \in Tab : ~InFlow(t) /\ FlowOk(t)
      BY <1>3, BlankIs, KeepAllIs DEF InFlow, FlowOk, PastRedirect
    <2>2. QED
      BY <2>1 DEF FlowInv
  <1>7. QED
    BY <1>2, <1>4, <1>5, <1>6 DEF Base

LEMMA NextBase ==
    ASSUME Base, [Next]_vars
    PROVE  Base'
  <1>1. CASE UNCHANGED vars
    BY <1>1 DEF vars, grants, Base, TypeOK, HeldInv, Held, EarnedInv, Earned, FlowInv, FlowOk, PastRedirect, InFlow
  <1>2. ASSUME NEW t \in Tab, TabStep(t) \/ Open(t) \/ CallbackFailed(t) \/ Leave(t)
        PROVE  Base'
    <2>1. t \in Calls
      BY DEF Calls
    <2>2. QED
      BY <1>2, <2>1, OpenStep, GetPageStep, ArriveStep, LoginStep, AuthorizeByFormStep, CallbackStep,
         LoadStep, LeaveStep, RequestStep DEF TabStep
  <1>3. ASSUME NEW t \in Tab, NEW u \in User, Login(t, u) PROVE Base'
    BY <1>3, LoginStep
  <1>4. ASSUME NEW t \in Tab, NEW c \in Calls, Fetch(t, c) \/ Logout(t, c) PROVE Base'
    BY <1>4, RequestStep
  <1>5. ASSUME NEW c \in Calls, CallStep(c) \/ LoseRefresh(c) \/ LoseLogout(c) PROVE Base'
    BY <1>5, ServeStep, AnsweredStep, RotateStep, BootstrapStep, LogoutStep DEF CallStep
  <1>6. ASSUME NEW u \in User, Reset(u) \/ ChangeAccess(u) PROVE Base'
    BY <1>6, ResetStep, ChangeAccessStep
  <1>7. CASE CookieExpires \/ Tick
    BY <1>7, CookieStep, TickStep
  <1>8. QED
    BY <1>1, <1>2, <1>3, <1>4, <1>5, <1>6, <1>7 DEF Next, Calls

-----------------------------------------------------------------------------
(* The session follows the user. *)

\* What overlaps what, without a clash.
LEMMA ClashIs ==
    ASSUME Base, ~Clash
    PROVE  /\ \A c, d \in LoggingOut : c = d
           /\ \A t, q \in LoggingIn : t = q
           /\ LoggingOut = {} \/ (LoggingIn = {} /\ Refreshing = {})
           /\ LoggingIn = {} \/ Refreshing = {}
  <1> DEFINE O == LoggingOut
             I == LoggingIn
  <1>1. O \subseteq Calls /\ I \subseteq Tab
    BY DEF LoggingOut, LoggingIn, Base, TypeOK, Calls
  <1>2. IsFiniteSet(O) /\ IsFiniteSet(I) /\ Cardinality(O) \in Nat /\ Cardinality(I) \in Nat
    BY <1>1, Sizes, FS_Subset, FS_CardinalityType
  <1>3. /\ ~(Cardinality(O) + Cardinality(I) > 1)
        /\ Cardinality(O) + Cardinality(I) = 1 => Refreshing = {}
    BY DEF Clash
  <1> HIDE DEF O, I
  <1>4. (Cardinality(O) = 0 <=> O = {}) /\ (Cardinality(I) = 0 <=> I = {})
    BY <1>2, FS_EmptySet
  <1>5. ASSUME NEW S, IsFiniteSet(S), Cardinality(S) \in Nat, Cardinality(S) <= 1, NEW x \in S, NEW y \in S
        PROVE  x = y
    <2>1. SUFFICES ASSUME x # y PROVE FALSE
      OBVIOUS
    <2>2. IsFiniteSet({x}) /\ Cardinality({x}) = 1
      BY FS_Singleton
    <2>3. IsFiniteSet({x} \cup {y}) /\ Cardinality({x} \cup {y}) = 2
      BY <2>1, <2>2, FS_AddElement
    <2>4. {x} \cup {y} \subseteq S
      OBVIOUS
    <2>5. 2 <= Cardinality(S)
      BY <1>5, <2>3, <2>4, FS_Subset
    <2>6. QED
      BY <1>5, <2>5
  <1>6. Cardinality(O) <= 1 /\ Cardinality(I) <= 1
    BY <1>2, <1>3
  <1>7. O = {} \/ (I = {} /\ Refreshing = {})
    BY <1>2, <1>3, <1>4
  <1>8. I = {} \/ Refreshing = {}
    BY <1>2, <1>3, <1>4
  <1>9. (\A c, d \in O : c = d) /\ (\A t, q \in I : t = q)
    BY <1>2, <1>5, <1>6
  <1>10. QED
    BY <1>7, <1>8, <1>9 DEF O, I

\* The users of the tokens that were held stay.
SameUsers(s) == \A k \in Token \cap Keys : s[k].user = store[k].user

LEMMA UsersKept ==
    ASSUME Base, Base', NEW s, Note(s), NEW k \in Token, k \in Held'
    PROVE  store'[k] = s[k]
  <1> DEFINE held == Held'
  <1>1. store' = [q \in Token |-> IF q \in held THEN s[q] ELSE None]
    BY DEF Note
  <1>2. k \in held
    OBVIOUS
  <1> HIDE DEF held
  <1>3. QED
    BY <1>1, <1>2

LEMMA NoRace ==
    ASSUME Base, FollowInv, NEW s, Note(s), ~raced'
    PROVE  /\ ~Clash' /\ ~Clash
           /\ jar.refresh # None => store[jar.refresh].user = who
           /\ \A c \in Calls : Follows(c)
  BY DEF Note, FollowInv, Calls

\* A request that stays as it is goes on following the user.
LEMMA FollowsStays ==
    ASSUME Base, Base', NEW s, Note(s), SameUsers(s), NEW c \in Calls, call'[c] = call[c], Follows(c),
           who' = who \/ c \notin Refreshing, jar'.refresh = jar.refresh \/ c \notin LoggingOut
    PROVE  Follows(c)'
  <1>1. c \in DOMAIN call /\ c \in DOMAIN call'
    BY DEF Base, TypeOK, Calls
  <1>2. (c \in Refreshing)' <=> c \in Refreshing
    BY <1>1 DEF Refreshing
  <1>3. (c \in LoggingOut)' <=> c \in LoggingOut
    BY <1>1 DEF LoggingOut
  <1>4. ASSUME NEW k \in {call[c].with, call[c].new} \ {None, Keep}
        PROVE  store'[k].user = store[k].user
    <2>1. k \in Token /\ k \in Held /\ k \in Held'
      BY <1>1, <1>4 DEF Base, TypeOK, Calls, Request, Held
    <2>2. QED
      BY <2>1, UsersKept DEF SameUsers, Keys
  <1>5. QED
    BY <1>2, <1>3, <1>4 DEF Follows

\* So does one that neither refreshes nor logs out, or whose page is gone.
LEMMA FollowsIdle ==
    ASSUME Base', NEW c \in Calls,
           \/ call'[c].pc \in {"idle", "api"}
           \/ call'[c].pc \in {"refresh", "logout"} /\ call'[c].tab = None
    PROVE  Follows(c)'
  BY DEF Follows, Refreshing, LoggingOut

\* The invariant after a step that changes neither the refresh cookie nor the last login.
LEMMA FollowStep ==
    ASSUME Base, Base', FollowInv, NEW s, Note(s), SameUsers(s), who' = who, jar'.refresh = jar.refresh,
           ~raced' => \A c \in Calls : call'[c] = call[c] \/ Follows(c)'
    PROVE  FollowInv'
  <1> SUFFICES ASSUME ~raced'
               PROVE  ~Clash' /\ (jar'.refresh # None => store'[jar'.refresh].user = who')
                      /\ \A c \in Calls : Follows(c)'
    BY DEF FollowInv, Calls
  <1>1. /\ ~Clash' /\ (jar.refresh # None => store[jar.refresh].user = who)
        /\ \A c \in Calls : Follows(c)
    BY NoRace
  <1>2. ASSUME jar.refresh # None PROVE store'[jar'.refresh].user = who'
    <2>1. jar.refresh \in Token /\ jar.refresh \in Held /\ jar.refresh \in Held'
      BY <1>2 DEF Base, TypeOK, Jar, Held
    <2>2. QED
      BY <1>1, <1>2, <2>1, UsersKept DEF SameUsers, Keys
  <1>3. \A c \in Calls : Follows(c)'
    BY <1>1, FollowsStays
  <1>4. QED
    BY <1>1, <1>2, <1>3

LEMMA SameUsersIs ==
    ASSUME Base
    PROVE  /\ SameUsers(store)
           /\ \A K : SameUsers(Ended(K))
           /\ \A u : SameUsers(Insert(store, u))
           /\ \A c \in Calls : call[c].with # None => SameUsers(Rotated(call[c].with))
  <1>1. TypeOK /\ HeldInv
    BY DEF Base
  <1>2. \A k \in Token \cap Keys : store[k] \in Row
    BY <1>1, StoreIs
  <1>3. Spare \in Token /\ Spare \notin Keys
    BY <1>1, SpareIsFree, NamesAssumption DEF Keys
  <1>4. store \in [Token -> Row \cup {None}]
    BY <1>1 DEF TypeOK
  <1>5. ASSUME NEW K PROVE SameUsers(Ended(K))
    BY <1>2, <1>4 DEF SameUsers, Ended, Row
  <1>6. ASSUME NEW u PROVE SameUsers(Insert(store, u))
    BY <1>3, <1>4 DEF SameUsers, Insert
  <1>7. ASSUME NEW c \in Calls, call[c].with # None PROVE SameUsers(Rotated(call[c].with))
    <2> DEFINE q == call[c].with
               row == [store[q] EXCEPT !.usedAt = IF @ = None THEN now ELSE @]
               s == [store EXCEPT ![q] = row]
    <2>1. q \in Token \cap Keys
      BY <1>1, <1>7 DEF TypeOK, Calls, Request, Keys, Held
    <2>2. row.user = store[q].user
      BY <1>2, <2>1 DEF Row
    <2>3. s = [store EXCEPT ![q].usedAt = IF @ = None THEN now ELSE @]
      BY <1>4, <2>1
    <2>4. Rotated(q) = [s EXCEPT ![Spare] = FreshRow(store[q].user)]
      BY <2>3, Zenon DEF Rotated, Insert
    <2> HIDE DEF row
    <2>5. \A k \in Token : s[k].user = store[k].user /\ DOMAIN s = Token
      BY <1>4, <2>1, <2>2
    <2> HIDE DEF s
    <2>6. \A k \in Token \cap Keys : Rotated(q)[k] = s[k]
      BY <1>3, <2>4, <2>5
    <2>7. QED
      BY <2>5, <2>6 DEF SameUsers
  <1>8. QED
    BY <1>5, <1>6, <1>7 DEF SameUsers


\* Requests of a page that goes.
LEMMA OrphanedFollow ==
    ASSUME Base, Base', NEW t, NEW c \in Calls,
           call' = Orphaned(t) \/ \E d \in Calls : call' = [Orphaned(t) EXCEPT ![d] = NoCall]
    PROVE  call'[c] = call[c] \/ Follows(c)'
  <1> DEFINE o == Orphaned(t)
             r == [call[c] EXCEPT !.tab = None]
  <1>1. DOMAIN call = Calls /\ call[c] \in Request
    BY DEF Base, TypeOK, Calls
  <1>2. \/ o[c] = call[c] \/ o[c] = NoCall
        \/ call[c].pc \in {"refresh", "logout"} /\ o[c] = r
    BY <1>1 DEF Orphaned
  <1>3. r.pc = call[c].pc /\ r.tab = None
    BY <1>1 DEF Request
  <1>4. DOMAIN o = Calls
    BY <1>1 DEF Orphaned
  <1> HIDE DEF o, r
  <1>5. call'[c] = o[c] \/ call'[c] = NoCall
    BY <1>4 DEF o
  <1>6. CASE call'[c] = call[c]
    BY <1>6
  <1>7. CASE call'[c] = NoCall
    <2>1. call'[c].pc \in {"idle", "api"}
      BY <1>7, NoCallIs
    <2>2. QED
      BY <2>1, FollowsIdle
  <1>8. CASE call[c].pc \in {"refresh", "logout"} /\ call'[c] = r
    <2>1. call'[c].pc \in {"refresh", "logout"} /\ call'[c].tab = None
      BY <1>3, <1>8
    <2>2. QED
      BY <2>1, FollowsIdle
  <1>9. QED
    BY <1>2, <1>5, <1>6, <1>7, <1>8

\* One request changes: it ends, goes to the API, or is sent with the cookie of the moment.
Ends(d) ==
    /\ \A e \in Calls \ {d} : call'[e] = call[e]
    /\ call'[d].pc \in {"idle", "api"}

Sends(d) ==
    /\ \A e \in Calls \ {d} : call'[e] = call[e]
    /\ call'[d].pc \in {"refresh", "logout"} /\ call'[d].with = jar.refresh
    /\ call'[d].new = Keep /\ call'[d].bearer = None

LEMMA EndsIs ==
    ASSUME Base, NEW d \in Calls, NEW r, call' = [call EXCEPT ![d] = r]
    PROVE  /\ r.pc \in {"idle", "api"} => Ends(d)
           /\ r.pc \in {"refresh", "logout"} /\ r.with = jar.refresh /\ r.new = Keep /\ r.bearer = None =>
                 Sends(d)
  <1>1. call'[d] = r /\ \A e \in Calls \ {d} : call'[e] = call[e]
    BY DEF Base, TypeOK, Calls
  <1>2. QED
    BY <1>1 DEF Ends, Sends

LEMMA EndedFollows ==
    ASSUME Base', NEW d \in Calls, Ends(d), NEW c \in Calls
    PROVE  call'[c] = call[c] \/ Follows(c)'
  <1>1. CASE c # d
    BY <1>1 DEF Ends
  <1>2. CASE c = d
    <2>1. call'[c].pc \in {"idle", "api"}
      BY <1>2 DEF Ends
    <2>2. QED
      BY <2>1, FollowsIdle
  <1>3. QED
    BY <1>1, <1>2

LEMMA ContinueFollows ==
    ASSUME Base, Base', NEW c \in Calls, NEW a, Continue(c, a), NEW d \in Calls
    PROVE  call'[d] = call[d] \/ Follows(d)'
  <1> DEFINE t == call[c].tab
             r == [NoCall EXCEPT !.tab = t, !.pc = "api", !.bearer = a, !.again = call[c].again]
  <1>1. CASE call' = [Orphaned(t) EXCEPT ![c] = NoCall]
    BY <1>1, OrphanedFollow
  <1>2. CASE call' = [call EXCEPT ![c] = NoCall]
    <2>1. Ends(c)
      BY <1>2, NoCallIs, EndsIs
    <2>2. QED
      BY <2>1, EndedFollows
  <1>3. CASE call' = [call EXCEPT ![c] = r]
    <2>1. r.pc = "api"
      BY DEF NoCall
    <2> HIDE DEF r
    <2>2. Ends(c)
      BY <1>3, <2>1, EndsIs
    <2>3. QED
      BY <2>2, EndedFollows
  <1>4. QED
    BY <1>1, <1>2, <1>3 DEF Continue

\* A step after which no request is new.
LEMMA QuietFollow ==
    ASSUME Base, Base', FollowInv, NEW t \in Tab,
           \/ GetPage(t) \/ Open(t) \/ Leave(t) \/ AuthorizeBySso(t) \/ AuthorizeByForm(t)
           \/ CallbackRefused(t) \/ CallbackAccepted(t) \/ CallbackFailed(t)
           \/ \E u \in User : Login(t, u)
    PROVE  FollowInv'
  <1>1. UNCHANGED <<jar, who>>
    BY DEF GetPage, Open, Leave, AuthorizeBySso, AuthorizeByForm, CallbackRefused, CallbackAccepted,
           CallbackFailed, Login
  <1>2. UNCHANGED call \/ call' = Orphaned(t)
    BY DEF GetPage, Open, Leave, AuthorizeBySso, AuthorizeByForm, CallbackRefused, CallbackAccepted,
           CallbackFailed, Login
  <1>3. Note(store) \/ \E u : Note(Insert(store, u))
    BY DEF GetPage, Open, Leave, AuthorizeBySso, AuthorizeByForm, CallbackRefused, CallbackAccepted,
           CallbackFailed, Login
  <1>4. PICK s : Note(s) /\ SameUsers(s)
    BY <1>3, SameUsersIs
  <1>5. \A c \in Calls : call'[c] = call[c] \/ Follows(c)'
    BY <1>2, OrphanedFollow
  <1>6. QED
    BY <1>1, <1>4, <1>5, FollowStep

\* A step of one request.
LEMMA OneFollows ==
    ASSUME Base, Base', FollowInv, Note(store), UNCHANGED <<jar, who>>, NEW d \in Calls, Ends(d) \/ Sends(d)
    PROVE  FollowInv'
  <1>1. ASSUME ~raced', NEW c \in Calls, Sends(d) PROVE call'[c] = call[c] \/ Follows(c)'
    <2>1. CASE c # d
      BY <1>1, <2>1 DEF Sends
    <2>2. CASE c = d
      <3>1. jar.refresh # None => store[jar.refresh].user = who
        BY <1>1, NoRace
      <3>2. ASSUME jar.refresh # None PROVE store'[jar.refresh].user = who'
        <4>1. jar.refresh \in Token /\ jar.refresh \in Held'
          BY <3>2 DEF Base, TypeOK, Jar, Held
        <4>2. QED
          BY <3>1, <3>2, <4>1, UsersKept
      <3>3. QED
        BY <1>1, <2>2, <3>2 DEF Sends, Follows, LoggingOut
    <2>3. QED
      BY <2>1, <2>2
  <1>2. \A c \in Calls : ~raced' => call'[c] = call[c] \/ Follows(c)'
    BY <1>1, EndedFollows
  <1>3. SameUsers(store)
    BY SameUsersIs
  <1>4. QED
    BY <1>2, <1>3, FollowStep

LEMMA SendFollow ==
    ASSUME Base, Base', FollowInv, NEW t \in Tab, NEW c \in Calls,
           Load(t) \/ LeaveScript(t) \/ Fetch(t, c) \/ Logout(t, c)
    PROVE  FollowInv'
  <1>1. Note(store) /\ UNCHANGED <<jar, who>> /\ t \in Calls
    BY DEF Load, LeaveScript, Fetch, Logout, Calls
  <1>2. CASE Load(t)
    <2> DEFINE r == Refresh(t, "boot", FALSE)
    <2>1. r.pc = "refresh" /\ r.with = jar.refresh /\ r.new = Keep /\ r.bearer = None
      BY DEF Refresh, NoCall
    <2>2. call' = [call EXCEPT ![t] = r]
      BY <1>2 DEF Load
    <2> HIDE DEF r
    <2>3. Sends(t)
      BY <1>1, <2>1, <2>2, EndsIs
    <2>4. QED
      BY <1>1, <2>3, OneFollows
  <1>3. CASE LeaveScript(t)
    <2> DEFINE r == [NoCall EXCEPT !.tab = t, !.kind = "leave", !.pc = "logout", !.with = jar.refresh]
    <2>1. r.pc = "logout" /\ r.with = jar.refresh /\ r.new = Keep /\ r.bearer = None
      BY DEF NoCall
    <2>2. call' = [call EXCEPT ![t] = r]
      BY <1>3 DEF LeaveScript
    <2> HIDE DEF r
    <2>3. Sends(t)
      BY <1>1, <2>1, <2>2, EndsIs
    <2>4. QED
      BY <1>1, <2>3, OneFollows
  <1>4. CASE Logout(t, c)
    <2> DEFINE r == [NoCall EXCEPT !.tab = t, !.kind = "logout", !.pc = "logout", !.with = jar.refresh]
    <2>1. r.pc = "logout" /\ r.with = jar.refresh /\ r.new = Keep /\ r.bearer = None
      BY DEF NoCall
    <2>2. call' = [call EXCEPT ![c] = r]
      BY <1>4 DEF Logout
    <2> HIDE DEF r
    <2>3. Sends(c)
      BY <2>1, <2>2, EndsIs
    <2>4. QED
      BY <1>1, <2>3, OneFollows
  <1>5. CASE Fetch(t, c)
    <2> DEFINE r == Refresh(t, "fetch", FALSE)
               a == [NoCall EXCEPT !.tab = t, !.pc = "api", !.bearer = page[t].token]
    <2>1. r.pc = "refresh" /\ r.with = jar.refresh /\ r.new = Keep /\ r.bearer = None
      BY DEF Refresh, NoCall
    <2>2. a.pc = "api"
      BY DEF NoCall
    <2>3. call' = [call EXCEPT ![c] = r] \/ call' = [call EXCEPT ![c] = a]
      BY <1>5 DEF Fetch
    <2> HIDE DEF r, a
    <2>4. CASE call' = [call EXCEPT ![c] = r]
      <3>1. Sends(c)
        BY <2>1, <2>4, EndsIs
      <3>2. QED
        BY <1>1, <3>1, OneFollows
    <2>5. CASE call' = [call EXCEPT ![c] = a]
      <3>1. Ends(c)
        BY <2>2, <2>5, EndsIs
      <3>2. QED
        BY <1>1, <3>1, OneFollows
    <2>6. QED
      BY <2>3, <2>4, <2>5
  <1>6. QED
    BY <1>2, <1>3, <1>4, <1>5

LEMMA ServeFollow ==
    ASSUME Base, Base', FollowInv, NEW c \in Calls, Serve(c) \/ Reject(c)
    PROVE  FollowInv'
  <1> DEFINE r == Refresh(call[c].tab, "fetch", TRUE)
  <1>1. Note(store) /\ UNCHANGED <<jar, who>>
    BY DEF Serve, Reject, Unauthorized
  <1>2. call' = [call EXCEPT ![c] = NoCall] \/ call' = [call EXCEPT ![c] = r]
    BY DEF Serve, Reject, Unauthorized
  <1>3. r.pc = "refresh" /\ r.with = jar.refresh /\ r.new = Keep /\ r.bearer = None
    BY DEF Refresh, NoCall
  <1> HIDE DEF r
  <1>4. CASE call' = [call EXCEPT ![c] = r]
    <2>1. Sends(c)
      BY <1>3, <1>4, EndsIs
    <2>2. QED
      BY <1>1, <2>1, OneFollows
  <1>5. CASE call' = [call EXCEPT ![c] = NoCall]
    <2>1. Ends(c)
      BY <1>5, NoCallIs, EndsIs
    <2>2. QED
      BY <1>1, <2>1, OneFollows
  <1>6. QED
    BY <1>2, <1>4, <1>5

LEMMA RespondFields ==
    ASSUME Base, NEW c \in Calls, NEW pc, NEW new, NEW a, Respond(c, pc, new, a)
    PROVE  /\ \A d \in Calls \ {c} : call'[d] = call[d]
           /\ call[c].tab = None => call'[c] = NoCall
           /\ call[c].tab # None => /\ call'[c].pc = pc /\ call'[c].tab = call[c].tab /\ call'[c].with = None
                                    /\ call'[c].new = new /\ call'[c].bearer = a
  <1> DEFINE g == [call[c] EXCEPT !.pc = pc, !.with = None, !.new = new, !.bearer = a]
  <1>1. call[c] \in Request /\ call \in [Calls -> Request]
    BY DEF Base, TypeOK, Calls
  <1>2. g.pc = pc /\ g.tab = call[c].tab /\ g.with = None /\ g.new = new /\ g.bearer = a
    BY <1>1 DEF Request
  <1>3. call' = [call EXCEPT ![c] = IF call[c].tab = None THEN NoCall ELSE g]
    BY <1>1 DEF Respond
  <1> HIDE DEF g
  <1>4. (\A d \in Calls \ {c} : call'[d] = call[d]) /\ call'[c] = IF call[c].tab = None THEN NoCall ELSE g
    BY <1>1, <1>3
  <1>5. QED
    BY <1>2, <1>4

LEMMA AnsweredFollow ==
    ASSUME Base, Base', FollowInv, NEW c \in Calls, Refuse(c) \/ Admit(c) \/ Expel(c) \/ EndSession(c)
    PROVE  FollowInv'
  <1> PICK k : k = call[c].with
    OBVIOUS
  <1>1. UNCHANGED <<jar, who>>
    BY DEF Refuse, Admit, Expel, EndSession
  <1>2. PICK s : Note(s) /\ SameUsers(s) /\ (Admit(c) => s = Rotated(k))
    <2>1. \/ Note(store) /\ ~Admit(c)
          \/ Note(Rotated(k)) /\ k # None
          \/ Note(Ended({k})) /\ ~Admit(c)
      BY DEF Refuse, Admit, Expel, EndSession, Good
    <2>2. QED
      BY <2>1, SameUsersIs
  <1>3. PICK pc, new, a :
          /\ Respond(c, pc, new, a)
          /\ \/ Admit(c) /\ pc = "refreshed" /\ new = Spare /\ a # None /\ a.sub = store[k].user
             \/ (Refuse(c) \/ Expel(c)) /\ pc = "refreshed" /\ new \in {None, Keep} /\ a = None
             \/ EndSession(c) /\ pc = "loggedOut" /\ new = ClearedBy(k)
    <2>1. CASE Admit(c)
      <3> DEFINE b == [sub |-> store[k].user, exp |-> now + AccessTtl]
      <3>1. b \in Access
        <4>1. store[k] \in Row
          BY <2>1, RotatedIs DEF Admit, Good
        <4>2. now + AccessTtl \in Int
          BY TimesAssumption DEF Base, TypeOK
        <4>3. QED
          BY <4>1, <4>2 DEF Access, Row
      <3>2. b # None /\ b.sub = store[k].user
        BY <3>1, MarksAssumption
      <3>3. Respond(c, "refreshed", Spare, b)
        BY <2>1 DEF Admit
      <3> HIDE DEF b
      <3>4. QED
        BY <2>1, <3>2, <3>3
    <2>2. CASE Refuse(c) \/ Expel(c)
      BY <2>2 DEF Refuse, Expel
    <2>3. CASE EndSession(c)
      BY <2>3 DEF EndSession
    <2>4. QED
      BY <2>1, <2>2, <2>3
  <1>4. ASSUME ~raced', NEW d \in Calls PROVE call'[d] = call[d] \/ Follows(d)'
    <2>1. CASE d # c
      BY <1>3, <2>1, RespondFields
    <2>2. CASE d = c /\ call[c].tab = None
      <3>1. call'[c].pc \in {"idle", "api"}
        BY <1>3, <2>2, RespondFields, NoCallIs
      <3>2. QED
        BY <2>2, <3>1, FollowsIdle
    <2>3. CASE d = c /\ call[c].tab # None
      <3>1. /\ call'[c].pc = pc /\ call'[c].tab # None /\ call'[c].with = None
            /\ call'[c].new = new /\ call'[c].bearer = a
        BY <1>3, <2>3, RespondFields
      <3>2. Follows(c) /\ c \in DOMAIN call
        BY <1>2, <1>4, NoRace DEF Base, TypeOK, Calls
      <3>3. CASE (Refuse(c) \/ Expel(c)) /\ pc = "refreshed" /\ new \in {None, Keep} /\ a = None
        BY <2>3, <3>1, <3>3 DEF Follows, LoggingOut
      <3>4. CASE EndSession(c) /\ pc = "loggedOut" /\ new = ClearedBy(k)
        <4>1. call[c].pc = "logout" /\ c \in LoggingOut
          BY <2>3, <3>2, <3>4 DEF EndSession, LoggingOut
        <4>2. new \in {None, Keep} /\ (new = Keep => k = None)
          BY <3>4, NamesAssumption DEF ClearedBy
        <4>3. k = None => jar.refresh = None
          BY <3>2, <4>1 DEF Follows
        <4>4. QED
          BY <1>1, <2>3, <3>1, <3>4, <4>2, <4>3 DEF Follows, Refreshing
      <3>5. CASE Admit(c) /\ pc = "refreshed" /\ new = Spare /\ a # None /\ a.sub = store[k].user
        <4>1. call[c].pc = "refresh" /\ c \in Refreshing /\ k # None
          BY <2>3, <3>2, <3>5 DEF Admit, Refreshing, Good
        <4>2. k \in Token
          BY <4>1 DEF Base, TypeOK, Calls, Request
        <4>3. store[k].user = who
          BY <3>2, <4>1, <4>2, NamesAssumption DEF Follows
        <4>4. Spare \in Token
          BY SpareIsFree DEF Base
        <4>5. Spare \in Held'
          <5>1. c \in DOMAIN call'
            BY DEF Base, TypeOK, Calls
          <5>2. call'[c].new = Spare
            BY <3>1, <3>5
          <5>3. QED
            BY <5>1, <5>2 DEF Held
        <4>6. store'[Spare] = Rotated(k)[Spare]
          BY <1>2, <3>5, <4>4, <4>5, UsersKept
        <4>7. Rotated(k)[Spare].user = store[k].user
          <5>1. store \in [Token -> Row \cup {None}]
            BY DEF Base, TypeOK
          <5>2. Rotated(k)[Spare] = FreshRow(store[k].user)
            BY <4>4, <5>1 DEF Rotated, Insert
          <5>3. QED
            BY <5>2 DEF FreshRow
        <4>8. QED
          <5>1. store'[new].user = who' /\ a.sub = who'
            BY <1>1, <3>5, <4>3, <4>6, <4>7
          <5>2. QED
            BY <2>3, <3>1, <3>5, <5>1 DEF Follows, LoggingOut
      <3>6. QED
        BY <1>3, <3>3, <3>4, <3>5
    <2>4. QED
      BY <2>1, <2>2, <2>3
  <1>5. QED
    BY <1>1, <1>2, <1>4, FollowStep

LEMMA LostFollow ==
    ASSUME Base, Base', FollowInv, NEW c \in Calls, LoseRefresh(c) \/ LoseLogout(c)
    PROVE  FollowInv'
  <1>1. Note(store) /\ UNCHANGED <<jar, who>> /\ SameUsers(store)
    BY SameUsersIs DEF LoseRefresh, LoseLogout
  <1>2. ASSUME NEW d \in Calls PROVE call'[d] = call[d] \/ Follows(d)'
    <2>1. CASE LoseRefresh(c)
      BY <2>1, ContinueFollows DEF LoseRefresh
    <2>2. CASE LoseLogout(c)
      <3>1. call' = [call EXCEPT ![c] = NoCall]
        BY <2>2 DEF LoseLogout, AfterLogout
      <3>2. Ends(c)
        BY <3>1, NoCallIs, EndsIs
      <3>3. QED
        BY <3>2, EndedFollows
    <2>3. QED
      BY <2>1, <2>2
  <1>3. QED
    BY <1>1, <1>2, FollowStep

LEMMA ServerFollow ==
    ASSUME Base, Base', FollowInv, (\E u \in User : Reset(u) \/ ChangeAccess(u)) \/ Tick
    PROVE  FollowInv'
  <1>1. UNCHANGED <<jar, who, call>>
    BY DEF Reset, ChangeAccess, Tick
  <1>2. PICK s : Note(s) /\ SameUsers(s)
    BY SameUsersIs DEF Reset, ChangeAccess, Tick
  <1>3. QED
    BY <1>1, <1>2, FollowStep

LEMMA StillFollow ==
    ASSUME Base, Base', FollowInv, CookieExpires \/ UNCHANGED vars
    PROVE  FollowInv'
  <1>1. UNCHANGED <<page, call, store, who, raced>> /\ jar'.refresh = jar.refresh
    BY DEF CookieExpires, vars, Base, TypeOK, Jar
  <1>2. QED
    BY <1>1 DEF FollowInv, Follows, Clash, Refreshing, LoggingOut, LoggingIn

LEMMA ArriveFollow ==
    ASSUME Base, Base', FollowInv, NEW t \in Tab, Arrive(t)
    PROVE  FollowInv'
  <1>1. /\ Note(store) /\ call' = call /\ jar' = After(page[t].new)
        /\ who' = IF page[t].new.refresh = Keep THEN who ELSE store[page[t].new.refresh].user
    BY DEF Arrive
  <1> PICK k : k = page[t].new.refresh
    OBVIOUS
  <1>2. k \in Token \cup {Keep} /\ k \in Held /\ jar'.refresh = IF k = Keep THEN jar.refresh ELSE k
    <2>1. TypeOK /\ page[t].new \in SetCookies /\ k # None
      BY DEF Base, TypeOK, Page, HeldInv
    <2>2. QED
      BY <1>1, <2>1, AfterIsJar DEF SetCookies, Held
  <1>3. SameUsers(store)
    BY SameUsersIs
  <1>4. CASE k = Keep
    BY <1>1, <1>2, <1>3, <1>4, FollowStep
  <1>5. CASE k # Keep
    <2> SUFFICES ASSUME ~raced'
                 PROVE  ~Clash' /\ (jar'.refresh # None => store'[jar'.refresh].user = who')
                        /\ \A c \in Calls : Follows(c)'
      BY DEF FollowInv, Calls
    <2>1. ~Clash' /\ ~Clash /\ \A c \in Calls : Follows(c)
      BY <1>1, NoRace
    <2>2. t \in LoggingIn
      BY <1>5 DEF LoggingIn
    <2>3. LoggingOut = {} /\ Refreshing = {}
      BY <2>1, <2>2, ClashIs
    <2>4. \A c \in Calls : Follows(c)'
      BY <1>1, <1>3, <2>1, <2>3, FollowsStays
    <2>5. store'[k] = store[k]
      <3>1. k \in Token /\ k \in Held'
        BY <1>2, <1>5 DEF Held
      <3>2. QED
        BY <1>1, <3>1, UsersKept
    <2>6. QED
      BY <1>1, <1>2, <1>5, <2>1, <2>4, <2>5
  <1>6. QED
    BY <1>4, <1>5

LEMMA BootstrappedFollow ==
    ASSUME Base, Base', FollowInv, NEW c \in Calls, Bootstrapped(c)
    PROVE  FollowInv'
  <1>1. Note(store) /\ who' = who /\ call[c].pc = "refreshed" /\ SameUsers(store)
    BY SameUsersIs DEF Bootstrapped
  <1> SUFFICES ASSUME ~raced'
               PROVE  ~Clash' /\ (jar'.refresh # None => store'[jar'.refresh].user = who')
                      /\ \A d \in Calls : Follows(d)'
    BY DEF FollowInv, Calls
  <1>2. /\ ~Clash' /\ ~Clash /\ \A d \in Calls : Follows(d)
        /\ jar.refresh # None => store[jar.refresh].user = who
    BY <1>1, NoRace
  <1>3. c \in Refreshing
    BY <1>1, <1>2 DEF Follows, Refreshing, Base, TypeOK, Calls
  <1>4. LoggingOut = {}
    BY <1>2, <1>3, ClashIs
  <1>5. ASSUME NEW d \in Calls PROVE Follows(d)'
    <2>1. call'[d] = call[d] \/ Follows(d)'
      BY ContinueFollows DEF Bootstrapped
    <2>2. QED
      BY <1>1, <1>2, <1>4, <2>1, FollowsStays
  <1>6. ASSUME jar'.refresh # None PROVE store'[jar'.refresh].user = who'
    <2> PICK k : k = jar'.refresh
      OBVIOUS
    <2>1. call[c].new \in Token \cup {None, Keep} /\ call[c].new \in Held /\ jar.refresh \in Held /\ TypeOK
      BY DEF Base, TypeOK, Calls, Request, Held
    <2>2. k = IF call[c].new = Keep THEN jar.refresh ELSE call[c].new
      BY <2>1, AfterRefresh DEF Bootstrapped
    <2>3. k \in Token /\ k \in Held /\ k \in Held'
      BY <1>6, <2>1, <2>2 DEF Base, TypeOK, Jar, Held
    <2>4. store[k].user = who
      BY <1>2, <1>3, <1>6, <2>2 DEF Follows
    <2>5. QED
      BY <1>1, <2>3, <2>4, UsersKept
  <1>7. QED
    BY <1>2, <1>5, <1>6

LEMMA LoggedOutFollow ==
    ASSUME Base, Base', FollowInv, NEW c \in Calls, LoggedOut(c)
    PROVE  FollowInv'
  <1>1. Note(store) /\ call[c].pc = "loggedOut" /\ SameUsers(store) /\ call' = [call EXCEPT ![c] = NoCall]
    BY SameUsersIs DEF LoggedOut, AfterLogout
  <1> SUFFICES ASSUME ~raced'
               PROVE  ~Clash' /\ (jar'.refresh # None => store'[jar'.refresh].user = who')
                      /\ \A d \in Calls : Follows(d)'
    BY DEF FollowInv, Calls
  <1>2. ~Clash' /\ ~Clash /\ \A d \in Calls : Follows(d)
    BY <1>1, NoRace
  <1>3. c \in LoggingOut
    BY <1>1, <1>2 DEF Follows, LoggingOut, Base, TypeOK, Calls
  <1>4. Refreshing = {} /\ \A d \in LoggingOut : d = c
    BY <1>2, <1>3, ClashIs
  <1>5. ASSUME NEW d \in Calls PROVE Follows(d)'
    <2>1. Ends(c)
      BY <1>1, NoCallIs, EndsIs
    <2>2. CASE d = c
      <3>1. call'[c].pc \in {"idle", "api"}
        BY <2>1 DEF Ends
      <3>2. QED
        BY <2>2, <3>1, FollowsIdle
    <2>3. CASE d # c
      BY <1>1, <1>2, <1>4, <2>1, <2>3, FollowsStays DEF Ends
    <2>4. QED
      BY <2>2, <2>3
  <1>6. jar'.refresh = None
    <2>1. TypeOK /\ call[c].with = None /\ call[c].new \in {None, Keep}
      BY <1>1, <1>2 DEF Follows, Base
    <2>2. jar'.refresh = IF call[c].new = Keep THEN jar.refresh ELSE call[c].new
      BY <2>1, AfterRefresh DEF LoggedOut
    <2>3. call[c].new = Keep => jar.refresh = None
      BY <1>2, <1>3, <2>1 DEF Follows
    <2>4. QED
      BY <2>1, <2>2, <2>3
  <1>7. QED
    BY <1>2, <1>5, <1>6

LEMMA NextFollow ==
    ASSUME Base, Base', FollowInv, [Next]_vars
    PROVE  FollowInv'
  <1>1. CASE UNCHANGED vars \/ CookieExpires
    BY <1>1, StillFollow
  <1>2. ASSUME NEW t \in Tab, TabStep(t) \/ Open(t) \/ CallbackFailed(t) \/ Leave(t)
        PROVE  FollowInv'
    <2>1. t \in Calls
      BY DEF Calls
    <2>2. CASE \/ GetPage(t) \/ Open(t) \/ Leave(t) \/ AuthorizeBySso(t) \/ AuthorizeByForm(t)
               \/ CallbackRefused(t) \/ CallbackAccepted(t) \/ CallbackFailed(t)
      BY <2>2, QuietFollow
    <2>3. CASE Arrive(t)
      BY <2>3, ArriveFollow
    <2>4. CASE Load(t) \/ LeaveScript(t)
      BY <2>1, <2>4, SendFollow
    <2>5. QED
      BY <1>2, <2>2, <2>3, <2>4 DEF TabStep
  <1>3. ASSUME NEW t \in Tab, NEW u \in User, Login(t, u) PROVE FollowInv'
    BY <1>3, QuietFollow
  <1>4. ASSUME NEW t \in Tab, NEW c \in Calls, Fetch(t, c) \/ Logout(t, c) PROVE FollowInv'
    BY <1>4, SendFollow
  <1>5. ASSUME NEW c \in Calls, CallStep(c) \/ LoseRefresh(c) \/ LoseLogout(c) PROVE FollowInv'
    BY <1>5, ServeFollow, AnsweredFollow, BootstrappedFollow, LoggedOutFollow, LostFollow DEF CallStep
  <1>6. CASE (\E u \in User : Reset(u) \/ ChangeAccess(u)) \/ Tick
    BY <1>6, ServerFollow
  <1>7. QED
    BY <1>1, <1>2, <1>3, <1>4, <1>5, <1>6 DEF Next, Calls

-----------------------------------------------------------------------------
(* Tokens under way. *)

LEMMA CarrierIs ==
    /\ \A c \in Calls : <<c, "call">> \in Carrier /\ Brings(<<c, "call">>) = call[c].new
    /\ \A t \in Tab : <<t, "page">> \in Carrier /\ Brings(<<t, "page">>) = page[t].new.refresh
    /\ \A h \in Carrier : (\E c \in Calls : h = <<c, "call">>) \/ (\E t \in Tab : h = <<t, "page">>)
    /\ \A c \in Calls : Brings(<<c, "call">>)' = call'[c].new
    /\ \A t \in Tab : Brings(<<t, "page">>)' = page'[t].new.refresh
    /\ \A c \in Calls : \A t \in Tab : <<c, "call">> # <<t, "page">>
  <1>1. /\ \A c \in Calls : <<c, "call">> \in Carrier /\ Brings(<<c, "call">>) = call[c].new
        /\ \A t \in Tab : <<t, "page">> \in Carrier /\ Brings(<<t, "page">>) = page[t].new.refresh
        /\ \A h \in Carrier : (\E c \in Calls : h = <<c, "call">>) \/ (\E t \in Tab : h = <<t, "page">>)
    BY DEF Carrier, Brings, Calls
  <1>2. /\ \A c \in Calls : Brings(<<c, "call">>)' = call'[c].new
        /\ \A t \in Tab : Brings(<<t, "page">>)' = page'[t].new.refresh
    BY DEF Brings
  <1>3. \A c \in Calls : \A t \in Tab : <<c, "call">> # <<t, "page">>
    OBVIOUS
  <1>4. QED
    BY <1>1, <1>2, <1>3

LEMMA BringsIs ==
    ASSUME Base, NEW h \in Carrier
    PROVE  Brings(h) \in Token \cup {None, Keep} /\ Brings(h) \in Held
  <1>1. CASE \E c \in Calls : h = <<c, "call">>
    BY <1>1, CarrierIs DEF Base, TypeOK, Calls, Request, Held
  <1>2. CASE \E t \in Tab : h = <<t, "page">>
    BY <1>2, CarrierIs DEF Base, TypeOK, Page, SetCookies, Held
  <1>3. QED
    BY <1>1, <1>2, CarrierIs

LEMMA BringsAfter ==
    ASSUME Base', NEW h \in Carrier
    PROVE  Brings(h)' \in Held'
  <1>1. CASE \E c \in Calls : h = <<c, "call">>
    BY <1>1, CarrierIs DEF Base, TypeOK, Calls, Held
  <1>2. CASE \E t \in Tab : h = <<t, "page">>
    BY <1>2, CarrierIs DEF Held
  <1>3. QED
    BY <1>1, <1>2, CarrierIs

\* Request c, page t, bring nothing new after the step.
CallKeeps(c) ==
    /\ call'[c].new \in {None, Keep, call[c].new}
    /\ call'[c].with \in {None, jar.refresh, call[c].with}

PageKeeps(t) == page'[t].new.refresh \in {None, Keep, page[t].new.refresh}

\* The tokens that were held are used as before, or ended.
SameUse(s) ==
    \A k \in Token \cap Keys :
        \/ s[k].ended /\ s[k].usedAt = None
        \/ s[k].usedAt = store[k].usedAt /\ s[k].ended = store[k].ended

LEMMA SameUseIs ==
    ASSUME Base
    PROVE  SameUse(store) /\ (\A K : SameUse(Ended(K))) /\ \A u : SameUse(Insert(store, u))
  <1>1. TypeOK /\ HeldInv
    BY DEF Base
  <1>2. \A k \in Token \cap Keys : store[k] \in Row
    BY <1>1, StoreIs
  <1>3. Spare \in Token /\ Spare \notin Keys
    BY <1>1, SpareIsFree, NamesAssumption DEF Keys
  <1>4. store \in [Token -> Row \cup {None}]
    BY <1>1 DEF TypeOK
  <1>5. ASSUME NEW K PROVE SameUse(Ended(K))
    BY <1>2, <1>4 DEF SameUse, Ended, Row
  <1>6. ASSUME NEW u PROVE SameUse(Insert(store, u))
    BY <1>3, <1>4 DEF SameUse, Insert
  <1>7. QED
    BY <1>5, <1>6 DEF SameUse

\* Carrier m gets the spare token, or nobody does.
LEMMA FreshStep ==
    ASSUME Base, Base', FreshInv, NEW s, Note(s), NEW m,
           \A h \in Carrier \ {m} : Brings(h)' \in {None, Keep, Brings(h)},
           m \in Carrier => Brings(m)' = Spare /\ jar'.refresh = jar.refresh /\ s[Spare].usedAt = None,
           \/ jar'.refresh \in {None, jar.refresh}
           \/ \E g \in Carrier : Brings(g) = jar'.refresh /\ Brings(g)' = Keep,
           \A c \in Calls : call'[c].with \in {None, jar.refresh, call[c].with},
           \A k \in Token \cap Keys : \/ s[k].usedAt \in {None, store[k].usedAt}
                                      \/ \E c \in Calls : call[c].with = k
    PROVE  FreshInv'
  <1> SUFFICES ASSUME NEW h \in Carrier, Brings(h)' \in Token
               PROVE  /\ store'[Brings(h)'].usedAt = None /\ jar'.refresh # Brings(h)'
                      /\ \A c \in Calls : call'[c].with # Brings(h)'
                      /\ \A g \in Carrier : Brings(g)' = Brings(h)' => g = h
    BY DEF FreshInv, Calls
  <1> PICK k : k = Brings(h)'
    OBVIOUS
  <1>1. k \in Token /\ k \in Held' /\ k # None /\ k # Keep /\ store'[k] = s[k]
    <2>1. Brings(h)' \in Held'
      BY BringsAfter
    <2>2. QED
      BY <2>1, UsersKept, NamesAssumption
  <1>2. Spare \notin Held /\ \A g \in Carrier : Brings(g) \in Held
    BY BringsIs, SpareIsFree DEF Base
  <1>3. jar.refresh \in Held /\ \A c \in Calls : call[c].with \in Held
    BY DEF Held, Base, TypeOK, Calls
  <1>4. CASE h = m
    <2>1. k = Spare /\ jar'.refresh = jar.refresh /\ s[k].usedAt = None
      BY <1>4
    <2>2. \A g \in Carrier : Brings(g)' = k => g = h
      BY <1>1, <1>2, <1>4, <2>1
    <2>3. \A c \in Calls : call'[c].with # k
      BY <1>1, <1>2, <1>3, <2>1
    <2>4. QED
      BY <1>1, <1>2, <1>3, <2>1, <2>2, <2>3
  <1>5. CASE h # m
    <2>1. k = Brings(h)
      BY <1>1, <1>5
    <2>2. /\ store[k].usedAt = None /\ jar.refresh # k
          /\ \A c \in Calls : call[c].with # k
          /\ \A g \in Carrier : Brings(g) = k => g = h
      BY <1>1, <2>1 DEF FreshInv, Calls
    <2>3. s[k].usedAt = None
      <3>1. k \in Token \cap Keys
        BY <1>1, <1>2, <2>1 DEF Keys
      <3>2. QED
        BY <2>2, <3>1
    <2>4. \A c \in Calls : call'[c].with # k
      BY <1>1, <2>2
    <2>5. \A g \in Carrier : Brings(g)' = k => g = h
      BY <1>1, <1>2, <2>1, <2>2
    <2>6. jar'.refresh # k
      BY <1>1, <2>2
    <2>7. QED
      BY <1>1, <2>3, <2>4, <2>5, <2>6
  <1>6. QED
    BY <1>4, <1>5

\* Steps that mint nothing.
LEMMA FreshStill ==
    ASSUME Base, Base', FreshInv, NEW s, Note(s), SameUse(s),
           \/ jar'.refresh \in {None, jar.refresh}
           \/ \E g \in Carrier : Brings(g) = jar'.refresh /\ Brings(g)' = Keep,
           \A c \in Calls : CallKeeps(c), \A t \in Tab : PageKeeps(t)
    PROVE  FreshInv'
  <1>1. ASSUME NEW h \in Carrier PROVE Brings(h)' \in {None, Keep, Brings(h)}
    <2>1. CASE \E c \in Calls : h = <<c, "call">>
      BY <2>1, CarrierIs DEF CallKeeps
    <2>2. CASE \E t \in Tab : h = <<t, "page">>
      BY <2>2, CarrierIs DEF PageKeeps
    <2>3. QED
      BY <2>1, <2>2, CarrierIs
  <1>2. \A c \in Calls : call'[c].with \in {None, jar.refresh, call[c].with}
    BY DEF CallKeeps
  <1>3. \A k \in Token \cap Keys : s[k].usedAt \in {None, store[k].usedAt}
    BY DEF SameUse
  <1>4. <<None, "none">> \notin Carrier
    BY DEF Carrier
  <1>5. QED
    BY <1>1, <1>2, <1>3, <1>4, FreshStep

\* Request c stays as it is, or is in time after the step and brought nothing to the browser.
Calm(c) == call'[c] = call[c] \/ (Quick(c)' /\ ~Replaces(c))

\* What a token's row says stays true of a token that is still held.
LEMMA RecentStays ==
    ASSUME Base, Base', NEW s, Note(s), SameUse(s), now' = now, NEW k \in Token, k \in Held, k \in Held'
    PROVE  /\ Recent(k) => Recent(k)'
           /\ store[k].ended \/ store[k].usedAt = None => store'[k].ended \/ store'[k].usedAt = None
           /\ store[k].usedAt = None => store'[k].usedAt = None
  <1>1. store'[k] = s[k] /\ k \in Token \cap Keys
    BY UsersKept DEF Keys
  <1>2. \/ s[k].ended /\ s[k].usedAt = None
        \/ s[k].usedAt = store[k].usedAt /\ s[k].ended = store[k].ended
    BY <1>1 DEF SameUse
  <1>3. QED
    BY <1>1, <1>2 DEF Recent

\* A request that stays as it is stays in time.
LEMMA QuickStays ==
    ASSUME Base, Base', NEW s, Note(s), SameUse(s), now' = now, NEW c \in Calls, Quick(c), call'[c] = call[c]
    PROVE  Quick(c)'
  <1> PICK k : k = call[c].with
    OBVIOUS
  <1>1. ASSUME k # None PROVE Recent(k) => Recent(k)'
    <2>1. k \in Token /\ k \in Held /\ k \in Held'
      BY <1>1 DEF Base, TypeOK, Calls, Request, Held
    <2>2. QED
      BY <2>1, RecentStays
  <1>2. call[c].pc = "refresh" /\ k # None => Recent(k)'
    BY <1>1 DEF Quick
  <1>3. call[c].pc \in {"refresh", "refreshed", "api"} => call[c].tab # None
    BY DEF Quick
  <1>4. QED
    BY <1>2, <1>3 DEF Quick, Recent

\* The refresh cookie stays, or is a new one.
LEMMA SmoothStep ==
    ASSUME Base, Base', SmoothInv, NEW s, Note(s), SameUse(s), now' = now, smooth' => smooth,
           smooth' => \A c \in Calls : call'[c] = call[c] \/ Quick(c)',
           \/ jar'.refresh = jar.refresh /\ (smooth' => \A c \in Calls : Replaces(c) => Replaces(c)')
           \/ jar'.refresh = None
           \/ jar'.refresh \in Held /\ store[jar'.refresh].usedAt = None
    PROVE  SmoothInv'
  <1> SUFFICES ASSUME smooth'
               PROVE  /\ \A c \in Calls : Quick(c)'
                      /\ jar'.refresh # None =>
                            /\ Recent(jar.refresh)'
                            /\ \/ store'[jar'.refresh].ended \/ store'[jar'.refresh].usedAt = None
                               \/ \E c \in Calls : Replaces(c)'
    BY DEF SmoothInv, Calls, Recent
  <1>1. \A c \in Calls : Quick(c)
    BY DEF SmoothInv, Calls
  <1>2. \A c \in Calls : Quick(c)'
    BY <1>1, QuickStays
  <1>3. ASSUME jar'.refresh # None
        PROVE  /\ Recent(jar.refresh)'
               /\ \/ store'[jar'.refresh].ended \/ store'[jar'.refresh].usedAt = None
                  \/ \E c \in Calls : Replaces(c)'
    <2> PICK k : k = jar'.refresh
      OBVIOUS
    <2>1. k \in Token /\ k \in Held'
      BY <1>3 DEF Base, TypeOK, Jar, Held
    <2>2. CASE k = jar.refresh /\ \A c \in Calls : Replaces(c) => Replaces(c)'
      <3>1. k \in Held
        BY <2>2 DEF Held
      <3>2. /\ Recent(k)
            /\ store[k].ended \/ store[k].usedAt = None \/ \E c \in Calls : Replaces(c)
        BY <1>3, <2>2 DEF SmoothInv, Calls
      <3>3. Recent(k)' /\ (store'[k].ended \/ store'[k].usedAt = None \/ \E c \in Calls : Replaces(c)')
        BY <2>1, <2>2, <3>1, <3>2, RecentStays
      <3>4. Recent(jar.refresh)'
        BY <3>3 DEF Recent
      <3>5. QED
        BY <3>3, <3>4
    <2>3. CASE k \in Held /\ store[k].usedAt = None
      <3>1. store'[k].usedAt = None
        BY <2>1, <2>3, RecentStays
      <3>2. QED
        BY <3>1 DEF Recent
    <2>4. QED
      BY <1>3, <2>2, <2>3
  <1>4. QED
    BY <1>2, <1>3

\* Steps that mint nothing, leave the refresh cookie, and bring nothing.
LEMMA TokenStill ==
    ASSUME Base, Base', FreshInv, SmoothInv, NEW s, Note(s), SameUse(s), now' = now,
           jar'.refresh = jar.refresh, smooth' => smooth, \A t \in Tab : PageKeeps(t),
           \A c \in Calls : CallKeeps(c), smooth' => \A c \in Calls : Calm(c)
    PROVE  FreshInv' /\ SmoothInv'
  <1>1. FreshInv'
    BY FreshStill
  <1>2. smooth' => \A c \in Calls : call'[c] = call[c] \/ Quick(c)'
    BY DEF Calm
  <1>3. ASSUME smooth', NEW c \in Calls, Replaces(c) PROVE Replaces(c)'
    <2>1. call'[c] = call[c]
      BY <1>3 DEF Calm
    <2>2. QED
      BY <1>3, <2>1 DEF Replaces
  <1>4. QED
    BY <1>1, <1>2, <1>3, SmoothStep

\* A page gets no refresh token but in a login.
LEMMA PageKept ==
    ASSUME Base, NEW q, NEW p, page' = [page EXCEPT ![q] = p],
           q \in Tab => p.new.refresh = Keep \/ p.new = page[q].new
    PROVE  \A t \in Tab : PageKeeps(t)
  <1>1. page \in [Tab -> Page]
    BY DEF Base, TypeOK
  <1>2. \A t \in Tab : page'[t] = IF t = q THEN p ELSE page[t]
    BY <1>1
  <1>3. QED
    BY <1>2 DEF PageKeeps

LEMMA PagesKeep ==
    ASSUME Base, NEW t \in Tab,
           \/ GetPage(t) \/ Arrive(t) \/ Open(t) \/ Leave(t) \/ AuthorizeByForm(t) \/ Load(t)
           \/ CallbackRefused(t) \/ CallbackAccepted(t) \/ CallbackFailed(t)
    PROVE  \A q \in Tab : PageKeeps(q)
  <1>1. page \in [Tab -> Page] /\ page[t] \in Page
    BY DEF Base, TypeOK
  <1>2. ASSUME NEW place, NEW state, Answer(t, place, state) PROVE \A q \in Tab : PageKeeps(q)
    <2> DEFINE p == [Blank EXCEPT !.at = "wait", !.next = place, !.new.state = state]
    <2>1. p.new.refresh = Keep
      BY DEF Blank, KeepAll
    <2>2. page' = [page EXCEPT ![t] = p]
      BY <1>2 DEF Answer
    <2> HIDE DEF p
    <2>3. QED
      BY <2>1, <2>2, PageKept
  <1>3. ASSUME NEW a, page' = [page EXCEPT ![t].at = a] PROVE \A q \in Tab : PageKeeps(q)
    <2> DEFINE p == [page[t] EXCEPT !.at = a]
    <2>1. p.new = page[t].new /\ page' = [page EXCEPT ![t] = p]
      BY <1>1, <1>3 DEF Page
    <2> HIDE DEF p
    <2>2. QED
      BY <2>1, PageKept
  <1>4. CASE \E n \in Nonce :
                page' = [page EXCEPT ![t] = [Blank EXCEPT !.at = "wait", !.next = "authorize",
                                                  !.nonce = n, !.new.state = n]]
    <2> PICK n \in Nonce :
                page' = [page EXCEPT ![t] = [Blank EXCEPT !.at = "wait", !.next = "authorize",
                                                  !.nonce = n, !.new.state = n]]
      BY <1>4
    <2> DEFINE p == [Blank EXCEPT !.at = "wait", !.next = "authorize", !.nonce = n, !.new.state = n]
    <2>1. p.new.refresh = Keep
      BY DEF Blank, KeepAll
    <2>2. page' = [page EXCEPT ![t] = p]
      OBVIOUS
    <2> HIDE DEF p
    <2>3. QED
      BY <2>1, <2>2, PageKept
  <1>5. CASE GetPage(t)
    <2>1. CASE page' = [page EXCEPT ![t].at = "load"]
      BY <1>3, <2>1
    <2>2. (CHOOSE n \in Nonce : n # jar.state /\ \A q \in Tab : n # page[q].nonce) \in Nonce
      BY NonceIsFree DEF Base
    <2>3. QED
      BY <1>4, <1>5, <2>1, <2>2 DEF GetPage
  <1>6. CASE Arrive(t)
    <2> DEFINE p == [page[t] EXCEPT !.at = page[t].next, !.next = "closed", !.new = KeepAll]
    <2>1. p.new.refresh = Keep /\ page' = [page EXCEPT ![t] = p]
      BY <1>1, <1>6, KeepAllIs DEF Arrive, Page
    <2> HIDE DEF p
    <2>2. QED
      BY <2>1, PageKept
  <1>7. CASE Open(t)
    BY <1>7, BlankIs, KeepAllIs, PageKept DEF Open
  <1>8. CASE Leave(t)
    <2> DEFINE p == [Blank EXCEPT !.at = "leave"]
    <2>1. p.new.refresh = Keep
      BY DEF Blank, KeepAll
    <2>2. page' = [page EXCEPT ![t] = p]
      BY <1>8 DEF Leave
    <2> HIDE DEF p
    <2>3. QED
      BY <2>1, <2>2, PageKept
  <1>9. CASE AuthorizeByForm(t) \/ Load(t)
    BY <1>3, <1>9 DEF AuthorizeByForm, Load
  <1>10. CASE CallbackRefused(t) \/ CallbackAccepted(t) \/ CallbackFailed(t)
    BY <1>2, <1>10 DEF CallbackRefused, CallbackAccepted, CallbackFailed
  <1>11. QED
    BY <1>5, <1>6, <1>7, <1>8, <1>9, <1>10

LEMMA SettledPages ==
    ASSUME Base, NEW t \in Tab \cup {None}, NEW a,
           page' = [page EXCEPT ![t] = Visit] \/ page' = [page EXCEPT ![t] = [@ EXCEPT !.token = a]]
    PROVE  \A q \in Tab : PageKeeps(q)
  <1>1. page \in [Tab -> Page]
    BY DEF Base, TypeOK
  <1>2. CASE page' = [page EXCEPT ![t] = Visit]
    BY <1>2, BlankIs, KeepAllIs, PageKept
  <1>3. CASE page' = [page EXCEPT ![t] = [@ EXCEPT !.token = a]]
    <2> DEFINE p == [page[t] EXCEPT !.token = a]
    <2>1. t \in Tab => p.new = page[t].new
      BY <1>1 DEF Page
    <2>2. page' = [page EXCEPT ![t] = p]
      BY <1>3
    <2> HIDE DEF p
    <2>3. QED
      BY <2>1, <2>2, PageKept
  <1>4. QED
    BY <1>2, <1>3

LEMMA ContinuedPages ==
    ASSUME Base, NEW c \in Calls, NEW a, Continue(c, a)
    PROVE  \A q \in Tab : PageKeeps(q)
  <1> PICK t \in Tab \cup {None} : t = call[c].tab
    BY DEF Base, TypeOK, Calls, Request
  <1>1. page' = [page EXCEPT ![t] = Visit] \/ page' = [page EXCEPT ![t] = [@ EXCEPT !.token = a]]
    BY DEF Continue
  <1>2. QED
    BY <1>1, SettledPages

LEMMA LogoutPages ==
    ASSUME Base, NEW c \in Calls, AfterLogout(c)
    PROVE  \A q \in Tab : PageKeeps(q)
  <1> PICK t \in Tab \cup {None} : t = call[c].tab
    BY DEF Base, TypeOK, Calls, Request
  <1>1. page' = [page EXCEPT ![t] = Visit] \/ page' = [page EXCEPT ![t] = [@ EXCEPT !.token = None]]
    BY DEF AfterLogout
  <1>2. QED
    BY <1>1, SettledPages

\* Request c ends, goes to the API, or is sent with the cookie of the moment.
Waits(r) == r.pc \in {"refresh", "refreshed", "api"}

Sets(c) ==
    /\ \A e \in Calls \ {c} : call'[e] = call[e]
    /\ call'[c].with \in {None, jar.refresh} /\ call'[c].new = Keep
    /\ Waits(call'[c]) => call'[c].tab # None \/ (Waits(call[c]) /\ call'[c].tab = call[c].tab)

LEMMA SetsIs ==
    ASSUME Base, NEW c \in Calls, NEW r, call' = [call EXCEPT ![c] = r],
           r.with \in {None, jar.refresh}, r.new = Keep,
           Waits(r) => r.tab # None \/ (Waits(call[c]) /\ r.tab = call[c].tab)
    PROVE  Sets(c)
  <1>1. call'[c] = r /\ \A e \in Calls \ {c} : call'[e] = call[e]
    BY DEF Base, TypeOK, Calls
  <1>2. QED
    BY <1>1 DEF Sets

LEMMA SetsKeeps ==
    ASSUME NEW c \in Calls, Sets(c)
    PROVE  \A d \in Calls : CallKeeps(d)
  <1>1. ASSUME NEW d \in Calls PROVE CallKeeps(d)
    <2>1. CASE d = c
      BY <2>1 DEF Sets, CallKeeps
    <2>2. CASE d # c
      BY <2>2 DEF Sets, CallKeeps
    <2>3. QED
      BY <2>1, <2>2
  <1>2. QED
    BY <1>1

LEMMA SetsCalm ==
    ASSUME Base, Base', SmoothInv, NEW s, Note(s), SameUse(s), now' = now, smooth,
           NEW c \in Calls, Sets(c), ~Replaces(c)
    PROVE  \A d \in Calls : Calm(d)
  <1>1. Quick(c) /\ (jar.refresh # None => Recent(jar.refresh))
    BY DEF SmoothInv, Calls
  <1>2. Waits(call'[c]) => call'[c].tab # None
    BY <1>1 DEF Sets, Quick, Waits
  <1> PICK k : k = jar.refresh
    OBVIOUS
  <1>3. ASSUME call'[c].with # None PROVE call'[c].with = k /\ Recent(k)'
    <2>1. call'[c].with = k /\ k # None
      BY <1>3 DEF Sets
    <2>2. k \in Token /\ k \in Held /\ k \in Held'
      <3>1. k \in Token /\ k \in Held
        BY <2>1 DEF Base, TypeOK, Jar, Held
      <3>2. c \in DOMAIN call'
        BY DEF Base, TypeOK, Calls
      <3>3. QED
        BY <2>1, <3>1, <3>2 DEF Held
    <2>3. QED
      BY <1>1, <2>1, <2>2, RecentStays
  <1>4. Quick(c)'
    BY <1>2, <1>3 DEF Quick, Waits, Recent
  <1>5. ASSUME NEW d \in Calls PROVE Calm(d)
    <2>1. CASE d = c
      BY <1>4, <2>1 DEF Calm
    <2>2. CASE d # c
      BY <2>2 DEF Sets, Calm
    <2>3. QED
      BY <2>1, <2>2
  <1>6. QED
    BY <1>5

\* A step of one request, with its page.
LEMMA SetsFresh ==
    ASSUME Base, Base', FreshInv, SmoothInv, Note(store), UNCHANGED <<now, jar>>, smooth' => smooth,
           NEW c \in Calls, Sets(c), \A t \in Tab : PageKeeps(t), smooth' => ~Replaces(c)
    PROVE  FreshInv' /\ SmoothInv'
  <1>1. SameUse(store) /\ \A d \in Calls : CallKeeps(d)
    BY SameUseIs, SetsKeeps
  <1>2. smooth' => \A d \in Calls : Calm(d)
    BY <1>1, SetsCalm
  <1>3. QED
    BY <1>1, <1>2, TokenStill

\* The requests of a page that goes.
LEMMA OrphanedKeeps ==
    ASSUME Base, NEW t,
           call' = Orphaned(t) \/ \E d \in Calls : call' = [Orphaned(t) EXCEPT ![d] = NoCall]
    PROVE  \A c \in Calls : CallKeeps(c)
  <1>1. ASSUME NEW c \in Calls PROVE CallKeeps(c)
    <2> DEFINE o == Orphaned(t)
               r == [call[c] EXCEPT !.tab = None]
    <2>1. DOMAIN call = Calls /\ call[c] \in Request
      BY DEF Base, TypeOK, Calls
    <2>2. o[c] \in {call[c], NoCall, r} /\ DOMAIN o = Calls
      BY <2>1 DEF Orphaned
    <2>3. r.with = call[c].with /\ r.new = call[c].new
      BY <2>1 DEF Request
    <2> HIDE DEF r, o
    <2>4. call'[c] = o[c] \/ call'[c] = NoCall
      BY <2>2 DEF o
    <2>5. QED
      BY <2>2, <2>3, <2>4, NoCallIs DEF CallKeeps
  <1>2. QED
    BY <1>1

LEMMA OrphanedCalm ==
    ASSUME Base, NEW t \in Tab, NEW c \in Calls, c \in Refreshing => call[c].tab # t,
           call' = Orphaned(t) \/ \E d \in Calls : call' = [Orphaned(t) EXCEPT ![d] = NoCall] /\ d # c
    PROVE  Calm(c)
  <1> DEFINE o == Orphaned(t)
             r == [call[c] EXCEPT !.tab = None]
  <1>1. DOMAIN call = Calls /\ call[c] \in Request /\ t # None
    BY NamesAssumption DEF Base, TypeOK, Calls
  <1>2. /\ DOMAIN o = Calls
        /\ \/ o[c] = call[c]
           \/ call[c].tab = t /\ o[c] = NoCall
           \/ call[c].tab = t /\ call[c].pc \in {"refresh", "logout"} /\ o[c] = r
    BY <1>1 DEF Orphaned
  <1>3. r.pc = call[c].pc
    BY <1>1 DEF Request
  <1> HIDE DEF o, r
  <1>4. call'[c] = o[c]
    BY <1>2 DEF o
  <1>5. CASE call[c].tab = t
    <2>1. call[c].pc \notin {"refresh", "refreshed"}
      BY <1>1, <1>5 DEF Refreshing
    <2>2. ~Replaces(c)
      BY <2>1 DEF Replaces
    <2>3. CASE o[c] = NoCall
      BY <1>4, <2>2, <2>3, NoCallIs DEF Calm, Quick
    <2>4. CASE call[c].pc \in {"refresh", "logout"} /\ o[c] = r
      <3>1. call'[c].pc = "logout"
        BY <1>3, <1>4, <2>1, <2>4
      <3>2. QED
        BY <2>2, <3>1 DEF Calm, Quick
    <2>5. QED
      BY <1>2, <1>4, <2>3, <2>4 DEF Calm
  <1>6. QED
    BY <1>2, <1>4, <1>5 DEF Calm

\* A response arrives: its refresh token is the browser's.
LEMMA Delivered ==
    ASSUME Base, Base', FreshInv, SmoothInv, Note(store), now' = now, smooth' => smooth, NEW g \in Carrier,
           jar'.refresh = IF Brings(g) = Keep THEN jar.refresh ELSE Brings(g), Brings(g)' = Keep,
           \A c \in Calls : CallKeeps(c), \A t \in Tab : PageKeeps(t),
           smooth' => \A c \in Calls : call'[c] = call[c] \/ Quick(c)',
           smooth' /\ Brings(g) = Keep => \A c \in Calls : Calm(c)
    PROVE  FreshInv' /\ SmoothInv'
  <1> PICK k : k = Brings(g)
    OBVIOUS
  <1>1. SameUse(store) /\ k \in Token \cup {None, Keep} /\ k \in Held
    BY SameUseIs, BringsIs
  <1>2. CASE k = Keep
    <2>1. ASSUME smooth', NEW c \in Calls, Replaces(c) PROVE Replaces(c)'
      BY <1>2, <2>1 DEF Calm, Replaces
    <2>2. jar'.refresh = jar.refresh
      BY <1>2
    <2>3. QED
      BY <1>1, <2>1, <2>2, FreshStill, SmoothStep
  <1>3. CASE k = None
    <2>1. jar'.refresh = None
      BY <1>3, NamesAssumption
    <2>2. SmoothInv'
      BY <1>1, <2>1, SmoothStep
    <2>3. FreshInv'
      BY <1>1, <2>1, FreshStill
    <2>4. QED
      BY <2>2, <2>3
  <1>4. CASE k \in Token
    <2>1. k # Keep /\ jar'.refresh = k
      BY <1>4, NamesAssumption
    <2>2. store[k].usedAt = None
      BY <1>4 DEF FreshInv
    <2>3. SmoothInv'
      BY <1>1, <2>1, <2>2, SmoothStep
    <2>4. FreshInv'
      BY <1>1, <2>1, FreshStill
    <2>5. QED
      BY <2>3, <2>4
  <1>5. QED
    BY <1>1, <1>2, <1>3, <1>4

LEMMA ContinueSets ==
    ASSUME Base, NEW c \in Calls, call[c].pc \in {"refresh", "refreshed"}, NEW a, Continue(c, a)
    PROVE  /\ call'[c].new = Keep /\ \A d \in Calls : CallKeeps(d)
           /\ Sets(c) \/ (call[c].kind = "boot" /\ a = None /\ call' = [Orphaned(call[c].tab) EXCEPT ![c] = NoCall])
           /\ call'[c].pc # "refresh"
  <1> DEFINE o == Orphaned(call[c].tab)
             r == [NoCall EXCEPT !.tab = call[c].tab, !.pc = "api", !.bearer = a, !.again = call[c].again]
  <1>1. DOMAIN call = Calls
    BY DEF Base, TypeOK, Calls
  <1>2. CASE call[c].kind = "boot" /\ a = None /\ call' = [o EXCEPT ![c] = NoCall]
    <2>1. \A d \in Calls : CallKeeps(d)
      BY <1>2, OrphanedKeeps
    <2>2. DOMAIN o = Calls
      BY <1>1 DEF Orphaned
    <2> HIDE DEF o
    <2>3. call'[c] = NoCall
      BY <1>2, <2>2
    <2>4. QED
      BY <1>2, <2>1, <2>3, NoCallIs DEF o
  <1>3. CASE call' = [call EXCEPT ![c] = NoCall]
    <2>1. Sets(c)
      BY <1>3, NoCallIs, SetsIs DEF Waits
    <2>2. call'[c] = NoCall
      BY <1>1, <1>3
    <2>3. QED
      BY <2>1, <2>2, SetsKeeps, NoCallIs
  <1>4. CASE call' = [call EXCEPT ![c] = r]
    <2>1. r.with = None /\ r.new = Keep /\ r.tab = call[c].tab /\ r.pc = "api"
      BY DEF NoCall
    <2> HIDE DEF r
    <2>2. Sets(c)
      BY <1>4, <2>1, SetsIs DEF Waits
    <2>3. call'[c] = r
      BY <1>1, <1>4
    <2>4. QED
      BY <2>1, <2>2, <2>3, SetsKeeps
  <1>5. QED
    BY <1>2, <1>3, <1>4 DEF Continue

-----------------------------------------------------------------------------
(* Every answer in time keeps the refresh cookie good. *)

LEMMA QuietTokens ==
    ASSUME Base, Base', FreshInv, SmoothInv, NEW t \in Tab,
           \/ GetPage(t) \/ AuthorizeByForm(t) \/ CallbackRefused(t) \/ CallbackAccepted(t)
           \/ CallbackFailed(t) \/ Open(t) \/ Leave(t)
    PROVE  FreshInv' /\ SmoothInv'
  <1>1. /\ Note(store) /\ UNCHANGED <<now, jar>> /\ SameUse(store) /\ (smooth' => smooth)
        /\ \/ UNCHANGED call
           \/ call' = Orphaned(t) /\ (smooth' => \A c \in Refreshing : call[c].tab # t)
    <2>1. CASE Open(t) \/ Leave(t)
      BY <2>1, SameUseIs DEF Open, Leave
    <2>2. CASE \/ GetPage(t) \/ AuthorizeByForm(t) \/ CallbackRefused(t) \/ CallbackAccepted(t)
               \/ CallbackFailed(t)
      BY <2>2, SameUseIs DEF GetPage, AuthorizeByForm, CallbackRefused, CallbackAccepted, CallbackFailed
    <2>3. QED
      BY <2>1, <2>2
  <1>2. \A q \in Tab : PageKeeps(q)
    BY PagesKeep
  <1>3. \A c \in Calls : CallKeeps(c)
    BY <1>1, OrphanedKeeps DEF CallKeeps
  <1>4. smooth' => \A c \in Calls : Calm(c)
    BY <1>1, OrphanedCalm DEF Calm
  <1>5. QED
    BY <1>1, <1>2, <1>3, <1>4, TokenStill

LEMMA ArriveTokens ==
    ASSUME Base, Base', FreshInv, SmoothInv, NEW t \in Tab, Arrive(t)
    PROVE  FreshInv' /\ SmoothInv'
  <1> DEFINE g == <<t, "page">>
  <1>1. Note(store) /\ UNCHANGED <<now, call, smooth>> /\ jar' = After(page[t].new)
    BY DEF Arrive
  <1>2. g \in Carrier /\ Brings(g) = page[t].new.refresh /\ Brings(g)' = page'[t].new.refresh
    BY CarrierIs
  <1>3. jar'.refresh = IF page[t].new.refresh = Keep THEN jar.refresh ELSE page[t].new.refresh
    <2>1. TypeOK /\ page[t].new \in SetCookies
      BY DEF Base, TypeOK, Page
    <2>2. QED
      BY <1>1, <2>1, AfterIsJar
  <1>4. page'[t].new.refresh = Keep
    BY KeepAllIs DEF Arrive, Base, TypeOK, Page
  <1>5. (\A q \in Tab : PageKeeps(q)) /\ (\A c \in Calls : CallKeeps(c)) /\ \A c \in Calls : Calm(c)
    BY <1>1, PagesKeep DEF CallKeeps, Calm
  <1> HIDE DEF g
  <1>6. QED
    BY <1>1, <1>2, <1>3, <1>4, <1>5, Delivered

\* A login's new token.
LEMMA SignInTokens ==
    ASSUME Base, Base', FreshInv, SmoothInv, NEW t \in Tab, NEW sso, SignIn(t, sso), NEW u,
           Note(Insert(store, u)), UNCHANGED <<now, jar, call, smooth>>
    PROVE  FreshInv' /\ SmoothInv'
  <1> DEFINE m == <<t, "page">>
             p == [page[t] EXCEPT !.at = "wait", !.next = "callback",
                     !.new = [KeepAll EXCEPT !.refresh = Spare, !.sso = sso]]
  <1> PICK s : s = Insert(store, u)
    OBVIOUS
  <1>1. Note(s) /\ SameUse(s)
    BY SameUseIs
  <1>2. Spare \in Token /\ s[Spare].usedAt = None
    <2>1. Spare \in Token
      BY SpareIsFree DEF Base
    <2>2. s[Spare] = FreshRow(u)
      BY <2>1 DEF Insert, Base, TypeOK
    <2>3. QED
      BY <2>1, <2>2 DEF FreshRow
  <1>3. p.new.refresh = Spare /\ page' = [page EXCEPT ![t] = p]
    BY DEF SignIn, Base, TypeOK, Page, KeepAll
  <1> HIDE DEF p
  <1>4. page'[t].new.refresh = Spare /\ \A q \in Tab \ {t} : page'[q] = page[q]
    BY <1>3 DEF Base, TypeOK
  <1>5. m \in Carrier /\ Brings(m)' = Spare
    BY <1>4, CarrierIs
  <1>6. ASSUME NEW h \in Carrier \ {m} PROVE Brings(h)' \in {None, Keep, Brings(h)}
    <2>1. CASE \E c \in Calls : h = <<c, "call">>
      BY <2>1, CarrierIs
    <2>2. CASE \E q \in Tab : h = <<q, "page">>
      BY <1>4, <1>6, <2>2, CarrierIs
    <2>3. QED
      BY <2>1, <2>2, CarrierIs
  <1> HIDE DEF m
  <1>7. \A k \in Token \cap Keys : s[k].usedAt \in {None, store[k].usedAt}
    BY <1>1 DEF SameUse
  <1>8. FreshInv'
    BY <1>1, <1>2, <1>5, <1>6, <1>7, FreshStep
  <1>9. \A c \in Calls : Replaces(c) => Replaces(c)'
    BY DEF Replaces
  <1>10. SmoothInv'
    BY <1>1, <1>9, SmoothStep
  <1>11. QED
    BY <1>8, <1>10

LEMMA SendTokens ==
    ASSUME Base, Base', FreshInv, SmoothInv, NEW t \in Tab, NEW c \in Calls,
           Load(t) \/ LeaveScript(t) \/ Fetch(t, c) \/ Logout(t, c)
    PROVE  FreshInv' /\ SmoothInv'
  <1>1. Note(store) /\ UNCHANGED <<now, jar, smooth>> /\ t \in Calls /\ t # None
    BY NamesAssumption DEF Load, LeaveScript, Fetch, Logout, Calls
  <1>2. \A q \in Tab : PageKeeps(q)
    <2>1. CASE Load(t)
      BY <2>1, PagesKeep
    <2>2. CASE UNCHANGED page
      BY <2>2 DEF PageKeeps
    <2>3. QED
      BY <2>1, <2>2 DEF LeaveScript, Fetch, Logout
  <1>3. PICK d \in Calls : Sets(d) /\ call[d].pc = "idle"
    <2>1. CASE Load(t)
      <3> DEFINE r == Refresh(t, "boot", FALSE)
      <3>1. r.with = jar.refresh /\ r.new = Keep /\ r.tab = t
        BY DEF Refresh, NoCall
      <3>2. call' = [call EXCEPT ![t] = r] /\ call[t].pc = "idle"
        BY <2>1 DEF Load
      <3> HIDE DEF r
      <3>3. Sets(t)
        BY <1>1, <3>1, <3>2, SetsIs
      <3>4. QED
        BY <1>1, <3>2, <3>3
    <2>2. CASE LeaveScript(t)
      <3> DEFINE r == [NoCall EXCEPT !.tab = t, !.kind = "leave", !.pc = "logout", !.with = jar.refresh]
      <3>1. r.with = jar.refresh /\ r.new = Keep /\ r.tab = t
        BY DEF NoCall
      <3>2. call' = [call EXCEPT ![t] = r] /\ call[t].pc = "idle"
        BY <2>2 DEF LeaveScript
      <3> HIDE DEF r
      <3>3. Sets(t)
        BY <1>1, <3>1, <3>2, SetsIs
      <3>4. QED
        BY <1>1, <3>2, <3>3
    <2>3. CASE Logout(t, c)
      <3> DEFINE r == [NoCall EXCEPT !.tab = t, !.kind = "logout", !.pc = "logout", !.with = jar.refresh]
      <3>1. r.with = jar.refresh /\ r.new = Keep /\ r.tab = t
        BY DEF NoCall
      <3>2. call' = [call EXCEPT ![c] = r] /\ call[c].pc = "idle"
        BY <2>3 DEF Logout, MayUse
      <3> HIDE DEF r
      <3>3. Sets(c)
        BY <1>1, <3>1, <3>2, SetsIs
      <3>4. QED
        BY <3>2, <3>3
    <2>4. CASE Fetch(t, c)
      <3> DEFINE r == Refresh(t, "fetch", FALSE)
                 a == [NoCall EXCEPT !.tab = t, !.pc = "api", !.bearer = page[t].token]
      <3>1. r.with = jar.refresh /\ r.new = Keep /\ r.tab = t
        BY DEF Refresh, NoCall
      <3>2. a.with = None /\ a.new = Keep /\ a.tab = t
        BY DEF NoCall
      <3>3. (call' = [call EXCEPT ![c] = r] \/ call' = [call EXCEPT ![c] = a]) /\ call[c].pc = "idle"
        BY <2>4 DEF Fetch, MayUse
      <3> HIDE DEF r, a
      <3>4. CASE call' = [call EXCEPT ![c] = r]
        <4>1. Sets(c)
          BY <1>1, <3>1, <3>4, SetsIs
        <4>2. QED
          BY <3>3, <4>1
      <3>5. CASE call' = [call EXCEPT ![c] = a]
        <4>1. Sets(c)
          BY <1>1, <3>2, <3>5, SetsIs
        <4>2. QED
          BY <3>3, <4>1
      <3>6. QED
        BY <3>3, <3>4, <3>5
    <2>5. QED
      BY <2>1, <2>2, <2>3, <2>4
  <1>4. ~Replaces(d)
    BY <1>3 DEF Replaces
  <1>5. QED
    BY <1>1, <1>2, <1>3, <1>4, SetsFresh

LEMMA ServeTokens ==
    ASSUME Base, Base', FreshInv, SmoothInv, NEW c \in Calls, Serve(c) \/ Reject(c)
    PROVE  FreshInv' /\ SmoothInv'
  <1> DEFINE r == Refresh(call[c].tab, "fetch", TRUE)
  <1>1. Note(store) /\ UNCHANGED <<now, jar, page, smooth>> /\ call[c].pc = "api"
    BY DEF Serve, Reject, Unauthorized
  <1>2. call' = [call EXCEPT ![c] = NoCall] \/ call' = [call EXCEPT ![c] = r]
    BY DEF Serve, Reject, Unauthorized
  <1>3. r.with = jar.refresh /\ r.new = Keep /\ r.tab = call[c].tab
    BY DEF Refresh, NoCall
  <1> HIDE DEF r
  <1>4. Waits(call[c]) /\ ~Replaces(c)
    BY <1>1 DEF Waits, Replaces
  <1>5. CASE call' = [call EXCEPT ![c] = r]
    <2>1. Sets(c)
      BY <1>3, <1>4, <1>5, SetsIs
    <2>2. QED
      BY <1>1, <1>4, <2>1, SetsFresh DEF PageKeeps
  <1>6. CASE call' = [call EXCEPT ![c] = NoCall]
    <2>1. Sets(c)
      BY <1>6, NoCallIs, SetsIs DEF Waits
    <2>2. QED
      BY <1>1, <1>4, <2>1, SetsFresh DEF PageKeeps
  <1>7. QED
    BY <1>2, <1>5, <1>6

LEMMA LostTokens ==
    ASSUME Base, Base', FreshInv, SmoothInv, NEW c \in Calls, LoseRefresh(c) \/ LoseLogout(c)
    PROVE  FreshInv' /\ SmoothInv'
  <1>1. CASE LoseLogout(c)
    <2>1. /\ Note(store) /\ UNCHANGED <<now, jar, smooth>> /\ AfterLogout(c) /\ c \in LoggingOut
          /\ call' = [call EXCEPT ![c] = NoCall]
      BY <1>1 DEF LoseLogout, AfterLogout
    <2>2. Sets(c)
      BY <2>1, NoCallIs, SetsIs DEF Waits
    <2>3. ~Replaces(c)
      BY <2>1 DEF LoggingOut, Replaces
    <2>4. \A q \in Tab : PageKeeps(q)
      BY <2>1, LogoutPages
    <2>5. QED
      BY <2>1, <2>2, <2>3, <2>4, SetsFresh
  <1>2. CASE LoseRefresh(c)
    <2>1. /\ Note(store) /\ UNCHANGED <<now, jar>> /\ ~smooth' /\ SameUse(store)
          /\ Continue(c, None) /\ c \in Refreshing
      BY <1>2, SameUseIs DEF LoseRefresh
    <2>2. (\A q \in Tab : PageKeeps(q)) /\ \A d \in Calls : CallKeeps(d)
      BY <2>1, ContinuedPages, ContinueSets DEF Refreshing
    <2>3. QED
      BY <2>1, <2>2, FreshStill DEF SmoothInv
  <1>3. QED
    BY <1>1, <1>2

LEMMA BootstrappedTokens ==
    ASSUME Base, Base', FreshInv, SmoothInv, NEW c \in Calls, Bootstrapped(c)
    PROVE  FreshInv' /\ SmoothInv'
  <1> DEFINE g == <<c, "call">>
  <1> PICK t \in Tab \cup {None} : t = call[c].tab
    BY DEF Base, TypeOK, Calls, Request
  <1>1. /\ Note(store) /\ now' = now /\ call[c].pc = "refreshed" /\ Continue(c, Granted(c))
        /\ jar' = After([KeepAll EXCEPT !.refresh = call[c].new])
        /\ smooth' = (smooth /\ (call[c].kind = "boot" /\ Granted(c) = None =>
                                   \A d \in Refreshing \ {c} : call[d].tab # t))
    BY DEF Bootstrapped
  <1>2. /\ call'[c].new = Keep /\ \A d \in Calls : CallKeeps(d)
        /\ \/ Sets(c)
           \/ call[c].kind = "boot" /\ Granted(c) = None /\ call' = [Orphaned(t) EXCEPT ![c] = NoCall]
        /\ call'[c].pc # "refresh"
    BY <1>1, ContinueSets
  <1>3. \A q \in Tab : PageKeeps(q)
    BY <1>1, ContinuedPages
  <1>4. g \in Carrier /\ Brings(g) = call[c].new /\ Brings(g)' = Keep
    BY <1>2, CarrierIs
  <1>5. jar'.refresh = IF call[c].new = Keep THEN jar.refresh ELSE call[c].new
    <2>1. TypeOK /\ call[c].new \in Token \cup {None, Keep}
      BY DEF Base, TypeOK, Calls, Request
    <2>2. QED
      BY <1>1, <2>1, AfterRefresh
  <1>6. ASSUME smooth'
        PROVE  Quick(c)' /\ \A d \in Calls \ {c} : Calm(d)
    <2>1. smooth /\ \A d \in Calls : Quick(d)
      BY <1>1, <1>6 DEF SmoothInv, Calls
    <2>2. t \in Tab
      BY <1>1, <2>1 DEF Quick
    <2>3. CASE Sets(c)
      <3>1. Waits(call'[c]) => call'[c].tab # None
        BY <2>1, <2>3 DEF Sets, Waits, Quick
      <3>2. QED
        BY <1>2, <2>3, <3>1 DEF Sets, Calm, Waits, Quick
    <2>4. CASE call[c].kind = "boot" /\ Granted(c) = None /\ call' = [Orphaned(t) EXCEPT ![c] = NoCall]
      <3>1. \A d \in Calls \ {c} : d \in Refreshing => call[d].tab # t
        BY <1>1, <1>6, <2>4
      <3>2. \A d \in Calls \ {c} : Calm(d)
        BY <2>2, <2>4, <3>1, OrphanedCalm
      <3>3. DOMAIN Orphaned(t) = Calls
        BY DEF Orphaned, Base, TypeOK, Calls
      <3>4. call'[c] = NoCall
        BY <2>4, <3>3
      <3>5. QED
        BY <3>2, <3>4, NoCallIs DEF Quick
    <2>5. QED
      BY <1>2, <2>3, <2>4
  <1>7. smooth' => \A d \in Calls : call'[d] = call[d] \/ Quick(d)'
    BY <1>6 DEF Calm
  <1>8. smooth' /\ call[c].new = Keep => \A d \in Calls : Calm(d)
    BY <1>6 DEF Calm, Replaces
  <1> HIDE DEF g
  <1>9. smooth' => smooth
    BY <1>1
  <1>10. QED
    BY <1>1, <1>2, <1>3, <1>4, <1>5, <1>7, <1>8, <1>9, Delivered

LEMMA LoggedOutTokens ==
    ASSUME Base, Base', FreshInv, SmoothInv, NEW c \in Calls, LoggedOut(c)
    PROVE  FreshInv' /\ SmoothInv'
  <1> DEFINE g == <<c, "call">>
  <1>1. /\ Note(store) /\ UNCHANGED <<now, smooth>> /\ call[c].pc = "loggedOut" /\ AfterLogout(c)
        /\ jar' = After([KeepAll EXCEPT !.refresh = call[c].new]) /\ call' = [call EXCEPT ![c] = NoCall]
    BY DEF LoggedOut, AfterLogout
  <1>2. call'[c] = NoCall /\ \A d \in Calls \ {c} : call'[d] = call[d]
    BY <1>1 DEF Base, TypeOK, Calls
  <1>3. (\A q \in Tab : PageKeeps(q)) /\ \A d \in Calls : CallKeeps(d)
    <2>1. Sets(c)
      BY <1>1, NoCallIs, SetsIs DEF Waits
    <2>2. QED
      BY <1>1, <2>1, LogoutPages, SetsKeeps
  <1>4. g \in Carrier /\ Brings(g) = call[c].new /\ Brings(g)' = Keep
    BY <1>2, NoCallIs, CarrierIs
  <1>5. jar'.refresh = IF call[c].new = Keep THEN jar.refresh ELSE call[c].new
    <2>1. TypeOK /\ call[c].new \in Token \cup {None, Keep}
      BY DEF Base, TypeOK, Calls, Request
    <2>2. QED
      BY <1>1, <2>1, AfterRefresh
  <1>6. \A d \in Calls : Calm(d)
    <2>1. Quick(c)' /\ ~Replaces(c)
      BY <1>1, <1>2, NoCallIs DEF Quick, Replaces
    <2>2. QED
      BY <1>2, <2>1 DEF Calm
  <1> HIDE DEF g
  <1>7. QED
    BY <1>1, <1>3, <1>4, <1>5, <1>6, Delivered DEF Calm

LEMMA AnswerCalm ==
    ASSUME Base, NEW c \in Calls, call[c].pc \in {"refresh", "logout"},
           NEW pc \in {"refreshed", "loggedOut"}, NEW new, NEW a, Respond(c, pc, new, a)
    PROVE  /\ \A d \in Calls : Calm(d)
           /\ \A d \in Calls \ {c} : call'[d] = call[d]
           /\ call'[c].with = None
           /\ call'[c].new = IF call[c].tab = None THEN Keep ELSE new
           /\ call[c].tab # None => call'[c].pc = pc
  <1>1. /\ \A d \in Calls \ {c} : call'[d] = call[d]
        /\ call[c].tab = None => call'[c] = NoCall
        /\ call[c].tab # None => /\ call'[c].pc = pc /\ call'[c].tab = call[c].tab /\ call'[c].with = None
                                 /\ call'[c].new = new /\ call'[c].bearer = a
    BY RespondFields
  <1>2. Quick(c)' /\ ~Replaces(c)
    BY <1>1, NoCallIs DEF Quick, Replaces
  <1>3. \A d \in Calls : Calm(d)
    BY <1>1, <1>2 DEF Calm
  <1>4. QED
    BY <1>1, <1>3, NoCallIs

LEMMA AnsweredTokens ==
    ASSUME Base, Base', FreshInv, SmoothInv, NEW c \in Calls, Refuse(c) \/ EndSession(c)
    PROVE  FreshInv' /\ SmoothInv'
  <1>1. UNCHANGED <<now, jar, page, smooth>> /\ call[c].pc \in {"refresh", "logout"}
    BY DEF Refuse, EndSession
  <1>2. PICK s : Note(s) /\ SameUse(s)
    BY SameUseIs DEF Refuse, EndSession
  <1>3. PICK pc \in {"refreshed", "loggedOut"}, new \in {None, Keep} : Respond(c, pc, new, None)
    BY DEF Refuse, EndSession, ClearedBy
  <1>4. /\ \A d \in Calls : Calm(d)
        /\ \A d \in Calls \ {c} : call'[d] = call[d]
        /\ call'[c].with = None /\ call'[c].new \in {None, Keep}
    BY <1>1, <1>3, AnswerCalm
  <1>5. \A d \in Calls : CallKeeps(d)
    BY <1>4 DEF CallKeeps
  <1>6. QED
    BY <1>1, <1>2, <1>4, <1>5, TokenStill DEF PageKeeps

\* A rotation stamps the token that was presented, and no other.
LEMMA RotatedUse ==
    ASSUME Base, NEW c \in Calls, call[c].with # None, NEW k, k = call[c].with
    PROVE  /\ k \in Token \cap Keys /\ k \in Held
           /\ \A q \in (Token \cap Keys) \ {k} : Rotated(k)[q] = store[q]
           /\ Rotated(k)[k].ended = store[k].ended
           /\ Rotated(k)[k].usedAt = IF store[k].usedAt = None THEN now ELSE store[k].usedAt
           /\ Spare \in Token /\ Rotated(k)[Spare].usedAt = None
  <1> DEFINE row == [store[k] EXCEPT !.usedAt = IF @ = None THEN now ELSE @]
             s == [store EXCEPT ![k] = row]
  <1>1. TypeOK /\ HeldInv /\ store \in [Token -> Row \cup {None}]
    BY DEF Base, TypeOK
  <1>2. k \in Token \cap Keys /\ k \in Held
    BY <1>1 DEF TypeOK, Calls, Request, Keys, Held
  <1>3. store[k] \in Row
    BY <1>1, <1>2, StoreIs
  <1>4. Spare \in Token /\ Spare \notin Keys
    BY <1>1, SpareIsFree, NamesAssumption DEF Keys
  <1>5. row.ended = store[k].ended /\ row.usedAt = IF store[k].usedAt = None THEN now ELSE store[k].usedAt
    BY <1>3 DEF Row
  <1>6. s = [store EXCEPT ![k].usedAt = IF @ = None THEN now ELSE @]
    BY <1>1, <1>2
  <1>7. Rotated(k) = [s EXCEPT ![Spare] = FreshRow(store[k].user)]
    BY <1>6, Zenon DEF Rotated, Insert
  <1> HIDE DEF row
  <1>8. DOMAIN s = Token /\ s[k] = row /\ \A q \in Token \ {k} : s[q] = store[q]
    BY <1>1, <1>2
  <1> HIDE DEF s
  <1>9. /\ \A q \in Token \cap Keys : Rotated(k)[q] = s[q]
        /\ Rotated(k)[Spare] = FreshRow(store[k].user)
    BY <1>4, <1>7, <1>8
  <1>10. Rotated(k)[Spare].usedAt = None
    BY <1>9 DEF FreshRow
  <1>11. QED
    BY <1>2, <1>4, <1>5, <1>8, <1>9, <1>10

LEMMA RecentRotated ==
    ASSUME Base, Base', NEW c \in Calls, call[c].with # None, NEW k, k = call[c].with, Note(Rotated(k)),
           now' = now, NEW q \in Token, q \in Held, q \in Held', Recent(q)
    PROVE  Recent(q)'
  <1>1. store'[q] = Rotated(k)[q] /\ q \in Token \cap Keys
    BY UsersKept DEF Keys
  <1>2. CASE q = k
    <2>1. store'[q].ended = store[q].ended
      BY <1>1, <1>2, RotatedUse
    <2>2. store'[q].usedAt = IF store[q].usedAt = None THEN now ELSE store[q].usedAt
      BY <1>1, <1>2, RotatedUse
    <2>3. QED
      BY <2>1, <2>2 DEF Recent
  <1>3. CASE q # k
    <2>1. store'[q] = store[q]
      BY <1>1, <1>3, RotatedUse
    <2>2. QED
      BY <2>1 DEF Recent
  <1>4. QED
    BY <1>2, <1>3

LEMMA RotateTokens ==
    ASSUME Base, Base', FreshInv, SmoothInv, NEW c \in Calls, Admit(c) \/ Expel(c)
    PROVE  FreshInv' /\ SmoothInv'
  <1> PICK k : k = call[c].with
    OBVIOUS
  <1> PICK s : s = Rotated(k)
    OBVIOUS
  <1>1. /\ UNCHANGED <<now, jar, page, smooth>> /\ call[c].pc = "refresh" /\ k # None
        /\ Note(Rotated(k)) /\ Note(s)
    BY DEF Admit, Expel, Good
  <1>2. /\ k \in Token \cap Keys /\ k \in Held
        /\ \A q \in (Token \cap Keys) \ {k} : s[q] = store[q]
        /\ Spare \in Token /\ s[Spare].usedAt = None
    BY <1>1, RotatedUse
  <1>3. PICK new, a : Respond(c, "refreshed", new, a) /\ new # Keep /\ (new = Spare \/ new = None)
    BY <1>2, NamesAssumption DEF Admit, Expel
  <1>4. /\ \A d \in Calls : Calm(d)
        /\ \A d \in Calls \ {c} : call'[d] = call[d]
        /\ call'[c].with = None
        /\ call'[c].new = IF call[c].tab = None THEN Keep ELSE new
        /\ call[c].tab # None => call'[c].pc = "refreshed"
    BY <1>1, <1>3, AnswerCalm
  <1>5. FreshInv'
    <2> DEFINE m == <<c, "call">>
    <2>1. \A q \in Token \cap Keys : s[q].usedAt \in {None, store[q].usedAt} \/ \E d \in Calls : call[d].with = q
      BY <1>2
    <2>2. m \in Carrier /\ Brings(m)' = call'[c].new
      BY CarrierIs
    <2>3. ASSUME NEW h \in Carrier \ {m} PROVE Brings(h)' \in {None, Keep, Brings(h)}
      <3>1. CASE \E d \in Calls : h = <<d, "call">>
        BY <1>4, <2>3, <3>1, CarrierIs
      <3>2. CASE \E q \in Tab : h = <<q, "page">>
        BY <1>1, <3>2, CarrierIs
      <3>3. QED
        BY <3>1, <3>2, CarrierIs
    <2>4. \A d \in Calls : call'[d].with \in {None, jar.refresh, call[d].with}
      BY <1>4
    <2> HIDE DEF m
    <2>5. CASE call'[c].new = Spare
      BY <1>1, <1>2, <2>1, <2>2, <2>3, <2>4, <2>5, FreshStep
    <2>6. CASE call'[c].new \in {None, Keep}
      <3>1. \A h \in Carrier : Brings(h)' \in {None, Keep, Brings(h)}
        BY <2>2, <2>3, <2>6
      <3>2. <<None, "none">> \notin Carrier
        BY DEF Carrier
      <3>3. QED
        BY <1>1, <2>1, <2>4, <3>1, <3>2, FreshStep
    <2>7. QED
      BY <1>3, <1>4, <2>5, <2>6
  <1>6. ASSUME smooth' PROVE \A d \in Calls : Quick(d)'
    <2>1. smooth /\ \A d \in Calls : Quick(d)
      BY <1>1, <1>6 DEF SmoothInv, Calls
    <2>2. ASSUME NEW d \in Calls, call'[d] = call[d] PROVE Quick(d)'
      <3> PICK q : q = call[d].with
        OBVIOUS
      <3>1. ASSUME call[d].pc = "refresh", q # None PROVE Recent(q)'
        <4>1. q \in Token /\ q \in Held /\ q \in Held'
          BY <2>2, <3>1 DEF Base, TypeOK, Calls, Request, Held
        <4>2. Recent(q)
          BY <2>1, <3>1 DEF Quick
        <4>3. QED
          BY <1>1, <4>1, <4>2, RecentRotated
      <3>2. call[d].pc \in {"refresh", "refreshed", "api"} => call[d].tab # None
        BY <2>1 DEF Quick
      <3>3. QED
        BY <2>2, <3>1, <3>2 DEF Quick, Recent
    <2>3. QED
      BY <1>4, <2>2 DEF Calm
  <1>7. ASSUME smooth', jar'.refresh # None PROVE Recent(jar.refresh)' /\ Replaces(c)'
    <2>1. smooth /\ Quick(c) /\ Recent(jar.refresh)
      BY <1>1, <1>7 DEF SmoothInv, Calls
    <2>2. call[c].tab # None
      BY <1>1, <2>1 DEF Quick
    <2>3. Replaces(c)'
      BY <1>3, <1>4, <2>2 DEF Replaces
    <2> PICK q : q = jar.refresh
      OBVIOUS
    <2>4. q \in Token /\ q \in Held /\ q \in Held'
      BY <1>1, <1>7 DEF Base, TypeOK, Jar, Held
    <2>5. Recent(q)'
      BY <1>1, <2>1, <2>4, RecentRotated
    <2>6. QED
      BY <1>1, <2>3, <2>5 DEF Recent
  <1>8. SmoothInv'
    BY <1>6, <1>7 DEF SmoothInv, Calls
  <1>9. QED
    BY <1>5, <1>8

LEMMA ServerTokens ==
    ASSUME Base, Base', FreshInv, SmoothInv, \E u \in User : Reset(u) \/ ChangeAccess(u)
    PROVE  FreshInv' /\ SmoothInv'
  <1>1. UNCHANGED <<jar, page, call, smooth>>
    BY DEF Reset, ChangeAccess
  <1>2. PICK s : Note(s) /\ SameUse(s) /\ now' = now
    BY SameUseIs DEF Reset, ChangeAccess
  <1>3. QED
    BY <1>1, <1>2, TokenStill DEF PageKeeps, CallKeeps, Calm

\* With no request under way the refresh cookie is unused or ended, however long it takes.
LEMMA TickTokens ==
    ASSUME Base, Base', FreshInv, SmoothInv, Tick
    PROVE  FreshInv' /\ SmoothInv'
  <1>1. /\ UNCHANGED <<jar, page, call>> /\ Note(store) /\ SameUse(store) /\ DOMAIN call = Calls
        /\ smooth' => smooth /\ \A c \in Calls : call[c].pc \notin {"refresh", "refreshed"}
    BY SameUseIs DEF Tick, Base, TypeOK, Calls
  <1>2. FreshInv'
    BY <1>1, FreshStill DEF PageKeeps, CallKeeps
  <1>3. ASSUME smooth', NEW c \in Calls PROVE Quick(c)'
    <2>1. Quick(c)
      BY <1>1, <1>3 DEF SmoothInv, Calls
    <2>2. QED
      BY <1>1, <1>3, <2>1 DEF Quick
  <1>4. ASSUME smooth', jar'.refresh # None
        PROVE  Recent(jar.refresh)' /\ (store'[jar'.refresh].ended \/ store'[jar'.refresh].usedAt = None)
    <2> PICK k : k = jar.refresh
      OBVIOUS
    <2>1. \A c \in Calls : ~Replaces(c)
      BY <1>1, <1>4 DEF Replaces
    <2>2. store[k].ended \/ store[k].usedAt = None
      BY <1>1, <1>4, <2>1 DEF SmoothInv, Calls
    <2>3. k \in Token /\ k \in Held'
      BY <1>1, <1>4 DEF Base, TypeOK, Jar, Held
    <2>4. store'[k] = store[k]
      BY <1>1, <2>3, UsersKept
    <2>5. QED
      BY <1>1, <2>2, <2>4 DEF Recent
  <1>5. QED
    BY <1>2, <1>3, <1>4 DEF SmoothInv, Calls

LEMMA StillTokens ==
    ASSUME Base, FreshInv, SmoothInv, CookieExpires \/ UNCHANGED vars
    PROVE  FreshInv' /\ SmoothInv'
  <1>1. UNCHANGED <<now, page, call, store, smooth>> /\ jar'.refresh = jar.refresh
    BY DEF CookieExpires, vars, Base, TypeOK, Jar
  <1>2. \A h \in Carrier : Brings(h)' = Brings(h)
    BY <1>1 DEF Brings
  <1>3. FreshInv'
    BY <1>1, <1>2 DEF FreshInv
  <1>4. SmoothInv'
    BY <1>1 DEF SmoothInv, Quick, Recent, Replaces
  <1>5. QED
    BY <1>3, <1>4

LEMMA NextTokens ==
    ASSUME Base, Base', FreshInv, SmoothInv, [Next]_vars
    PROVE  FreshInv' /\ SmoothInv'
  <1>1. CASE UNCHANGED vars \/ CookieExpires
    BY <1>1, StillTokens
  <1>2. ASSUME NEW t \in Tab, TabStep(t) \/ Open(t) \/ CallbackFailed(t) \/ Leave(t)
        PROVE  FreshInv' /\ SmoothInv'
    <2>1. t \in Calls
      BY DEF Calls
    <2>2. CASE \/ GetPage(t) \/ AuthorizeByForm(t) \/ CallbackRefused(t) \/ CallbackAccepted(t)
               \/ CallbackFailed(t) \/ Open(t) \/ Leave(t)
      BY <2>2, QuietTokens
    <2>3. CASE Arrive(t)
      BY <2>3, ArriveTokens
    <2>4. CASE Load(t) \/ LeaveScript(t)
      BY <2>1, <2>4, SendTokens
    <2>5. CASE AuthorizeBySso(t)
      <3>1. /\ SignIn(t, Keep) /\ Note(Insert(store, jar.sso)) /\ UNCHANGED <<now, jar, call, smooth>>
        BY <2>5 DEF AuthorizeBySso
      <3>2. QED
        BY <3>1, SignInTokens
    <2>6. QED
      BY <1>2, <2>2, <2>3, <2>4, <2>5 DEF TabStep
  <1>3. ASSUME NEW t \in Tab, NEW u \in User, Login(t, u) PROVE FreshInv' /\ SmoothInv'
    <2>1. PICK sso : SignIn(t, sso) /\ Note(Insert(store, u)) /\ UNCHANGED <<now, jar, call, smooth>>
      BY <1>3 DEF Login
    <2>2. QED
      BY <2>1, SignInTokens
  <1>4. ASSUME NEW t \in Tab, NEW c \in Calls, Fetch(t, c) \/ Logout(t, c) PROVE FreshInv' /\ SmoothInv'
    BY <1>4, SendTokens
  <1>5. ASSUME NEW c \in Calls, CallStep(c) \/ LoseRefresh(c) \/ LoseLogout(c)
        PROVE  FreshInv' /\ SmoothInv'
    BY <1>5, ServeTokens, AnsweredTokens, RotateTokens, BootstrappedTokens, LoggedOutTokens, LostTokens
    DEF CallStep
  <1>6. CASE \E u \in User : Reset(u) \/ ChangeAccess(u)
    BY <1>6, ServerTokens
  <1>7. CASE Tick
    BY <1>7, TickTokens
  <1>8. QED
    BY <1>1, <1>2, <1>3, <1>4, <1>5, <1>6, <1>7 DEF Next, Calls

-----------------------------------------------------------------------------
(* The invariant. *)

LEMMA InitIInv ==
    ASSUME Init
    PROVE  IInv
  <1>1. Base
    BY InitBase
  <1>2. FollowInv
    <2>1. /\ \A t \in Tab : page[t].new.refresh = Keep
          /\ DOMAIN call = Calls /\ \A c \in Calls : call[c] = NoCall
          /\ jar.refresh = None
      BY BlankIs, KeepAllIs DEF Init, Calls
    <2>2. Refreshing = {} /\ LoggingOut = {} /\ LoggingIn = {}
      BY <2>1, NoCallIs DEF Refreshing, LoggingOut, LoggingIn
    <2>3. ~Clash
      <3>1. Cardinality({}) = 0
        BY FS_EmptySet
      <3>2. QED
        BY <2>2, <3>1 DEF Clash
    <2>4. \A c \in Calls : Follows(c)
      BY <2>1, <2>2, NoCallIs DEF Follows
    <2>5. QED
      BY <2>1, <2>3, <2>4 DEF FollowInv, Calls
  <1>3. FreshInv
    <2>1. \A h \in Carrier : Brings(h) = Keep
      <3>1. \A t \in Tab : page[t].new.refresh = Keep
        BY BlankIs, KeepAllIs DEF Init
      <3>2. \A c \in Calls : call[c].new = Keep
        BY NoCallIs DEF Init, Calls
      <3>3. QED
        BY <3>1, <3>2, CarrierIs
    <2>2. QED
      BY <2>1, NamesAssumption DEF FreshInv
  <1>4. SmoothInv
    <2>1. jar.refresh = None /\ \A c \in Calls : call[c] = NoCall
      BY DEF Init, Calls
    <2>2. QED
      BY <2>1, NoCallIs DEF SmoothInv, Quick, Calls
  <1>5. QED
    BY <1>1, <1>2, <1>3, <1>4 DEF IInv

LEMMA NextIInv ==
    ASSUME IInv, [Next]_vars
    PROVE  IInv'
  <1>1. Base /\ FollowInv /\ FreshInv /\ SmoothInv
    BY DEF IInv
  <1>2. Base'
    BY <1>1, NextBase
  <1>3. QED
    BY <1>1, <1>2, NextFollow, NextTokens DEF IInv

\* Pages get no access token but the one a bootstrap() brings.
LEMMA TokenIsBrought ==
    ASSUME Base, [Next]_vars, NEW t \in Tab, page'[t].token \notin {None, page[t].token}
    PROVE  \E c \in Calls : Bootstrapped(c) /\ page'[t].token = call[c].bearer
  <1>1. page \in [Tab -> Page] /\ (\A q \in Tab : page[q] \in Page) /\ call \in [Calls -> Request]
    BY DEF Base, TypeOK, Calls
  <1>2. ASSUME UNCHANGED page PROVE FALSE
    BY <1>2
  <1>3. ASSUME NEW q, NEW p, page' = [page EXCEPT ![q] = p]
        PROVE  page'[t].token = p.token
    BY <1>1, <1>3
  <1>4. ASSUME NEW q \in Tab, NEW p, page' = [page EXCEPT ![q] = p]
        PROVE  p.token \notin {None, page[q].token}
    BY <1>1, <1>4
  <1>5. ASSUME NEW c \in Calls, NEW a, Continue(c, a) PROVE page'[t].token = a /\ a # None
    <2> DEFINE q == call[c].tab
    <2>1. CASE page' = [page EXCEPT ![q] = Visit]
      BY <1>3, <2>1, BlankIs
    <2>2. CASE page' = [page EXCEPT ![q].token = a]
      BY <1>1, <2>2 DEF Page
    <2>3. QED
      BY <1>5, <2>1, <2>2 DEF Continue
  <1>6. ASSUME NEW c \in Calls, AfterLogout(c) PROVE FALSE
    BY <1>1, <1>6, BlankIs DEF AfterLogout, Page
  <1>7. ASSUME NEW q \in Tab, NEW sso, SignIn(q, sso) PROVE FALSE
    BY <1>1, <1>7 DEF SignIn, Page
  <1>8. ASSUME NEW q \in Tab, NEW place, NEW state, Answer(q, place, state) PROVE FALSE
    BY <1>1, <1>8, BlankIs DEF Answer, Blank
  <1>9. ASSUME NEW q \in Tab, TabStep(q) \/ Open(q) \/ CallbackFailed(q) \/ Leave(q) PROVE FALSE
    <2>1. CASE GetPage(q)
      <3>1. CASE page' = [page EXCEPT ![q].at = "load"]
        BY <1>1, <3>1 DEF Page
      <3>2. ASSUME NEW n, page' = [page EXCEPT ![q] = [Blank EXCEPT !.at = "wait", !.next = "authorize",
                                                       !.nonce = n, !.new.state = n]]
            PROVE  FALSE
        BY <1>1, <3>2 DEF Blank
      <3>3. QED
        BY <2>1, <3>1, <3>2 DEF GetPage
    <2>2. CASE Arrive(q)
      BY <1>1, <2>2 DEF Arrive, Page
    <2>3. CASE AuthorizeBySso(q)
      BY <1>7, <2>3 DEF AuthorizeBySso
    <2>4. CASE AuthorizeByForm(q)
      BY <1>1, <2>4 DEF AuthorizeByForm, Page
    <2>5. CASE CallbackRefused(q) \/ CallbackAccepted(q) \/ CallbackFailed(q)
      BY <1>8, <2>5 DEF CallbackRefused, CallbackAccepted, CallbackFailed
    <2>6. CASE Load(q)
      BY <1>1, <2>6 DEF Load, Page
    <2>7. CASE LeaveScript(q)
      BY <1>2, <2>7 DEF LeaveScript
    <2>8. CASE Open(q)
      BY <1>1, <2>8, BlankIs DEF Open
    <2>9. CASE Leave(q)
      BY <1>1, <2>9 DEF Leave, Blank
    <2>10. QED
      BY <1>9, <2>1, <2>2, <2>3, <2>4, <2>5, <2>6, <2>7, <2>8, <2>9 DEF TabStep
  <1>10. ASSUME NEW c \in Calls, CallStep(c) \/ LoseRefresh(c) \/ LoseLogout(c)
         PROVE  Bootstrapped(c) /\ page'[t].token = call[c].bearer
    <2>1. CASE Bootstrapped(c)
      BY <1>5, <2>1 DEF Bootstrapped, Granted
    <2>2. CASE LoseRefresh(c)
      BY <1>5, <2>2 DEF LoseRefresh
    <2>3. CASE LoggedOut(c) \/ LoseLogout(c)
      BY <1>6, <2>3 DEF LoggedOut, LoseLogout
    <2>4. CASE Serve(c) \/ Reject(c) \/ Refuse(c) \/ Admit(c) \/ Expel(c) \/ EndSession(c)
      BY <1>2, <2>4 DEF Serve, Reject, Refuse, Admit, Expel, EndSession
    <2>5. QED
      BY <1>10, <2>1, <2>2, <2>3, <2>4 DEF CallStep
  <1>11. ASSUME NEW q \in Tab, NEW u \in User, Login(q, u) PROVE FALSE
    BY <1>7, <1>11 DEF Login
  <1>12. ASSUME NEW q \in Tab, NEW c \in Calls, Fetch(q, c) \/ Logout(q, c) PROVE FALSE
    BY <1>2, <1>12 DEF Fetch, Logout
  <1>13. CASE \/ \E u \in User : Reset(u) \/ ChangeAccess(u)
              \/ CookieExpires \/ Tick \/ UNCHANGED vars
    BY <1>2, <1>13 DEF Reset, ChangeAccess, CookieExpires, Tick, vars
  <1>14. QED
    BY <1>9, <1>10, <1>11, <1>12, <1>13 DEF Next, Calls

-----------------------------------------------------------------------------
(* The theorems. *)

\* In every reachable state of the pages of an app and its browser: types are kept; every
\* refresh token that the browser, a request or a response holds has its row; every access
\* token was signed when its user had access; the state cookie is of the only login flow;
\* without overlaps cookie and requests are of the user who logged in last; a token under way
\* is unused; and an answer that takes the place of a used cookie is under way, if all are in time.
THEOREM Invariance == Spec => []IInv
  <1>1. Init => IInv
    BY InitIInv
  <1>2. IInv /\ [Next]_vars => IInv'
    BY NextIInv
  <1>3. QED
    BY <1>1, <1>2, PTL DEF Spec

\* server.ts authMiddleware serves nobody who lost access as long ago as an access token lives.
THEOREM RevokedAreOut == Spec => RevokedIsOut
  <1> DEFINE Out == \A c \in Tab \cup Call : Serve(c) =>
                      LET u == call[c].bearer.sub IN access[u] \/ lost[u] > now - AccessTtl
  <1>1. IInv => Out
    <2> SUFFICES ASSUME IInv, NEW c \in Calls, Serve(c)
                 PROVE  access[call[c].bearer.sub] \/ lost[call[c].bearer.sub] > now - AccessTtl
      BY DEF Calls
    <2> DEFINE a == call[c].bearer
    <2>1. a \in Access \cup {None} /\ Verified(a) /\ TypeOK
      BY DEF IInv, Base, TypeOK, Calls, Request, Serve
    <2>2. a \in Access /\ a.exp > now
      BY <2>1 DEF Verified
    <2>3. Earned(a)
      BY DEF IInv, Base, EarnedInv, Calls
    <2> HIDE DEF a
    <2>4. access[a.sub] \/ (lost[a.sub] # None /\ lost[a.sub] >= a.exp - AccessTtl)
      BY <2>2, <2>3 DEF Earned
    <2>5. CASE lost[a.sub] # None /\ lost[a.sub] >= a.exp - AccessTtl
      <3>1. lost[a.sub] \in Int /\ a.exp \in Int /\ now \in Int /\ AccessTtl \in Int
        BY <2>1, <2>2, <2>5, TimesAssumption DEF TypeOK, Access
      <3>2. lost[a.sub] > now - AccessTtl
        BY <2>2, <2>5, <3>1
      <3>3. QED
        BY <3>2 DEF a
    <2>6. QED
      BY <2>4, <2>5 DEF a
  <1>2. Spec => []IInv
    BY Invariance
  <1>3. IInv /\ [Next]_vars => [Out]_vars
    BY <1>1
  <1>4. QED
    BY <1>2, <1>3, PTL DEF Spec, RevokedIsOut

\* server.ts callbackHandler refuses the state of a login only if another login met it in the
\* same browser, or the state cookie lapsed.
THEOREM OnlyRivalLoginsAreRefused == Spec => OnlyRivalLoginsFail
  <1> DEFINE Only == \A t \in Tab : CallbackRefused(t) => rivals
  <1>1. IInv => Only
    <2> SUFFICES ASSUME IInv, NEW t \in Tab, CallbackRefused(t), ~rivals PROVE FALSE
      BY DEF IInv, Base, TypeOK
    <2>1. FlowOk(t) /\ page[t].at = "callback" /\ jar.state # page[t].nonce
      BY DEF IInv, Base, FlowInv, CallbackRefused
    <2>2. QED
      BY <2>1 DEF FlowOk, PastRedirect
  <1>2. Spec => []IInv
    BY Invariance
  <1>3. IInv /\ [Next]_vars => [Only]_vars
    BY <1>1
  <1>4. QED
    BY <1>2, <1>3, PTL DEF Spec, OnlyRivalLoginsFail

\* The refresh cookie is of the user whose login came back last, or gone after a logout, and
\* so is every access token that a page gets, unless logins, logouts and refreshes overlapped:
\* browser.ts bootstrap and logout, session.router.ts /refresh and /logout.
THEOREM SessionFollows == Spec => SessionFollowsUser
  <1> DEFINE Same ==
        ~raced' =>
          /\ jar'.refresh # None => store'[jar'.refresh].user = who'
          /\ \A t \in Tab : page'[t].token \notin {None, page[t].token} => page'[t].token.sub = who'
  <1>1. IInv /\ IInv' /\ [Next]_vars => Same
    <2> SUFFICES ASSUME IInv, IInv', [Next]_vars, ~raced'
                 PROVE  /\ jar'.refresh # None => store'[jar'.refresh].user = who'
                        /\ \A t \in Tab : page'[t].token \notin {None, page[t].token} =>
                              page'[t].token.sub = who'
      OBVIOUS
    <2>1. jar'.refresh # None => store'[jar'.refresh].user = who'
      BY DEF IInv, FollowInv
    <2>2. ASSUME NEW t \in Tab, page'[t].token \notin {None, page[t].token}
          PROVE  page'[t].token.sub = who'
      <3>1. PICK c \in Calls : Bootstrapped(c) /\ page'[t].token = call[c].bearer
        BY <2>2, TokenIsBrought DEF IInv
      <3>2. Base /\ FollowInv /\ Note(store) /\ who' = who
        BY <3>1 DEF IInv, Bootstrapped
      <3>3. Follows(c)
        BY <3>2, NoRace
      <3>4. c \in Refreshing
        BY <3>1, <3>2, <3>3 DEF Bootstrapped, Follows, Refreshing, Base, TypeOK, Calls
      <3>5. call[c].bearer.sub = who
        BY <2>2, <3>1, <3>3, <3>4 DEF Follows
      <3>6. QED
        BY <3>1, <3>2, <3>5
    <2>3. QED
      BY <2>1, <2>2
  <1>2. Spec => []IInv
    BY Invariance
  <1>3. IInv /\ IInv' /\ [Next]_vars => [Same]_vars
    BY <1>1
  <1>4. QED
    BY <1>2, <1>3, PTL DEF Spec, SessionFollowsUser

\* While every answer to a refresh comes back in time, homectl-auth refuses no refresh cookie of
\* a session that has not ended, however many tabs and requests refresh with it: browser.ts
\* bootstrap, session.router.ts /refresh and rotateSession.
THEOREM NobodyIsLoggedOut == Spec => StaysSignedIn
  <1> DEFINE Stays == \A c \in Tab \cup Call : Refuse(c) /\ call[c].with # None /\ smooth =>
                        store[call[c].with].ended
  <1>1. IInv => Stays
    <2> SUFFICES ASSUME IInv, NEW c \in Calls, Refuse(c), call[c].with # None, smooth
                 PROVE  store[call[c].with].ended
      BY DEF Calls
    <2> PICK k : k = call[c].with
      OBVIOUS
    <2>1. call[c].pc = "refresh" /\ ~Good(k) /\ k # None
      BY DEF Refuse
    <2>2. store[k].ended \/ store[k].usedAt \in {None, now}
      BY <2>1 DEF IInv, SmoothInv, Quick, Recent, Calls
    <2>3. now <= now + Grace
      BY TimesAssumption DEF IInv, Base, TypeOK
    <2>4. QED
      BY <2>1, <2>2, <2>3 DEF Good
  <1>2. Spec => []IInv
    BY Invariance
  <1>3. IInv /\ [Next]_vars => [Stays]_vars
    BY <1>1
  <1>4. QED
    BY <1>2, <1>3, PTL DEF Spec, StaysSignedIn
=============================================================================
