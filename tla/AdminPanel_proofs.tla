-------------------------- MODULE AdminPanel_proofs --------------------------
(***************************************************************************)
(* Proofs that AdminPanel keeps its invariant, for any number of tabs,     *)
(* users, accounts and requests under way.                                 *)
(***************************************************************************)
EXTENDS AdminPanel, TLAPS

(* Types. *)

\* A name for a new state is one that nobody holds.
LEMMA FreshNonce ==
    ASSUME TypeOK
    PROVE  LET n == CHOOSE n \in Nonce : n # jar.state /\ \A q \in Tab : n # tab[q].nonce
           IN n \in Nonce /\ n # jar.state /\ \A q \in Tab : n # tab[q].nonce
  <1>1. jar.state \in Nonce \cup {None}
    BY DEF TypeOK, Jar
  <1>2. [q \in Tab |-> tab[q].nonce] \in [Tab -> Nonce \cup {None}]
    BY DEF TypeOK, Page
  <1>3. \E n \in Nonce : n # jar.state /\ \A q \in Tab : n # [r \in Tab |-> tab[r].nonce][q]
    BY <1>1, <1>2, NoncesAssumption
  <1>4. \E n \in Nonce : n # jar.state /\ \A q \in Tab : n # tab[q].nonce
    BY <1>3
  <1>5. QED
    BY <1>4

\* The cookies after a response are cookies.
LEMMA AfterIsJar ==
    ASSUME TypeOK, NEW new \in SetCookies
    PROVE  /\ After(new) \in Jar
           /\ After(new).state = IF new.state = Keep THEN jar.state ELSE new.state
           /\ After(new).token = IF new.token = Keep THEN jar.token ELSE new.token
  BY DEF TypeOK, Jar, SetCookies, After

LEMMA BlankIsPage == Blank \in Page
  BY ValuesAssumption DEF Blank, Page, SetCookies, Place

\* A request that is made is a request.
LEMMA AskIsRequest ==
    ASSUME TypeOK, NEW t \in Tab \cup {None}, NEW kind \in {"get", "activity", "stats"} \cup Write,
           NEW of \in User \cup Range
    PROVE  Ask(t, kind, of) \in Request
  BY DEF TypeOK, Jar, Ask, Request

\* What becomes of requests that nobody waits for are requests.
LEMMA IgnoringIsRequests ==
    ASSUME TypeOK, NEW R \in SUBSET net
    PROVE  Ignoring(R) \subseteq Request
  <1>1. \A r \in Request : [r EXCEPT !.live = FALSE] \in Request
    BY DEF Request
  <1>2. net \subseteq Request
    BY DEF TypeOK
  <1>3. QED
    BY <1>1, <1>2 DEF Ignoring

LEMMA ReloadedIsRequests ==
    ASSUME TypeOK, NEW t \in Tab \cup {None}
    PROVE  Reloaded(t) \subseteq Request
  <1>1. \A r \in Request : [r EXCEPT !.tab = None, !.live = FALSE] \in Request
    BY DEF Request
  <1>2. net \subseteq Request
    BY DEF TypeOK
  <1>3. QED
    BY <1>1, <1>2 DEF Reloaded, Of

\* An answer is a request, too.
LEMMA RespondIsRequests ==
    ASSUME TypeOK, NEW r \in net, NEW answer \in {"ok", "denied"}, NEW body \in BOOLEAN,
           Respond(r, answer, body)
    PROVE  net' \subseteq Request
  BY DEF TypeOK, Respond, Done, Request

\* The history stays a history.
LEMMA NoteIsTyped ==
    ASSUME TypeOK, NEW T, Note(T), rivals \in BOOLEAN
    PROVE  rivals' \in BOOLEAN /\ crossed' \in [Tab -> BOOLEAN]
  BY DEF TypeOK, Note, Rivals, Crossing

\* Every step keeps the types.
LEMMA TypeStep ==
    ASSUME TypeOK, KindInv, Next
    PROVE  TypeOK'
  <1> USE DEF TypeOK
  <1>b. /\ Blank \in Page
        /\ \A u \in User : [Blank EXCEPT !.at = "detail", !.id = u] \in Page
        /\ \A p \in Place : [Blank EXCEPT !.at = p] \in Page
        /\ \A p \in Place : [Blank EXCEPT !.at = p, !.id = None] \in Page
        /\ [Blank EXCEPT !.error = TRUE] \in Page
    BY BlankIsPage DEF Page, Place, Blank
  <1>n. ASSUME NEW T, Note(T) PROVE rivals' \in BOOLEAN /\ crossed' \in [Tab -> BOOLEAN]
    BY <1>n, NoteIsTyped
  <1>e. Event => events' \in 0..MaxEvents
    BY TimesAssumption DEF Event
  <1>d. \A R : R \subseteq net => R \subseteq Request
    OBVIOUS
  <1>1. ASSUME NEW t \in Tab, SignIn(t) PROVE TypeOK'
    <2>1. \A n \in Nonce : [Blank EXCEPT !.at = "starting", !.nonce = n] \in Page
      BY BlankIsPage DEF Page, Place, Blank
    <2>2. tab' \in [Tab -> Page]
      BY <1>1, <2>1, FreshNonce DEF SignIn
    <2>3. QED
      BY <1>1, <1>n, <1>e, <2>2 DEF SignIn
  <1>2. ASSUME NEW t \in Tab, Leave(t) PROVE TypeOK'
    <2>1. [tab[t] EXCEPT !.at = "github"] \in Page /\ tab[t].nonce \in Nonce \cup {None}
      BY DEF Page, Place
    <2>2. jar' \in Jar
      BY <1>2, <2>1 DEF Leave, Jar
    <2>3. tab' \in [Tab -> Page]
      BY <1>2, <2>1 DEF Leave
    <2>4. QED
      BY <1>2, <1>n, <2>2, <2>3 DEF Leave
  <1>3. ASSUME NEW t \in Tab, LeaveFails(t) PROVE TypeOK'
    <2>1. tab' \in [Tab -> Page]
      BY <1>3, <1>b DEF LeaveFails
    <2>2. QED
      BY <1>3, <1>n, <1>e, <2>1 DEF LeaveFails
  <1>c. ASSUME NEW t \in Tab, NEW p \in {"login", "users"}, NEW k \in Token \cup {Keep},
               Answer(t, p, k)
        PROVE  tab' \in [Tab -> Page]
    <2>1. [state |-> None, token |-> k] \in SetCookies
      BY DEF SetCookies
    <2>2. \A new \in SetCookies, g \in Page, q \in {"login", "users"} :
             [g EXCEPT !.at = "wait", !.next = q, !.new = new] \in Page
      <3>1. "wait" \in Place
        BY DEF Place
      <3>2. QED
        BY <3>1 DEF Page
    <2>3. QED
      BY <1>c, <2>1, <2>2 DEF Answer
  <1>4. ASSUME NEW t \in Tab, CallbackRefused(t) PROVE TypeOK'
    <2>1. tab' \in [Tab -> Page]
      BY <1>4, <1>c DEF CallbackRefused
    <2>2. QED
      BY <1>4, <1>n, <2>1 DEF CallbackRefused
  <1>5. ASSUME NEW t \in Tab, CallbackFails(t) PROVE TypeOK'
    <2>1. tab' \in [Tab -> Page]
      BY <1>5, <1>c DEF CallbackFails
    <2>2. QED
      BY <1>5, <1>n, <1>e, <2>1 DEF CallbackFails
  <1>6. ASSUME NEW t \in Tab, NEW a \in Account, Callback(t, a) PROVE TypeOK'
    <2>1. [sub |-> a, exp |-> now + Ttl] \in Token
      BY TimesAssumption DEF Token
    <2>2. tab' \in [Tab -> Page]
      BY <1>6, <1>c, <2>1 DEF Callback
    <2>3. QED
      BY <1>6, <1>n, <2>2 DEF Callback
  <1>7. ASSUME NEW t \in Tab, Arrive(t) PROVE TypeOK'
    <2>1. tab[t].next \in Place /\ tab[t].new \in SetCookies
      BY DEF Page, Place
    <2>2. jar' \in Jar /\ tab' \in [Tab -> Page]
      BY <1>7, <1>b, <2>1, AfterIsJar DEF Arrive
    <2>3. QED
      BY <1>7, <1>n, <2>2 DEF Arrive
  <1>8. ASSUME NEW t \in Tab, ShowUsers(t) PROVE TypeOK'
    <2>1. tab' \in [Tab -> Page] /\ net' \subseteq Request
      BY <1>8, <1>b, IgnoringIsRequests DEF ShowUsers, Show, Of, Place
    <2>2. QED
      BY <1>8, <1>n, <1>e, <2>1 DEF ShowUsers
  <1>9. ASSUME NEW t \in Tab, NEW u \in User, ShowUser(t, u) PROVE TypeOK'
    <2>1. Ask(t, "get", u) \in Request /\ Ignoring(Of(t)) \subseteq Request
      BY AskIsRequest, IgnoringIsRequests DEF Of
    <2>2. net' \subseteq Request
      BY <1>9, <2>1 DEF ShowUser, Show
    <2>3. tab' \in [Tab -> Page]
      <3>1. [tab[t] EXCEPT !.id = u] \in Page
        BY DEF Page
      <3>2. QED
        BY <1>9, <1>b, <3>1 DEF ShowUser, Show
    <2>4. QED
      BY <1>9, <1>n, <1>e, <2>2, <2>3 DEF ShowUser
  <1>10. ASSUME NEW t \in Tab, ShowStats(t) PROVE TypeOK'
    <2>1. Ask(t, "stats", DefaultRange) \in Request /\ Ignoring(Of(t)) \subseteq Request
      BY AskIsRequest, IgnoringIsRequests, ValuesAssumption DEF Of
    <2>2. tab' \in [Tab -> Page] /\ net' \subseteq Request
      BY <1>10, <1>b, <2>1 DEF ShowStats, Show, Place
    <2>3. QED
      BY <1>10, <1>n, <1>e, <2>2 DEF ShowStats
  <1>11. ASSUME NEW t \in Tab, NEW d \in Range, SelectRange(t, d) PROVE TypeOK'
    <2>1. Ask(t, "stats", d) \in Request /\ Cleanup(t, "stats") \subseteq Request
      BY AskIsRequest, IgnoringIsRequests DEF Of, Cleanup
    <2>2. net' \subseteq Request
      BY <1>11, <2>1 DEF SelectRange
    <2>3. tab' \in [Tab -> Page]
      BY <1>11 DEF SelectRange, Page
    <2>4. QED
      BY <1>11, <1>n, <1>e, <2>2, <2>3 DEF SelectRange
  <1>12. ASSUME NEW t \in Tab, NEW kind \in Write, Change(t, kind) PROVE TypeOK'
    <2>1. tab[t].user.id \in User /\ tab[t].id \in User \cup {None}
      BY <1>12 DEF Change, Page
    <2>2. Ask(t, kind, tab[t].user.id) \in Request
      BY <2>1, AskIsRequest
    <2>3. net' \subseteq Request
      BY <1>12, <2>1, <2>2 DEF Change, Request
    <2>4. QED
      BY <1>12, <1>n, <1>e, <2>3 DEF Change
  <1>13. ASSUME NEW r \in net, Deny(r) PROVE TypeOK'
    <2>1. net' \subseteq Request
      BY <1>13, RespondIsRequests DEF Deny
    <2>2. QED
      BY <1>13, <1>n, <2>1 DEF Deny
  <1>14. ASSUME NEW r \in net, Read(r) PROVE TypeOK'
    <2>1. (r.kind = "get" /\ access[r.of]) \in BOOLEAN
      BY DEF KindInv
    <2>2. net' \subseteq Request
      BY <1>14, <2>1, RespondIsRequests DEF Read
    <2>3. QED
      BY <1>14, <1>n, <2>2 DEF Read
  <1>15. ASSUME NEW r \in net, Apply(r) PROVE TypeOK'
    <2>1. net' \subseteq Request
      BY <1>15, RespondIsRequests DEF Apply
    <2>2. access' \in [User -> BOOLEAN]
      BY <1>15 DEF Apply
    <2>3. QED
      BY <1>15, <1>n, <2>1, <2>2 DEF Apply
  <1>16. ASSUME NEW r \in net, ArriveDenied(r) PROVE TypeOK'
    <2>1. r.tab \in Tab \cup {None}
      BY DEF Request
    <2>2. Reloaded(r.tab) \subseteq Request
      BY <2>1, ReloadedIsRequests
    <2>3. tab' \in [Tab -> Page] /\ net' \subseteq Request /\ jar' \in Jar
      BY <1>16, <1>b, <2>2 DEF ArriveDenied, Denied
    <2>4. QED
      BY <1>16, <1>n, <2>3 DEF ArriveDenied
  <1>a. ASSUME NEW r \in net, r.kind \in Write PROVE AfterChange(r) \subseteq Request
    <2>1. r.tab \in Tab \cup {None} /\ r.then \in User /\ r.form \in BOOLEAN /\ r.live \in BOOLEAN
      BY <1>a DEF Request, KindInv
    <2>2. Ask(r.tab, "get", r.then) \in Request
      BY <2>1, AskIsRequest
    <2>3. QED
      BY <2>1, <2>2 DEF AfterChange, Request
  <1>17. ASSUME NEW r \in net, ArriveUnheard(r) PROVE TypeOK'
    <2>1. net' \subseteq Request
      BY <1>17, <1>a DEF ArriveUnheard, Done
    <2>2. QED
      BY <1>17, <1>n, <2>1 DEF ArriveUnheard
  <1>18. ASSUME NEW r \in net, ArriveUser(r) PROVE TypeOK'
    <2>1. r.tab \in Tab \cup {None} /\ r.of \in User /\ r.body \in BOOLEAN
      BY <1>18 DEF ArriveUser, Request, KindInv
    <2>2. Ask(r.tab, "activity", r.of) \in Request /\ Cleanup(r.tab, "activity") \subseteq Request
      BY <2>1, AskIsRequest, IgnoringIsRequests DEF Of, Cleanup
    <2>3. net' \subseteq Request
      BY <1>18, <2>2 DEF ArriveUser
    <2>4. tab' \in [Tab -> Page]
      <3>1. [id |-> r.of, access |-> r.body] \in [id : User, access : BOOLEAN]
        BY <2>1
      <3>2. \A t \in Tab : [tab[t] EXCEPT !.user = [id |-> r.of, access |-> r.body]] \in Page
        BY <3>1 DEF Page
      <3>3. QED
        BY <1>18, <3>2 DEF ArriveUser
    <2>5. QED
      BY <1>18, <1>n, <2>3, <2>4 DEF ArriveUser
  <1>19. ASSUME NEW r \in net, ArriveSlice(r) PROVE TypeOK'
    <2>1. /\ r.kind = "stats" => r.of \in Range
          /\ r.kind # "stats" => r.of \in User
      BY DEF KindInv
    <2>2. tab' \in [Tab -> Page]
      <3>1. \A t \in Tab, d \in Range : [tab[t] EXCEPT !.slice = d] \in Page
        BY DEF Page
      <3>2. \A t \in Tab, u \in User : [tab[t] EXCEPT !.activity = u] \in Page
        BY DEF Page
      <3>3. QED
        BY <1>19, <2>1, <3>1, <3>2 DEF ArriveSlice
    <2>3. QED
      BY <1>19, <1>n, <2>2 DEF ArriveSlice, Done
  <1>20. ASSUME NEW r \in net, ArriveChanged(r) PROVE TypeOK'
    <2>1. net' \subseteq Request
      BY <1>20, <1>a DEF ArriveChanged, Done
    <2>2. QED
      BY <1>20, <1>n, <2>1 DEF ArriveChanged
  <1>21. ASSUME NEW r \in net, Lose(r) PROVE TypeOK'
    <2>1. tab' \in [Tab -> Page]
      <3>1. \A t \in Tab : [tab[t] EXCEPT !.error = TRUE] \in Page
        BY DEF Page
      <3>2. QED
        BY <1>21, <3>1 DEF Lose
    <2>2. QED
      BY <1>21, <1>n, <1>e, <2>1 DEF Lose, Done
  <1>22. ASSUME NEW u \in User, ChangeElsewhere(u) PROVE TypeOK'
    BY <1>22, <1>n, <1>e DEF ChangeElsewhere
  <1>23. ASSUME NEW a \in Account, Remove(a) PROVE TypeOK'
    BY <1>23, <1>n, <1>e DEF Remove
  <1>24. CASE StateExpires
    BY <1>24, <1>e DEF StateExpires, Jar
  <1>25. CASE Tick
    BY <1>25, <1>n, TimesAssumption DEF Tick
  <1>26. QED
    BY <1>1, <1>2, <1>3, <1>4, <1>5, <1>6, <1>7, <1>8, <1>9, <1>10, <1>11, <1>12, <1>13,
       <1>14, <1>15, <1>16, <1>17, <1>18, <1>19, <1>20, <1>21, <1>22, <1>23, <1>24, <1>25
    DEF Next, SignInStep, PageStep, RequestStep

-----------------------------------------------------------------------------
(* What requests and pages are about. *)

\* Every step keeps what requests and pages are about.
LEMMA KindStep ==
    ASSUME TypeOK, KindInv, Next
    PROVE  KindInv'
  <1> DEFINE About(r) == /\ r.of \in IF r.kind = "stats" THEN Range ELSE User
                         /\ r.kind \in Write => r.then \in User
                         /\ r.live => r.tab \in Tab
             Pages == \A t \in Tab : tab[t].at = "detail" => tab[t].id \in User
  <1>a. /\ \A r \in net : About(r)
        /\ Pages
    BY DEF KindInv
  <1>b. (\A r \in net' : About(r)) /\ Pages' => KindInv'
    BY DEF KindInv
  <1>c. ASSUME NEW t \in Tab, NEW g, tab' = [tab EXCEPT ![t] = g], g.at = "detail" => g.id \in User
        PROVE  Pages'
    BY <1>a, <1>c DEF TypeOK
  <1>d. \A t \in Tab : Blank.at = "login" /\ Blank.id = None
    BY DEF Blank
  <1>f. \A r \in net : r \in Request
    BY DEF TypeOK
  <1>g. ASSUME NEW R \in SUBSET net PROVE \A r \in Ignoring(R) : About(r)
    <2>1. \A r \in R : About([r EXCEPT !.live = FALSE])
      BY <1>a, <1>f DEF Request
    <2>2. QED
      BY <1>a, <2>1 DEF Ignoring
  <1>h. ASSUME NEW r \in net, NEW answer, NEW body, Respond(r, answer, body)
        PROVE  \A q \in net' : About(q)
    <2>1. About([r EXCEPT !.answer = answer, !.body = body])
      BY <1>a, <1>f DEF Request
    <2>2. QED
      BY <1>a, <1>h, <2>1 DEF Respond, Done
  <1>k. ASSUME NEW t \in Tab, NEW kind \in {"get", "activity", "stats"},
               NEW of \in IF kind = "stats" THEN Range ELSE User
        PROVE  About(Ask(t, kind, of))
    BY DEF Ask, Write
  <1>l. ASSUME NEW r \in net, r.kind \in Write PROVE \A q \in AfterChange(r) : About(q)
    BY <1>a, <1>l DEF AfterChange, Ask, Write
  <1>m. ASSUME UNCHANGED tab PROVE Pages'
    BY <1>a, <1>m
  <1>n. ASSUME UNCHANGED net PROVE \A r \in net' : About(r)
    BY <1>a, <1>n
  <1> HIDE DEF About, Pages
  <1>1. ASSUME NEW t \in Tab, SignInStep(t) PROVE KindInv'
    <2>1. UNCHANGED net
      BY <1>1 DEF SignInStep, SignIn, Leave, LeaveFails, CallbackRefused, CallbackFails,
                  Arrive, Callback
    <2>2. Pages'
      <3>1. CASE SignIn(t)
        BY <3>1, <1>c, <1>d DEF SignIn, Blank
      <3>2. CASE Leave(t)
        <4>1. [tab[t] EXCEPT !.at = "github"].at = "github"
          BY DEF TypeOK, Page
        <4>2. QED
          BY <3>2, <4>1, <1>c DEF Leave
      <3>3. CASE LeaveFails(t)
        BY <3>3, <1>c, <1>d DEF LeaveFails, Blank
      <3>4. ASSUME NEW p, NEW k, Answer(t, p, k) PROVE Pages'
        <4>1. [tab[t] EXCEPT !.at = "wait", !.next = p, !.new = [state |-> None, token |-> k]].at = "wait"
          BY DEF TypeOK, Page
        <4>2. QED
          BY <3>4, <4>1, <1>c DEF Answer
      <3>5. CASE Arrive(t)
        <4>1. [Blank EXCEPT !.at = tab[t].next].at # "detail"
          BY DEF TypeOK, Page, Blank
        <4>2. QED
          BY <3>5, <4>1, <1>c DEF Arrive
      <3>6. QED
        BY <1>1, <3>1, <3>2, <3>3, <3>4, <3>5
        DEF SignInStep, CallbackRefused, CallbackFails, Callback
    <2>3. QED
      BY <2>1, <2>2, <1>b, <1>n
  <1>2. ASSUME NEW t \in Tab, PageStep(t) PROVE KindInv'
    <2>0. Of(t) \subseteq net /\ {r \in Of(t) : r.kind = "stats"} \subseteq net
      BY DEF Of
    <2>1. CASE ShowUsers(t)
      <3>1. Pages'
        BY <2>1, <1>c DEF ShowUsers, Show, Blank
      <3>2. QED
        BY <2>0, <2>1, <3>1, <1>b, <1>g DEF ShowUsers, Show
    <2>2. ASSUME NEW u \in User, ShowUser(t, u) PROVE KindInv'
      <3>1. About(Ask(t, "get", u))
        BY <1>k
      <3>2. \A r \in net' : About(r)
        BY <2>0, <2>2, <3>1, <1>a, <1>g DEF ShowUser, Show
      <3>3. Pages'
        <4>1. [tab[t] EXCEPT !.id = u].id = u
          BY DEF TypeOK, Page
        <4>2. [Blank EXCEPT !.at = "detail", !.id = u].id = u
          BY DEF Blank
        <4>3. QED
          BY <2>2, <4>1, <4>2, <1>c DEF ShowUser, Show
      <3>4. QED
        BY <3>2, <3>3, <1>b
    <2>3. CASE ShowStats(t)
      <3>1. About(Ask(t, "stats", DefaultRange))
        BY <1>k, ValuesAssumption
      <3>2. Pages'
        BY <2>3, <1>c DEF ShowStats, Show, Blank
      <3>3. QED
        BY <2>0, <2>3, <3>1, <3>2, <1>b, <1>g DEF ShowStats, Show
    <2>4. ASSUME NEW d \in Range, SelectRange(t, d) PROVE KindInv'
      <3>1. About(Ask(t, "stats", d))
        BY <1>k
      <3>2. [tab[t] EXCEPT !.days = d].at = "stats"
        BY <2>4 DEF SelectRange, TypeOK, Page
      <3>3. Pages'
        BY <2>4, <3>2, <1>c DEF SelectRange
      <3>4. QED
        BY <2>0, <2>4, <3>1, <3>3, <1>b, <1>g DEF SelectRange, Cleanup
    <2>5. ASSUME NEW kind \in Write, Change(t, kind) PROVE KindInv'
      <3>1. tab[t].user.id \in User /\ tab[t].id \in User
        BY <2>5, <1>a DEF Change, TypeOK, Page, Pages
      <3>2. About([Ask(t, kind, tab[t].user.id) EXCEPT !.then = tab[t].id, !.form = (kind = "grant")])
        BY <3>1 DEF About, Ask, Write
      <3>3. QED
        BY <2>5, <3>2, <1>a, <1>b, <1>m DEF Change
    <2>6. QED
      BY <1>2, <2>1, <2>2, <2>3, <2>4, <2>5 DEF PageStep
  <1>3. ASSUME NEW r \in net, RequestStep(r) PROVE KindInv'
    <2>1. CASE Deny(r)
      BY <2>1, <1>b, <1>h, <1>m DEF Deny
    <2>2. CASE Read(r)
      BY <2>2, <1>b, <1>h, <1>m DEF Read
    <2>3. CASE Apply(r)
      BY <2>3, <1>b, <1>h, <1>m DEF Apply
    <2>4. CASE ArriveDenied(r)
      <3>1. \A q \in net : About([q EXCEPT !.tab = None, !.live = FALSE])
        BY <1>a, <1>f DEF About, Request
      <3>2. \A q \in net' : About(q)
        BY <2>4, <3>1, <1>a DEF ArriveDenied, Reloaded, Of
      <3>3. Pages'
        BY <2>4, <1>a DEF ArriveDenied, Denied, TypeOK, Blank, Pages
      <3>4. QED
        BY <3>2, <3>3, <1>b
    <2>5. CASE ArriveUnheard(r)
      BY <2>5, <1>a, <1>b, <1>l, <1>m DEF ArriveUnheard, Done
    <2>6. CASE ArriveUser(r)
      <3>1. r.tab \in Tab /\ r.of \in User
        BY <2>6, <1>a DEF ArriveUser, About
      <3>2. About(Ask(r.tab, "activity", r.of))
        BY <3>1, <1>k
      <3>3. \A q \in Cleanup(r.tab, "activity") : About(q)
        BY <1>g DEF Cleanup, Of
      <3>4. \A q \in net' : About(q)
        BY <2>6, <3>2, <3>3, <1>a DEF ArriveUser
      <3>5. Pages'
        BY <2>6, <3>1, <1>a DEF ArriveUser, TypeOK, Page, Pages
      <3>6. QED
        BY <3>4, <3>5, <1>b
    <2>7. CASE ArriveSlice(r)
      <3>1. r.tab \in Tab
        BY <2>7, <1>a DEF ArriveSlice, About
      <3>2. Pages'
        BY <2>7, <3>1, <1>a DEF ArriveSlice, TypeOK, Page, Pages
      <3>3. QED
        BY <2>7, <3>2, <1>a, <1>b DEF ArriveSlice, Done
    <2>8. CASE ArriveChanged(r)
      BY <2>8, <1>a, <1>b, <1>l, <1>m DEF ArriveChanged, Done
    <2>9. CASE Lose(r)
      <3>1. r.tab \in Tab
        BY <2>9, <1>a DEF Lose, About
      <3>2. Pages'
        BY <2>9, <3>1, <1>a DEF Lose, TypeOK, Page, Pages
      <3>3. QED
        BY <2>9, <3>2, <1>a, <1>b DEF Lose, Done
    <2>10. QED
      BY <1>3, <2>1, <2>2, <2>3, <2>4, <2>5, <2>6, <2>7, <2>8, <2>9 DEF RequestStep
  <1>4. ASSUME \/ \E u \in User : ChangeElsewhere(u)
               \/ \E a \in Account : Remove(a)
               \/ StateExpires \/ Tick
        PROVE  KindInv'
    BY <1>4, <1>b, <1>m, <1>n DEF ChangeElsewhere, Remove, StateExpires, Tick
  <1>5. QED
    BY <1>1, <1>2, <1>3, <1>4 DEF Next

-----------------------------------------------------------------------------
(* Tokens. *)

\* A token that was vouched for stays so.
LEMMA VouchedStays ==
    ASSUME TypeOK, Next, NEW token \in Token \cup {None, Keep}, Vouched(token)
    PROVE  Vouched(token)'
  <1>1. /\ now \in Nat /\ now' \in Nat /\ now <= now'
        /\ \/ UNCHANGED <<allowed, removed>>
           \/ \E a \in Account : /\ removed' = [removed EXCEPT ![a] = now]
                                 /\ allowed' = allowed \ {a}
    <2>1. \A t \in Tab : SignInStep(t) => UNCHANGED <<now, allowed, removed>>
      BY DEF SignInStep, SignIn, Leave, LeaveFails, CallbackRefused, CallbackFails, Arrive, Callback
    <2>2. \A t \in Tab : PageStep(t) => UNCHANGED <<now, allowed, removed>>
      BY DEF PageStep, ShowUsers, ShowUser, ShowStats, SelectRange, Change
    <2>3. \A r \in net : RequestStep(r) => UNCHANGED <<now, allowed, removed>>
      BY DEF RequestStep, Deny, Read, Apply, ArriveDenied, ArriveUnheard, ArriveUser, ArriveSlice,
             ArriveChanged, Lose
    <2>4. (\E u \in User : ChangeElsewhere(u)) \/ StateExpires => UNCHANGED <<now, allowed, removed>>
      BY DEF ChangeElsewhere, StateExpires
    <2>5. now \in Nat
      BY TimesAssumption DEF TypeOK
    <2>6. QED
      BY <2>1, <2>2, <2>3, <2>4, <2>5 DEF Next, Remove, Tick
  <1>2. CASE token \notin Token
    BY <1>2 DEF Vouched
  <1>3. CASE token \in Token
    <2>1. token.exp \in Int /\ token.sub \in Account /\ token.exp <= now + Ttl /\ Ttl \in Nat
      BY <1>3, TimesAssumption DEF Vouched, Token
    <2>2. token.exp <= now' + Ttl
      BY <1>1, <2>1
    <2>3. token.sub \in allowed' \/ (removed'[token.sub] # None /\ token.exp <= removed'[token.sub] + Ttl)
      <3>1. CASE UNCHANGED <<allowed, removed>>
        <4>1. token.sub \in allowed \/ (removed[token.sub] # None /\ token.exp <= removed[token.sub] + Ttl)
          BY <1>3 DEF Vouched
        <4>2. QED
          BY <3>1, <4>1
      <3>2. ASSUME NEW a \in Account, removed' = [removed EXCEPT ![a] = now], allowed' = allowed \ {a}
            PROVE  token.sub \in allowed' \/ (removed'[token.sub] # None /\ token.exp <= removed'[token.sub] + Ttl)
        <4>1. removed'[a] = now /\ now # None
          BY <3>2, ValuesAssumption DEF TypeOK
        <4>2. \A b \in Account \ {a} : removed'[b] = removed[b]
          BY <3>2 DEF TypeOK
        <4>3. QED
          <5>1. token.sub \in allowed \/ (removed[token.sub] # None /\ token.exp <= removed[token.sub] + Ttl)
            BY <1>3 DEF Vouched
          <5>2. CASE token.sub = a
            BY <2>1, <4>1, <5>2
          <5>3. CASE token.sub # a
            BY <2>1, <3>2, <4>2, <5>1, <5>3
          <5>4. QED
            BY <5>2, <5>3
      <3>3. QED
        BY <1>1, <3>1, <3>2
    <2>4. QED
      BY <2>2, <2>3 DEF Vouched
  <1>4. QED
    BY <1>2, <1>3

\* Every step keeps that the tokens that are around are vouched for.
LEMMA TokenStep ==
    ASSUME TypeOK, TokenInv, Next
    PROVE  TokenInv'
  <1> DEFINE Good(k) == k \in Token \cup {None, Keep} /\ Vouched(k)
             Tabs == \A t \in Tab : Good(tab'[t].new.token)
             Requests == \A r \in net' : Good(r.with)
  <1>a. /\ Good(jar.token) /\ Good(Keep)
        /\ \A t \in Tab : Good(tab[t].new.token)
        /\ \A r \in net : Good(r.with)
    BY TokensAssumption DEF TokenInv, TypeOK, Jar, Page, SetCookies, Request, Vouched
  <1>b. ASSUME Good(jar'.token), Tabs, Requests PROVE TokenInv'
    <2>1. \A k : Good(k) => Vouched(k)'
      BY VouchedStays
    <2>2. QED
      BY <1>b, <2>1 DEF TokenInv
  <1>c. ASSUME NEW t \in Tab, NEW g, tab' = [tab EXCEPT ![t] = g], Good(g.new.token) PROVE Tabs
    BY <1>a, <1>c DEF TypeOK
  <1>d. Good(Blank.new.token)
    BY <1>a DEF Blank
  <1>f. \A r \in net : r \in Request
    BY DEF TypeOK
  <1>g. ASSUME NEW R \in SUBSET net PROVE \A r \in Ignoring(R) : Good(r.with)
    <2>1. \A r \in R : [r EXCEPT !.live = FALSE].with = r.with
      BY <1>f DEF Request
    <2>2. QED
      BY <1>a, <2>1 DEF Ignoring
  <1>h. ASSUME NEW r \in net, NEW answer, NEW body, Respond(r, answer, body) PROVE Requests
    <2>1. [r EXCEPT !.answer = answer, !.body = body].with = r.with
      BY <1>f DEF Request
    <2>2. QED
      BY <1>a, <1>h, <2>1 DEF Respond, Done
  <1>k. \A t, kind, of : Good(Ask(t, kind, of).with)
    BY <1>a DEF Ask
  <1>l. \A r : \A q \in AfterChange(r) : Good(q.with)
    BY <1>a DEF AfterChange, Ask
  <1>m. UNCHANGED tab => Tabs
    BY <1>a
  <1>n. UNCHANGED net => Requests
    BY <1>a
  <1>o. UNCHANGED jar => Good(jar'.token)
    BY <1>a
  <1>p. \A t \in Tab : \A r : Of(t) \subseteq net /\ {q \in Of(t) : q.kind = r} \subseteq net
    BY DEF Of
  <1> HIDE DEF Good, Tabs, Requests
  <1>1. ASSUME NEW t \in Tab, SignInStep(t) PROVE TokenInv'
    <2>1. Requests
      BY <1>1, <1>n DEF SignInStep, SignIn, Leave, LeaveFails, CallbackRefused, CallbackFails,
                        Arrive, Callback
    <2>a. ASSUME NEW p, NEW k, Answer(t, p, k), Good(k) PROVE Tabs
      <3>1. [tab[t] EXCEPT !.at = "wait", !.next = p, !.new = [state |-> None, token |-> k]].new.token = k
        BY DEF TypeOK, Page
      <3>2. QED
        BY <2>a, <3>1, <1>c DEF Answer
    <2>2. CASE SignIn(t)
      BY <2>1, <2>2, <1>b, <1>c, <1>d, <1>o DEF SignIn, Blank
    <2>3. CASE Leave(t)
      <3>1. [tab[t] EXCEPT !.at = "github"].new.token = tab[t].new.token
        BY DEF TypeOK, Page
      <3>2. jar'.token = jar.token
        BY <2>3 DEF Leave, TypeOK, Jar
      <3>3. QED
        BY <2>1, <2>3, <3>1, <3>2, <1>a, <1>b, <1>c DEF Leave
    <2>4. CASE LeaveFails(t)
      BY <2>1, <2>4, <1>b, <1>c, <1>d, <1>o DEF LeaveFails, Blank
    <2>5. CASE CallbackRefused(t) \/ CallbackFails(t)
      BY <2>1, <2>5, <2>a, <1>a, <1>b, <1>o DEF CallbackRefused, CallbackFails
    <2>6. CASE Arrive(t)
      <3>1. tab[t].new \in SetCookies
        BY DEF TypeOK, Page
      <3>2. jar'.token = IF tab[t].new.token = Keep THEN jar.token ELSE tab[t].new.token
        BY <2>6, <3>1, AfterIsJar DEF Arrive
      <3>3. [Blank EXCEPT !.at = tab[t].next].new = Blank.new
        BY DEF Blank
      <3>4. Tabs
        BY <2>6, <3>3, <1>c, <1>d DEF Arrive
      <3>5. QED
        BY <2>1, <3>2, <3>4, <1>a, <1>b
    <2>7. ASSUME NEW a \in Account, Callback(t, a) PROVE TokenInv'
      <3>1. CASE IsAllowed(a)
        <4>1. [sub |-> a, exp |-> now + Ttl] \in Token
          BY TimesAssumption DEF TypeOK, Token
        <4>2. Good([sub |-> a, exp |-> now + Ttl])
          BY <3>1, <4>1, TimesAssumption DEF TypeOK, Good, Vouched, IsAllowed
        <4>3. QED
          BY <2>1, <2>7, <2>a, <3>1, <4>2, <1>b, <1>o DEF Callback
      <3>2. CASE ~IsAllowed(a)
        BY <2>1, <2>7, <2>a, <3>2, <1>a, <1>b, <1>o DEF Callback
      <3>3. QED
        BY <3>1, <3>2
    <2>8. QED
      BY <1>1, <2>2, <2>3, <2>4, <2>5, <2>6, <2>7 DEF SignInStep
  <1>2. ASSUME NEW t \in Tab, PageStep(t) PROVE TokenInv'
    <2>1. Good(jar'.token)
      BY <1>2, <1>o DEF PageStep, ShowUsers, ShowUser, ShowStats, SelectRange, Change
    <2>2. ASSUME NEW p, NEW u, NEW R, Show(t, p, u, R), \A r \in R : Good(r.with)
          PROVE  Tabs /\ Requests
      <3>1. [Blank EXCEPT !.at = p, !.id = u].new = Blank.new
        BY DEF Blank
      <3>2. Tabs
        BY <2>2, <3>1, <1>c, <1>d DEF Show
      <3>3. Requests
        BY <2>2, <1>g, <1>p DEF Show, Requests
      <3>4. QED
        BY <3>2, <3>3
    <2>3. CASE ShowUsers(t)
      BY <2>1, <2>2, <2>3, <1>b DEF ShowUsers
    <2>4. ASSUME NEW u \in User, ShowUser(t, u) PROVE TokenInv'
      <3>1. CASE tab[t].at = "detail"
        <4>1. [tab[t] EXCEPT !.id = u].new = tab[t].new
          BY DEF TypeOK, Page
        <4>2. Tabs
          BY <2>4, <3>1, <4>1, <1>a, <1>c DEF ShowUser
        <4>3. Requests
          BY <2>4, <3>1, <1>a, <1>k DEF ShowUser, Requests
        <4>4. QED
          BY <2>1, <4>2, <4>3, <1>b
      <3>2. CASE tab[t].at # "detail"
        BY <2>1, <2>2, <2>4, <3>2, <1>b, <1>k DEF ShowUser
      <3>3. QED
        BY <3>1, <3>2
    <2>5. CASE ShowStats(t)
      BY <2>1, <2>2, <2>5, <1>b, <1>k DEF ShowStats
    <2>6. ASSUME NEW d \in Range, SelectRange(t, d) PROVE TokenInv'
      <3>1. [tab[t] EXCEPT !.days = d].new = tab[t].new
        BY DEF TypeOK, Page
      <3>2. Tabs
        BY <2>6, <3>1, <1>a, <1>c DEF SelectRange
      <3>3. Requests
        BY <2>6, <1>g, <1>k, <1>p DEF SelectRange, Cleanup, Requests
      <3>4. QED
        BY <2>1, <3>2, <3>3, <1>b
    <2>7. ASSUME NEW kind \in Write, Change(t, kind) PROVE TokenInv'
      <3>1. [Ask(t, kind, tab[t].user.id) EXCEPT !.then = tab[t].id, !.form = (kind = "grant")].with
              = jar.token
        BY DEF Ask
      <3>2. Requests
        BY <2>7, <3>1, <1>a DEF Change, Requests
      <3>3. QED
        BY <2>1, <2>7, <3>2, <1>b, <1>m DEF Change
    <2>8. QED
      BY <1>2, <2>3, <2>4, <2>5, <2>6, <2>7 DEF PageStep
  <1>3. ASSUME NEW r \in net, RequestStep(r) PROVE TokenInv'
    <2>1. Good(jar'.token)
      BY <1>3, <1>o DEF RequestStep, Deny, Read, Apply, ArriveDenied, Denied, ArriveUnheard,
                        ArriveUser, ArriveSlice, ArriveChanged, Lose
    <2>2. CASE Deny(r) \/ Read(r) \/ Apply(r)
      BY <2>1, <2>2, <1>b, <1>h, <1>m DEF Deny, Read, Apply
    <2>3. CASE ArriveDenied(r)
      <3>1. \A q \in net : [q EXCEPT !.tab = None, !.live = FALSE].with = q.with
        BY <1>f DEF Request
      <3>2. Requests
        BY <2>3, <3>1, <1>a DEF ArriveDenied, Reloaded, Of, Requests
      <3>3. Tabs
        BY <2>3, <1>a, <1>d DEF ArriveDenied, Denied, TypeOK, Tabs
      <3>4. QED
        BY <2>1, <3>2, <3>3, <1>b
    <2>4. CASE ArriveUnheard(r)
      <3>1. Requests
        BY <2>4, <1>a, <1>l DEF ArriveUnheard, Done, Requests
      <3>2. QED
        BY <2>1, <2>4, <3>1, <1>b, <1>m DEF ArriveUnheard
    <2>5. CASE ArriveUser(r)
      <3>1. \A q \in Cleanup(r.tab, "activity") : Good(q.with)
        BY <1>g DEF Cleanup, Of
      <3>2. Requests
        BY <2>5, <3>1, <1>a, <1>k DEF ArriveUser, Requests
      <3>3. \A g : \A t \in Tab : [tab[t] EXCEPT !.user = g].new = tab[t].new
        BY DEF TypeOK, Page
      <3>4. Tabs
        BY <2>5, <3>3, <1>a DEF ArriveUser, TypeOK, Tabs
      <3>5. QED
        BY <2>1, <3>2, <3>4, <1>b
    <2>6. CASE ArriveSlice(r)
      <3>1. \A g : \A t \in Tab : /\ [tab[t] EXCEPT !.slice = g].new = tab[t].new
                                  /\ [tab[t] EXCEPT !.activity = g].new = tab[t].new
        BY DEF TypeOK, Page
      <3>2. Tabs
        BY <2>6, <3>1, <1>a DEF ArriveSlice, TypeOK, Tabs
      <3>3. Requests
        BY <2>6, <1>a DEF ArriveSlice, Done, Requests
      <3>4. QED
        BY <2>1, <3>2, <3>3, <1>b
    <2>7. CASE ArriveChanged(r)
      <3>1. Requests
        BY <2>7, <1>a, <1>l DEF ArriveChanged, Done, Requests
      <3>2. QED
        BY <2>1, <2>7, <3>1, <1>b, <1>m DEF ArriveChanged
    <2>8. CASE Lose(r)
      <3>1. \A t \in Tab : [tab[t] EXCEPT !.error = TRUE].new = tab[t].new
        BY DEF TypeOK, Page
      <3>2. Tabs
        BY <2>8, <3>1, <1>a DEF Lose, TypeOK, Tabs
      <3>3. Requests
        BY <2>8, <1>a DEF Lose, Done, Requests
      <3>4. QED
        BY <2>1, <3>2, <3>3, <1>b
    <2>9. QED
      BY <1>3, <2>2, <2>3, <2>4, <2>5, <2>6, <2>7, <2>8 DEF RequestStep
  <1>4. ASSUME \/ \E u \in User : ChangeElsewhere(u)
               \/ \E a \in Account : Remove(a)
               \/ StateExpires \/ Tick
        PROVE  TokenInv'
    <2>1. jar'.token = jar.token /\ UNCHANGED <<tab, net>>
      BY <1>4 DEF ChangeElsewhere, Remove, StateExpires, Tick, TypeOK, Jar
    <2>2. QED
      BY <2>1, <1>a, <1>b, <1>m, <1>n
  <1>5. QED
    BY <1>1, <1>2, <1>3, <1>4 DEF Next

-----------------------------------------------------------------------------
(* The state of a sign-in. *)

\* Every step keeps the cookie of a sign-in that has no rival.
LEMMA FlowStep ==
    ASSUME TypeOK, FlowInv, Next
    PROVE  FlowInv'
  <1> DEFINE Away == {"starting", "github", "wait"}
  <1>a. /\ \A t \in Tab : tab[t].at \in Away => tab[t].nonce # None
        /\ ~rivals => \A t, q \in Tab : tab[t].nonce # None /\ tab[q].nonce # None => t = q
        /\ ~rivals => \A t \in Tab : tab[t].at = "github" => jar.state = tab[t].nonce
    BY DEF FlowInv, InFlow, Rivals
  <1>b. ASSUME \A t \in Tab : tab'[t].at \in Away => tab'[t].nonce # None,
               ~rivals' => ~Rivals' /\ \A t \in Tab : tab'[t].at = "github" => jar'.state = tab'[t].nonce
        PROVE  FlowInv'
    BY <1>b DEF FlowInv, InFlow
  <1>n. \A T : Note(T) => (~rivals' <=> ~rivals /\ ~Rivals')
    BY DEF Note, Rivals, TypeOK
  \* Tab t gets a page that is not on its way to GitHub.
  <1>c. ASSUME NEW t \in Tab, NEW g, tab' = [tab EXCEPT ![t] = g], NEW T, Note(T),
               g.at \in Away => g.nonce # None,
               g.at = "github" => jar'.state = g.nonce,
               \/ UNCHANGED jar
               \/ tab[t].at \in Away /\ g.nonce \in {None, tab[t].nonce}
        PROVE  FlowInv'
    <2>1. \A q \in Tab : tab'[q] = IF q = t THEN g ELSE tab[q]
      BY <1>c DEF TypeOK
    <2>2. \A q \in Tab : tab'[q].at \in Away => tab'[q].nonce # None
      BY <1>a, <1>c, <2>1
    <2>3. ASSUME ~rivals', NEW q \in Tab, tab'[q].at = "github" PROVE jar'.state = tab'[q].nonce
      <3>1. ~rivals
        BY <1>c, <1>n, <2>3
      <3>2. CASE q = t
        BY <1>c, <2>1, <2>3, <3>2
      <3>3. CASE q # t
        <4>1. tab[q].at = "github" /\ tab'[q] = tab[q]
          BY <2>1, <2>3, <3>3
        <4>2. tab[q].nonce # None /\ jar.state = tab[q].nonce
          BY <1>a, <3>1, <4>1
        <4>3. ~(tab[t].at \in Away)
          BY <1>a, <3>1, <3>3, <4>2
        <4>4. QED
          BY <1>c, <4>1, <4>2, <4>3
      <3>4. QED
        BY <3>2, <3>3
    <2>4. ~rivals' => ~Rivals'
      BY <1>c, <1>n
    <2>5. QED
      BY <1>b, <2>2, <2>3, <2>4
  \* No page comes or goes.
  <1>d. ASSUME UNCHANGED jar, \A t \in Tab : tab'[t].at = tab[t].at /\ tab'[t].nonce = tab[t].nonce,
               NEW T, Note(T)
        PROVE  FlowInv'
    <2>1. ~rivals' => ~Rivals' /\ ~rivals
      BY <1>d, <1>n
    <2>2. \A t \in Tab : tab'[t].at = "github" => tab[t].at = "github" /\ tab'[t].nonce = tab[t].nonce
      BY <1>d
    <2>3. QED
      BY <1>a, <1>b, <1>d, <2>1, <2>2
  <1> HIDE DEF Away
  <1>1. ASSUME NEW t \in Tab, SignInStep(t) PROVE FlowInv'
    <2>1. CASE SignIn(t)
      <3> DEFINE n == CHOOSE n \in Nonce : n # jar.state /\ \A q \in Tab : n # tab[q].nonce
                 g == [Blank EXCEPT !.at = "starting", !.nonce = n]
      <3>1. n # None
        BY FreshNonce, ValuesAssumption
      <3>2. g.at = "starting" /\ g.nonce = n
        BY DEF Blank
      <3>3. tab' = [tab EXCEPT ![t] = g] /\ Note({}) /\ UNCHANGED jar
        BY <2>1 DEF SignIn
      <3> HIDE DEF n, g
      <3>4. QED
        BY <3>1, <3>2, <3>3, <1>c
    <2>2. CASE Leave(t)
      <3>1. /\ [tab[t] EXCEPT !.at = "github"].at = "github"
            /\ [tab[t] EXCEPT !.at = "github"].nonce = tab[t].nonce
        BY DEF TypeOK, Page
      <3>2. tab[t].at \in Away /\ tab[t].nonce # None
        BY <2>2, <1>a DEF Leave, Away
      <3>3. jar'.state = tab[t].nonce
        BY <2>2 DEF Leave, TypeOK, Jar
      <3>4. QED
        BY <2>2, <3>1, <3>2, <3>3, <1>c DEF Leave
    <2>3. CASE LeaveFails(t)
      <3>1. [Blank EXCEPT !.error = TRUE].at = "login"
        BY DEF Blank
      <3>2. QED
        BY <2>3, <3>1, <1>c DEF LeaveFails, Away
    <2>4. ASSUME NEW p, NEW k, Answer(t, p, k), tab[t].at = "github", UNCHANGED jar, Note({})
          PROVE  FlowInv'
      <3>1. \A new : /\ [tab[t] EXCEPT !.at = "wait", !.next = p, !.new = new].at = "wait"
                     /\ [tab[t] EXCEPT !.at = "wait", !.next = p, !.new = new].nonce = tab[t].nonce
        BY DEF TypeOK, Page
      <3>2. tab[t].nonce # None
        BY <2>4, <1>a DEF Away
      <3>3. QED
        BY <2>4, <3>1, <3>2, <1>c DEF Answer
    <2>5. CASE Arrive(t)
      <3>1. /\ [Blank EXCEPT !.at = tab[t].next].at \in {"login", "users"}
            /\ [Blank EXCEPT !.at = tab[t].next].nonce = None
        BY DEF TypeOK, Page, Blank
      <3>2. tab[t].at \in Away
        BY <2>5 DEF Arrive, Away
      <3>3. QED
        BY <2>5, <3>1, <3>2, <1>c DEF Arrive, Away
    <2>6. QED
      BY <1>1, <2>1, <2>2, <2>3, <2>4, <2>5
      DEF SignInStep, CallbackRefused, CallbackFails, Callback
  <1>2. ASSUME NEW t \in Tab, PageStep(t) PROVE FlowInv'
    <2>1. ASSUME NEW p \in Panel, NEW u, NEW R, Show(t, p, u, R), UNCHANGED jar, Note({})
          PROVE  FlowInv'
      <3>1. [Blank EXCEPT !.at = p, !.id = u].at = p
        BY DEF Blank
      <3>2. QED
        BY <2>1, <3>1, <1>c DEF Show, Panel, Away
    <2>2. ASSUME NEW u \in User, ShowUser(t, u), tab[t].at = "detail" PROVE FlowInv'
      <3>1. \A q \in Tab : tab'[q].at = tab[q].at /\ tab'[q].nonce = tab[q].nonce
        BY <2>2 DEF ShowUser, TypeOK, Page
      <3>2. QED
        BY <2>2, <3>1, <1>d DEF ShowUser
    <2>3. ASSUME NEW d \in Range, SelectRange(t, d) PROVE FlowInv'
      <3>1. \A q \in Tab : tab'[q].at = tab[q].at /\ tab'[q].nonce = tab[q].nonce
        BY <2>3 DEF SelectRange, TypeOK, Page
      <3>2. QED
        BY <2>3, <3>1, <1>d DEF SelectRange
    <2>4. ASSUME NEW kind \in Write, Change(t, kind) PROVE FlowInv'
      BY <2>4, <1>d DEF Change
    <2>5. QED
      BY <1>2, <2>1, <2>2, <2>3, <2>4 DEF PageStep, ShowUsers, ShowUser, ShowStats, Panel
  <1>3. ASSUME NEW r \in net, RequestStep(r) PROVE FlowInv'
    <2>1. CASE Deny(r) \/ Read(r) \/ Apply(r) \/ ArriveUnheard(r) \/ ArriveChanged(r)
      BY <2>1, <1>d DEF Deny, Read, Apply, ArriveUnheard, ArriveChanged
    <2>2. CASE ArriveDenied(r)
      <3>1. CASE r.tab \in Tab
        <4>1. Blank.at = "login"
          BY DEF Blank
        <4>2. tab' = [tab EXCEPT ![r.tab] = Blank] /\ UNCHANGED jar /\ Note({})
          BY <2>2 DEF ArriveDenied, Denied
        <4>3. QED
          BY <3>1, <4>1, <4>2, <1>c DEF Away
      <3>2. CASE r.tab \notin Tab
        BY <2>2, <3>2, <1>d DEF ArriveDenied, Denied, TypeOK
      <3>3. QED
        BY <3>1, <3>2
    <2>3. CASE ArriveUser(r) \/ ArriveSlice(r) \/ Lose(r)
      <3>1. \A t \in Tab : \A g :
               /\ LET h == [tab[t] EXCEPT !.user = g] IN h.at = tab[t].at /\ h.nonce = tab[t].nonce
               /\ LET h == [tab[t] EXCEPT !.slice = g] IN h.at = tab[t].at /\ h.nonce = tab[t].nonce
               /\ LET h == [tab[t] EXCEPT !.activity = g] IN h.at = tab[t].at /\ h.nonce = tab[t].nonce
               /\ LET h == [tab[t] EXCEPT !.error = g] IN h.at = tab[t].at /\ h.nonce = tab[t].nonce
        BY DEF TypeOK, Page
      <3>2. \A q \in Tab : tab'[q].at = tab[q].at /\ tab'[q].nonce = tab[q].nonce
        <4>1. CASE ArriveUser(r)
          BY <3>1, <4>1 DEF ArriveUser, TypeOK
        <4>2. CASE ArriveSlice(r)
          BY <3>1, <4>2 DEF ArriveSlice, TypeOK
        <4>3. CASE Lose(r)
          BY <3>1, <4>3 DEF Lose, TypeOK
        <4>4. QED
          BY <2>3, <4>1, <4>2, <4>3
      <3>3. QED
        BY <2>3, <3>2, <1>d DEF ArriveUser, ArriveSlice, Lose
    <2>4. QED
      BY <1>3, <2>1, <2>2, <2>3 DEF RequestStep
  <1>4. CASE (\E u \in User : ChangeElsewhere(u)) \/ (\E a \in Account : Remove(a)) \/ Tick
    BY <1>4, <1>d DEF ChangeElsewhere, Remove, Tick
  <1>5. CASE StateExpires
    BY <1>5, <1>a, <1>b DEF StateExpires
  <1>6. QED
    BY <1>1, <1>2, <1>3, <1>4, <1>5 DEF Next

-----------------------------------------------------------------------------
(* What a page waits for. *)

\* A page that is not crossed was not, or asks anew, and waits for one answer at most.
LEMMA StillNotCrossed ==
    ASSUME NEW T, Note(T), NEW q \in Tab, tab[q].at = "detail", tab'[q].at = "detail", ~crossed'[q]
    PROVE  /\ ~crossed[q] \/ (Busy(q) = {} /\ Busy(q)' # {})
           /\ q \notin T /\ ~Crossing(q)'
  BY DEF Note, Resumes

\* The user of page q stays as it is, or the page will know, or T names it.
Steady(q, T) ==
    tab[q].at = "detail" =>
        \/ access'[tab[q].id] = access[tab[q].id]
        \/ q \in T
        \/ \E x \in Busy(q) : ~(x.kind = "get" /\ x.answer = "ok")

\* A change of access names the pages that will not know.
LEMMA OvertakenSteady ==
    ASSUME TypeOK, KindInv, NEW q \in Tab, NEW u \in User, NEW may,
           access' = [access EXCEPT ![u] = may]
    PROVE  Steady(q, Overtaken(u))
  <1>1. tab[q].at = "detail" => tab[q].id \in User
    BY DEF KindInv
  <1>2. tab[q].at = "detail" /\ tab[q].id # u => access'[tab[q].id] = access[tab[q].id]
    BY <1>1 DEF TypeOK
  <1>3. QED
    BY <1>2 DEF Steady, Overtaken

\* A page keeps its invariant when nothing of it changes.
LEMMA PageFrame ==
    ASSUME NEW q \in Tab, PageInv(q), tab'[q] = tab[q], Awaited(q)' = Awaited(q),
           NEW T, Note(T), access' = access \/ Steady(q, T)
    PROVE  PageInv(q)'
  <1>1. Busy(q)' = Busy(q)
    BY DEF Busy
  <1>2. AwaitInv(q)' /\ SliceInv(q)'
    BY DEF PageInv, AwaitInv, SliceInv
  <1>3. CurrentInv(q)'
    <2> SUFFICES ASSUME tab[q].at = "detail", ~crossed'[q] PROVE CurrentInv(q)'
      BY DEF CurrentInv
    <2>1. ~crossed[q] /\ q \notin T
      BY <1>1, StillNotCrossed
    <2>2. /\ \A x, y \in Busy(q) : x = y
          /\ \A x \in Busy(q) : IF x.kind = "get"
                THEN x.of = tab[q].id /\ (x.answer = "ok" => x.body = access[x.of])
                ELSE x.then = tab[q].id
          /\ Busy(q) = {} => tab[q].user = [id |-> tab[q].id, access |-> access[tab[q].id]]
      BY <2>1 DEF PageInv, CurrentInv, Crossing
    <2>3. CASE access'[tab[q].id] = access[tab[q].id]
      BY <1>1, <2>2, <2>3 DEF CurrentInv, Crossing
    <2>4. CASE \E x \in Busy(q) : ~(x.kind = "get" /\ x.answer = "ok")
      BY <1>1, <2>2, <2>4 DEF CurrentInv, Crossing
    <2>5. QED
      BY <2>1, <2>3, <2>4 DEF Steady
  <1>4. QED
    BY <1>2, <1>3 DEF PageInv

\* Nothing is claimed of the other pages.
LEMMA PageIdle ==
    ASSUME NEW q \in Tab, tab'[q].at \notin {"detail", "stats"}, Awaited(q)' = {}
    PROVE  PageInv(q)'
  BY DEF PageInv, AwaitInv, SliceInv, CurrentInv

\* They wait for nothing.
LEMMA IdleAwaits ==
    ASSUME NEW q \in Tab, PageInv(q), tab[q].at \notin {"detail", "stats"}
    PROVE  Awaited(q) = {}
  BY DEF PageInv, AwaitInv

-----------------------------------------------------------------------------
(* The pages. *)

\* A step of a sign-in keeps what is shown.
LEMMA SignInKeepsPages ==
    ASSUME TypeOK, \A q \in Tab : PageInv(q), NEW t \in Tab, SignInStep(t)
    PROVE  \A q \in Tab : PageInv(q)'
  <1>1. UNCHANGED <<net, access>> /\ Note({})
    BY DEF SignInStep, SignIn, Leave, LeaveFails, CallbackRefused, CallbackFails, Arrive, Callback
  <1>2. \A q \in Tab : Awaited(q)' = Awaited(q)
    BY <1>1 DEF Awaited, Of
  <1>3. tab[t].at \notin {"detail", "stats"}
    BY DEF SignInStep, SignIn, Leave, LeaveFails, CallbackRefused, CallbackFails, Arrive, Callback
  <1>4. tab'[t].at \notin {"detail", "stats"}
    <2>1. CASE SignIn(t)
      BY <2>1 DEF SignIn, TypeOK, Blank
    <2>2. CASE Leave(t)
      BY <2>2 DEF Leave, TypeOK, Page
    <2>3. CASE LeaveFails(t)
      BY <2>3 DEF LeaveFails, TypeOK, Blank
    <2>4. ASSUME NEW p, NEW k, Answer(t, p, k) PROVE tab'[t].at = "wait"
      <3>1. \A new : [tab[t] EXCEPT !.at = "wait", !.next = p, !.new = new].at = "wait"
        BY DEF TypeOK, Page
      <3>2. QED
        BY <2>4, <3>1 DEF Answer, TypeOK
    <2>5. CASE Arrive(t)
      BY <2>5 DEF Arrive, TypeOK, Page, Blank
    <2>6. QED
      BY <2>1, <2>2, <2>3, <2>4, <2>5 DEF SignInStep, CallbackRefused, CallbackFails, Callback
  <1>5. \A q \in Tab \ {t} : tab'[q] = tab[q]
    BY DEF SignInStep, SignIn, Leave, LeaveFails, CallbackRefused, CallbackFails, Callback,
           Arrive, Answer, TypeOK
  <1>6. PageInv(t)'
    BY <1>2, <1>3, <1>4, IdleAwaits, PageIdle
  <1>7. ASSUME NEW q \in Tab \ {t} PROVE PageInv(q)'
    BY <1>1, <1>2, <1>5, <1>7, PageFrame
  <1>8. QED
    BY <1>6, <1>7

\* Whatever an admin opens or asks for is shown, or will be.
LEMMA PagesKeepPages ==
    ASSUME TypeOK, KindInv, \A q \in Tab : PageInv(q), NEW t \in Tab, PageStep(t)
    PROVE  \A q \in Tab : PageInv(q)'
  <1>1. UNCHANGED access /\ Note({})
    BY DEF PageStep, ShowUsers, ShowUser, ShowStats, SelectRange, Change
  \* The other tabs.
  <1>2. ASSUME NEW q \in Tab \ {t} PROVE PageInv(q)'
    <2>1. tab'[q] = tab[q]
      BY DEF PageStep, ShowUsers, ShowUser, ShowStats, SelectRange, Change, Show, TypeOK
    <2>2. Awaited(q)' = Awaited(q)
      <3>1. ASSUME NEW R \in SUBSET Of(t), NEW N, net' = Ignoring(R) \cup N, \A r \in N : r.tab = t
            PROVE  Awaited(q)' = Awaited(q)
        <4>1. \A r \in net : [r EXCEPT !.live = FALSE].live = FALSE
          BY DEF TypeOK, Request
        <4>2. QED
          BY <3>1, <4>1 DEF Ignoring, Awaited, Of
      <3>2. ASSUME NEW a, net' = net \cup {a}, a.tab = t PROVE Awaited(q)' = Awaited(q)
        BY <3>2 DEF Awaited, Of
      <3>3. CASE ShowUsers(t)
        BY <3>1, <3>3 DEF ShowUsers, Show
      <3>4. ASSUME NEW u \in User, ShowUser(t, u) PROVE Awaited(q)' = Awaited(q)
        <4> DEFINE a == Ask(t, "get", u)
        <4>1. a.tab = t
          BY DEF Ask
        <4>2. net' = net \cup {a} \/ net' = Ignoring(Of(t)) \cup {a}
          BY <3>4 DEF ShowUser, Show
        <4> HIDE DEF a
        <4>3. QED
          BY <3>1, <3>2, <4>1, <4>2
      <3>5. CASE ShowStats(t)
        <4> DEFINE a == Ask(t, "stats", DefaultRange)
        <4>1. a.tab = t
          BY DEF Ask
        <4>2. net' = Ignoring(Of(t)) \cup {a}
          BY <3>5 DEF ShowStats, Show
        <4> HIDE DEF a
        <4>3. QED
          BY <3>1, <4>1, <4>2
      <3>6. ASSUME NEW d \in Range, SelectRange(t, d) PROVE Awaited(q)' = Awaited(q)
        <4> DEFINE a == Ask(t, "stats", d)
                   R == {r \in Of(t) : r.kind = "stats"}
        <4>1. a.tab = t /\ R \in SUBSET Of(t)
          BY DEF Ask
        <4>2. net' = Ignoring(R) \cup {a}
          BY <3>6 DEF SelectRange, Cleanup
        <4> HIDE DEF a, R
        <4>3. QED
          BY <3>1, <4>1, <4>2
      <3>7. ASSUME NEW kind \in Write, Change(t, kind) PROVE Awaited(q)' = Awaited(q)
        <4> DEFINE a == [Ask(t, kind, tab[t].user.id) EXCEPT !.then = tab[t].id, !.form = (kind = "grant")]
        <4>1. a.tab = t
          BY DEF Ask
        <4>2. net' = net \cup {a}
          BY <3>7 DEF Change
        <4> HIDE DEF a
        <4>3. QED
          BY <3>2, <4>1, <4>2
      <3>8. QED
        BY <3>3, <3>4, <3>5, <3>6, <3>7 DEF PageStep
    <2>3. QED
      BY <1>1, <2>1, <2>2, PageFrame
  \* The page that is opened anew waits for at most one answer.
  <1>3. ASSUME NEW p, NEW u, NEW R, Show(t, p, u, R)
        PROVE  /\ tab'[t] = [Blank EXCEPT !.at = p, !.id = u]
               /\ Awaited(t)' = {r \in R : r.tab = t /\ r.live}
    <2>1. \A r \in net : [r EXCEPT !.live = FALSE].live = FALSE
      BY DEF TypeOK, Request
    <2>2. net' = Ignoring(Of(t)) \cup R
      BY <1>3 DEF Show
    <2>3. Awaited(t)' = {r \in R : r.tab = t /\ r.live}
      BY <2>1, <2>2 DEF Ignoring, Awaited, Of
    <2>4. QED
      BY <1>3, <2>3 DEF Show, TypeOK
  <1>4. CASE ShowUsers(t)
    <2>0. Show(t, "users", None, {})
      BY <1>4 DEF ShowUsers
    <2>1. /\ tab'[t] = [Blank EXCEPT !.at = "users", !.id = None]
          /\ Awaited(t)' = {r \in {} : r.tab = t /\ r.live}
      BY <1>3, <2>0
    <2>2. tab'[t].at = "users"
      BY <2>1 DEF Blank
    <2>3. QED
      BY <1>2, <2>1, <2>2, PageIdle
  <1>5. ASSUME NEW u \in User, ShowUser(t, u) PROVE PageInv(t)'
    <2> DEFINE a == Ask(t, "get", u)
    <2>a. a.tab = t /\ a.kind = "get" /\ a.of = u /\ a.live /\ a.answer = "none"
      BY DEF Ask
    <2> HIDE DEF a
    <2>1. CASE tab[t].at = "detail"
      <3>1. /\ tab'[t].at = "detail" /\ tab'[t].id = u /\ tab'[t].user = tab[t].user
            /\ tab'[t].activity = tab[t].activity /\ tab'[t].error = tab[t].error
        BY <1>5, <2>1 DEF ShowUser, TypeOK, Page
      <3>2. Awaited(t)' = Awaited(t) \cup {a}
        <4>1. net' = net \cup {a}
          BY <1>5, <2>1 DEF ShowUser, a
        <4>2. QED
          BY <2>a, <4>1 DEF Awaited, Of
      <3>3. AwaitInv(t)' /\ SliceInv(t)'
        BY <2>1, <2>a, <3>1, <3>2 DEF PageInv, AwaitInv, SliceInv
      <3>4. ASSUME ~crossed'[t] PROVE Busy(t)' = {a}
        BY <1>1, <2>1, <2>a, <3>1, <3>2, <3>4, StillNotCrossed DEF Crossing, Busy
      <3>5. CurrentInv(t)'
        BY <2>a, <3>1, <3>4 DEF CurrentInv, Crossing
      <3>6. QED
        BY <3>3, <3>5 DEF PageInv
    <2>2. CASE tab[t].at # "detail"
      <3>1. Awaited(t)' = {r \in {a} : r.tab = t /\ r.live} /\ tab'[t] = [Blank EXCEPT !.at = "detail", !.id = u]
        BY <1>3, <1>5, <2>2 DEF ShowUser, a
      <3>2. tab'[t].at = "detail" /\ tab'[t].id = u /\ tab'[t].user = None
        BY <3>1 DEF Blank
      <3>3. Awaited(t)' = {a}
        BY <2>a, <3>1
      <3>4. Busy(t)' = {a}
        BY <2>a, <3>3 DEF Busy
      <3>5. QED
        BY <2>a, <3>2, <3>3, <3>4 DEF PageInv, AwaitInv, SliceInv, CurrentInv, Crossing
    <2>3. QED
      BY <2>1, <2>2
  <1>6. CASE ShowStats(t)
    <2> DEFINE a == Ask(t, "stats", DefaultRange)
    <2>a. a.tab = t /\ a.kind = "stats" /\ a.of = DefaultRange /\ a.live
      BY DEF Ask
    <2> HIDE DEF a
    <2>1. Awaited(t)' = {r \in {a} : r.tab = t /\ r.live} /\ tab'[t] = [Blank EXCEPT !.at = "stats", !.id = None]
      BY <1>3, <1>6 DEF ShowStats, a
    <2>2. Awaited(t)' = {a}
      BY <2>1, <2>a
    <2>3. tab'[t].at = "stats" /\ tab'[t].days = DefaultRange
      BY <2>1 DEF Blank
    <2>4. PageInv(t)'
      BY <2>a, <2>2, <2>3 DEF PageInv, AwaitInv, SliceInv, CurrentInv
    <2>5. QED
      BY <1>2, <2>4
  <1>7. ASSUME NEW d \in Range, SelectRange(t, d) PROVE PageInv(t)'
    <2> DEFINE a == Ask(t, "stats", d)
               R == {r \in Of(t) : r.kind = "stats"}
    <2>a. a.tab = t /\ a.kind = "stats" /\ a.of = d /\ a.live
      BY DEF Ask
    <2>1. tab'[t].at = "stats" /\ tab'[t].days = d /\ tab[t].at = "stats"
      BY <1>7 DEF SelectRange, TypeOK, Page
    <2>2. net' = Ignoring(R) \cup {a} /\ R \in SUBSET net
      BY <1>7 DEF SelectRange, Cleanup, Of
    <2>3. Awaited(t) \subseteq R
      BY <2>1 DEF PageInv, AwaitInv, Awaited
    <2> HIDE DEF a, R
    <2>4. Awaited(t)' = {a}
      <3>1. \A r \in net : [r EXCEPT !.live = FALSE].live = FALSE
        BY DEF TypeOK, Request
      <3>2. QED
        BY <2>a, <2>2, <2>3, <3>1 DEF Ignoring, Awaited, Of
    <2>5. QED
      BY <2>a, <2>1, <2>4 DEF PageInv, AwaitInv, SliceInv, CurrentInv
  <1>8. ASSUME NEW kind \in Write, Change(t, kind) PROVE PageInv(t)'
    <2> DEFINE a == [Ask(t, kind, tab[t].user.id) EXCEPT !.then = tab[t].id, !.form = (kind = "grant")]
    <2>a. a.tab = t /\ a.kind = kind /\ a.then = tab[t].id /\ a.live
      BY DEF Ask
    <2>1. tab[t].at = "detail" /\ tab'[t] = tab[t]
      BY <1>8 DEF Change
    <2>2. net' = net \cup {a}
      BY <1>8 DEF Change
    <2> HIDE DEF a
    <2>3. Awaited(t)' = Awaited(t) \cup {a}
      BY <2>a, <2>2 DEF Awaited, Of
    <2>k. kind \notin {"get", "activity", "stats"}
      BY DEF Write
    <2>4. AwaitInv(t)' /\ SliceInv(t)'
      BY <2>a, <2>k, <2>1, <2>3 DEF PageInv, AwaitInv, SliceInv
    <2>5. ASSUME ~crossed'[t] PROVE Busy(t)' = {a}
      BY <1>1, <2>a, <2>1, <2>3, <2>5, StillNotCrossed DEF Crossing, Busy
    <2>6. CurrentInv(t)'
      BY <2>a, <2>k, <2>1, <2>5 DEF CurrentInv, Crossing
    <2>7. QED
      BY <2>4, <2>6 DEF PageInv
  <1>9. QED
    BY <1>2, <1>4, <1>5, <1>6, <1>7, <1>8 DEF PageStep

\* Whatever comes back, as the only answer about the user, leads to what is true.
LEMMA RequestsKeepPages ==
    ASSUME TypeOK, KindInv, \A q \in Tab : PageInv(q), NEW r \in net, RequestStep(r)
    PROVE  \A q \in Tab : PageInv(q)'
  <1>f. \A q \in net : q \in Request /\ [q EXCEPT !.live = FALSE].live = FALSE
    BY DEF TypeOK, Request
  <1>k. /\ r.kind = "stats" => r.of \in Range
        /\ r.kind # "stats" => r.of \in User
        /\ r.kind \in Write => r.then \in User
        /\ r.live => r.tab \in Tab
    BY DEF KindInv
  <1>w. r.live => r \in Awaited(r.tab)
    BY DEF Awaited, Of
  <1>x. r.live => tab[r.tab].at = IF r.kind = "stats" THEN "stats" ELSE "detail"
    BY <1>k, <1>w DEF PageInv, AwaitInv
  \* The page of q, where nothing happened.
  <1>1. ASSUME NEW q \in Tab, tab'[q] = tab[q], Awaited(q)' = Awaited(q),
               NEW T, Note(T), access' = access \/ Steady(q, T)
        PROVE  PageInv(q)'
    BY <1>1, PageFrame
  \* The server is done with r.
  <1>2. CASE Deny(r) \/ Read(r) \/ Apply(r)
    <2>1. PICK answer, body : /\ Respond(r, answer, body)
                              /\ answer = "ok" /\ r.kind = "get" => body = access[r.of]
      <3>1. CASE Deny(r)
        <4>1. Respond(r, "denied", FALSE)
          BY <3>1 DEF Deny
        <4>2. "denied" = "ok" /\ r.kind = "get" => FALSE = access[r.of]
          OBVIOUS
        <4>3. QED
          BY <4>1, <4>2
      <3>2. CASE Read(r)
        <4>1. r.kind = "get" => access[r.of] \in BOOLEAN
          BY <1>k DEF TypeOK
        <4>2. r.kind = "get" => (r.kind = "get" /\ access[r.of]) = access[r.of]
          BY <4>1
        <4>3. QED
          BY <3>2, <4>2 DEF Read
      <3>3. CASE Apply(r)
        <4>1. r.kind # "get"
          BY <3>3 DEF Apply, Write
        <4>2. QED
          BY <3>3, <4>1 DEF Apply
      <3>4. QED
        BY <1>2, <3>1, <3>2, <3>3
    <2>2. PICK T : /\ Note(T)
                   /\ \A q \in Tab : access' = access \/ Steady(q, T)
                   /\ UNCHANGED tab
      <3>1. CASE Apply(r)
        <4>1. r.of \in User
          BY <1>k, <3>1 DEF Apply, Write
        <4>2. \A q \in Tab : Steady(q, Overtaken(r.of))
          BY <3>1, <4>1, OvertakenSteady DEF Apply
        <4>3. Note(Overtaken(r.of)) /\ UNCHANGED tab
          BY <3>1 DEF Apply
        <4>4. QED
          BY <4>2, <4>3
      <3>2. CASE Deny(r) \/ Read(r)
        BY <3>2 DEF Deny, Read
      <3>3. QED
        BY <1>2, <3>1, <3>2
    <2>3. r.kind = "get" => access' = access
      BY <1>2 DEF Deny, Read, Apply, Write
    <2> DEFINE a == [r EXCEPT !.answer = answer, !.body = body]
    <2>4. /\ a.tab = r.tab /\ a.kind = r.kind /\ a.of = r.of /\ a.then = r.then /\ a.live = r.live
          /\ a.answer = answer /\ a.body = body
      BY <1>f DEF Request
    <2>5. net' = (net \ {r}) \cup (IF r.tab = None THEN {} ELSE {a})
      BY <2>1 DEF Respond, Done
    <2> HIDE DEF a
    <2>6. ASSUME NEW q \in Tab, ~(r.live /\ q = r.tab) PROVE PageInv(q)'
      <3>1. Awaited(q)' = Awaited(q)
        BY <2>4, <2>5, <2>6 DEF Awaited, Of
      <3>2. QED
        BY <1>1, <2>2, <2>6, <3>1
    <2>7. ASSUME r.live PROVE PageInv(r.tab)'
      <3> DEFINE p == r.tab
      <3>1. p \in Tab /\ p # None
        BY <1>k, <2>7, ValuesAssumption
      <3>2. Awaited(p)' = (Awaited(p) \ {r}) \cup {a}
        BY <2>4, <2>5, <2>7, <3>1 DEF Awaited, Of
      <3>3. AwaitInv(p)' /\ SliceInv(p)'
        BY <1>w, <2>2, <2>4, <2>7, <3>1, <3>2 DEF PageInv, AwaitInv, SliceInv
      <3>4. CurrentInv(p)'
        <4> SUFFICES ASSUME tab[p].at = "detail", ~crossed'[p] PROVE CurrentInv(p)'
          BY <2>2 DEF CurrentInv
        <4>1. ~crossed[p]
          <5>1. r \in Busy(p) \/ Busy(p)' = Busy(p)
            BY <1>w, <2>4, <2>7, <3>2 DEF Busy
          <5>2. QED
            BY <2>2, <3>1, <5>1, StillNotCrossed
        <4>2. /\ \A x, y \in Busy(p) : x = y
              /\ \A x \in Busy(p) : IF x.kind = "get"
                    THEN x.of = tab[p].id /\ (x.answer = "ok" => x.body = access[x.of])
                    ELSE x.then = tab[p].id
              /\ Busy(p) = {} => tab[p].user = [id |-> tab[p].id, access |-> access[tab[p].id]]
          BY <3>1, <4>1 DEF PageInv, CurrentInv, Crossing
        <4>3. CASE r.kind \in {"get"} \cup Write
          <5>1. r \in Busy(p)
            BY <1>w, <2>7, <4>3 DEF Busy
          <5>2. Busy(p)' = {a}
            BY <2>4, <3>2, <4>2, <4>3, <5>1 DEF Busy
          <5>3. IF a.kind = "get" THEN a.of = tab[p].id /\ (a.answer = "ok" => a.body = access'[a.of])
                ELSE a.then = tab[p].id
            BY <2>1, <2>3, <2>4, <4>2, <5>1
          <5>4. QED
            BY <2>2, <5>2, <5>3 DEF CurrentInv, Crossing
        <4>4. CASE r.kind \notin {"get"} \cup Write
          <5>1. Busy(p)' = Busy(p)
            BY <2>4, <3>2, <4>4 DEF Busy
          <5>2. access' = access
            BY <1>2, <4>4 DEF Deny, Read, Apply
          <5>3. QED
            BY <2>2, <4>2, <5>1, <5>2 DEF CurrentInv, Crossing
        <4>5. QED
          BY <4>3, <4>4
      <3>5. QED
        BY <3>3, <3>4 DEF PageInv
    <2>8. QED
      BY <2>6, <2>7
  \* A page is left for the login page.
  <1>3. CASE ArriveDenied(r)
    <2>0. tab' = [tab EXCEPT ![r.tab] = Blank] /\ net' = Reloaded(r.tab) /\ access' = access /\ Note({})
      BY <1>3 DEF ArriveDenied, Denied
    <2>1. \A q \in net : LET d == [q EXCEPT !.tab = None, !.live = FALSE]
                         IN d.tab = None /\ d.live = FALSE
      BY <1>f DEF Request
    <2>2. ASSUME NEW q \in Tab, q # r.tab PROVE PageInv(q)'
      <3>1. Awaited(q)' = Awaited(q)
        BY <2>0, <2>1, <2>2 DEF Reloaded, Awaited, Of
      <3>2. tab'[q] = tab[q]
        BY <2>0, <2>2 DEF TypeOK
      <3>3. QED
        BY <1>1, <2>0, <3>1, <3>2
    <2>3. ASSUME r.tab \in Tab PROVE PageInv(r.tab)'
      <3>1. Awaited(r.tab)' = {}
        BY <2>0, <2>1, <2>3 DEF Reloaded, Awaited, Of
      <3>2. tab'[r.tab].at = "login"
        BY <2>0, <2>3 DEF TypeOK, Blank
      <3>3. QED
        BY <2>3, <3>1, <3>2, PageIdle
    <2>4. QED
      BY <2>2, <2>3
  <1>4. CASE ArriveUnheard(r)
    <2>1. \A x \in AfterChange(r) : ~x.live
      <3>1. \A x \in AfterChange(r) : x.live = r.live
        BY DEF AfterChange, Ask
      <3>2. QED
        BY <1>4, <3>1 DEF ArriveUnheard
    <2>2. PICK N : net' = (net \ {r}) \cup N /\ \A x \in N : ~x.live
      BY <1>4, <2>1 DEF ArriveUnheard, Done
    <2>3. ~r.live /\ UNCHANGED <<tab, access>> /\ Note({})
      BY <1>4 DEF ArriveUnheard
    <2>4. \A q \in Tab : Awaited(q)' = Awaited(q)
      BY <2>2, <2>3 DEF Awaited, Of
    <2>5. QED
      BY <1>1, <2>3, <2>4
  \* The user arrives.
  <1>5. CASE ArriveUser(r)
    <2> DEFINE p == r.tab
               a == Ask(p, "activity", r.of)
               R == {x \in Of(p) : x.kind = "activity"}
               same == tab[p].user # None /\ tab[p].user.id = r.of
    <2>0. r.live /\ r.answer = "ok" /\ r.kind = "get" /\ access' = access /\ Note({})
      BY <1>5 DEF ArriveUser
    <2>1. p \in Tab /\ tab[p].at = "detail" /\ r \in Awaited(p)
      BY <1>k, <1>w, <1>x, <2>0
    <2>2. /\ tab'[p].at = "detail" /\ tab'[p].id = tab[p].id /\ tab'[p].activity = tab[p].activity
          /\ tab'[p].error = tab[p].error /\ tab'[p].user = [id |-> r.of, access |-> r.body]
          /\ \A q \in Tab \ {p} : tab'[q] = tab[q]
      BY <1>5, <2>1 DEF ArriveUser, TypeOK, Page
    <2>3. a.tab = p /\ a.kind = "activity" /\ a.of = r.of /\ a.live
      BY DEF Ask
    <2>4. net' = IF same THEN net \ {r} ELSE (Ignoring(R) \ {r}) \cup {a}
      BY <1>5 DEF ArriveUser, Cleanup
    <2>5. R \subseteq Of(p) /\ \A x \in net : x \in R <=> x.tab = p /\ x.kind = "activity"
      BY DEF Of
    <2> HIDE DEF a, R, same
    <2>6. ASSUME NEW q \in Tab \ {p} PROVE PageInv(q)'
      <3>1. Awaited(q)' = Awaited(q)
        BY <1>f, <2>3, <2>4, <2>5 DEF Ignoring, Awaited, Of
      <3>2. QED
        BY <1>1, <2>0, <2>2, <3>1
    <2>7. Awaited(p)' = IF same THEN Awaited(p) \ {r} ELSE (Awaited(p) \ (R \cup {r})) \cup {a}
      BY <1>f, <2>3, <2>4, <2>5 DEF Ignoring, Awaited, Of
    <2>8. AwaitInv(p)'
      BY <2>1, <2>2, <2>3, <2>7 DEF PageInv, AwaitInv
    <2>9. SliceInv(p)'
      <3>1. CASE same
        BY <2>0, <2>1, <2>2, <2>7, <3>1 DEF PageInv, SliceInv, same
      <3>2. CASE ~same
        <4>1. \A x \in Awaited(p)' : x.kind = "activity" => x = a
          BY <2>5, <2>7, <3>2 DEF Awaited, Of
        <4>2. QED
          BY <2>2, <2>3, <2>7, <3>2, <4>1 DEF SliceInv
      <3>3. QED
        BY <3>1, <3>2
    <2>10. CurrentInv(p)'
      <3> SUFFICES ASSUME ~crossed'[p] PROVE CurrentInv(p)'
        BY DEF CurrentInv
      <3>2. r \in Busy(p)
        BY <2>0, <2>1 DEF Busy
      <3>1. ~crossed[p]
        BY <2>0, <2>1, <2>2, <3>2, StillNotCrossed
      <3>3. (\A x \in Busy(p) : x = r) /\ r.of = tab[p].id /\ r.body = access[r.of]
        BY <2>0, <2>1, <3>1, <3>2 DEF PageInv, CurrentInv, Crossing
      <3>4. Busy(p)' = {}
        BY <2>3, <2>7, <3>3 DEF Busy, Write
      <3>5. tab'[p].user = [id |-> tab'[p].id, access |-> access'[tab'[p].id]]
        BY <2>0, <2>2, <3>3
      <3>6. QED
        BY <3>4, <3>5 DEF CurrentInv, Crossing
    <2>11. QED
      BY <2>1, <2>6, <2>8, <2>9, <2>10 DEF PageInv
  <1>6. ASSUME ArriveSlice(r) \/ ArriveChanged(r) \/ Lose(r),
               \A q \in Tab \ {r.tab} : tab'[q] = tab[q]
        PROVE  \A q \in Tab \ {r.tab} : PageInv(q)'
    <2>1. \A x \in AfterChange(r) : x.tab = r.tab
      BY DEF AfterChange, Ask
    <2>2. PICK N : net' = (net \ {r}) \cup N /\ \A x \in N : x.tab = r.tab
      BY <1>6, <2>1 DEF ArriveSlice, ArriveChanged, Lose, Done
    <2>3. \A q \in Tab \ {r.tab} : Awaited(q)' = Awaited(q)
      BY <2>2 DEF Awaited, Of
    <2>4. access' = access /\ \E T : Note(T)
      BY <1>6 DEF ArriveSlice, ArriveChanged, Lose
    <2>5. QED
      BY <1>1, <1>6, <2>3, <2>4
  \* What the page shows besides the user arrives.
  <1>7. CASE ArriveSlice(r)
    <2> DEFINE p == r.tab
    <2>0. r.live /\ r.kind \in {"activity", "stats"} /\ access' = access /\ Note({})
      BY <1>7 DEF ArriveSlice
    <2>1. p \in Tab /\ r \in Awaited(p) /\ tab[p].at = IF r.kind = "stats" THEN "stats" ELSE "detail"
      BY <1>k, <1>w, <1>x, <2>0
    <2>2. /\ tab'[p].at = tab[p].at /\ tab'[p].id = tab[p].id /\ tab'[p].user = tab[p].user
          /\ tab'[p].days = tab[p].days /\ tab'[p].error = tab[p].error
          /\ r.kind = "stats" => tab'[p].slice = r.of
          /\ r.kind = "activity" => tab'[p].activity = r.of
      BY <1>7, <2>1 DEF ArriveSlice, TypeOK, Page
    <2>3. \A q \in Tab \ {p} : tab'[q] = tab[q]
      BY <1>7, <2>1 DEF ArriveSlice, TypeOK
    <2>4. Awaited(p)' = Awaited(p) \ {r}
      BY <1>7 DEF ArriveSlice, Done, Awaited, Of
    <2>5. AwaitInv(p)'
      BY <2>1, <2>2, <2>4 DEF PageInv, AwaitInv
    <2>6. SliceInv(p)'
      BY <2>0, <2>1, <2>2, <2>4 DEF PageInv, SliceInv
    <2>7. Busy(p)' = Busy(p)
      BY <2>0, <2>4 DEF Busy, Write
    <2>8. CurrentInv(p)'
      BY <2>0, <2>1, <2>2, <2>7, StillNotCrossed DEF PageInv, CurrentInv, Crossing
    <2>9. QED
      BY <1>6, <1>7, <2>1, <2>3, <2>5, <2>6, <2>8 DEF PageInv
  \* The page is told that its change was made.
  <1>8. CASE ArriveChanged(r)
    <2> DEFINE p == r.tab
               a == [Ask(p, "get", r.then) EXCEPT !.form = r.form, !.live = r.live]
    <2>0. r.live /\ r.kind \in Write /\ UNCHANGED <<tab, access>> /\ Note({})
      BY <1>8 DEF ArriveChanged
    <2>1. p \in Tab /\ r \in Awaited(p) /\ tab[p].at = "detail"
      BY <1>k, <1>w, <1>x, <2>0 DEF Write
    <2>2. a.tab = p /\ a.kind = "get" /\ a.of = r.then /\ a.live /\ a.answer = "none"
      BY <2>0 DEF Ask
    <2>3. net' = (net \ {r}) \cup {a}
      BY <1>8 DEF ArriveChanged, Done, AfterChange
    <2> HIDE DEF a
    <2>4. Awaited(p)' = (Awaited(p) \ {r}) \cup {a}
      BY <2>2, <2>3 DEF Awaited, Of
    <2>5. AwaitInv(p)'
      BY <2>0, <2>1, <2>2, <2>4 DEF PageInv, AwaitInv
    <2>6. SliceInv(p)'
      BY <2>0, <2>1, <2>2, <2>4 DEF PageInv, SliceInv, Write
    <2>7. CurrentInv(p)'
      <3> SUFFICES ASSUME ~crossed'[p] PROVE CurrentInv(p)'
        BY DEF CurrentInv
      <3>2. r \in Busy(p)
        BY <2>0, <2>1 DEF Busy
      <3>1. ~crossed[p]
        BY <2>0, <2>1, <3>2, StillNotCrossed
      <3>3. (\A x \in Busy(p) : x = r) /\ r.then = tab[p].id
        BY <2>0, <2>1, <3>1, <3>2 DEF PageInv, CurrentInv, Crossing, Write
      <3>4. Busy(p)' = {a}
        BY <2>2, <2>4, <3>3 DEF Busy
      <3>5. QED
        BY <2>0, <2>2, <3>3, <3>4 DEF CurrentInv, Crossing
    <2>8. QED
      BY <1>6, <1>8, <2>0, <2>1, <2>5, <2>6, <2>7 DEF PageInv
  \* It is told that something went wrong.
  <1>9. CASE Lose(r)
    <2> DEFINE p == r.tab
    <2>0. r.live /\ access' = access /\ Note({p})
      BY <1>9 DEF Lose
    <2>1. p \in Tab
      BY <1>k, <2>0
    <2>2. /\ tab'[p].at = tab[p].at /\ tab'[p].user = tab[p].user
          /\ tab'[p].days = tab[p].days /\ tab'[p].error
      BY <1>9, <2>1 DEF Lose, TypeOK, Page
    <2>3. \A q \in Tab \ {p} : tab'[q] = tab[q]
      BY <1>9, <2>1 DEF Lose, TypeOK
    <2>4. Awaited(p)' = Awaited(p) \ {r}
      BY <1>9 DEF Lose, Done, Awaited, Of
    <2>5. AwaitInv(p)' /\ SliceInv(p)'
      BY <2>1, <2>2, <2>4 DEF PageInv, AwaitInv, SliceInv
    <2>6. CurrentInv(p)'
      BY <2>0, <2>1, <2>2, StillNotCrossed DEF CurrentInv
    <2>7. QED
      BY <1>6, <1>9, <2>1, <2>3, <2>5, <2>6 DEF PageInv
  <1>10. QED
    BY <1>2, <1>3, <1>4, <1>5, <1>7, <1>8, <1>9 DEF RequestStep

\* Every step keeps what the pages show.
LEMMA PageInvStep ==
    ASSUME TypeOK, KindInv, \A q \in Tab : PageInv(q), Next
    PROVE  \A q \in Tab : PageInv(q)'
  <1>1. CASE \E t \in Tab : SignInStep(t) \/ PageStep(t)
    BY <1>1, SignInKeepsPages, PagesKeepPages
  <1>2. CASE \E r \in net : RequestStep(r)
    BY <1>2, RequestsKeepPages
  <1>3. ASSUME \/ \E u \in User : ChangeElsewhere(u)
               \/ \E a \in Account : Remove(a)
               \/ StateExpires \/ Tick,
               NEW q \in Tab
        PROVE  PageInv(q)'
    <2>1. UNCHANGED <<tab, net>>
      BY <1>3 DEF ChangeElsewhere, Remove, StateExpires, Tick
    <2>2. Awaited(q)' = Awaited(q)
      BY <2>1 DEF Awaited, Of
    <2>3. CASE StateExpires
      <3>1. UNCHANGED <<tab, access, crossed>> /\ Busy(q)' = Busy(q)
        BY <2>2, <2>3 DEF StateExpires, Busy
      <3>2. QED
        BY <2>2, <3>1 DEF PageInv, AwaitInv, SliceInv, CurrentInv, Crossing
    <2>4. CASE (\E a \in Account : Remove(a)) \/ Tick
      BY <2>1, <2>2, <2>4, PageFrame DEF Remove, Tick
    <2>5. ASSUME NEW u \in User, ChangeElsewhere(u) PROVE PageInv(q)'
      <3>1. Note(Overtaken(u)) /\ Steady(q, Overtaken(u))
        BY <2>5, OvertakenSteady DEF ChangeElsewhere
      <3>2. QED
        BY <2>1, <2>2, <3>1, PageFrame
    <2>6. QED
      BY <1>3, <2>3, <2>4, <2>5
  <1>4. QED
    BY <1>1, <1>2, <1>3 DEF Next

-----------------------------------------------------------------------------
(* The theorems. *)

\* The invariant holds when the panel is opened.
LEMMA InitIInv == Init => IInv
  <1> SUFFICES ASSUME Init PROVE IInv
    OBVIOUS
  <1>1. \A t \in Tab : /\ tab[t] \in Page /\ tab[t].nonce = None
                       /\ tab[t].at \in {"login", "users"} /\ tab[t].new.token = Keep
    <2>1. [Blank EXCEPT !.at = "users"] \in Page
      BY BlankIsPage DEF Blank, Page, Place
    <2>5. Blank.nonce = None /\ Blank.at = "login" /\ Blank.new.token = Keep
      BY DEF Blank
    <2>6. LET g == [Blank EXCEPT !.at = "users"]
          IN g.nonce = None /\ g.at = "users" /\ g.new.token = Keep
      BY DEF Blank
    <2>2. \A g \in {Blank, [Blank EXCEPT !.at = "users"]} :
             /\ g \in Page /\ g.nonce = None
             /\ g.at \in {"login", "users"} /\ g.new.token = Keep
      BY <2>1, <2>5, <2>6, BlankIsPage
    <2>3. \A t \in Tab : tab[t] \in {Blank, [Blank EXCEPT !.at = "users"]}
      BY DEF Init
    <2>4. QED
      BY <2>2, <2>3
  <1>2. TypeOK
    <2>1. tab \in [Tab -> Page]
      BY <1>1 DEF Init
    <2>2. jar \in Jar
      BY TimesAssumption DEF Init, Jar, Token
    <2>3. now \in 0..MaxTime /\ events \in 0..MaxEvents
      BY TimesAssumption DEF Init
    <2>4. QED
      BY <2>1, <2>2, <2>3 DEF Init, TypeOK
  <1>3. KindInv
    BY <1>1 DEF Init, KindInv
  <1>4. TokenInv
    <2>1. Vouched(jar.token)
      BY TokensAssumption, TimesAssumption DEF Init, Vouched
    <2>2. QED
      BY <1>1, <2>1, TokensAssumption DEF Init, TokenInv, Vouched
  <1>5. FlowInv
    BY <1>1 DEF FlowInv, InFlow, Rivals
  <1>6. \A t \in Tab : PageInv(t)
    BY <1>1 DEF Init, PageInv, AwaitInv, SliceInv, CurrentInv, Awaited, Of
  <1>7. QED
    BY <1>2, <1>3, <1>4, <1>5, <1>6 DEF IInv

\* Every step keeps the invariant.
LEMMA NextIInv == IInv /\ [Next]_vars => IInv'
  <1> SUFFICES ASSUME IInv, [Next]_vars PROVE IInv'
    OBVIOUS
  <1>1. CASE Next
    <2>1. TypeOK' /\ KindInv' /\ TokenInv' /\ FlowInv'
      BY <1>1, TypeStep, KindStep, TokenStep, FlowStep DEF IInv
    <2>2. \A t \in Tab : PageInv(t)'
      BY <1>1, PageInvStep DEF IInv
    <2>3. QED
      BY <2>1, <2>2 DEF IInv
  <1>2. CASE UNCHANGED vars
    BY <1>2 DEF vars, IInv, TypeOK, KindInv, TokenInv, Vouched, FlowInv, InFlow, Rivals, PageInv,
                AwaitInv, SliceInv, CurrentInv, Crossing, Busy, Awaited, Of
  <1>3. QED
    BY <1>1, <1>2

\* The inductive invariant holds, for any number of tabs, users and requests.
THEOREM Invariance == Spec => []IInv
  BY InitIInv, NextIInv, PTL DEF Spec

\* A change is made by an admin, or by one taken off the list less than the life of
\* a token ago (isAllowed, requireAdmin).
THEOREM OnlyRecentAdminsChange == Spec => AdminsAreRecent
  <1>1. ASSUME IInv, NEW r \in net, Apply(r)
        PROVE  r.with.sub \in allowed \/ removed[r.with.sub] > now - Ttl
    <2>1. r.with \in Token /\ r.with.exp > now
      BY <1>1 DEF Apply, Verified, IInv, TypeOK, Request
    <2>2. r.with.sub \in allowed \/ (removed[r.with.sub] # None /\ r.with.exp <= removed[r.with.sub] + Ttl)
      BY <1>1, <2>1 DEF IInv, TokenInv, Vouched
    <2>3. removed[r.with.sub] # None => removed[r.with.sub] \in Int
      BY <1>1, <2>1 DEF IInv, TypeOK, Token
    <2>4. r.with.exp \in Int /\ now \in Int /\ Ttl \in Int
      BY <1>1, <2>1, TimesAssumption DEF IInv, TypeOK, Token
    <2>5. QED
      BY <2>1, <2>2, <2>3, <2>4
  <1>2. IInv => [\A r \in net : Apply(r) =>
                   LET a == r.with.sub IN a \in allowed \/ removed[a] > now - Ttl]_vars
    BY <1>1
  <1>3. QED
    BY Invariance, <1>2, PTL DEF AdminsAreRecent

\* A sign-in is refused for its state only if there was a rival, or the cookie lapsed
\* (handleCallback).
THEOREM OnlyRivalsRefused == Spec => OnlyRivalSignInsFail
  <1>1. IInv => [\A t \in Tab : CallbackRefused(t) => rivals]_vars
    BY DEF IInv, FlowInv, CallbackRefused
  <1>2. QED
    BY Invariance, <1>1, PTL DEF OnlyRivalSignInsFail

\* The page of a user that waits for nothing shows the user of its address, as the
\* user is, whoever changed that, unless two answers about the user were under way at
\* once since it last was at rest (user-detail.tsx).
THEOREM UserIsCurrent == Spec => []ShowsCurrent
  <1>1. IInv => ShowsCurrent
    BY DEF IInv, ShowsCurrent, PageInv, CurrentInv
  <1>2. QED
    BY Invariance, <1>1, PTL

\* The charts are those of the selected range, and the activity that of the user
\* (stats.tsx, user-detail.tsx).
THEOREM SlicesAreSelected == Spec => []SlicesMatch
  <1>1. IInv => SlicesMatch
    <2> SUFFICES ASSUME IInv, NEW t \in Tab, ~tab[t].error
                 PROVE  /\ tab[t].at = "stats" /\ (\A r \in Awaited(t) : r.kind # "stats") =>
                              tab[t].slice = tab[t].days
                        /\ /\ tab[t].at = "detail" /\ tab[t].user # None
                           /\ \A r \in Awaited(t) : r.kind # "activity"
                           => tab[t].activity = tab[t].user.id
      BY DEF SlicesMatch
    <2>1. AwaitInv(t) /\ SliceInv(t)
      BY DEF IInv, PageInv
    <2>2. QED
      BY <2>1 DEF AwaitInv, SliceInv
  <1>2. QED
    BY Invariance, <1>1, PTL
=============================================================================
