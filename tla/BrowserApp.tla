----------------------------- MODULE BrowserApp -----------------------------
(***************************************************************************)
(* One app that signs its users in with the client library: its server     *)
(* uses packages/client/src/server.ts, its pages use browser.ts, and the    *)
(* pages in the tabs of one browser share the cookies of homectl-auth.      *)
(*                                                                         *)
(* A response sets its cookies when it arrives.  POST /refresh and /logout *)
(* carry the cookie of the moment they were sent, and are handled later.   *)
(* What a navigation meets depends on the cookies it carries, and is        *)
(* decided when it is sent.  homectl-auth is its refresh tokens, with what  *)
(* RefreshTokens promises of them, and who may use the app.                *)
(***************************************************************************)
EXTENDS Integers, FiniteSets

CONSTANTS
    User,
    Tab,        \* numbered in the order in which they are opened
    Call,       \* further requests of the pages, besides one for each tab
    Token,      \* names of refresh tokens
    Nonce,      \* names of state parameters
    AccessTtl,  \* life of an access token
    Grace,      \* ROTATION_GRACE_SECONDS
    MaxTime,    \* bound of the clock
    MaxEvents,  \* bound of what users, admins and the network do
    MaxAside,   \* bound of these as long as a page fetches twice at once
    None,       \* no cookie, no token, no user
    Keep        \* a response that does not set the cookie

ASSUME TimesAssumption ==
    /\ AccessTtl \in Nat \ {0} /\ Grace \in Nat
    /\ MaxTime \in Nat /\ MaxEvents \in Nat /\ MaxAside \in Nat

\* There is always a name that nobody holds.
ASSUME NamesAssumption ==
    /\ Tab \subseteq Nat /\ Tab \cap Call = {} /\ IsFiniteSet(Tab \cup Call)
    /\ None \notin User \cup Tab \cup Token \cup Nonce
    /\ Keep \notin User \cup Token \cup Nonce \cup {None}
    /\ \A S \in SUBSET Token :
         Cardinality(S) <= 1 + Cardinality(Call) + 2 * Cardinality(Tab) => Token \ S # {}
    /\ \A S \in SUBSET Nonce : Cardinality(S) <= 1 + Cardinality(Tab) => Nonce \ S # {}

VARIABLES
    now,     \* the clock
    jar,     \* the browser's cookies
    page,    \* [Tab -> what the tab shows or is on the way to]
    call,    \* [Tab \cup Call -> a request of a page]
    store,   \* [Token -> the row of a refresh token]
    access,  \* [User -> may the user use the app]
    events,  \* how many of the bounded events happened
    \* history
    lost,    \* [User -> when the user last lost access, or None]
    who,     \* the user of the last login that came back, None after a logout
    raced,   \* a login or a logout overlapped another or a refresh
    rivals,  \* a login flow met another one, or lost its cookie to age
    smooth   \* every answer to a refresh came back, and quickly

vars == <<now, jar, page, call, store, access, events, lost, who, raced, rivals, smooth>>

grants == <<access, lost>>

-----------------------------------------------------------------------------
(* Cookies, pages, requests and tokens. *)

\* sso is the user's id itself.
Jar == [refresh : Token \cup {None}, sso : User \cup {None}, state : Nonce \cup {None}]

SetCookies == [refresh : Token \cup {None, Keep}, sso : User \cup {Keep},
               state : Nonce \cup {None, Keep}]

KeepAll == [refresh |-> Keep, sso |-> Keep, state |-> Keep]

\* The jar after the response that sets the cookies new.
After(new) == [k \in DOMAIN jar |-> IF new[k] = Keep THEN jar[k] ELSE new[k]]

\* An access token.
Access == [sub : User, exp : Int]

Place == {"closed", "request", "wait", "authorize", "form", "callback", "load",
          "shell", "leave", "error"}

\* next, new: where a response that is under way leads, and its cookies;
\* nonce: the state parameter of the login flow; token: _token.
Page == [at : Place, next : Place, new : SetCookies, nonce : Nonce \cup {None},
         token : Access \cup {None}]

Blank == [at |-> "closed", next |-> "closed", new |-> KeepAll, nonce |-> None, token |-> None]

\* The tab navigates to the app.
Visit == [Blank EXCEPT !.at = "request"]

\* tab: the tab whose page waits for it, None when that page is gone;
\* with: the refresh cookie it carries; new: the one its answer sets;
\* bearer: the access token it carries or brings; again: after a first 401.
Request == [tab : Tab \cup {None}, kind : {"boot", "fetch", "logout", "leave"},
            pc : {"idle", "refresh", "refreshed", "api", "logout", "loggedOut"},
            with : Token \cup {None}, new : Token \cup {None, Keep},
            bearer : Access \cup {None}, again : BOOLEAN]

NoCall == [tab |-> None, kind |-> "fetch", pc |-> "idle", with |-> None, new |-> Keep,
           bearer |-> None, again |-> FALSE]

Row == [user : User, usedAt : Int \cup {None}, ended : BOOLEAN]

FreshRow(u) == [user |-> u, usedAt |-> None, ended |-> FALSE]

\* None is no value of the model.
ASSUME MarksAssumption == None \notin Row \cup Access \cup 0..MaxTime

\* A token that nobody holds any more can never be presented: its row is dropped,
\* and its name used again.
Held == {jar.refresh} \cup {call[c].with : c \in DOMAIN call}
            \cup {call[c].new : c \in DOMAIN call} \cup {page[t].new.refresh : t \in Tab}

Spare == LET held == Held IN CHOOSE k \in Token : k \notin held

\* createSession: the rows s and one more for Spare.
Insert(s, u) == [s EXCEPT ![Spare] = FreshRow(u)]

\* The rows of the tokens K are deleted; what they were is kept for the properties.
Ended(K) ==
    [k \in Token |-> IF k \in K /\ store[k] # None THEN [store[k] EXCEPT !.usedAt = None, !.ended = TRUE]
                     ELSE store[k]]

\* Mutant: a rotated token is refused at once.
Good_NoGrace(k) ==
    /\ k # None /\ ~store[k].ended
    /\ store[k].usedAt = None

\* rotateSession honours token k now.
Good(k) ==
    /\ k # None /\ ~store[k].ended
    /\ store[k].usedAt # None => now <= store[k].usedAt + Grace

\* jwtVerify accepts access token a now.
Verified(a) == a # None /\ a.exp > now

-----------------------------------------------------------------------------
(* What the history notes of a step. *)

\* Exchanges that may replace the refresh cookie when they come back.
Refreshing == {c \in DOMAIN call : call[c].tab # None /\ call[c].pc \in {"refresh", "refreshed"}}
LoggingOut == {c \in DOMAIN call : call[c].tab # None /\ call[c].pc \in {"logout", "loggedOut"}}
LoggingIn == {t \in Tab : page[t].new.refresh # Keep}

Clash ==
    LET n == Cardinality(LoggingOut) + Cardinality(LoggingIn)
    IN n > 1 \/ (n = 1 /\ Refreshing # {})

\* A login flow, from the redirect to the answer of the callback.
InFlow(t) == page[t].nonce # None \/ page[t].new.state # Keep

\* A step leaves the rows s, as far as somebody holds their tokens.
Note(s) ==
    /\ LET held == Held' IN store' = [k \in Token |-> IF k \in held THEN s[k] ELSE None]
    /\ raced' = (raced \/ Clash')
    /\ rivals' = (rivals \/ (Cardinality({t \in Tab : InFlow(t)}) > 1)')

\* Another of the bounded events.
Event == events < MaxEvents /\ events' = events + 1

-----------------------------------------------------------------------------
Init ==
    /\ now = 0
    /\ jar = [refresh |-> None, sso |-> None, state |-> None]
    /\ page = [t \in Tab |-> Blank]
    /\ call = [c \in Tab \cup Call |-> NoCall]
    /\ store = [k \in Token |-> None]
    /\ access = [u \in User |-> TRUE]
    /\ events = 0
    /\ lost = [u \in User |-> None]
    /\ who = None
    /\ raced = FALSE
    /\ rivals = FALSE
    /\ smooth = TRUE

-----------------------------------------------------------------------------
(* Navigations. *)

\* The page of tab t goes: nothing waits for the answers to its requests, but
\* what was sent may still be handled.
Orphaned(t) ==
    [c \in DOMAIN call |->
        IF call[c].tab # t THEN call[c]
        ELSE IF call[c].pc \in {"refresh", "logout"} THEN [call[c] EXCEPT !.tab = None]
        ELSE NoCall]

Alone(t) == \A q \in Tab \ {t} : page[q].at = "closed"

\* The user opens the app in tab t, or reloads it.
Open(t) ==
    /\ Event
    /\ \A q \in Tab : q < t => page[q].at # "closed"
    /\ Alone(t) \/ \A c \in Call : call[c].pc = "idle"
    /\ page[t].at # "request"
    /\ page' = [page EXCEPT ![t] = Visit]
    /\ call' = Orphaned(t)
    /\ smooth' = (smooth /\ \A c \in Refreshing : call[c].tab # t)
    /\ UNCHANGED <<now, jar, grants, who>> /\ Note(store)

\* Mutant: the cookie is looked for in req.cookies alone, which is not there.
HasRefreshCookie_Never == FALSE

HasRefreshCookie == jar.refresh # None

\* handleUnauthenticated: a navigation has no Authorization header.  With the
\* refresh cookie the page is served, without it the login begins.
GetPage(t) ==
    /\ page[t].at = "request"
    /\ \/ /\ HasRefreshCookie
          /\ page' = [page EXCEPT ![t].at = "load"]
       \/ /\ ~HasRefreshCookie
          /\ LET n == CHOOSE n \in Nonce : n # jar.state /\ \A q \in Tab : n # page[q].nonce
             IN page' = [page EXCEPT ![t] = [Blank EXCEPT !.at = "wait", !.next = "authorize",
                                                  !.nonce = n, !.new.state = n]]
    /\ UNCHANGED <<now, jar, call, grants, events, who, smooth>> /\ Note(store)

\* The response arrives, sets its cookies, and is followed.
Arrive(t) ==
    /\ page[t].at = "wait"
    /\ jar' = After(page[t].new)
    /\ who' = IF page[t].new.refresh = Keep THEN who
              ELSE store[page[t].new.refresh].user
    /\ page' = [page EXCEPT ![t] = [@ EXCEPT !.at = page[t].next, !.next = "closed",
                                             !.new = KeepAll]]
    /\ UNCHANGED <<now, call, grants, events, smooth>> /\ Note(store)

\* The redirect to the callback, with the cookie of a new session and the SSO
\* cookie set to sso.
SignIn(t, sso) ==
    page' = [page EXCEPT ![t] = [@ EXCEPT !.at = "wait", !.next = "callback",
               !.new = [KeepAll EXCEPT !.refresh = Spare, !.sso = sso]]]

SsoSuffices == jar.sso # None /\ access[jar.sso]

\* GET /authorize with the SSO cookie of a user who has access ...
AuthorizeBySso(t) ==
    /\ page[t].at = "authorize" /\ SsoSuffices
    /\ SignIn(t, Keep)
    /\ UNCHANGED <<now, jar, call, grants, events, who, smooth>> /\ Note(Insert(store, jar.sso))

\* ... and without it.
AuthorizeByForm(t) ==
    /\ page[t].at = "authorize" /\ ~SsoSuffices
    /\ page' = [page EXCEPT ![t].at = "form"]
    /\ UNCHANGED <<now, jar, call, grants, events, who, smooth>> /\ Note(store)

\* POST /login of user u with the right password.  A refused one shows the form
\* again.  An SSO cookie that is there stays, whoever it is of.
Login(t, u) ==
    /\ Event
    /\ page[t].at = "form" /\ access[u]
    /\ SignIn(t, IF jar.sso = None THEN u ELSE Keep)
    /\ UNCHANGED <<now, jar, call, grants, who, smooth>> /\ Note(Insert(store, u))

\* The callback's response: back to the page, or an error.
Answer(t, place, state) ==
    page' = [page EXCEPT ![t] = [Blank EXCEPT !.at = "wait", !.next = place, !.new.state = state]]

\* callbackHandler refuses the state: no cookie, or another flow's.  Only a
\* cookie that was there is cleared.
CallbackRefused(t) ==
    /\ page[t].at = "callback"
    /\ jar.state # page[t].nonce
    /\ Answer(t, "error", IF jar.state = None THEN Keep ELSE None)
    /\ UNCHANGED <<now, jar, call, grants, events, who, smooth>> /\ Note(store)

CallbackAccepted(t) ==
    /\ page[t].at = "callback"
    /\ jar.state = page[t].nonce
    /\ Answer(t, "request", None)
    /\ UNCHANGED <<now, jar, call, grants, events, who, smooth>> /\ Note(store)

\* The exchange of the code fails: the server cannot be reached, or the code is
\* too old.
CallbackFailed(t) ==
    /\ Event
    /\ page[t].at = "callback"
    /\ jar.state = page[t].nonce
    /\ Answer(t, "error", None)
    /\ UNCHANGED <<now, jar, call, grants, who, smooth>> /\ Note(store)

-----------------------------------------------------------------------------
(* Requests of a page. *)

\* bootstrap() sends POST /refresh for request c of tab t.
Refresh(t, kind, again) ==
    [NoCall EXCEPT !.tab = t, !.kind = kind, !.pc = "refresh", !.with = jar.refresh,
                   !.again = again]

\* The page is there and calls bootstrap().
Load(t) ==
    /\ page[t].at = "load" /\ call[t].pc = "idle"
    /\ page' = [page EXCEPT ![t].at = "shell"]
    /\ call' = [call EXCEPT ![t] = Refresh(t, "boot", FALSE)]
    /\ UNCHANGED <<now, jar, grants, events, who, smooth>> /\ Note(store)

\* Bound: a page has a second request under way only when the other tabs are closed.
MayUse(t, c) == call[c].pc = "idle" /\ (c = t \/ (c \in Call /\ Alone(t)))

\* authedFetch, with _token or after a bootstrap().
Fetch(t, c) ==
    /\ page[t].at = "shell" /\ MayUse(t, c)
    /\ c # t => now = 0 /\ events <= MaxAside
    /\ call' = [call EXCEPT ![c] =
           IF page[t].token = None THEN Refresh(t, "fetch", FALSE)
           ELSE [NoCall EXCEPT !.tab = t, !.pc = "api", !.bearer = page[t].token]]
    /\ UNCHANGED <<now, jar, page, grants, events, who, smooth>> /\ Note(store)

\* authMiddleware of the app's API lets the request through.
Serve(c) ==
    /\ call[c].pc = "api"
    /\ Verified(call[c].bearer)
    /\ call' = [call EXCEPT ![c] = NoCall]
    /\ UNCHANGED <<now, jar, page, grants, events, who, smooth>> /\ Note(store)

\* Mutant: an XHR is sent to the login as well.
Unauthorized_Redirects(c) ==
    /\ jar' = [jar EXCEPT !.state = CHOOSE n \in Nonce : n # @ /\ \A q \in Tab : n # page[q].nonce]
    /\ call' = [call EXCEPT ![c] = IF @.again THEN NoCall ELSE Refresh(call[c].tab, "fetch", TRUE)]

\* The first 401 is followed by bootstrap() and a retry, the second surfaced.
Unauthorized(c) ==
    /\ call' = [call EXCEPT ![c] = IF @.again THEN NoCall ELSE Refresh(call[c].tab, "fetch", TRUE)]
    /\ UNCHANGED jar

Reject(c) ==
    /\ call[c].pc = "api"
    /\ ~Verified(call[c].bearer)
    /\ Unauthorized(c)
    /\ UNCHANGED <<now, page, grants, events, who, smooth>> /\ Note(store)

\* What bootstrap() leads to: access token a or null in _token, and then, for a
\* page that cannot start, the login; for authedFetch the API, unless a retry
\* has no token to go with.
Continue(c, a) ==
    LET t == call[c].tab IN
    \/ /\ call[c].kind = "boot" /\ a = None
       /\ page' = [page EXCEPT ![t] = Visit]
       /\ call' = [Orphaned(t) EXCEPT ![c] = NoCall]
    \/ /\ call[c].kind = "boot" /\ a # None
       /\ page' = [page EXCEPT ![t].token = a]
       /\ call' = [call EXCEPT ![c] = NoCall]
    \/ /\ call[c].kind = "fetch"
       /\ page' = [page EXCEPT ![t].token = a]
       /\ call' = [call EXCEPT ![c] =
              IF @.again /\ a = None THEN NoCall
              ELSE [NoCall EXCEPT !.tab = t, !.pc = "api", !.bearer = a, !.again = call[c].again]]

\* Mutant: the body of an error is read like that of a success.
Granted_Unchecked(c) == IF call[c].bearer = None THEN Keep ELSE call[c].bearer

\* The access token of the response, null if it is not ok.
Granted(c) == call[c].bearer

\* A page that goes to the login waits for no other answer.
Bootstrapped(c) ==
    /\ call[c].pc = "refreshed"
    /\ jar' = After([KeepAll EXCEPT !.refresh = call[c].new])
    /\ Continue(c, Granted(c))
    /\ smooth' = (smooth /\ (call[c].kind = "boot" /\ Granted(c) = None =>
                                \A d \in Refreshing \ {c} : call[d].tab # call[c].tab))
    /\ UNCHANGED <<now, grants, events, who>> /\ Note(store)

\* The request does not arrive, or the response does not.
LoseRefresh(c) ==
    /\ Event
    /\ c \in Refreshing
    /\ Continue(c, None)
    /\ smooth' = FALSE
    /\ UNCHANGED <<now, jar, grants, who>> /\ Note(store)

\* logout() sends POST /logout.
Logout(t, c) ==
    /\ Event
    /\ page[t].at = "shell" /\ MayUse(t, c)
    /\ call' = [call EXCEPT ![c] = [NoCall EXCEPT !.tab = t, !.kind = "logout", !.pc = "logout",
                                                  !.with = jar.refresh]]
    /\ UNCHANGED <<now, jar, page, grants, who, smooth>> /\ Note(store)

\* The page posts the form of logoutHandler, which answers with a page ...
Leave(t) ==
    /\ Event
    /\ page[t].at = "shell"
    /\ page' = [page EXCEPT ![t] = [Blank EXCEPT !.at = "leave"]]
    /\ call' = Orphaned(t)
    /\ smooth' = (smooth /\ \A c \in Refreshing : call[c].tab # t)
    /\ UNCHANGED <<now, jar, grants, who>> /\ Note(store)

\* ... whose script sends POST /logout.
LeaveScript(t) ==
    /\ page[t].at = "leave" /\ call[t].pc = "idle"
    /\ call' = [call EXCEPT ![t] = [NoCall EXCEPT !.tab = t, !.kind = "leave", !.pc = "logout",
                                                  !.with = jar.refresh]]
    /\ UNCHANGED <<now, jar, page, grants, events, who, smooth>> /\ Note(store)

\* The page forgets _token, or goes back to the app.
AfterLogout(c) ==
    /\ page' = [page EXCEPT ![call[c].tab] =
                  IF call[c].kind = "leave" THEN Visit ELSE [@ EXCEPT !.token = None]]
    /\ call' = [call EXCEPT ![c] = NoCall]

LoggedOut(c) ==
    /\ call[c].pc = "loggedOut"
    /\ jar' = After([KeepAll EXCEPT !.refresh = call[c].new])
    /\ who' = None
    /\ AfterLogout(c)
    /\ UNCHANGED <<now, grants, events, smooth>> /\ Note(store)

LoseLogout(c) ==
    /\ Event
    /\ c \in LoggingOut
    /\ AfterLogout(c)
    /\ UNCHANGED <<now, jar, grants, who, smooth>> /\ Note(store)

-----------------------------------------------------------------------------
(* homectl-auth. *)

\* POST /refresh answers: cookie new, access token a; if the page still waits.
Respond(c, pc, new, a) ==
    call' = [call EXCEPT ![c] =
        IF @.tab = None THEN NoCall
        ELSE [@ EXCEPT !.pc = pc, !.with = None, !.new = new, !.bearer = a]]

\* missing_refresh_token, or rotateSession returns null.
Refuse(c) ==
    /\ call[c].pc = "refresh"
    /\ ~Good(call[c].with)
    /\ Respond(c, "refreshed", IF call[c].with = None THEN Keep ELSE None, None)
    /\ UNCHANGED <<now, jar, page, grants, events, who, smooth>> /\ Note(store)

\* rotateSession: the first use is stamped, and a successor stored.
Rotated(k) ==
    Insert([store EXCEPT ![k].usedAt = IF @ = None THEN now ELSE @], store[k].user)

\* Mutant: any user of homectl-auth gets a token.
HasAccess_Any(u) == TRUE

HasAccess(u) == access[u]

Admit(c) ==
    /\ call[c].pc = "refresh"
    /\ Good(call[c].with) /\ HasAccess(store[call[c].with].user)
    /\ Respond(c, "refreshed", Spare,
               [sub |-> store[call[c].with].user, exp |-> now + AccessTtl])
    /\ UNCHANGED <<now, jar, page, grants, events, who, smooth>> /\ Note(Rotated(call[c].with))

\* access_revoked: the cookie is set and cleared in one response, and the
\* successor stays behind.
Expel(c) ==
    /\ call[c].pc = "refresh"
    /\ Good(call[c].with) /\ ~HasAccess(store[call[c].with].user)
    /\ Respond(c, "refreshed", None, None)
    /\ UNCHANGED <<now, jar, page, grants, events, who, smooth>> /\ Note(Rotated(call[c].with))

\* Mutant: cleared without the domain it was set for, which leaves it.
ClearedBy_NoDomain(k) == Keep

\* The cookie after a logout that presented k.
ClearedBy(k) == IF k = None THEN Keep ELSE None

\* POST /logout: the row of the token that was presented goes, and no other.
EndSession(c) ==
    /\ call[c].pc = "logout"
    /\ Respond(c, "loggedOut", ClearedBy(call[c].with), None)
    /\ UNCHANGED <<now, jar, page, grants, events, who, smooth>> /\ Note(Ended({call[c].with}))

\* A reset of the password ends the user's sessions.  One that lapsed, after 30 days,
\* is no better than a deleted one.
Reset(u) ==
    /\ Event
    /\ UNCHANGED <<now, jar, page, call, grants, who, smooth>> /\ Note(Ended({k \in Token : store[k] # None /\ store[k].user = u}))

\* An admin grants or revokes the access.
ChangeAccess(u) ==
    /\ Event
    /\ access' = [access EXCEPT ![u] = ~@]
    /\ lost' = [lost EXCEPT ![u] = IF access[u] THEN now ELSE @]
    /\ UNCHANGED <<now, jar, page, call, who, smooth>> /\ Note(store)

\* The SSO cookie or the state cookie is too old.
CookieExpires ==
    /\ Event
    /\ \/ jar.sso # None /\ jar' = [jar EXCEPT !.sso = None] /\ UNCHANGED rivals
       \/ jar.state # None /\ jar' = [jar EXCEPT !.state = None] /\ rivals' = TRUE
    /\ UNCHANGED <<now, page, call, store, grants, who, raced, smooth>>

\* A quick answer takes no time on this clock, which starts with the first session.
Tick ==
    /\ now < MaxTime /\ \E k \in Token : store[k] # None
    /\ now' = now + 1
    /\ smooth' = (smooth /\ \A c \in DOMAIN call : call[c].pc \notin {"refresh", "refreshed"})
    /\ UNCHANGED <<jar, page, call, grants, events, who>> /\ Note(store)

-----------------------------------------------------------------------------
\* What happens by itself in tab t ...
TabStep(t) ==
    \/ GetPage(t) \/ Arrive(t) \/ AuthorizeBySso(t) \/ AuthorizeByForm(t) \/ CallbackRefused(t) \/ CallbackAccepted(t)
    \/ Load(t) \/ LeaveScript(t)

\* ... and to request c.
CallStep(c) ==
    \/ Serve(c) \/ Reject(c) \/ Refuse(c) \/ Admit(c) \/ Expel(c) \/ Bootstrapped(c)
    \/ EndSession(c) \/ LoggedOut(c)

Next ==
    \/ \E t \in Tab : TabStep(t) \/ Open(t) \/ CallbackFailed(t) \/ Leave(t)
    \/ \E t \in Tab, u \in User : Login(t, u)
    \/ \E t \in Tab, c \in Tab \cup Call : Fetch(t, c) \/ Logout(t, c)
    \/ \E c \in Tab \cup Call : CallStep(c) \/ LoseRefresh(c) \/ LoseLogout(c)
    \/ \E u \in User : Reset(u) \/ ChangeAccess(u)
    \/ CookieExpires \/ Tick

Spec == Init /\ [][Next]_vars

\* The browser and the servers go on with what they have begun.
Fairness ==
    /\ \A t \in Tab : WF_vars(TabStep(t) \/ CallStep(t))
    /\ \A c \in Call : WF_vars(CallStep(c))

FairSpec == Spec /\ Fairness

-----------------------------------------------------------------------------
(* Properties. *)

\* Types; in particular _token is an access token or null.
TypeOK ==
    /\ now \in 0..MaxTime /\ events \in 0..MaxEvents
    /\ jar \in Jar
    /\ page \in [Tab -> Page]
    /\ call \in [Tab \cup Call -> Request]
    /\ store \in [Token -> Row \cup {None}]
    /\ access \in [User -> BOOLEAN]
    /\ lost \in [User -> (0..MaxTime) \cup {None}]
    /\ who \in User \cup {None}
    /\ raced \in BOOLEAN /\ rivals \in BOOLEAN /\ smooth \in BOOLEAN

\* The cookie and the pages follow the user who logged in last, or nobody after
\* a logout: the refresh cookie is of that user, and so is every access token that
\* a page gets.  A login or logout that overlaps another, or a refresh, is left out:
\* whichever response arrives last wins there (browser.ts logout, session.router.ts
\* /logout).
SessionFollowsUser ==
    [][~raced' =>
         /\ jar'.refresh # None => store'[jar'.refresh].user = who'
         /\ \A t \in Tab : page'[t].token \notin {None, page[t].token} =>
               page'[t].token.sub = who']_vars

\* As long as every answer to a refresh comes back quickly, nobody is logged out
\* before the session ended, however many tabs and requests refresh
\* with the same cookie and in whatever order they come back.
StaysSignedIn ==
    [][\A c \in Tab \cup Call : Refuse(c) /\ call[c].with # None /\ smooth =>
          store[call[c].with].ended]_vars

\* The app's API serves nobody who lost access as long ago as an access token lives.
RevokedIsOut ==
    [][\A c \in Tab \cup Call : Serve(c) =>
          LET u == call[c].bearer.sub
          IN access[u] \/ lost[u] > now - AccessTtl]_vars

\* The state of a callback is refused only if the tabs ran two login flows at
\* once, or the login took longer than the state cookie lives: nothing else that
\* the pages do touches a flow under way.
OnlyRivalLoginsFail == [][\A t \in Tab : CallbackRefused(t) => rivals]_vars

\* Every navigation ends at a page, a form or an error, and every request ends:
\* the redirects between page, /authorize, SSO and callback never go round for
\* ever, also when a page cannot get its token.
ComesToRest ==
    \A t \in Tab : []<>(/\ page[t].at \in {"closed", "form", "shell", "error"}
                       /\ call[t].pc = "idle")

-----------------------------------------------------------------------------
(* The inductive invariant. *)

\* A request holds one refresh token, a navigation never clears the refresh cookie,
\* and a token that is held has its row.
HeldInv ==
    /\ \A c \in Tab \cup Call : call[c].with = None \/ call[c].new = Keep
    /\ \A t \in Tab : page[t].new.refresh # None
    /\ \A k \in Token : k \in Held => store[k] # None

\* Access token a was signed when its user had access.
Earned(a) ==
    a \in Access =>
        /\ a.exp <= now + AccessTtl
        /\ access[a.sub] \/ (lost[a.sub] # None /\ lost[a.sub] >= a.exp - AccessTtl)

EarnedInv ==
    /\ \A t \in Tab : Earned(page[t].token)
    /\ \A c \in Tab \cup Call : Earned(call[c].bearer)

\* Tab t is past the redirect to /authorize.
PastRedirect(t) ==
    \/ page[t].at \in {"authorize", "form", "callback"}
    \/ page[t].at = "wait" /\ page[t].next = "callback"

\* The state cookie is that of the login flow in tab t.
FlowOk(t) ==
    /\ PastRedirect(t) => page[t].nonce # None /\ jar.state = page[t].nonce /\ page[t].new.state = Keep
    /\ page[t].at = "wait" /\ page[t].next = "authorize" =>
          page[t].nonce # None /\ page[t].new.state = page[t].nonce
    /\ page[t].at = "wait" => page[t].next # "form"

FlowInv ==
    ~rivals => /\ \A s, t \in Tab : InFlow(s) /\ InFlow(t) => s = t
               /\ \A t \in Tab : FlowOk(t)

Base == TypeOK /\ HeldInv /\ EarnedInv /\ FlowInv

\* A refresh is for, and brings, tokens of the user of the last login; a logout that
\* will not clear the cookie found none.
Follows(c) ==
    /\ call[c].pc \in {"refreshed", "loggedOut"} => call[c].tab # None
    /\ call[c].pc = "loggedOut" => call[c].with = None /\ call[c].new \in {None, Keep}
    /\ c \in Refreshing =>
          /\ \A k \in {call[c].with, call[c].new} \ {None, Keep} : store[k].user = who
          /\ call[c].bearer # None => call[c].bearer.sub = who
    /\ c \in LoggingOut /\ call[c].with = None /\ (call[c].pc = "logout" \/ call[c].new = Keep) =>
          jar.refresh = None

FollowInv ==
    ~raced => /\ ~Clash
              /\ jar.refresh # None => store[jar.refresh].user = who
              /\ \A c \in Tab \cup Call : Follows(c)

\* Where a response that is under way has the refresh token it brings.
Carrier == (Tab \cup Call) \X {"call"} \cup Tab \X {"page"}

Brings(h) == IF h[2] = "call" THEN call[h[1]].new ELSE page[h[1]].new.refresh

\* A token under way is unused, and nowhere else.
FreshInv ==
    \A h \in Carrier : Brings(h) \in Token =>
        /\ store[Brings(h)].usedAt = None /\ jar.refresh # Brings(h)
        /\ \A c \in Tab \cup Call : call[c].with # Brings(h)
        /\ \A g \in Carrier : Brings(g) = Brings(h) => g = h

\* A use of token k is not over yet.
Recent(k) == store[k].ended \/ store[k].usedAt \in {None, now}

Quick(c) ==
    /\ call[c].pc \in {"refresh", "refreshed", "api"} => call[c].tab # None
    /\ call[c].pc = "refresh" /\ call[c].with # None => Recent(call[c].with)

\* The answer to request c takes the place of the refresh cookie.
Replaces(c) == call[c].pc = "refreshed" /\ call[c].new # Keep

\* While every answer comes back, one that replaces a used cookie is under way.
SmoothInv ==
    smooth =>
        /\ \A c \in Tab \cup Call : Quick(c)
        /\ jar.refresh # None =>
              /\ Recent(jar.refresh)
              /\ \/ store[jar.refresh].ended \/ store[jar.refresh].usedAt = None
                 \/ \E c \in Tab \cup Call : Replaces(c)

IInv == Base /\ FollowInv /\ FreshInv /\ SmoothInv
=============================================================================
