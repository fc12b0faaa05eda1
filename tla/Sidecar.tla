------------------------------- MODULE Sidecar -------------------------------
(***************************************************************************)
(* The forward-auth sidecar (packages/proxy) between one browser and       *)
(* homectl-auth.  The sidecar keeps nothing itself: a session is an         *)
(* encrypted cookie, so that its state is what is in the browser's jar, in *)
(* requests and in responses.  A request carries the cookies of the moment *)
(* it was sent, and a response sets its cookies when it arrives, whatever  *)
(* has happened to the jar in between.                                     *)
(*                                                                         *)
(* homectl-auth is its refresh tokens, with what RefreshTokens promises of  *)
(* them, the user's role in the app, and POST /internal/refresh, whose     *)
(* statements are steps.                                                   *)
(***************************************************************************)
EXTENDS Integers, FiniteSets

CONSTANTS
    User,
    Role,        \* roles of the app
    Token,       \* refresh tokens
    Nonce,       \* values of the state parameter
    Exchange,    \* requests of the browser that are under way at once
    AccessTtl,   \* life of an access token
    RefreshSkew, \* REFRESH_SKEW_SECONDS
    RefreshTtl,  \* life of a refresh token
    Grace,       \* ROTATION_GRACE_SECONDS
    CodeTtl,     \* life of an authorization code
    Delay,       \* how long an exchange takes in a smooth run
    MaxTime,     \* bound of the clock
    MaxChanges,  \* bound of the changes made by admins and resets
    None,        \* no cookie, no role, no token
    Keep         \* a response that does not set the cookie

ASSUME TimesAssumption ==
    /\ AccessTtl \in Nat \ {0} /\ RefreshTtl \in Nat /\ CodeTtl \in Nat
    /\ RefreshSkew \in Nat /\ MaxTime \in Nat /\ MaxChanges \in Nat
    /\ Grace \in Nat /\ Delay \in Nat
    /\ 2 * Delay <= Grace

ASSUME ValuesAssumption ==
    /\ None \notin User \cup Role \cup Token \cup Nonce
    /\ Keep \notin Token \cup Nonce \cup {None}

VARIABLES
    now,       \* the clock of all servers, in seconds
    jar,       \* the browser's cookies
    req,       \* [Exchange -> a request and then its response]
    call,      \* [Exchange -> the POST /internal/refresh made for it]
    store,     \* [Token -> the row of a refresh token]
    role,      \* [User -> role in the app, or None without access]
    drawn,     \* nonces that startLogin has drawn
    \* history
    past,      \* [User -> [Role or None -> when the user last lost it, or None]]
    changes,   \* how many changes were made by admins and resets
    overlap,   \* two logins came back to the browser at once
    smooth,    \* they did not, and every exchange was quick and ended
    rivals     \* two login flows were under way at once

vars == <<now, jar, req, call, store, role, drawn, past, changes, overlap, smooth, rivals>>

-----------------------------------------------------------------------------
(* Cookies, requests and tokens. *)

\* An access token, which the sidecar reads as its claims (auth-client.ts).
Access == [sub : User, role : Role \cup {None}, exp : Int]

\* What the session cookie seals.  sub, email, role and accessExp are always
\* those of the access token.
Session == [access : Access, refresh : Token \cup {None}]

Jar == [session : Session \cup {None}, state : Nonce \cup {None},
        refresh : Token \cup {None}]

SetCookies == [session : Session \cup {None, Keep}, state : Nonce \cup {None, Keep},
               refresh : Token \cup {Keep}]

EmptyJar == [session |-> None, state |-> None, refresh |-> None]
KeepAll == [session |-> Keep, state |-> Keep, refresh |-> Keep]

\* The jar after the response to an exchange has arrived.
After(new) ==
    [c \in DOMAIN jar |-> IF new[c] = Keep THEN jar[c] ELSE new[c]]

Kind == {"page", "api", "logout"}

\* at: when it was sent, if it carries a session; with: the cookies sent, until
\* it is answered; new: the cookies the response sets; as: the identity that
\* was injected, if the request was passed to the app.
Quiet == [pc |-> "idle", kind |-> "page", at |-> None, with |-> EmptyJar,
          new |-> KeepAll, nonce |-> None, code |-> None, as |-> None]

NoCall == [pc |-> "none", token |-> None, succ |-> None, access |-> None]

\* A row of the table sessions.
Row == [user : User, lapse : Int, usedAt : Int \cup {None}, ended : BOOLEAN]

\* None and Keep are no values of the model.
ASSUME MarksAssumption ==
    /\ None \notin Row \cup Session \cup Access \cup [user : User, until : Int]
    /\ None \notin [user : User, client : {"app"}, until : Int, used : BOOLEAN]
    /\ Keep \notin Session
    /\ None \notin 0..MaxTime

\* The row of a fresh refresh token (session.service.ts createSession).
FreshRow(u) == [user |-> u, lapse |-> now + RefreshTtl, usedAt |-> None, ended |-> FALSE]

\* The row is deleted; what it was is kept for the properties.
Ended(row) == [row EXCEPT !.usedAt = None, !.ended = TRUE]

\* rotateSession honours token t now.
Good(t) ==
    /\ t # None /\ ~store[t].ended
    /\ now <= store[t].lapse
    /\ store[t].usedAt # None => now <= store[t].usedAt + Grace

Unissued == {t \in Token : store[t] = None}

Mint(u) == [sub |-> u, role |-> role[u], exp |-> now + AccessTtl]

\* jwtVerify refuses an expired token.
Verified(access) == access.exp > now

\* Mutant: refreshes that long after the expiry.
NeedsRefresh_Late(s) == s.access.exp - now < -RefreshSkew

NeedsRefresh(s) == s.access.exp - now < RefreshSkew

-----------------------------------------------------------------------------
Init ==
    /\ now = 0
    /\ jar = EmptyJar
    /\ req = [r \in Exchange |-> Quiet]
    /\ call = [r \in Exchange |-> NoCall]
    /\ store = [t \in Token |-> None]
    /\ role \in [User -> Role]
    /\ drawn = {}
    /\ past = [u \in User |-> [ro \in Role \cup {None} |-> None]]
    /\ changes = 0
    /\ overlap = FALSE
    /\ smooth = TRUE
    /\ rivals = FALSE

-----------------------------------------------------------------------------
(* The browser. *)

\* Exchange r carries a session, and its response has not arrived.
Pending(r) == req[r].at # None

\* A page, an XHR or the logout form is sent with the cookies of this moment.
\* An XHR without a session gets a 401 and sets no cookie: it is left out.
Send(r) ==
    /\ req[r].pc = "idle" /\ call[r].pc = "none"
    /\ \E k \in Kind :
         /\ k = "api" => jar.session # None
         /\ req' = [req EXCEPT ![r] = [Quiet EXCEPT !.pc = "sent", !.kind = k, !.with = jar,
                                          !.at = IF jar.session = None THEN None ELSE now]]
    /\ UNCHANGED <<now, jar, call, store, role, drawn, past, changes, overlap, smooth, rivals>>

\* The response arrives.  A redirect to /authorize is followed.
Deliver(r) ==
    /\ req[r].pc = "answered"
    /\ jar' = After(req[r].new)
    /\ req' = [req EXCEPT ![r] = IF req[r].nonce # None
                                 THEN [Quiet EXCEPT !.pc = "atAuth", !.nonce = req[r].nonce]
                                 ELSE Quiet]
    /\ UNCHANGED <<now, call, store, role, drawn, past, changes, overlap, smooth, rivals>>

\* The tab is closed or the connection breaks: no response arrives.  What the
\* sidecar does for the request all the same is what an Abandon after it leaves.
Abandon(r) ==
    /\ req[r].pc # "idle"
    /\ smooth' = (smooth /\ ~Pending(r))
    /\ req' = [req EXCEPT ![r] = Quiet]
    /\ call' = [call EXCEPT ![r] = IF @.pc \in {"back", "failed"} THEN NoCall ELSE @]
    /\ UNCHANGED <<now, jar, store, role, drawn, past, changes, overlap, rivals>>

\* User u signs in at homectl-auth, with the password or the SSO cookie, and
\* has access: a session and a code are made.  The statements of that, which
\* AuthCode and PasswordReset take apart, are one moment here.
SignIn(r) ==
    /\ req[r].pc = "atAuth"
    /\ \E u \in User, t \in Unissued :
         /\ role[u] # None
         /\ store' = [store EXCEPT ![t] = FreshRow(u)]
         /\ req' = [req EXCEPT ![r].pc = "returning",
                               ![r].code = [user |-> u, until |-> now + CodeTtl],
                               ![r].new = [KeepAll EXCEPT !.refresh = t]]
    /\ UNCHANGED <<now, jar, call, role, drawn, past, changes, overlap, smooth, rivals>>

\* Exchange r is on its way back from homectl-auth to the callback.
Returning(r) == req[r].pc \in {"returning", "returned"}

\* The redirect to the callback arrives with the app's refresh cookie ...
Return(r) ==
    /\ req[r].pc = "returning"
    /\ jar' = After(req[r].new)
    /\ req' = [req EXCEPT ![r].pc = "returned", ![r].new = KeepAll]
    /\ overlap' = (overlap \/ \E q \in Exchange \ {r} : Returning(q))
    /\ smooth' = (smooth /\ ~overlap')
    /\ UNCHANGED <<now, call, store, role, drawn, past, changes, rivals>>

\* ... and is followed, with the cookies the jar has by then.
SendCallback(r) ==
    /\ req[r].pc = "returned"
    /\ req' = [req EXCEPT ![r].pc = "callback", ![r].with = jar]
    /\ UNCHANGED <<now, jar, call, store, role, drawn, past, changes, overlap, smooth, rivals>>

-----------------------------------------------------------------------------
(* The sidecar's handlers. *)

\* The response that sets the cookies new.
Answer(r, new) ==
    [Quiet EXCEPT !.pc = "answered", !.new = new, !.at = req[r].at]

\* startLogin: an XHR gets a 401, a page a redirect with a fresh nonce.
StartLogin(r, session) ==
    \/ /\ req[r].kind # "page"
       /\ req' = [req EXCEPT ![r] = Answer(r, [KeepAll EXCEPT !.session = session])]
       /\ UNCHANGED drawn
    \/ /\ req[r].kind = "page"
       /\ \E n \in Nonce \ drawn :
            /\ drawn' = drawn \cup {n}
            /\ req' = [req EXCEPT ![r] =
                  [Answer(r, [KeepAll EXCEPT !.session = session, !.state = n])
                     EXCEPT !.nonce = n]]

\* A login flow, from the redirect to the response of the callback.
InFlow(r) == req[r].nonce # None \/ req[r].new.state # Keep

NoteRival(r) ==
    rivals' = (rivals \/ (req[r].kind = "page" /\ \E q \in Exchange \ {r} : InFlow(q)))

\* stripInboundIdentity and injectIdentity: the app gets the request as s's user.
Inject(r, s, new) ==
    req' = [req EXCEPT ![r] = [Answer(r, new) EXCEPT !.as = s.access]]

\* Mutant: clears both cookies.
Logout_AlsoState(r) ==
    /\ req[r].pc = "sent" /\ req[r].kind = "logout"
    /\ req' = [req EXCEPT ![r] =
                  Answer(r, [KeepAll EXCEPT !.session = None, !.state = None])]
    /\ UNCHANGED <<now, jar, call, store, role, drawn, past, changes, overlap, smooth, rivals>>

\* The session cookie is cleared; nothing is told to homectl-auth.
Logout(r) ==
    /\ req[r].pc = "sent" /\ req[r].kind = "logout"
    /\ req' = [req EXCEPT ![r] = Answer(r, [KeepAll EXCEPT !.session = None])]
    /\ UNCHANGED <<now, jar, call, store, role, drawn, past, changes, overlap, smooth, rivals>>

Arrived(r) == req[r].pc = "sent" /\ req[r].kind # "logout"

\* Mutant: without a session, homectl-auth's cookie is tried first.
NoSession_Refreshes(r) ==
    /\ Arrived(r) /\ req[r].with.session = None
    /\ req' = [req EXCEPT ![r].pc = "refreshing"]
    /\ call' = [call EXCEPT ![r] = [NoCall EXCEPT !.pc = "out", !.token = req[r].with.refresh]]
    /\ UNCHANGED <<now, jar, store, role, drawn, past, changes, overlap, smooth, rivals>>

NoSession(r) ==
    /\ Arrived(r) /\ req[r].with.session = None
    /\ StartLogin(r, Keep) /\ NoteRival(r)
    /\ UNCHANGED <<now, jar, call, store, role, past, changes, overlap, smooth>>

PassFresh(r) ==
    /\ Arrived(r) /\ req[r].with.session # None
    /\ ~NeedsRefresh(req[r].with.session)
    /\ Inject(r, req[r].with.session, KeepAll)
    /\ UNCHANGED <<now, jar, call, store, role, drawn, past, changes, overlap, smooth, rivals>>

\* The access token is close to its expiry: POST /internal/refresh.
StartRefresh(r) ==
    /\ Arrived(r) /\ req[r].with.session # None
    /\ NeedsRefresh(req[r].with.session)
    /\ req' = [req EXCEPT ![r].pc = "refreshing"]
    /\ call' = [call EXCEPT ![r] = [NoCall EXCEPT !.pc = "out",
                                                  !.token = req[r].with.session.refresh]]
    /\ UNCHANGED <<now, jar, store, role, drawn, past, changes, overlap, smooth, rivals>>

\* Mutant: the rotated token is not stored.
Refreshed_OldToken(c) == [access |-> c.access, refresh |-> c.token]

\* The session that a refresh leads to.
Refreshed(c) == [access |-> c.access, refresh |-> c.succ]

\* The refresh came back and its token verifies: the cookie is rewritten.
PassRefreshed(r) ==
    /\ req[r].pc = "refreshing" /\ call[r].pc = "back" /\ Verified(call[r].access)
    /\ Inject(r, Refreshed(call[r]), [KeepAll EXCEPT !.session = Refreshed(call[r])])
    /\ call' = [call EXCEPT ![r] = NoCall]
    /\ UNCHANGED <<now, jar, store, role, drawn, past, changes, overlap, smooth, rivals>>

\* The refresh was refused, failed, or came back with a token that has expired.
RefreshFailed(r) ==
    /\ req[r].pc = "refreshing"
    /\ call[r].pc = "back" => ~Verified(call[r].access)
    /\ call[r].pc \in {"failed", "back"}
    /\ StartLogin(r, None) /\ NoteRival(r)
    /\ call' = [call EXCEPT ![r] = NoCall]
    /\ UNCHANGED <<now, jar, store, role, past, changes, overlap, smooth>>

\* FETCH_TIMEOUT_MS is over: the sidecar goes on without an answer, and
\* homectl-auth with its work.
RefreshTimeout(r) ==
    /\ req[r].pc = "refreshing" /\ call[r].pc \in {"out", "rotated"}
    /\ StartLogin(r, None) /\ NoteRival(r)
    /\ smooth' = FALSE
    /\ UNCHANGED <<now, jar, call, store, role, past, changes, overlap>>

\* The state of the callback is the nonce of the cookie.
StateMatches(r) == req[r].with.state # None /\ req[r].with.state = req[r].nonce

\* The callback clears the state cookie whatever happens.
CallbackRefused(r) ==
    /\ req[r].pc = "callback"
    /\ ~StateMatches(r)
    /\ req' = [req EXCEPT ![r] = Answer(r, [KeepAll EXCEPT !.state = None])]
    /\ UNCHANGED <<now, jar, call, store, role, drawn, past, changes, overlap, smooth, rivals>>

\* Mutant: a session that is there already keeps its refresh token.
FirstRefresh_Existing(r) ==
    IF req[r].with.session # None THEN req[r].with.session.refresh ELSE req[r].with.refresh

\* The refresh token of a new session is the browser's own for this app.
FirstRefresh(r) == req[r].with.refresh

CallbackAccepted(r) ==
    /\ req[r].pc = "callback"
    /\ StateMatches(r)
    /\ now <= req[r].code.until
    /\ LET s == [access |-> Mint(req[r].code.user), refresh |-> FirstRefresh(r)]
       IN req' = [req EXCEPT ![r] = Answer(r, [KeepAll EXCEPT !.session = s, !.state = None])]
    /\ UNCHANGED <<now, jar, call, store, role, drawn, past, changes, overlap, smooth, rivals>>

\* The exchange of the code fails, because it is too late or for another reason.
CallbackFailed(r) ==
    /\ req[r].pc = "callback"
    /\ StateMatches(r)
    /\ req' = [req EXCEPT ![r] = Answer(r, [KeepAll EXCEPT !.state = None])]
    /\ UNCHANGED <<now, jar, call, store, role, drawn, past, changes, overlap, smooth, rivals>>

-----------------------------------------------------------------------------
(* POST /internal/refresh. *)

\* The call ends with answer c, if the sidecar still waits for it.
Reply(r, c) == call' = [call EXCEPT ![r] = IF req[r].pc = "refreshing" THEN c ELSE NoCall]

Failed == [NoCall EXCEPT !.pc = "failed"]

\* rotateSession refuses the token.
Refuse(r) ==
    /\ call[r].pc = "out"
    /\ ~Good(call[r].token)
    /\ Reply(r, Failed)
    /\ UNCHANGED <<now, jar, req, store, role, drawn, past, changes, overlap, smooth, rivals>>

\* The row of a token that is presented now: the first use is stamped.
Stamped(row) == [row EXCEPT !.usedAt = IF @ = None THEN now ELSE @]

\* rotateSession honours it.
Rotate(r) ==
    /\ call[r].pc = "out"
    /\ Good(call[r].token)
    /\ \E s \in Unissued :
         /\ store' = [store EXCEPT ![call[r].token] = Stamped(@),
                                   ![s] = FreshRow(store[call[r].token].user)]
         /\ call' = [call EXCEPT ![r].pc = "rotated", ![r].succ = s]
    /\ UNCHANGED <<now, jar, req, role, drawn, past, changes, overlap, smooth, rivals>>

\* Mutant: the access is not checked.
Admit_AnyUser(r) ==
    /\ call[r].pc = "rotated"
    /\ Reply(r, [call[r] EXCEPT !.pc = "back", !.access = Mint(store[call[r].succ].user)])
    /\ UNCHANGED <<now, jar, req, store, role, drawn, past, changes, overlap, smooth, rivals>>

\* The user has access: the access token is signed.
Admit(r) ==
    /\ call[r].pc = "rotated"
    /\ LET u == store[call[r].succ].user IN
       /\ role[u] # None
       /\ Reply(r, [call[r] EXCEPT !.pc = "back", !.access = Mint(u)])
    /\ UNCHANGED <<now, jar, req, store, role, drawn, past, changes, overlap, smooth, rivals>>

\* The access was revoked: the successor is deleted.
Expel(r) ==
    /\ call[r].pc = "rotated"
    /\ role[store[call[r].succ].user] = None
    /\ store' = [store EXCEPT ![call[r].succ] = Ended(@)]
    /\ Reply(r, Failed)
    /\ UNCHANGED <<now, jar, req, role, drawn, past, changes, overlap, smooth, rivals>>

\* The call fails on either side, before or after the rotation.
CallFails(r) ==
    /\ call[r].pc \in {"out", "rotated"}
    /\ Reply(r, Failed)
    /\ smooth' = FALSE
    /\ UNCHANGED <<now, jar, req, store, role, drawn, past, changes, overlap, rivals>>

-----------------------------------------------------------------------------
(* Elsewhere. *)

\* An admin changes the role of u or takes the access away (app_access).
SetRole(u) ==
    /\ \E ro \in (Role \cup {None}) \ {role[u]} : role' = [role EXCEPT ![u] = ro]
    /\ past' = [past EXCEPT ![u][role[u]] = now]
    /\ changes < MaxChanges /\ changes' = changes + 1
    /\ UNCHANGED <<now, jar, req, call, store, drawn, overlap, smooth, rivals>>

\* A password reset ends the user's refresh tokens.
Reset(u) ==
    /\ \E t \in Token \ Unissued : store[t].user = u /\ ~store[t].ended
    /\ store' = [t \in Token |-> IF store[t] # None /\ store[t].user = u
                                 THEN Ended(store[t]) ELSE store[t]]
    /\ changes < MaxChanges /\ changes' = changes + 1
    /\ UNCHANGED <<now, jar, req, call, role, drawn, past, overlap, smooth, rivals>>

Tick ==
    /\ now < MaxTime
    /\ now' = now + 1
    /\ smooth' = (smooth /\ \A r \in Exchange : Pending(r) => now + 1 <= req[r].at + Delay)
    /\ UNCHANGED <<jar, req, call, store, role, drawn, past, changes, overlap, rivals>>

BrowserStep(r) ==
    \/ Send(r) \/ Deliver(r) \/ Abandon(r) \/ SignIn(r) \/ Return(r) \/ SendCallback(r)

SidecarStep(r) ==
    \/ Logout(r) \/ NoSession(r) \/ PassFresh(r)
    \/ StartRefresh(r) \/ PassRefreshed(r) \/ RefreshFailed(r) \/ RefreshTimeout(r)
    \/ CallbackRefused(r) \/ CallbackAccepted(r) \/ CallbackFailed(r)

RefreshStep(r) == Refuse(r) \/ Rotate(r) \/ Admit(r) \/ Expel(r) \/ CallFails(r)

Next ==
    \/ Tick
    \/ \E u \in User : SetRole(u) \/ Reset(u)
    \/ \E r \in Exchange : BrowserStep(r) \/ SidecarStep(r) \/ RefreshStep(r)

Spec == Init /\ [][Next]_vars

-----------------------------------------------------------------------------
(* Properties. *)

\* The sessions that are in the browser or on the way to it or from it.
Sessions ==
    ({jar.session} \cup {req[r].with.session : r \in Exchange}
                   \cup {req[r].new.session : r \in Exchange}) \ {None, Keep}

Time == 0..MaxTime

Code == [user : User, until : Int]

Request == [pc : {"idle", "sent", "refreshing", "answered", "atAuth", "returning", "returned", "callback"},
            kind : Kind, at : Time \cup {None}, with : Jar, new : SetCookies,
            nonce : Nonce \cup {None}, code : Code \cup {None}, as : Access \cup {None}]

Call == [pc : {"none", "out", "rotated", "back", "failed"}, token : Token \cup {None},
         succ : Token \cup {None}, access : Access \cup {None}]

\* Types; in particular a session never comes without the place for its refresh token.
TypeOK ==
    /\ now \in Time
    /\ jar \in Jar
    /\ req \in [Exchange -> Request] /\ call \in [Exchange -> Call]
    /\ store \in [Token -> Row \cup {None}]
    /\ role \in [User -> Role \cup {None}]
    /\ drawn \subseteq Nonce
    /\ past \in [User -> [Role \cup {None} -> Time \cup {None}]]
    /\ changes \in 0..MaxChanges
    /\ overlap \in BOOLEAN /\ smooth \in BOOLEAN /\ rivals \in BOOLEAN

\* The comment at session.service.ts:26-33: requests that carry the same token
\* and cross the refresh threshold together all succeed.  As long as no
\* exchange takes longer than Delay or fails, no refresh is refused but of
\* a token that has lapsed or was ended by a reset.
SiblingsSurvive ==
    [][\A r \in Exchange : Refuse(r) /\ smooth /\ call[r].token # None =>
         store[call[r].token].ended \/ now > store[call[r].token].lapse]_vars

\* User u has had role ro at some time since t.
HadSince(u, ro, t) ==
    \/ role[u] = ro
    \/ past[u][ro] # None /\ past[u][ro] >= t

Passes(r) == req[r].as = None /\ req'[r].as # None

\* The app is told a role that the user had when the access token was
\* signed, at most one life of an access token ago: a change of role reaches
\* the app in that time (app.ts:249, internal.router.ts:62-70).
RoleIsRecent ==
    [][\A r \in Exchange : Passes(r) =>
         LET a == req'[r].as IN HadSince(a.sub, a.role, now - AccessTtl)]_vars

\* A user whose access is revoked is kept out after the life of a code and of the
\* access token it buys, although the session cookie never ends and refreshes may be
\* under way (app.ts:249, internal.router.ts:62-70; compare RevokedWithinTokenLife).
RevokedIsOut ==
    [][\A r \in Exchange : Passes(r) =>
         \E ro \in Role : HadSince(req'[r].as.sub, ro, now - AccessTtl - CodeTtl)]_vars

\* docs/prd.md:358 says that revoking a user's app access takes effect within one
\* life of an access token.  The exchange of a code does not look at the access to
\* the code's own app (auth-code.service.ts:125), so that one which was issued before
\* still buys a whole life.
RevokedWithinTokenLife ==
    [][\A r \in Exchange : Passes(r) =>
         \E ro \in Role : HadSince(req'[r].as.sub, ro, now - AccessTtl)]_vars

\* Unless two logins come back at once, the refresh token of a session is of the
\* user the session passes requests as: a refresh never makes another user of
\* it (app.ts:185-202, 250-261).
OneUsersSession ==
    ~overlap => \A s \in Sessions : s.refresh # None => store[s.refresh].user = s.access.sub

\* Both logins of two tabs can fail, because they share one state cookie and
\* every callback clears it (app.ts:159-175); but a login that has the browser
\* to itself is never refused for its state, whatever XHRs and logouts are
\* answered meanwhile (app.ts:216-219, 285-288).  The ten minutes that the state
\* cookie lives are not modelled: a login that takes longer is refused.
OnlyRivalsCollide == [][\A r \in Exchange : CallbackRefused(r) => rivals]_vars

\* The session is its cookie, so that a logout ends what the browser holds and not
\* what is under way.  But once no session is left in the jar, in a request or in a
\* response, none comes back without a login, whatever refreshes homectl-auth is
\* still busy with for exchanges that timed out or were left (app.ts:216-219, 240-270).
LoggedOutIsOut ==
    [][Sessions = {} => Sessions' = {} \/ \E r \in Exchange : CallbackAccepted(r)]_vars

\* What the row of a token means to its holder, and the time up to which it does.
Deadline(row) ==
    IF row.usedAt # None /\ row.usedAt + Grace < row.lapse
    THEN row.usedAt + Grace ELSE row.lapse

GoodToken(t) ==
    IF store[t] # None /\ Good(t)
    THEN [user |-> store[t].user, client |-> "app", until |-> Deadline(store[t]),
          used |-> store[t].usedAt # None]
    ELSE None

Abs == INSTANCE RefreshTokens WITH
    Request <- Exchange, Client <- {"app"}, Ttl <- RefreshTtl, Window <- Grace, Null <- None,
    good <- [t \in Token |-> GoodToken(t)],
    held <- [r \in Exchange |-> None],
    issued <- {t \in Token : store[t] # None},
    revoked <- {t \in Token : store[t] # None /\ store[t].ended}

\* What this module takes homectl-auth to do with refresh tokens, a rotation being
\* one moment here, is what RefreshTokens promises and SessionStore keeps.
ImplementsRefreshTokens == Abs!Spec

-----------------------------------------------------------------------------
(* The inductive invariant. *)

\* What an exchange holds at each of its stages.
ShapeInv(r) ==
    /\ req[r].pc \in {"idle", "sent", "refreshing"} => req[r].nonce = None
    /\ req[r].pc \in {"atAuth", "returning", "returned", "callback"} => req[r].nonce # None
    /\ req[r].pc \notin {"answered", "returning"} => req[r].new = KeepAll
    /\ req[r].pc = "answered" =>
          req[r].new.refresh = Keep /\ req[r].new.state \in {None, Keep, req[r].nonce}
    /\ req[r].pc = "answered" /\ req[r].nonce # None => req[r].new.state = req[r].nonce
    /\ req[r].pc = "returning" =>
          /\ req[r].new.session = Keep /\ req[r].new.state = Keep
          /\ req[r].new.refresh \in Token
    /\ req[r].pc \in {"returning", "returned", "callback"} => req[r].code \in Code
    /\ req[r].pc = "refreshing" => req[r].with.session \in Session
    /\ call[r].pc \in {"rotated", "back"} => call[r].token \in Token /\ call[r].succ \in Token
    /\ call[r].pc = "back" => call[r].access \in Access

\* Every token that is around was issued.
Known(t) == t \in Token => store[t] # None

KnownCookies(c) == Known(c.refresh) /\ (c.session \in Session => Known(c.session.refresh))

KnownInv ==
    /\ KnownCookies(jar)
    /\ \A r \in Exchange :
         /\ KnownCookies(req[r].with) /\ KnownCookies(req[r].new)
         /\ Known(call[r].token) /\ Known(call[r].succ)

\* A session is of one user, and so is what leads to one.
OfOneUser(s) == s \in Session /\ s.refresh \in Token => store[s.refresh].user = s.access.sub

UserInv ==
    /\ ~overlap =>
         /\ OfOneUser(jar.session)
         /\ \A r \in Exchange :
              /\ OfOneUser(req[r].with.session) /\ OfOneUser(req[r].new.session)
              /\ req[r].pc = "returning" => store[req[r].new.refresh].user = req[r].code.user
              /\ req[r].pc = "returned" =>
                    jar.refresh \in Token /\ store[jar.refresh].user = req[r].code.user
              /\ req[r].pc = "callback" =>
                    req[r].with.refresh \in Token /\ store[req[r].with.refresh].user = req[r].code.user
    /\ \A r \in Exchange :
         call[r].pc = "back" => store[call[r].succ].user = call[r].access.sub

\* The claims of an access token were true when it was signed, and its user had
\* access then or when the code for it was made.
Truthful(a) ==
    a \in Access =>
        /\ a.exp <= now + AccessTtl
        /\ HadSince(a.sub, a.role, a.exp - AccessTtl)
        /\ \E ro \in Role : HadSince(a.sub, ro, a.exp - AccessTtl - CodeTtl)

TruthfulSession(s) == s \in Session => Truthful(s.access)

TruthInv ==
    /\ TruthfulSession(jar.session)
    /\ \A r \in Exchange :
         /\ TruthfulSession(req[r].with.session) /\ TruthfulSession(req[r].new.session)
         /\ Truthful(call[r].access)
         /\ req[r].code \in Code =>
               /\ req[r].code.until <= now + CodeTtl
               /\ \E ro \in Role : HadSince(req[r].code.user, ro, req[r].code.until - CodeTtl)

\* As long as there was no rival, the state cookie is of the only login.
FlowInv ==
    ~rivals =>
        /\ \A r, q \in Exchange : InFlow(r) /\ InFlow(q) => r = q
        /\ \A r \in Exchange :
             /\ req[r].pc \in {"atAuth", "returning", "returned"} => jar.state = req[r].nonce
             /\ req[r].pc = "callback" => req[r].with.state = req[r].nonce

\* Tokens that exchange r holds and that no session has yet.
Fresh(r) ==
    {t \in Token :
        \/ req[r].pc = "answered" /\ req[r].new.session \in Session /\ req[r].new.session.refresh = t
        \/ call[r].pc \in {"rotated", "back"} /\ call[r].succ = t
        \/ req[r].pc = "returning" /\ req[r].new.refresh = t
        \/ req[r].pc = "returned" /\ jar.refresh = t
        \/ req[r].pc = "callback" /\ req[r].with.refresh = t}

\* Tokens of the sessions that the jar has, and that exchange r presents.
InJar == {t \in Token : jar.session \in Session /\ jar.session.refresh = t}
Presents(r) ==
    {t \in Token : /\ req[r].pc \in {"sent", "refreshing"}
                   /\ req[r].with.session \in Session /\ req[r].with.session.refresh = t}

Used(t) == store[t] # None /\ store[t].usedAt # None

\* The response to exchange r replaces the session of the jar.
Replaces(r) ==
    \/ req[r].pc = "refreshing" /\ call[r].pc \in {"rotated", "back", "failed"}
    \/ req[r].pc = "answered" /\ req[r].new.session # Keep

\* In a smooth run a token that was used is presented by what was sent at most
\* Delay later: from then on the jar has a successor.
SmoothInv ==
    smooth =>
        /\ ~overlap
        /\ \A r \in Exchange :
             /\ Pending(r) => req[r].at <= now /\ now <= req[r].at + Delay
             /\ call[r].pc # "none" => req[r].pc = "refreshing" /\ Pending(r)
             /\ call[r].pc = "out" => call[r].token = req[r].with.session.refresh
             /\ \A t \in Fresh(r) :
                   /\ ~Used(t) /\ t \notin InJar
                   /\ \A q \in Exchange : t \notin Presents(q) /\ (q # r => t \notin Fresh(q))
             /\ req[r].pc \in {"sent", "refreshing"} /\ req[r].with.session \in Session => Pending(r)
             /\ \A t \in Presents(r) : Used(t) => req[r].at <= store[t].usedAt + Delay
        /\ \A t \in InJar : Used(t) =>
             \E q \in Exchange : Pending(q) /\ Replaces(q) /\ req[q].at <= store[t].usedAt

IInv ==
    /\ TypeOK /\ \A r \in Exchange : ShapeInv(r)
    /\ KnownInv /\ UserInv /\ TruthInv /\ FlowInv /\ SmoothInv
=============================================================================
