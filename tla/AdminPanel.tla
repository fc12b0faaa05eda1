----------------------------- MODULE AdminPanel -----------------------------
(***************************************************************************)
(* The admin panel (packages/web) in the tabs of one browser, and what is  *)
(* behind it: the sign-in with GitHub (modules/github-oauth), requireAdmin  *)
(* and the admin API.                                                      *)
(*                                                                         *)
(* A page is a React component: a request that it made goes on when it is  *)
(* left, and its answer may come when other requests have been made.  The  *)
(* page of one user and the statistics are modelled, with access to one    *)
(* app.  GitHub itself is external.                                        *)
(***************************************************************************)
EXTENDS Integers

CONSTANTS
    Tab,
    User,
    Range,        \* RANGE_PRESETS
    DefaultRange,
    Account,      \* GitHub accounts
    Nonce,        \* names of state parameters
    Ttl,          \* ADMIN_TOKEN_TTL_SECONDS
    MaxTime,      \* bound of the clock
    MaxEvents,    \* bound of what admins do and of what fails
    None,
    Keep          \* a response that does not set the cookie

ASSUME TimesAssumption == Ttl \in Nat \ {0} /\ MaxTime \in Nat /\ MaxEvents \in Nat

ASSUME ValuesAssumption ==
    /\ DefaultRange \in Range
    /\ None \notin Tab \cup User \cup Range \cup Nonce \cup 0..MaxTime
    /\ Keep \notin Nonce \cup {None}

\* There is always a state that is neither in the cookie nor in a tab.
ASSUME NoncesAssumption ==
    \A s \in Nonce \cup {None}, f \in [Tab -> Nonce \cup {None}] :
        \E n \in Nonce : n # s /\ \A t \in Tab : n # f[t]

VARIABLES
    now,      \* the clock
    jar,      \* the browser's cookies
    tab,      \* [Tab -> the page in it]
    net,      \* the API requests under way
    access,   \* [User -> may the user use the app]
    allowed,  \* GITHUB_ADMIN_USER_IDS
    events,   \* how many of the bounded events happened
    \* history
    removed,  \* [Account -> when it was taken off the list, or None]
    rivals,   \* a sign-in met another one, or lost its cookie to age
    crossed   \* [Tab -> its page cannot know of every change of its user, see Note]

vars == <<now, jar, tab, net, access, allowed, events, removed, rivals, crossed>>

-----------------------------------------------------------------------------
(* Pages and requests. *)

\* The admin token, with its claims.
Token == [sub : Account, exp : Int]

ASSUME TokensAssumption == None \notin Token /\ Keep \notin Token

Jar == [state : Nonce \cup {None}, token : Token \cup {None}]

SetCookies == [state : {None, Keep}, token : Token \cup {Keep}]

After(new) == [k \in DOMAIN jar |-> IF new[k] = Keep THEN jar[k] ELSE new[k]]

Place == {"login", "starting", "github", "wait", "users", "detail", "stats"}

\* nonce: the state of the sign-in; next, new: where the answer of the callback
\* leads, and its cookies; id: the user in the address; user: what the page shows
\* of whom; activity: whose it shows; days, slice: the range that is selected and
\* that of the charts; error: an error is shown.
Page == [at : Place, nonce : Nonce \cup {None}, next : {"login", "users"}, new : SetCookies,
         id : User \cup {None}, user : [id : User, access : BOOLEAN] \cup {None},
         activity : User \cup {None}, days : Range, slice : Range \cup {None}, error : BOOLEAN]

Blank == [at |-> "login", nonce |-> None, next |-> "login", new |-> [state |-> Keep, token |-> Keep],
          id |-> None, user |-> None, activity |-> None, days |-> DefaultRange, slice |-> None,
          error |-> FALSE]

Panel == {"users", "detail", "stats"}
Write == {"grant", "revoke"}

\* tab: None when the page was loaded anew; of: the user or the range; then: the
\* user whom the page gets again after a change; form: the grant form waits for it;
\* with: the cookie; live: the component still waits for the answer; body: the
\* access that the answer tells.
Request == [tab : Tab \cup {None}, kind : {"get", "activity", "stats"} \cup Write,
            of : User \cup Range, then : User \cup {None}, form : BOOLEAN,
            with : Token \cup {None}, live : BOOLEAN, answer : {"none", "ok", "denied"}, body : BOOLEAN]

Ask(t, kind, of) ==
    [tab |-> t, kind |-> kind, of |-> of, then |-> None, form |-> FALSE, with |-> jar.token,
     live |-> TRUE, answer |-> "none", body |-> FALSE]

Of(t) == {r \in net : r.tab = t}

\* Nothing of R is waited for any more, except that a 401 still counts.
Ignoring(R) == (net \ R) \cup {[r EXCEPT !.live = FALSE] : r \in R}

\* Mutant: the effect has no cleanup.
Cleanup_None(t, kind) == net

\* The cleanup of an effect of tab t: active = false.
Cleanup(t, kind) == Ignoring({r \in Of(t) : r.kind = kind})

\* window.location.assign: what was asked is forgotten; changes may still be made.
Reloaded(t) ==
    (net \ Of(t)) \cup {[r EXCEPT !.tab = None, !.live = FALSE] :
                          r \in {q \in Of(t) : q.kind \in Write /\ q.answer = "none"}}

\* Mutant: the expiry is not looked at.
Verified_Forever(token) == token # None

\* requireAdmin: the token of the cookie verifies.  isAdmin is always set in it.
Verified(token) == token # None /\ token.exp > now

Event == events < MaxEvents /\ events' = events + 1

-----------------------------------------------------------------------------
(* What the history notes of a step. *)

InFlow(t) == tab[t].nonce # None

Rivals == \E t, q \in Tab : t # q /\ InFlow(t) /\ InFlow(q)

\* What the page of tab t waits for, and what of it is about its user.
Awaited(t) == {r \in Of(t) : r.live}
Busy(t) == {r \in Awaited(t) : r.kind \in {"get"} \cup Write}

Crossing(t) == \E r, q \in Busy(t) : r # q

\* A page at rest asks for its user anew.
Resumes(t) == Busy(t) = {} /\ Busy(t)' # {}

\* The pages of user u that will not ask the server for the user any more.
Overtaken(u) == {t \in Tab : tab[t].id = u /\ \A q \in Busy(t) : q.kind = "get" /\ q.answer = "ok"}

\* The pages of T cannot know what is true, since access changed behind their back or
\* a request of theirs failed; nor can one that waits for two answers about its user,
\* or did since it last was at rest.
Note(T) ==
    /\ rivals' = (rivals \/ Rivals')
    /\ crossed' = [t \in Tab |->
          /\ tab[t].at = "detail" /\ tab'[t].at = "detail"
          /\ (crossed[t] /\ ~Resumes(t)) \/ t \in T \/ Crossing(t)']

-----------------------------------------------------------------------------
\* Nobody has signed in, or one of the admins has.
Init ==
    /\ now = 0
    /\ \/ /\ jar = [state |-> None, token |-> None]
          /\ tab = [t \in Tab |-> Blank]
       \/ /\ \E a \in Account : jar = [state |-> None, token |-> [sub |-> a, exp |-> Ttl]]
          /\ tab = [t \in Tab |-> [Blank EXCEPT !.at = "users"]]
    /\ net = {}
    /\ access \in [User -> BOOLEAN]
    /\ allowed = Account
    /\ events = 0
    /\ removed = [a \in Account |-> None]
    /\ rivals = FALSE
    /\ crossed = [t \in Tab |-> FALSE]

-----------------------------------------------------------------------------
(* The sign-in. *)

\* The button: GET /api/admin-login, which draws the state.
SignIn(t) ==
    /\ Event
    /\ tab[t].at = "login"
    /\ LET n == CHOOSE n \in Nonce : n # jar.state /\ \A q \in Tab : n # tab[q].nonce
       IN tab' = [tab EXCEPT ![t] = [Blank EXCEPT !.at = "starting", !.nonce = n]]
    /\ UNCHANGED <<now, jar, net, access, allowed, removed>> /\ Note({})

\* Its answer sets the state cookie, and the page goes to GitHub ...
Leave(t) ==
    /\ tab[t].at = "starting"
    /\ jar' = [jar EXCEPT !.state = tab[t].nonce]
    /\ tab' = [tab EXCEPT ![t].at = "github"]
    /\ UNCHANGED <<now, net, access, allowed, events, removed>> /\ Note({})

\* ... or it fails.
LeaveFails(t) ==
    /\ Event
    /\ tab[t].at = "starting"
    /\ tab' = [tab EXCEPT ![t] = [Blank EXCEPT !.error = TRUE]]
    /\ UNCHANGED <<now, jar, net, access, allowed, removed>> /\ Note({})

\* Mutant: a sign-in that fails signs out who is signed in.
Answer_Clears(t, place, token) ==
    tab' = [tab EXCEPT ![t] = [@ EXCEPT !.at = "wait", !.next = place,
              !.new = [state |-> None, token |-> IF token = Keep THEN None ELSE token]]]

\* The callback always clears the state cookie, and never the token.
Answer(t, place, token) ==
    tab' = [tab EXCEPT ![t] = [@ EXCEPT !.at = "wait", !.next = place,
                                        !.new = [state |-> None, token |-> token]]]

\* GitHub sends the browser back.  The state is not that of the cookie ...
CallbackRefused(t) ==
    /\ tab[t].at = "github"
    /\ jar.state # tab[t].nonce
    /\ Answer(t, "login", Keep)
    /\ UNCHANGED <<now, jar, net, access, allowed, events, removed>> /\ Note({})

\* ... or GitHub sends no code, since the admin declined there, or does not answer
\* the server ...
CallbackFails(t) ==
    /\ Event
    /\ tab[t].at = "github"
    /\ Answer(t, "login", Keep)
    /\ UNCHANGED <<now, jar, net, access, allowed, removed>> /\ Note({})

IsAllowed(a) == a \in allowed

\* ... or account a is signed in, and on the list or not.
Callback(t, a) ==
    /\ tab[t].at = "github"
    /\ jar.state = tab[t].nonce
    /\ \/ IsAllowed(a) /\ Answer(t, "users", [sub |-> a, exp |-> now + Ttl])
       \/ ~IsAllowed(a) /\ Answer(t, "login", Keep)
    /\ UNCHANGED <<now, jar, net, access, allowed, events, removed>> /\ Note({})

\* The answer of the callback arrives.
Arrive(t) ==
    /\ tab[t].at = "wait"
    /\ jar' = After(tab[t].new)
    /\ tab' = [tab EXCEPT ![t] = [Blank EXCEPT !.at = tab[t].next]]
    /\ UNCHANGED <<now, net, access, allowed, events, removed>> /\ Note({})

-----------------------------------------------------------------------------
(* The pages. *)

\* The pages are served to anybody.
Reachable == Panel \cup {"login"}

\* Page place replaces what tab t shows, and asks for R.
Show(t, place, u, R) ==
    /\ tab' = [tab EXCEPT ![t] = [Blank EXCEPT !.at = place, !.id = u]]
    /\ net' = Ignoring(Of(t)) \cup R

\* The list of the users, which is not modelled.
ShowUsers(t) ==
    /\ Event
    /\ tab[t].at \in Reachable \ {"users"}
    /\ Show(t, "users", None, {})
    /\ UNCHANGED <<now, jar, access, allowed, removed>> /\ Note({})

\* The page of user u is opened.  From the page of another user, which a jump in
\* the history allows, the component stays, and shows that user until u is there.
ShowUser(t, u) ==
    /\ Event
    /\ tab[t].at \in Reachable /\ tab[t].id # u
    /\ \/ /\ tab[t].at = "detail"
          /\ tab' = [tab EXCEPT ![t].id = u]
          /\ net' = net \cup {Ask(t, "get", u)}
       \/ /\ tab[t].at # "detail"
          /\ Show(t, "detail", u, {Ask(t, "get", u)})
    /\ UNCHANGED <<now, jar, access, allowed, removed>> /\ Note({})

\* The statistics are opened ...
ShowStats(t) ==
    /\ Event
    /\ tab[t].at \in Reachable \ {"stats"}
    /\ Show(t, "stats", None, {Ask(t, "stats", DefaultRange)})
    /\ UNCHANGED <<now, jar, access, allowed, removed>> /\ Note({})

\* ... and another range selected.
SelectRange(t, d) ==
    /\ Event
    /\ tab[t].at = "stats" /\ tab[t].days # d
    /\ tab' = [tab EXCEPT ![t].days = d]
    /\ net' = Cleanup(t, "stats") \cup {Ask(t, "stats", d)}
    /\ UNCHANGED <<now, jar, access, allowed, removed>> /\ Note({})

\* Access is revoked where the page shows it, or granted if the form is not busy.
Change(t, kind) ==
    /\ Event
    /\ tab[t].at = "detail" /\ tab[t].user # None
    /\ kind = "revoke" => tab[t].user.access
    /\ kind = "grant" => \A r \in Awaited(t) : ~r.form
    /\ net' = net \cup {[Ask(t, kind, tab[t].user.id) EXCEPT !.then = tab[t].id,
                                                           !.form = (kind = "grant")]}
    /\ UNCHANGED <<now, jar, tab, access, allowed, removed>> /\ Note({})

-----------------------------------------------------------------------------
(* The admin API. *)

\* Request r is over; R is asked instead.
Done(r, R) == net' = (net \ {r}) \cup R

\* The answer to r, if somebody may still get it.
Respond(r, answer, body) ==
    Done(r, IF r.tab = None THEN {} ELSE {[r EXCEPT !.answer = answer, !.body = body]})

Deny(r) ==
    /\ r.answer = "none" /\ ~Verified(r.with)
    /\ Respond(r, "denied", FALSE)
    /\ UNCHANGED <<now, jar, tab, access, allowed, events, removed>> /\ Note({})

Read(r) ==
    /\ r.answer = "none" /\ Verified(r.with) /\ r.kind \notin Write
    /\ Respond(r, "ok", r.kind = "get" /\ access[r.of])
    /\ UNCHANGED <<now, jar, tab, access, allowed, events, removed>> /\ Note({})

\* grantAccess or revokeAccess.
Apply(r) ==
    /\ r.answer = "none" /\ Verified(r.with) /\ r.kind \in Write
    /\ access' = [access EXCEPT ![r.of] = (r.kind = "grant")]
    /\ Respond(r, "ok", FALSE)
    /\ UNCHANGED <<now, jar, tab, allowed, events, removed>>
    /\ Note(Overtaken(r.of))

\* Mutant: the login page draws a state when it is shown.
Denied_DrawsState(t) ==
    /\ jar' = [jar EXCEPT !.state = CHOOSE n \in Nonce : n # @ /\ \A q \in Tab : n # tab[q].nonce]
    /\ tab' = [tab EXCEPT ![t] = Blank]

\* A 401 leads to the login page, whichever component it was for.
Denied(t) == tab' = [tab EXCEPT ![t] = Blank] /\ UNCHANGED jar

ArriveDenied(r) ==
    /\ r.answer = "denied"
    /\ Denied(r.tab)
    /\ net' = Reloaded(r.tab)
    /\ UNCHANGED <<now, access, allowed, events, removed>> /\ Note({})

\* Mutant: the page is not told of a change.
AfterChange_Nothing(r) == {}

\* onChange: the user is asked for again, also when the page is not there any more.
AfterChange(r) == {[Ask(r.tab, "get", r.then) EXCEPT !.form = r.form, !.live = r.live]}

ArriveUnheard(r) ==
    /\ r.answer = "ok" /\ ~r.live
    /\ Done(r, IF r.kind \in Write THEN AfterChange(r) ELSE {})
    /\ UNCHANGED <<now, jar, tab, access, allowed, events, removed>> /\ Note({})

\* refreshUser; the activity of another user than before is asked for as well.
ArriveUser(r) ==
    /\ r.answer = "ok" /\ r.live /\ r.kind = "get"
    /\ tab' = [tab EXCEPT ![r.tab].user = [id |-> r.of, access |-> r.body]]
    /\ net' = IF tab[r.tab].user # None /\ tab[r.tab].user.id = r.of THEN net \ {r}
              ELSE (Cleanup(r.tab, "activity") \ {r}) \cup {Ask(r.tab, "activity", r.of)}
    /\ UNCHANGED <<now, jar, access, allowed, events, removed>> /\ Note({})

ArriveSlice(r) ==
    /\ r.answer = "ok" /\ r.live /\ r.kind \in {"activity", "stats"}
    /\ tab' = [tab EXCEPT ![r.tab] = IF r.kind = "stats" THEN [@ EXCEPT !.slice = r.of]
                                     ELSE [@ EXCEPT !.activity = r.of]]
    /\ Done(r, {})
    /\ UNCHANGED <<now, jar, access, allowed, events, removed>> /\ Note({})

ArriveChanged(r) ==
    /\ r.answer = "ok" /\ r.live /\ r.kind \in Write
    /\ Done(r, AfterChange(r))
    /\ UNCHANGED <<now, jar, tab, access, allowed, events, removed>> /\ Note({})

\* The request does not arrive, or its answer does not.  That of a request which
\* nothing waits for is left out.
Lose(r) ==
    /\ Event
    /\ r.live
    /\ tab' = [tab EXCEPT ![r.tab].error = TRUE]
    /\ Done(r, {})
    /\ UNCHANGED <<now, jar, access, allowed, removed>> /\ Note({r.tab})

-----------------------------------------------------------------------------
(* The rest of the world. *)

\* Somebody else grants or revokes access.
ChangeElsewhere(u) ==
    /\ Event
    /\ access' = [access EXCEPT ![u] = ~@]
    /\ UNCHANGED <<now, jar, tab, net, allowed, removed>> /\ Note(Overtaken(u))

\* The server is started with a shorter list.
Remove(a) ==
    /\ Event
    /\ a \in allowed
    /\ allowed' = allowed \ {a}
    /\ removed' = [removed EXCEPT ![a] = now]
    /\ UNCHANGED <<now, jar, tab, net, access>> /\ Note({})

\* The state cookie is too old.
StateExpires ==
    /\ Event
    /\ jar.state # None
    /\ jar' = [jar EXCEPT !.state = None]
    /\ rivals' = TRUE
    /\ UNCHANGED <<now, tab, net, access, allowed, removed, crossed>>

Tick ==
    /\ now < MaxTime
    /\ now' = now + 1
    /\ UNCHANGED <<jar, tab, net, access, allowed, events, removed>> /\ Note({})

-----------------------------------------------------------------------------
SignInStep(t) ==
    \/ SignIn(t) \/ Leave(t) \/ LeaveFails(t) \/ CallbackRefused(t) \/ CallbackFails(t)
    \/ Arrive(t) \/ \E a \in Account : Callback(t, a)

PageStep(t) ==
    \/ ShowUsers(t) \/ \E u \in User : ShowUser(t, u)
    \/ ShowStats(t) \/ \E d \in Range : SelectRange(t, d)
    \/ \E kind \in Write : Change(t, kind)

RequestStep(r) ==
    \/ Deny(r) \/ Read(r) \/ Apply(r) \/ ArriveDenied(r) \/ ArriveUnheard(r) \/ ArriveUser(r)
    \/ ArriveSlice(r) \/ ArriveChanged(r) \/ Lose(r)

Next ==
    \/ \E t \in Tab : SignInStep(t) \/ PageStep(t)
    \/ \E r \in net : RequestStep(r)
    \/ \E u \in User : ChangeElsewhere(u)
    \/ \E a \in Account : Remove(a)
    \/ StateExpires \/ Tick

Spec == Init /\ [][Next]_vars

-----------------------------------------------------------------------------
(* Properties. *)

\* Types; in particular no answer to a sign-in clears the token.
TypeOK ==
    /\ now \in 0..MaxTime /\ events \in 0..MaxEvents
    /\ jar \in Jar
    /\ tab \in [Tab -> Page]
    /\ net \subseteq Request
    /\ access \in [User -> BOOLEAN]
    /\ allowed \subseteq Account
    /\ removed \in [Account -> (0..MaxTime) \cup {None}]
    /\ rivals \in BOOLEAN
    /\ crossed \in [Tab -> BOOLEAN]

\* A change that the panel makes is by an account that is on the list, or was
\* taken off it less than the life of a token ago, whatever tab it came from and
\* however long it was under way (isAllowed, requireAdmin).
AdminsAreRecent ==
    [][\A r \in net : Apply(r) =>
          LET a == r.with.sub IN a \in allowed \/ removed[a] > now - Ttl]_vars

\* A sign-in is refused for its state only if two were under way in the browser,
\* or the cookie grew too old: no request of the panel disturbs one.
OnlyRivalSignInsFail == [][\A t \in Tab : CallbackRefused(t) => rivals]_vars

\* When nothing is under way, the page of a user shows the user of its address with
\* the access that the user has, although other tabs and other admins change it, and
\* a page that is left may still have a change of its own made.  Left out are pages
\* of which two answers about the user were under way at once since they last were at
\* rest (user-detail.tsx refreshUser takes any answer that comes, so that the later
\* one wins, even if it is the older), those with a failed request, and those that
\* access was changed behind after they were told of it.
ShowsCurrent ==
    \A t \in Tab : tab[t].at = "detail" /\ Busy(t) = {} /\ ~crossed[t] =>
        tab[t].user = [id |-> tab[t].id, access |-> access[tab[t].id]]

\* When nothing is under way, the charts are those of the selected range, and the
\* activity is that of the user the page shows, in whatever order answers came, and
\* even if the page changed its user without being left.
SlicesMatch ==
    \A t \in Tab : ~tab[t].error =>
        /\ tab[t].at = "stats" /\ (\A r \in Awaited(t) : r.kind # "stats") =>
              tab[t].slice = tab[t].days
        /\ /\ tab[t].at = "detail" /\ tab[t].user # None
           /\ \A r \in Awaited(t) : r.kind # "activity"
           => tab[t].activity = tab[t].user.id

-----------------------------------------------------------------------------
(* The inductive invariant. *)

\* What requests and pages are about.
KindInv ==
    /\ \A r \in net :
        /\ r.of \in IF r.kind = "stats" THEN Range ELSE User
        /\ r.kind \in Write => r.then \in User
        /\ r.live => r.tab \in Tab
    /\ \A t \in Tab : tab[t].at = "detail" => tab[t].id \in User

\* The account of a token is on the list, or was when it was signed.
Vouched(token) ==
    token \in Token =>
        /\ token.exp <= now + Ttl
        /\ \/ token.sub \in allowed
           \/ removed[token.sub] # None /\ token.exp <= removed[token.sub] + Ttl

\* Every token that is around.
TokenInv ==
    /\ Vouched(jar.token)
    /\ \A t \in Tab : Vouched(tab[t].new.token)
    /\ \A r \in net : Vouched(r.with)

\* As long as there was no rival, the cookie is of the only sign-in.
FlowInv ==
    /\ \A t \in Tab : tab[t].at \in {"starting", "github", "wait"} => InFlow(t)
    /\ ~rivals => ~Rivals /\ \A t \in Tab : tab[t].at = "github" => jar.state = tab[t].nonce

\* A component waits for an answer only while its page is there.
AwaitInv(t) == \A r \in Awaited(t) : tab[t].at = IF r.kind = "stats" THEN "stats" ELSE "detail"

\* What is shown is of what is selected, or will be.
SliceInv(t) ==
    /\ tab[t].at = "stats" =>
          /\ \A r \in Awaited(t) : r.of = tab[t].days
          /\ tab[t].error \/ tab[t].slice = tab[t].days \/ Awaited(t) # {}
    /\ tab[t].at = "detail" /\ tab[t].user # None =>
          /\ \A r \in Awaited(t) : r.kind = "activity" => r.of = tab[t].user.id
          /\ \/ tab[t].error
             \/ tab[t].activity = tab[t].user.id
             \/ \E r \in Awaited(t) : r.kind = "activity"

\* The only request about the user of a page leads to what is true.
CurrentInv(t) ==
    tab[t].at = "detail" /\ ~crossed[t] =>
        /\ ~Crossing(t)
        /\ \A r \in Busy(t) :
              IF r.kind = "get" THEN r.of = tab[t].id /\ (r.answer = "ok" => r.body = access[r.of])
              ELSE r.then = tab[t].id
        /\ Busy(t) = {} => tab[t].user = [id |-> tab[t].id, access |-> access[tab[t].id]]

PageInv(t) == AwaitInv(t) /\ SliceInv(t) /\ CurrentInv(t)

IInv == TypeOK /\ KindInv /\ TokenInv /\ FlowInv /\ \A t \in Tab : PageInv(t)
=============================================================================
