# A TLA+ model of homectl-auth

homectl-auth is a small identity provider for a home network: an Express server
that keeps users, invites, authorization codes, refresh tokens and an activity
log in PostgreSQL and signs JWTs; a client package (a browser helper and a server
middleware); a sidecar proxy that puts an app behind the login; and a React admin
panel. This directory holds the TLA+ development that goes with it. Paths below
are relative to `packages/server/src` unless they start with `packages/`.

## The system

| Part | State it keeps | Operations | What is hard about it | What makes it correct |
|---|---|---|---|---|
| Session store (`modules/session`) | table `sessions` | createSession, rotateSession, deleteSessionByToken, deleteAllSessionsForUser | concurrent refreshes, the grace window, a row lock, a commit in the middle of a reset, two clocks | replays refused, retries answered, nothing prolongs a token, revoked means revoked |
| Authorization codes (`modules/auth-code`, `routes/token.router.ts`) | table `authorization_codes` | issueCode, exchangeCode | read, check and delete are separate statements | one token per code, only to its client |
| Password reset (`modules/password-reset`) | table `password_reset_tokens`, the hash, the sessions | createResetToken, redeemReset | three statements without a transaction, logins in flight | link works once, old passwords are out |
| Invites and accounts (`modules/invite`, `modules/user`, `modules/app-access`, `routes/internal-users.router.ts`) | `invite_tokens`, `users`, `app_access` | create/redeem invite, grant/revoke, import | unique constraints decide races, grants after the account, retried imports | one account per link, no lost or widened role |
| Sign-in (`routes/authorize.router.ts`) | codes, sessions, the SSO cookie | GET /authorize, POST /login | a cookie that outlives what it stood for | the code is the user's who signed in |
| Browser sessions (`routes/session.router.ts`), internal API (`routes/internal.router.ts`) | sessions, the cookie jar of a browser | refresh, logout | responses out of order, lost responses | logout is final, access is checked |
| Activity log (`modules/activity`) | table `activity_events` | recordLogin, recordRefresh, pruning | best effort, coalescing by a racy statement | an active user shows |
| Admin panel API and GitHub sign-in (`routes/admin`, `modules/github-oauth`) | state cookie, admin token | callback, grant, invite, reset | a state cookie shared by tabs | only the allowed account gets in |
| Tokens and keys (`modules/token`) | the key pair | sign, verify, JWKS | expiry and audience rules | tokens of one app are no use at another |
| Cleanup (`jobs/cleanup.ts`) | none | five DELETEs once a day | runs against everything | never removes what is still needed |
| Configuration, CORS, startup (`config`, `middleware`, `db.ts`, `index.ts`) | apps, migrations | load, match origin, migrate | two servers starting at once | each migration once |
| Browser client (`packages/client/src/browser.ts`) | the token in memory | bootstrap, authedFetch, logout | concurrent refreshes of pages that share a cookie, answers after a logout | the page is of the user who logged in last |
| Server middleware (`packages/client/src/server.ts`) | the state cookie | verify, redirect to the login, callback, logout page | redirects that follow each other, one state cookie for all tabs | a login ends, and only a rival refuses it |
| Sidecar (`packages/proxy`) | two cookies, encrypted | callback, refresh, logout, proxying | concurrent requests with one cookie, a lost response | no request passes without a user |
| Web panel (`packages/web`) | React state | pages | answers after the page has moved on | a page shows what it says |

The server's requests share nothing but the database. Each `await` of a query is
a point where other requests run, so the models take one step per statement;
statements of one transaction that hold a row lock are steps as well.

## Modules

| Module | Models | Notes |
|---|---|---|
| `RefreshTokens` | what the session store promises, abstractly | a token is good or not; a presentation is admitted while good and answered later, or at once |
| `SessionStore` | `session.service.ts` and the two session DELETEs of `cleanup.ts` | implements `RefreshTokens` |
| `OneShot` | what a single-use credential promises | offered, taken by one request, gone |
| `AuthCode` | `issueCode`, `exchangeCode`, `POST /token`, code cleanup, access grants | implements `OneShot` |
| `PasswordReset` | `createResetToken`, `redeemReset`, with the password login and the SSO sign-in | implements `OneShot` |
| `Accounts` | `invite.service.ts`, the import of `internal-users.router.ts`, the grants of `app-access.repository.ts`, the invite cleanup | implements `OneShot` |
| `Activity` | the recorders of `activity.service.ts` and the pruning | |
| `Sidecar` | the handlers of `packages/proxy/src/app.ts` around a browser's cookie jar, with `POST /internal/refresh` behind them | composes the sidecar with what `RefreshTokens` promises, and is proved to |
| `BrowserApp` | an app behind the client library: `packages/client/src/server.ts` and `browser.ts`, with `authorize.router.ts` and `session.router.ts` behind them, in the tabs of one browser | composes them with what `RefreshTokens` promises |
| `AdminPanel` | `packages/web`'s panel in the tabs of one browser, with the GitHub sign-in, `requireAdmin` and the admin API | |
| `X_proofs` | the theorems about X | |
| `MCX` | instances of X for TLC | model values, symmetry, the bounds of a run |

### How state and actions correspond to the code

**SessionStore.** `sessions` is the table, keyed by token; `txn[p]` is one call of
rotateSession with its program counter, the row it read under `FOR UPDATE`, and
the successor it has drawn. `RotateBegin` .. `RotateCommit` are the statements in
their order, `RotateReject` the three refusals with their ROLLBACK, `RotateFail`
the catch block. The row lock is `RowFree`: a transaction that has read the row
FOR UPDATE keeps every other one, and every DELETE that reaches that row, waiting.
An inserted successor is invisible until the commit, so it is in `txn` until
then. `deleteAllSessionsForUser` is a statement with a snapshot: it starts
(`DeleteAllStart`), and ends when the rows of its snapshot are free
(`DeleteAllEnd`). `now` is the server's clock, `DbNow` the database's, a constant
`Skew` apart. `issued`, `revoked` and `grants` are history variables, and so is the field
`seen` of a running reset: the tokens that were stored when its DELETE started.

**AuthCode.** `codes` is the table, `ex[x]` one exchange: looked up, checked,
consumed (the DELETE and its row count), claims read, minted. `access` is
`app_access`. A login is a pair of steps, the access check and the INSERT of the
code; what precedes it is in `BrowserApp`.

**PasswordReset.** `tokens` is the table, `pw[u]` the version of a user's hash,
`sessions` the live sessions with the version that was proved when they were
opened (`late` marks a session opened by a login that a reset overtook). `red[r]`
is one redemption: looked up, checked, consumed, updated, revoked; `RedeemFail`
abandons it between any two statements, and `halfway` remembers users left
between the update and the delete. `signIn[b]` is a sign-in in flight, by password or
by the SSO cookie.

**Accounts.** `invites`, `users` and `access` are the tables. A user is a record of
id, email and name; `access` is a function from (user, app) to a role; a role is
its rank in the app's list, with -1 for a role the list does not know (the rank of
such a role is -1 in the code too, and it may invite nobody). `iss[i]` is one
running creation of a delegated invite, `red[r]` one redemption, `imp[p]` one import
entry; every query is a step, a failing query or a crash (`RedeemFail`, `ImportFail`)
is possible between any two. An admin's invite and grant are one statement and so one
action. The unique constraints decide in the INSERT: `AccountCreated` and
`ImportCreate` end in a violation if the email, or, where migration 009 could not drop
it, the name is taken. `given`, `signedOn`, `reports`, `issued` and `after` are
history.

**Activity.** `events` is the table. The coalescing INSERT is two steps, its
snapshot and its commit; a row remembers what its statement saw and which call ran it
(`saw`, `by`: history). `raw` is what `parseInt` makes of
`ACTIVITY_RETENTION_DAYS`.

**Sidecar.** The sidecar keeps no state: `jar` is the browser's three cookies, the
sealed session, the state nonce and homectl-auth's refresh cookie for the app; `req[x]`
is one exchange, first a request with the cookies of the moment it was sent, then a
response with the cookies it sets, which reach the jar whenever `Deliver` happens. So
responses come in any order, and `Abandon` loses one. `NoSession`, `PassFresh`,
`StartRefresh`, `PassRefreshed`, `RefreshFailed`, `RefreshTimeout`, `Logout` and the
three `Callback...` actions are the ways through the handlers. `call[x]` is the
`/internal/refresh` made for exchange x: `Rotate` (or `Refuse`) is rotateSession,
which may be one step because `SessionStore` implements `RefreshTokens`; `Admit` and
`Expel` are the access check that follows; after a timeout or a closed tab the call goes
on without anybody waiting. `role` is the user's row in `app_access`. `past`,
`overlap`, `smooth` and `rivals` are history: when a role was last lost, whether two
logins came back to the browser at once, whether every exchange so far was quick and
ended, whether two login flows were under way at once.

**BrowserApp.** `jar` is the browser's three cookies that matter to one app:
homectl-auth's refresh cookie for it, the SSO cookie and the app's state cookie. A
navigation of tab t goes through the places of `page[t]`: `GetPage` is authMiddleware
for a navigation (handleUnauthenticated, redirectToLogin), `AuthorizeBySso`,
`AuthorizeByForm` and `Login` are authorize.router.ts, the three `Callback...` actions
callbackHandler, `Arrive` the response with its cookies. `call[c]` is a request of a
page: `Load`, `Fetch`, `Bootstrapped`, `LoseRefresh`, `Reject` and `Serve` follow
bootstrap and authedFetch through their awaits; `Refuse`, `Admit` and `Expel` are the
three answers of POST /refresh, where rotateSession is one step because
`SessionStore` implements `RefreshTokens`; `Logout`, `EndSession`, `LoggedOut` and
`LoseLogout` are logout and POST /logout; `Leave` and `LeaveScript` are
logoutHandler's page. A refresh or a logout carries the cookie of the moment it was
sent and is handled later, also when its page is gone (`Orphaned`). `lost`, `who`,
`raced`, `rivals` and `smooth` are history: when access was last lost, whose login came
back last, whether a login or logout overlapped another or a refresh, whether two
login flows met, whether every refresh was answered quickly, to a page that still waited.

**AdminPanel.** `jar` is the state cookie of the sign-in and the admin token; `tab[t]`
is the page in tab t, with what the page of a user and the statistics hold in their
React state; `net` is the set of API requests under way, which go on when their page
is left (`live` says whether a component still takes the answer). `SignIn` to `Arrive`
are the round trip through GitHub, `ShowUsers`, `ShowUser`, `ShowStats`, `SelectRange`
and `Change` what an admin does, `Deny`, `Read` and `Apply` requireAdmin and the
handlers, `Arrive...` and `Lose` the promises in user-detail.tsx and stats.tsx. The two
requests for one range of the statistics are one, access is to one app and has no role.
`removed`, `rivals` and `crossed` are history.

## Runs

Each run is small: two or three tokens, one or two users, two concurrent calls, a
clock of at most five units. The races of this code are between two calls about
one row (the code never holds two row locks), and every deadline is crossed
within the bounds; the proofs carry what does not depend on liveness to all
instances.

| Run | Question | Result |
|---|---|---|
| `session_store` | do the lock, the grace, the expiry and the stamp keep replays out, does nothing ever prolong a token, is a token revoked by a reset or logout refused whatever is in flight, does the store implement `RefreshTokens`? does every rotation end, and are rotated rows removed in the end although runs of the job fail? | holds |
| `session_store_lineage` | does a reset end every session of the user, as docs/prd.md:139 says? | no: a successor that commits during the DELETE survives |
| `auth_code` | one token per code, only for its client; does every code leave the table? | holds |
| `password_reset` | are old passwords out after a reset, which logins may still get an SSO cookie for one, does a link work once? | only those that a reset overtook; the rest holds |
| `activity` | does a recorded refresh show for the retention; how many rows can a burst of refreshes write? | it does; one for each call that runs at once |
| `activity_once` | do refreshes within a window write one row, as activity.service.ts:50 says? | no: two that are recorded at once write two |
| `accounts` | two redemptions and an import of one email or one name: one account, one winner per link, cookie to the right person, import finds the account that beat it? can a chain of delegated invites give a role above what was given out, while an inviter's role changes? | holds; no |
| `accounts_late` | is an invite rejected if the account was created after it, as docs/prd.md:133 says? | no: only if an account existed before |
| `sidecar` | do concurrent requests with one session survive a refresh; how old may the role be that the app is told; can a session refresh as another user; what brings a session back after a logout; when may a login be refused for its state? | all do while the grace is twice an exchange; at most one life of an access token, and of a code where the access was revoked; only if two logins come back at once; only an answer that was under way, or a login; only if two are under way |
| `sidecar_revoked` | is a user whose access is revoked out within one life of an access token, as docs/prd.md:358 says? | no: a code that was out may still buy a token |
| `browser_app` | do cookie and pages follow the last login; is anybody logged out by a sibling; who is served after losing access; what can refuse a login; do the redirects end? | they do unless a login or logout overlaps another exchange; nobody; nobody for longer than an access token lives; a rival or age; they do |
| `admin_panel` | do the pages show what they say, with several admins and tabs at work; who can still change something; what can refuse a sign-in? | they do, except pages with two answers about their user under way at once; nobody who was taken off the list eight hours ago; a rival or age |

**Bounds.** `MaxTime` bounds the clock; the token, code and event sets bound how many
rows are ever created (a token is random and never drawn twice); `Proc`, `Exchange`,
`Redeem`, `Recorder` bound the concurrent calls. In `SessionStore.cfg` a token lives 1,
the grace is 1 and the database one unit behind, so that a token is presented inside its
grace, after it and after the row is purged, and successors expire and their rows with
them (`Keep` 0, `MaxTime` 3); one sign-in is refreshed twice, so that the second
rotation has a predecessor and a successor. The names of tokens are used in their order,
no token is presented that was never stored, and when the last one is out one refresh
runs at a time and no reset (`Bounded` in `MCSessionStore`), since a race needs a free
name for each side. The only step that this cuts and that fairness asks for is the
commit of the last name while a reset runs; the same commit of the name before it is in
the run. In `PasswordReset.cfg` two links and two redemptions give two resets of one
user with a sign-in between any two of their statements. In `Activity.cfg` three rows
for two calls let one call write twice within the window while the other writes too. In
`ActivityOnce.cfg` two calls suffice. In `Accounts.cfg` usernames are unique, and two
things are looked at by turns (`Bounded` in `MCAccounts`). `Race`: everything at once
around one email, one name and the lowest role, so that two invites, two redemptions and
an import want it. `Chain`: one request at a time with two emails and three ranks, so
that somebody who was invited invites in turn while the admin grants and revokes; with
two accounts and two invites a second link of the chain is given and redeemed. The other
setting of `NameIsUnique` is that of `AccountsLate.cfg` and of the proofs, which hold
for both. In `Sidecar.cfg` an access token lives 1 and is refreshed from 1 on, and two
exchanges cross two refreshes; grace and delay are 0, which means within one unit of the
clock. A code lives 1, so that one can be exchanged after a revocation. The assumption
`2 * Delay <= Grace` is tight: with a delay of 1 and a grace of 1 `SiblingsSurvive`
fails, because a sibling may be sent with the old token at the very end of an exchange
that stamped it at its start; in the code 30 seconds of grace stand against a fetch
timeout of 10. `Sidecar.cfg` covers three cases and leaves their product out (`Bounded`
in `MCSidecar`): one login with two lives of its access token; two logins, perhaps of
two users, within one life; one login and one exchange at a time, until a code and the
token it buys are over. `SidecarRevoked.cfg` has one login, and the order of the code's
own times: the refresh threshold is shorter than the life of a code, and that is shorter
than an access token's. In `BrowserApp.cfg` two tabs and two users have four events,
after which only what the browser and the servers do by themselves goes on; `MaxAside`
and `Alone` allow a page a second request at once only early and while the other tabs
are closed, since two tabs give the same races between pages. Names of tokens that
nobody holds are reused, which keeps the state small and hides nothing: such a token is
never presented again. With a grace of 0 a rotated token is honoured in the same unit of
the clock only. In `AdminPanel.cfg` two tabs, two users and one account have four
events; with them a tab jumps between users, changes something and loses a request, or
the other tab or another admin changes the same user meanwhile. The rank -1 of an
unknown role is left to the proof, which covers every role list.

**Fairness.** `SessionStore!Fairness` and `AuthCode!Fairness` assume that what was
started takes its next statement (Node runs every callback, PostgreSQL answers or fails,
and either is a step), and that the cleanup job, which `setInterval` starts again
however its last run ended, is run again and again; in `SessionStore`, where its runs
may fail, only finitely many do, and in `AuthCode` time passes. A rotation that waits
for a row lock needs strong fairness: PostgreSQL queues the waiters. Only the model runs
out of names for tokens: a rotation that was admitted then takes a name that another
returns, or fails (`Exhausted`). `BrowserApp!Fairness` assumes that a browser follows
the redirects it gets, that a page goes on after its awaits, and that the servers answer
what they were sent; it does not assume that anybody opens, fetches, logs in or loses
anything, nor that time passes. It is weak and per tab: a tab that waits for its
request's slot, or a request that waits for its answer, stays enabled until the step is
taken. Under it a page that cannot get its token goes to the login again, which may sign
it in by SSO at once, and `ComesToRest` says that this does not go round for ever: an
answer that refuses the refresh cookie clears it, with the domain it was set for, and
the next login sets a good one.

## Proofs

Every theorem is about the specification with unbounded constants; the
assumptions are the named ASSUMEs of the modules (a grace not above the purge delay, two
delays not above the sidecar's grace,
`Null` and `None` no values of the model, `BrowserApp`'s tabs and requests and `Activity`'s
calls finitely many, sets otherwise arbitrary, infinite ones included).

- **SessionStore_proofs.** `IInv` says who holds which row lock, that an open
  transaction's copy of a row is the row, that successors are drawn once and
  stored once for the owner of the presented token, what a running reset has seen, and
  relates `grants` (history) to the rows' stamps and expiries. Without the lock part, two
  transactions could both be first uses. From it: `TypeCorrect`, `NoReplay`,
  (which bounds an answered presentation by the grace of the presented token and, if it was
  a successor, by the expiry it was stored with), `FirstUseIsUnique`, `RevokeWins`, `Lineage`, and the step simulation `Refinement` to
  `RefreshTokens`. `NothingIsGivenBack` compares a token with itself over one step: it
  goes by how a row can change (a stamp, a deletion) and what that does to its
  deadline; `EndsForGood` is its temporal form. `ResetEndsAll` is what is left of
  docs/prd.md:139 after the finding below: a reset ends everything stored before its
  snapshot. What it misses was committed while it waited for row locks.
- **AuthCode_proofs.** `IInv` adds to `OneTokenPerCode` that a consumed code is
  out of the table and held by one exchange (`ConsumedInv`), and that what an
  exchange has read is still what the table says while the row is there (`ExInv`):
  rows are never updated. From it `SingleUse`, `OnlyItsClientEnds`, `OneShotCodes`.
  `LostForGood` takes the one-shot promise further: a credential that is gone and that
  nobody holds is never held again, so a code that was lost to a failed exchange mints
  nothing later.
- **PasswordReset_proofs.** `CoreInv` adds to `OldPasswordsAreOut` what the
  redemptions and the sign-ins in flight have read. The order update, then delete,
  is what the proof of `RedeemUpdate` and `RedeemRevoke` rests on. `IInv` is `CoreInv`
  with `HolderInv`, that a link that was taken is held by one redemption, and
  `UsedInv`, that the password of an account comes from a link that is used up
  (`Dead`): a dead link stays dead, which is the one-shot promise again. So
  `ReplacedForGood`: no late or repeated redemption brings back a password that was
  replaced. `CookiesAreCurrent` is about the SSO cookie, which a reset does not revoke:
  at least no new one is given for the old password, but to the logins that
  `OldPasswordsAreOut` excuses as well.
- **Accounts_proofs.** `CoreInv` has four parts. `RowOK`: what an invite row holds was
  allowed when it was made, and `given` remembers it. `IssOK`, `RedOK`, `ImpOK`: what a
  running request has read is still covered by the tables and the history. They rest
  on a monotonicity lemma, that `users`, `given` and `issued` only grow, so that each action's
  effect on the other requests' parts is one citation. From it `NeverAboveGiven`,
  `SignOnIsOwn`, `ImportLands` (with and without the constraint on usernames),
  `NoRaceToReject` and the simulation of `OneShot`. `IInv`
  adds `PriorInv`: the account that an invite expects is older than the invite, in its
  row and in every redemption that has read it. From that `InvitesReachTheirAccounts`
  (`LateAccountsAreNew`), which is what holds of docs/prd.md:133 beside the finding.
- **Activity_proofs.** `CoreInv` adds what a running statement saw (`RecInv`) and that
  a row is written once. The proof needs the window to fit into a day, and holds for every setting of the
  retention: a setting that is no positive number counts as the default. `IInv` adds that a
  statement sees all rows of its own call (`OwnInv`), so that the rows of one call are a
  window apart (`OwnRowsApart`). A burst therefore maps into the calls one to one, and
  `BurstsAreBounded` counts it, for every finite number of calls.
- **AdminPanel_proofs.** `IInv` is `TypeOK`, `KindInv`, `TokenInv` (whoever holds a token
  is on the list, or the token ends within its life of when its account left it),
  `FlowInv` (a sign-in without a rival owns the state cookie) and, for each tab,
  `PageInv`: what the page waits for is about what is selected on it, and a page that is
  not crossed waits for at most one answer about its user, which will be true when it
  comes. A page is crossed from when it waits for two answers, loses a request, or is
  overtaken by a change after it was told (`Overtaken`), until it is at rest and asks
  again (`Resumes`); `Steady` says of a change by anybody else that every page either is
  not about that user, or will still ask, or is named as overtaken. The proof goes by what each step does to what a page waits for (`Awaited`); a
  page that a step does not touch is one lemma (`PageFrame`). It needs a nonce that is
  neither in the cookie nor in a tab, which a state of 32 random bytes is. From it
  `OnlyRecentAdminsChange`, `OnlyRivalsRefused`, `UserIsCurrent` and `SlicesAreSelected`.

- **Sidecar_proofs.** `IInv` is `TypeOK`, `ShapeInv` (what an exchange holds at each
  stage) and one part for each property. `KnownInv`: every token in a cookie, a request or
  a call was issued. `UserInv`: a session, and what leads to one, is of one user.
  `TruthInv`: the claims of a token were true when it was signed, which stays so because
  `past` only grows (`HadStays`). `FlowInv`: the state cookie is of the only login.
  `SmoothInv` is the argument for the grace period: a token that is still to become a
  session is unused and nowhere else (`FreshIsNowhere`), and once the jar's token is
  used, an exchange that carries its successor is under way, and was sent before that use.
  What is sent with a used token was therefore sent at most `Delay` after the use, and
  is answered within `2 * Delay <= Grace`. The proof goes by what a step does to these
  sets (`Smoothly`); an answer of the sidecar is one lemma for all of its handlers
  (`Answered...`). `OneUsersSession`, `SiblingsSurvive`, `OnlyRivalsCollide`,
  `RoleIsRecent` and `RevokedIsOut` follow. `LogoutLasts` needs of the invariant only that a
  refresh which is waited for belongs to a request that carries its session.
  `HomectlAuthAsPromised` closes the composition: what the module takes homectl-auth to
  do with refresh tokens implements `RefreshTokens` (a rotation there is its `Serve`, an
  expulsion and a reset its `Revoke`), so the sidecar relies on nothing that
  `SessionStore` is not proved to keep. TLC agrees on the instance of `Sidecar.cfg`, but
  needs most of five minutes for it, so no run repeats it.

- **BrowserApp_proofs.** `IInv` is `TypeOK`, `HeldInv` (a token that the browser, a request
  or a response holds has its row, so that a rotation always meets one), `EarnedInv` (an
  access token was signed when its user had access, and ends within its life of that),
  `FlowInv` (the state cookie is of the only login flow), `FollowInv` (what a refresh
  brings is of the user of the last login, and nothing is left to refresh with once a
  logout is under way that clears nothing), `FreshInv` (a token under way is unused, and
  nowhere else) and `SmoothInv` (while every answer is in time, a use of a token that a
  request carries is not over, and a refresh cookie that was used is about to be
  replaced). The proof follows which refresh
  tokens and access tokens a step leaves around (`PagesOk`, `CallsOk`, `JarOk`): from these
  sets the first three parts follow in one lemma (`StepOk`), and what each action does to
  pages and requests is a lemma of its own. It needs a token and a nonce that nobody
  holds (`NamesAssumption`, by counting: `SpareIsFree`, `NonceIsFree`). From it
  `RevokedIsOut`, `OnlyRivalLoginsFail`, `SessionFollowsUser` and `StaysSignedIn`: all
  of its properties but `ComesToRest`.

Beside the properties of the runs, some of these theorems have formulas that no run
lists, because they are about what a run already shows from another side or are too slow
there: `EndedForGood`, `LineageIsOwn`, `ResetEndsWhatItSaw`, `LostStaysLost`,
`NoPasswordReturns`, `LateAccountsAreNew`, `ApartUnlessConcurrent`,
`ImplementsRefreshTokens` of `Sidecar`, and the invariants `IInv` of `PasswordReset`,
`Activity` and `Sidecar`. TLC found each of them to hold on the instance of its module
before it was proved; add the name to the `.cfg` to see it again.

A similar refinement is not stated for `BrowserApp`: there the names of tokens that nobody
holds are reused, which `RefreshTokens` does not allow.

Only model-checked: the liveness properties `RotateEnds`, `RotatedRowsPurged`,
`CodesGoAway` and `ComesToRest` (liveness under fairness is out of the prover's reach), and
the violations.

## Findings

1. `session_store_lineage`: a rotation that commits while
   `deleteAllSessionsForUser` runs leaves its successor alive.
2. `accounts_late`: an invite for an email that had no account when it was made is not
   rejected if somebody else created the account since.
3. `activity_once`: the coalescing INSERT of the activity log is not atomic, and the table
   has no constraint to make it so: two refreshes of one user and app that are recorded at
   once write two rows, where activity.service.ts:50, activity.repository.ts:5,
   migration 011:6 and the repository's README.md:102 say at most one per user, app and
   hour. `AtMostOnePerCall` and the theorems `OnlyRacesDuplicate` and `BurstsAreBounded` say
   what holds instead: only concurrency does it, and no more rows than calls at once.
4. `sidecar_revoked`: a revocation takes effect within one life of an access token, says
   docs/prd.md:358. A code that was issued before it, which lives five minutes
   (docs/prd.md:80), still buys a token, because `exchangeCode` does not look at the access
   to the code's own app, and the sidecar's callback makes a session of it; the token
   names no role. So the user is out after at most one life of both (`RevokedIsOut`). The
   same line names the revocation of admin status through the panel, which the panel
   does not offer; the list of admins is configuration (`AdminsAreRecent`).

Not a finding, but worth knowing: the EMAIL_RACE check of `redeemInvite` can never find
another account than the expected one (`NoRaceToReject`), because accounts are not
deleted and emails do not change. Read but not run: the SSO cookie names its user and a
password reset does not revoke it, so a browser that kept it still signs in without a
password (docs/prd.md:139 says the user must re-authenticate; `OldPasswordsAreOut`
leaves such sessions out, and `NewCookiesAreCurrent` says that at least no new cookie is
given for the old password); and where migration 009 could not drop the username
constraint, an import reports a duplicate name as `skipped`, an existing account, where
009:17-18 says `invalid` (`ImportLands` allows for it; it takes one request and no
interleaving).

More that was read while modelling and that no run states as a property:

- `browser.ts:32` says that authedFetch throws on a second 401; the code returns the
  response of the retry (`browser.ts:93-94`), as docs/prd.md has it. The model follows
  the code, where a second 401 just ends the request.
- The answer of a refresh that gets lost leaves the browser with the token that was
  rotated; if it is presented again only after the grace, the user has to log in again.
  `StaysSignedIn` is about runs where every answer comes back in time (`smooth`).
- A refresh of the sidecar that was under way when the user logged out answers with a
  session, and if that answer arrives last the browser is logged in again (app.ts:261).
  `LoggedOutIsOut` says that nothing else does that, short of a login.
- A login or logout that overlaps a refresh of another tab is decided by whichever
  answer arrives last: a logout may be followed by a live cookie, and the page of one
  user may go on as the user who logged in in another tab. `SessionFollowsUser` holds
  for all other runs (`raced`).
- The SSO cookie is set only if there is none (`authorize.router.ts:183`), so that after
  another user logs in by the form it still names the first. That it signs in again right
  after logoutHandler's page has gone back to the app is intended (docs/prd.md:75).
- `refreshUser` of user-detail.tsx has no `active` guard, unlike the effects next to it:
  of two answers the last to arrive stays on the page, also when it is of the user before
  a jump in the history. `ShowsCurrent` leaves such pages out (`crossed`) until they ask
  again. The link of
  the password reset card stays over such a jump too; the card is not modelled.

## Plan

Done: `RefreshTokens`/`SessionStore`, `OneShot`/`AuthCode`, `PasswordReset`, `Activity`,
`Accounts`, `AdminPanel`, `Sidecar` and `BrowserApp`, each with its proofs: every safety
property of these modules that a passing run checks is a theorem. Left to do: the order of
two grants (an upsert, so that the later one wins whatever its role; the documents do not
say which should), once there is a rule to state. What is not modelled, and why, follows.

## Not modelled

- `config/apps.ts`, `cors.middleware.ts`, `return-to.ts`: read-only look-ups and pure
  string checks without state or order. The models take an app's origin and redirect
  URI as allowed ones.
- Startup and migrations: the lock and the transaction of a migration belong to
  node-pg-migrate (`advisoryLockMode: 'wait'`), which is not in the repository. The tables
  and constraints that the migrations leave are in the models.
- JWT and bcrypt arithmetic, the HMAC of the state cookies, JWKS fetches and key
  rollover: external, and taken as exact. A JWKS or database failure in the middle of
  authMiddleware or /authorize leaves no state behind and is left out of `BrowserApp`; so
  are a failed password, which shows the form again, and `user_not_found`, because
  nothing deletes users.
- In `BrowserApp` a navigation is decided when it is sent, and a response is one step
  with its headers and body. A session that lapses after 30 days is like a deleted one.
- In `AdminPanel` the failure of a request that no component waits for (an effect after
  its cleanup may still show an error), the list of apps and of users, the invite form
  and the password reset card are left out.
- The other pages of packages/web, page rendering, the aggregate queries of the
  statistics (they only read), logging, deployment files.
