---------------------------- MODULE PasswordReset ----------------------------
(***************************************************************************)
(* Password resets against sign-ins: the table password_reset_tokens, the  *)
(* redemption behind POST /reset-password                                  *)
(* (modules/password-reset/password-reset.service.ts), the password of a   *)
(* user, and the two sign-ins of routes/authorize.router.ts, which open    *)
(* the sessions a reset is meant to end.                                   *)
(*                                                                         *)
(* A password is named by the reset token that set it, Null for the one    *)
(* the account began with: two resets are taken to choose different ones.  *)
(* A session is recorded with the password its user last proved.  Refresh  *)
(* replaces a session by another of the same proof and is left to          *)
(* SessionStore; users are never deleted, so redeemReset's USER_NOT_FOUND  *)
(* does not arise.                                                         *)
(***************************************************************************)
EXTENDS Integers

CONSTANTS
    Token,          \* reset tokens (a draw never repeats)
    User,
    Redeem,         \* concurrent POST /reset-password requests
    Browser,        \* browsers, each with one sign-in at a time
    Ttl,            \* RESET_TTL_MS
    Keep,           \* how long cleanup leaves an expired row (1 day)
    MaxTime,        \* bound on the clock
    Null

ASSUME TimesAssumption == Ttl \in Nat /\ Keep \in Nat /\ MaxTime \in Nat

ASSUME NullAssumption ==
    /\ Null \notin Token /\ Null \notin User
    /\ Null \notin [user : User, expiresAt : Int]
    /\ Null \notin [user : User, pw : Token \cup {Null}]

VARIABLES
    now,
    tokens,         \* [Token -> row, or Null]
    issued,         \* history: every reset token ever stored
    pw,             \* [User -> the password_hash column, as the password]
    red,            \* [Redeem -> the running redeemReset]
    sso,            \* [Browser -> homectl_sso: its user, and the password proved for it]
    signin,         \* [Browser -> the running sign-in]
    sessions,       \* the rows of sessions, with the password proved
    halfway         \* history: users of resets that ended before the last DELETE

vars == <<now, tokens, issued, pw, red, sso, signin, sessions, halfway>>

-----------------------------------------------------------------------------

Password == Token \cup {Null}

Row == [user : User, expiresAt : Int]

Red == [pc : {"idle", "begun", "found", "expired", "valid", "consumed", "updated"},
        token : Password, row : Row \cup {Null}]

NoRed == [pc |-> "idle", token |-> Null, row |-> Null]

\* late: a reset of the user deleted the sessions while this sign-in, or the
\* sign-in that opened this session, had read the credentials but not yet
\* inserted its row.
Session == [user : User, proved : Password, via : {"password", "sso"}, late : BOOLEAN]

SignIn == [pc : {"idle", "read", "proved", "sso"}, user : User \cup {Null},
           proved : Password, late : BOOLEAN]

NoSignIn == [pc |-> "idle", user |-> Null, proved |-> Null, late |-> FALSE]

\* Types of the rows, cookies and running requests.
TypeOK ==
    /\ now \in Int
    /\ tokens \in [Token -> Row \cup {Null}]
    /\ issued \subseteq Token
    /\ pw \in [User -> Password]
    /\ red \in [Redeem -> Red]
    /\ sso \in [Browser -> [user : User, pw : Password] \cup {Null}]
    /\ signin \in [Browser -> SignIn]
    /\ sessions \subseteq Session
    /\ halfway \subseteq User

Init ==
    /\ now = 0
    /\ tokens = [t \in Token |-> Null]
    /\ issued = {}
    /\ pw = [u \in User |-> Null]
    /\ red = [r \in Redeem |-> NoRed]
    /\ sso = [b \in Browser |-> Null]
    /\ signin = [b \in Browser |-> NoSignIn]
    /\ sessions = {}
    /\ halfway = {}

-----------------------------------------------------------------------------
(* The admin's createResetToken, and redeemReset. *)

CreateResetToken(t, u) ==
    /\ t \notin issued
    /\ tokens' = [tokens EXCEPT ![t] = [user |-> u, expiresAt |-> now + Ttl]]
    /\ issued' = issued \cup {t}
    /\ UNCHANGED <<now, pw, red, sso, signin, sessions, halfway>>

RedeemBegin(r, t) ==
    /\ red[r].pc = "idle"
    /\ red' = [red EXCEPT ![r] = [pc |-> "begun", token |-> t, row |-> Null]]
    /\ UNCHANGED <<now, tokens, issued, pw, sso, signin, sessions, halfway>>

\* SELECT, without deleting.
RedeemLookup(r) ==
    /\ red[r].pc = "begun"
    /\ red' = [red EXCEPT ![r] =
                 IF tokens[red[r].token] = Null THEN NoRed
                 ELSE [@ EXCEPT !.pc = "found", !.row = tokens[red[r].token]]]
    /\ UNCHANGED <<now, tokens, issued, pw, sso, signin, sessions, halfway>>

Lapsed(row) == row.expiresAt < now

RedeemCheck(r) ==
    /\ red[r].pc = "found"
    /\ red' = [red EXCEPT ![r].pc = IF Lapsed(red[r].row) THEN "expired" ELSE "valid"]
    /\ UNCHANGED <<now, tokens, issued, pw, sso, signin, sessions, halfway>>

RedeemDropExpired(r) ==
    /\ red[r].pc = "expired"
    /\ tokens' = [tokens EXCEPT ![red[r].token] = Null]
    /\ red' = [red EXCEPT ![r] = NoRed]
    /\ UNCHANGED <<now, issued, pw, sso, signin, sessions, halfway>>

\* DELETE and its row count: only one redemption deletes the row.
Won_IgnoreCount(r) == TRUE
Won(r) == tokens[red[r].token] # Null

RedeemConsume(r) ==
    /\ red[r].pc = "valid"
    /\ tokens' = [tokens EXCEPT ![red[r].token] = Null]
    /\ red' = [red EXCEPT ![r] = IF Won(r) THEN [@ EXCEPT !.pc = "consumed"] ELSE NoRed]
    /\ UNCHANGED <<now, issued, pw, sso, signin, sessions, halfway>>

\* updatePasswordHash, after findUserById and hashPassword.
RedeemUpdate(r) ==
    /\ red[r].pc = "consumed"
    /\ pw' = [pw EXCEPT ![red[r].row.user] = red[r].token]
    /\ red' = [red EXCEPT ![r].pc = "updated"]
    /\ UNCHANGED <<now, tokens, issued, sso, signin, sessions, halfway>>

\* deleteAllSessionsForUser.  The history notes the sign-ins it overtakes.
Ended_NewOnly(r) ==
    {s \in sessions : s.user = red[r].row.user /\ s.proved = red[r].token}
Ended(r) == {s \in sessions : s.user = red[r].row.user}

RedeemRevoke(r) ==
    /\ red[r].pc = "updated"
    /\ sessions' = sessions \ Ended(r)
    /\ signin' = [b \in Browser |->
                    IF signin[b].user = red[r].row.user
                    THEN [signin[b] EXCEPT !.late = TRUE] ELSE signin[b]]
    /\ halfway' = halfway \ {red[r].row.user}
    /\ red' = [red EXCEPT ![r] = NoRed]
    /\ UNCHANGED <<now, tokens, issued, pw, sso>>

\* A statement fails, or the server dies, anywhere in redeemReset.
RedeemFail(r) ==
    /\ red[r].pc # "idle"
    /\ halfway' = IF red[r].pc = "updated" THEN halfway \cup {red[r].row.user} ELSE halfway
    /\ red' = [red EXCEPT ![r] = NoRed]
    /\ UNCHANGED <<now, tokens, issued, pw, sso, signin, sessions>>

-----------------------------------------------------------------------------
(* POST /login and the SSO short-circuit of GET /authorize. *)

\* The user row is read, password_hash included.
LoginRead(b, u) ==
    /\ signin[b].pc = "idle"
    /\ signin' = [signin EXCEPT ![b] =
                    [pc |-> "read", user |-> u, proved |-> pw[u], late |-> FALSE]]
    /\ UNCHANGED <<now, tokens, issued, pw, red, sso, sessions, halfway>>

\* verifyPassword against the hash that was read.
LoginVerify(b) ==
    /\ signin[b].pc = "read"
    /\ signin' = [signin EXCEPT ![b].pc = "proved"]
    /\ UNCHANGED <<now, tokens, issued, pw, red, sso, sessions, halfway>>

SignInFails(b) ==
    /\ signin[b].pc # "idle"
    /\ signin' = [signin EXCEPT ![b] = NoSignIn]
    /\ UNCHANGED <<now, tokens, issued, pw, red, sso, sessions, halfway>>

Opened(b, v) == [user |-> signin[b].user, proved |-> signin[b].proved, via |-> v,
                 late |-> signin[b].late]

\* createSession; the response sets the SSO cookie if the request had none.
LoginOpens(b) ==
    /\ signin[b].pc = "proved"
    /\ sessions' = sessions \cup {Opened(b, "password")}
    /\ sso' = [sso EXCEPT ![b] =
                 IF @ = Null THEN [user |-> signin[b].user, pw |-> signin[b].proved] ELSE @]
    /\ signin' = [signin EXCEPT ![b] = NoSignIn]
    /\ UNCHANGED <<now, tokens, issued, pw, red, halfway>>

\* The SSO cookie names the user; no password is asked for.
SsoRead(b) ==
    /\ signin[b].pc = "idle"
    /\ sso[b] # Null
    /\ signin' = [signin EXCEPT ![b] =
                    [pc |-> "sso", user |-> sso[b].user, proved |-> sso[b].pw, late |-> FALSE]]
    /\ UNCHANGED <<now, tokens, issued, pw, red, sso, sessions, halfway>>

\* Mutant: the cookie's thirty days start again.
SsoOpens_Renews(b) ==
    /\ signin[b].pc = "sso"
    /\ sessions' = sessions \cup {Opened(b, "sso")}
    /\ sso' = [sso EXCEPT ![b] = [user |-> signin[b].user, pw |-> signin[b].proved]]
    /\ signin' = [signin EXCEPT ![b] = NoSignIn]
    /\ UNCHANGED <<now, tokens, issued, pw, red, halfway>>

SsoOpens(b) ==
    /\ signin[b].pc = "sso"
    /\ sessions' = sessions \cup {Opened(b, "sso")}
    /\ signin' = [signin EXCEPT ![b] = NoSignIn]
    /\ UNCHANGED <<now, tokens, issued, pw, red, sso, halfway>>

\* The cookie expires after SSO_TTL_DAYS, or the browser drops it.
SsoExpires(b) ==
    /\ sso[b] # Null
    /\ sso' = [sso EXCEPT ![b] = Null]
    /\ UNCHANGED <<now, tokens, issued, pw, red, signin, sessions, halfway>>

-----------------------------------------------------------------------------

\* Logout and expiry of one session.
SessionEnds(s) ==
    /\ s \in sessions
    /\ sessions' = sessions \ {s}
    /\ UNCHANGED <<now, tokens, issued, pw, red, sso, signin, halfway>>

\* runCleanup: DELETE ... WHERE expires_at < NOW() - INTERVAL '1 day'.
Overdue(row) == row.expiresAt < now - Keep

PurgeTokens ==
    /\ \E t \in Token : tokens[t] # Null /\ Overdue(tokens[t])
    /\ tokens' = [t \in Token |->
                    IF tokens[t] # Null /\ Overdue(tokens[t]) THEN Null ELSE tokens[t]]
    /\ UNCHANGED <<now, issued, pw, red, sso, signin, sessions, halfway>>

Tick ==
    /\ now < MaxTime
    /\ now' = now + 1
    /\ UNCHANGED <<tokens, issued, pw, red, sso, signin, sessions, halfway>>

RedeemStep(r) ==
    \/ RedeemLookup(r)
    \/ RedeemCheck(r)
    \/ RedeemDropExpired(r)
    \/ RedeemConsume(r)
    \/ RedeemUpdate(r)
    \/ RedeemRevoke(r)

SignInStep(b) ==
    \/ LoginVerify(b)
    \/ LoginOpens(b)
    \/ SsoOpens(b)

Next ==
    \/ \E t \in Token, u \in User : CreateResetToken(t, u)
    \/ \E r \in Redeem, t \in Token : RedeemBegin(r, t)
    \/ \E r \in Redeem : RedeemStep(r)
    \/ \E r \in Redeem : RedeemFail(r)
    \/ \E b \in Browser, u \in User : LoginRead(b, u)
    \/ \E b \in Browser : SignInStep(b)
    \/ \E b \in Browser : SignInFails(b)
    \/ \E b \in Browser : SsoRead(b)
    \/ \E b \in Browser : SsoExpires(b)
    \/ \E s \in sessions : SessionEnds(s)
    \/ PurgeTokens
    \/ Tick

Spec == Init /\ [][Next]_vars

-----------------------------------------------------------------------------
(* Properties. *)

\* A reset of u is between updatePasswordHash and deleteAllSessionsForUser, or
\* was abandoned there.
Unfinished(u) ==
    \/ u \in halfway
    \/ \E r \in Redeem : red[r].pc = "updated" /\ red[r].row.user = u

\* Once a reset is through, a session opened by password carries the current one,
\* unless the reset overtook its login: that had read the old hash before the
\* sessions were deleted, and inserted its own afterwards.  Deleting the
\* sessions before the update would not give this (password-reset.service.ts:
\* 87-89).  The SSO cookie outlives a reset: a sign-in by it may open a session
\* that the new password was never given for.
OldPasswordsAreOut ==
    \A s \in sessions :
        s.via = "password" /\ ~s.late /\ s.proved # pw[s.user] => Unfinished(s.user)

\* The table of reset tokens with its DELETE-and-count implements a one-shot
\* token: it sets a password at most once, also when the redemption dies.
Take == INSTANCE OneShot WITH
    Request <- Redeem,
    offered <- {t \in Token : tokens[t] # Null},
    gone <- {t \in issued : tokens[t] = Null},
    holding <- [r \in Redeem |-> IF red[r].pc = "consumed" THEN red[r].token ELSE Null]

ImplementsOneShot == Take!Spec

\* A password that was replaced never comes back: no redemption, however late or
\* often its token is presented, sets the password of an account to one it had
\* before (password-reset.service.ts:70-89).
NoPasswordReturns ==
    \A u \in User, t \in Password :
        [](pw[u] = t => [](pw[u] # t => [](pw[u] # t)))

\* An SSO cookie outlives the reset of its password, but once a reset is through,
\* only the logins it overtook get a new cookie for an old password
\* (authorize.router.ts:182-186).
NewCookiesAreCurrent ==
    [][\A b \in Browser :
         sso[b] = Null /\ sso'[b] # Null /\ sso'[b].pw # pw[sso'[b].user] =>
           signin[b].late \/ Unfinished(sso'[b].user)]_vars

-----------------------------------------------------------------------------
(* The inductive invariant of the proofs. *)

\* What a running redemption has established.
RedInv ==
    \A r \in Redeem :
        /\ red[r].pc # "idle" => red[r].token \in Token
        /\ red[r].pc \notin {"idle", "begun"} =>
             red[r].row \in Row /\ red[r].token \in issued

\* A sign-in that proved, or is about to prove, a password that is not the
\* user's any more was overtaken by the reset, or the reset is not through.
SignInInv ==
    \A b \in Browser :
        /\ signin[b].pc # "idle" => signin[b].user \in User
        /\ signin[b].pc \in {"read", "proved"} /\ ~signin[b].late
             /\ signin[b].proved # pw[signin[b].user] => Unfinished(signin[b].user)

\* Stored tokens were issued.
IssuedInv == \A t \in Token : tokens[t] # Null => t \in issued

\* The parts are preserved by every step, and imply OldPasswordsAreOut.
CoreInv == TypeOK /\ RedInv /\ SignInInv /\ IssuedInv /\ OldPasswordsAreOut

\* The token a redemption has consumed without having set the password yet.
Held(r) == IF red[r].pc = "consumed" THEN red[r].token ELSE Null

\* A token is held by one redemption, which has taken it from the table.
HolderInv ==
    \A r \in Redeem : Held(r) # Null =>
        /\ tokens[Held(r)] = Null
        /\ \A q \in Redeem : Held(q) = Held(r) => q = r

\* A token that is gone and that nobody holds: it sets no password any more.
Dead(t) == t \in issued /\ tokens[t] = Null /\ \A r \in Redeem : Held(r) # t

\* The token that set a password is dead.
UsedInv == \A u \in User : pw[u] = Null \/ Dead(pw[u])

IInv == CoreInv /\ HolderInv /\ UsedInv
=============================================================================
