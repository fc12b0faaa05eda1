------------------------------- MODULE Accounts ------------------------------
(***************************************************************************)
(* How accounts and access come about: invites (modules/invite), the       *)
(* import of an app's users (routes/internal-users.router.ts) and the      *)
(* admin's grants (modules/app-access), on the tables invite_tokens, users *)
(* and app_access.  Every query is a step of its own; none runs in a       *)
(* transaction with another.                                               *)
(*                                                                         *)
(* A role is its rank in the app; -1 is a name the app does not declare    *)
(* (getRoleRank).  Users are never deleted and keep their email.  A retry  *)
(* of an import is another import.                                         *)
(***************************************************************************)
EXTENDS Integers

CONSTANTS
    Token,          \* invite tokens (a draw never repeats)
    User,           \* ids of users (likewise)
    Email, Name, App,
    Role,           \* ranks of roles
    RoleLess,       \* the apps that declare no roles
    Grants,         \* lists of grants an invite can be created with, as sets
    Issuer,         \* concurrent creations of invites
    Redeem,         \* concurrent POST /invite requests
    Importer,       \* concurrent POST /internal/users/import requests
    NameIsUnique,   \* is users_username_key, which migration 009 may fail to drop, in place?
    Ttl,            \* INVITE_TTL_MS
    Keep,           \* how long cleanup leaves an expired row (1 day)
    MaxTime,        \* bound on the clock
    Null

\* In an app that declares no roles every name is an unknown one.
Grant == {g \in [app : App, role : Role] : g.app \in RoleLess => g.role = -1}

ASSUME RoleAssumption == Role \subseteq Int /\ RoleLess \subseteq App /\ Grants \subseteq SUBSET Grant

ASSUME TimesAssumption ==
    Ttl \in Nat /\ Keep \in Nat /\ MaxTime \in Nat /\ NameIsUnique \in BOOLEAN

ASSUME NullAssumption ==
    /\ Null \notin Token /\ Null \notin User /\ Null \notin Role
    /\ Null \notin [email : Email, grants : SUBSET Grant, expiresAt : Int,
                    expected : User \cup {Null}, by : User \cup {Null},
                    byApp : App \cup {Null}]
    /\ Null \notin [email : Email, name : Name, from : Token \cup {Null},
                    after : SUBSET Token]

VARIABLES
    now,
    invites,        \* [Token -> row of invite_tokens, or Null]
    issued,         \* history: every invite ever stored
    users,          \* [User -> row of users, or Null]
    access,         \* [User -> [App -> role, or Null]]
    iss,            \* [Issuer -> the running createAdminInvite or createDelegatedInvite]
    red,            \* [Redeem -> the running redeemInvite]
    imp,            \* [Importer -> the entry that is being imported]
    given,          \* history: what admins and apps themselves gave out
    signedOn,       \* history: the SSO cookies that POST /invite set
    reports         \* history: the entries of import responses

vars == <<now, invites, issued, users, access, iss, red, imp, given, signedOn, reports>>

-----------------------------------------------------------------------------

\* by: the inviting app user, Null for an admin.
Row == [email : Email, grants : SUBSET Grant, expiresAt : Int,
        expected : User \cup {Null}, by : User \cup {Null}, byApp : App \cup {Null}]

\* from: the invite whose redeemer chose the password, Null for an imported hash;
\* after: the invites that had been issued when the row was inserted (history).
UserRow == [email : Email, name : Name, from : Token \cup {Null}, after : SUBSET Token]

Iss == [pc : {"idle", "checked", "looked", "unpatched"}, email : Email \cup {Null},
        grants : SUBSET Grant, by : User \cup {Null}, app : App \cup {Null},
        expected : User \cup {Null}, expiresAt : Int, token : Token \cup {Null}]

NoIss == [pc |-> "idle", email |-> Null, grants |-> {}, by |-> Null, app |-> Null,
          expected |-> Null, expiresAt |-> 0, token |-> Null]

Red == [pc : {"idle", "begun", "found", "expired", "valid", "consumed", "absent", "granting"},
        token : Token \cup {Null}, name : Name \cup {Null}, row : Row \cup {Null},
        user : User \cup {Null}, created : BOOLEAN, left : SUBSET Grant]

NoRed == [pc |-> "idle", token |-> Null, name |-> Null, row |-> Null, user |-> Null,
          created |-> FALSE, left |-> {}]

Status == {"created", "skipped"}

Imp == [pc : {"idle", "begun", "absent", "clashed", "granting"}, email : Email \cup {Null},
        name : Name \cup {Null}, app : App \cup {Null}, role : Role \cup {Null},
        user : User \cup {Null}, status : Status]

NoImp == [pc |-> "idle", email |-> Null, name |-> Null, app |-> Null, role |-> Null,
          user |-> Null, status |-> "skipped"]

Report == [email : Email, name : Name, app : App, role : Role \cup {Null},
           status : Status, user : User \cup {Null}, granted : BOOLEAN]

\* Types of the tables and of the running requests.
TypeOK ==
    /\ now \in Int
    /\ invites \in [Token -> Row \cup {Null}]
    /\ issued \subseteq Token
    /\ users \in [User -> UserRow \cup {Null}]
    /\ access \in [User -> [App -> Role \cup {Null}]]
    /\ iss \in [Issuer -> Iss]
    /\ red \in [Redeem -> Red]
    /\ imp \in [Importer -> Imp]
    /\ given \subseteq Grant
    /\ signedOn \subseteq [user : User, token : Token]
    /\ reports \subseteq Report

Init ==
    /\ now = 0
    /\ invites = [t \in Token |-> Null]
    /\ issued = {}
    /\ users = [u \in User |-> Null]
    /\ access = [u \in User |-> [a \in App |-> Null]]
    /\ iss = [i \in Issuer |-> NoIss]
    /\ red = [r \in Redeem |-> NoRed]
    /\ imp = [p \in Importer |-> NoImp]
    /\ given = {}
    /\ signedOn = {}
    /\ reports = {}

-----------------------------------------------------------------------------
(* The tables users and app_access. *)

\* SELECT ... WHERE email.
Owner(u, e) == users[u] # Null /\ users[u].email = e
NobodyOwns(e) == \A u \in User : ~Owner(u, e)

Named(u, n) == users[u] # Null /\ users[u].name = n

\* The INSERT of createUser runs into a unique constraint.
Clash(e, n) == \E u \in User : Owner(u, e) \/ (NameIsUnique /\ Named(u, n))

Registered(u, e, n, t) ==
    [users EXCEPT ![u] = [email |-> e, name |-> n, from |-> t, after |-> issued]]

\* grantAccess: the upsert.
Granted(u, a, r) == [access EXCEPT ![u][a] = r]

-----------------------------------------------------------------------------
(* Creating invites. *)

\* An admin's POST /admin/api/invites, with findUserByEmail.  Roles and apps are
\* not checked.
AdminInvite(i, e, G) ==
    /\ iss[i].pc = "idle"
    /\ iss' = [iss EXCEPT ![i] = [NoIss EXCEPT !.pc = "checked", !.email = e, !.grants = G]]
    /\ UNCHANGED <<now, invites, issued, users, access, red, imp, given, signedOn, reports>>

\* getRoleRank and findAccess of createDelegatedInvite: the role is known and
\* below the inviter's.
MayInvite_SameRank(u, a, r) == r >= 0 /\ access[u][a] # Null /\ r <= access[u][a]
MayInvite(u, a, r) == r >= 0 /\ access[u][a] # Null /\ r < access[u][a]

DelegatedInvite(i, e, u, a, r) ==
    /\ iss[i].pc = "idle"
    /\ users[u] # Null
    /\ MayInvite(u, a, r)
    /\ iss' = [iss EXCEPT ![i] = [NoIss EXCEPT !.pc = "checked", !.email = e, !.by = u,
                                    !.grants = {[app |-> a, role |-> r]}, !.app = a]]
    /\ UNCHANGED <<now, invites, issued, users, access, red, imp, given, signedOn, reports>>

\* expiresAt and findUserByEmail of createAdminInvite.
InviteLooks(i) ==
    /\ iss[i].pc = "checked"
    /\ \E o \in User \cup {Null} :
         /\ IF o = Null THEN NobodyOwns(iss[i].email) ELSE Owner(o, iss[i].email)
         /\ iss' = [iss EXCEPT ![i] = [@ EXCEPT !.pc = "looked", !.expected = o,
                                              !.expiresAt = now + Ttl]]
    /\ UNCHANGED <<now, invites, issued, users, access, red, imp, given, signedOn, reports>>

InviteStored(i, t) ==
    /\ iss[i].pc = "looked"
    /\ t \notin issued
    /\ invites' = [invites EXCEPT ![t] =
                     [email |-> iss[i].email, grants |-> iss[i].grants,
                      expiresAt |-> iss[i].expiresAt, expected |-> iss[i].expected,
                      by |-> iss[i].by, byApp |-> Null]]
    /\ issued' = issued \cup {t}
    /\ given' = IF iss[i].by = Null THEN given \cup iss[i].grants ELSE given
    /\ iss' = [iss EXCEPT ![i] = IF iss[i].by = Null THEN NoIss
                                 ELSE [@ EXCEPT !.pc = "unpatched", !.token = t]]
    /\ UNCHANGED <<now, users, access, red, imp, signedOn, reports>>

\* The second statement of createDelegatedInvite.
InvitePatched(i) ==
    /\ iss[i].pc = "unpatched"
    /\ invites' = [invites EXCEPT ![iss[i].token] =
                     IF @ = Null THEN Null ELSE [@ EXCEPT !.byApp = iss[i].app]]
    /\ iss' = [iss EXCEPT ![i] = NoIss]
    /\ UNCHANGED <<now, issued, users, access, red, imp, given, signedOn, reports>>

InviteFails(i) ==
    /\ iss[i].pc # "idle"
    /\ iss' = [iss EXCEPT ![i] = NoIss]
    /\ UNCHANGED <<now, invites, issued, users, access, red, imp, given, signedOn, reports>>

-----------------------------------------------------------------------------
(* POST /invite: redeemInvite. *)

RedeemBegin(r, t, n) ==
    /\ red[r].pc = "idle"
    /\ red' = [red EXCEPT ![r] = [NoRed EXCEPT !.pc = "begun", !.token = t, !.name = n]]
    /\ UNCHANGED <<now, invites, issued, users, access, iss, imp, given, signedOn, reports>>

\* SELECT, without deleting; INVALID_TOKEN.
RedeemLookup(r) ==
    /\ red[r].pc = "begun"
    /\ red' = [red EXCEPT ![r] =
                 IF invites[red[r].token] = Null THEN NoRed
                 ELSE [@ EXCEPT !.pc = "found", !.row = invites[red[r].token]]]
    /\ UNCHANGED <<now, invites, issued, users, access, iss, imp, given, signedOn, reports>>

Lapsed(row) == row.expiresAt < now

RedeemCheck(r) ==
    /\ red[r].pc = "found"
    /\ red' = [red EXCEPT ![r].pc = IF Lapsed(red[r].row) THEN "expired" ELSE "valid"]
    /\ UNCHANGED <<now, invites, issued, users, access, iss, imp, given, signedOn, reports>>

\* EXPIRED_TOKEN.
RedeemDropExpired(r) ==
    /\ red[r].pc = "expired"
    /\ invites' = [invites EXCEPT ![red[r].token] = Null]
    /\ red' = [red EXCEPT ![r] = NoRed]
    /\ UNCHANGED <<now, issued, users, access, iss, imp, given, signedOn, reports>>

\* DELETE and its row count; ALREADY_USED.
Won_IgnoreCount(r) == TRUE
Won(r) == invites[red[r].token] # Null

RedeemConsume(r) ==
    /\ red[r].pc = "valid"
    /\ invites' = [invites EXCEPT ![red[r].token] = Null]
    /\ red' = [red EXCEPT ![r] = IF Won(r) THEN [@ EXCEPT !.pc = "consumed"] ELSE NoRed]
    /\ UNCHANGED <<now, issued, users, access, iss, imp, given, signedOn, reports>>

\* The account is another one than the invite was made for; EMAIL_RACE.
IsRace_NoNullCheck(row, u) == row.expected # u
IsRace(row, u) == row.expected # Null /\ row.expected # u

\* findUserByEmail finds an account, which is given access ...
RedeemFinds(r, u) ==
    /\ red[r].pc = "consumed"
    /\ Owner(u, red[r].row.email)
    /\ red' = [red EXCEPT ![r] =
                 IF IsRace(red[r].row, u) THEN NoRed
                 ELSE [@ EXCEPT !.pc = "granting", !.user = u, !.left = red[r].row.grants]]
    /\ UNCHANGED <<now, invites, issued, users, access, iss, imp, given, signedOn, reports>>

\* ... or finds none, while the password is hashed ...
RedeemFindsNone(r) ==
    /\ red[r].pc = "consumed"
    /\ NobodyOwns(red[r].row.email)
    /\ red' = [red EXCEPT ![r].pc = "absent"]
    /\ UNCHANGED <<now, invites, issued, users, access, iss, imp, given, signedOn, reports>>

\* ... and createUser inserts one, if no constraint stands against it by now.
RedeemCreates(r, u) ==
    /\ red[r].pc = "absent"
    /\ users[u] = Null
    /\ ~Clash(red[r].row.email, red[r].name)
    /\ users' = Registered(u, red[r].row.email, red[r].name, red[r].token)
    /\ red' = [red EXCEPT ![r] = [@ EXCEPT !.pc = "granting", !.user = u, !.created = TRUE,
                                           !.left = red[r].row.grants]]
    /\ UNCHANGED <<now, invites, issued, access, iss, imp, given, signedOn, reports>>

\* One grant of the list after the other, in the list's order.
RedeemGrants(r, g) ==
    /\ red[r].pc = "granting"
    /\ g \in red[r].left
    /\ access' = Granted(red[r].user, g.app, g.role)
    /\ red' = [red EXCEPT ![r].left = @ \ {g}]
    /\ UNCHANGED <<now, invites, issued, users, iss, imp, given, signedOn, reports>>

\* accountCreated of the outcome, which lets POST /invite set the SSO cookie.
AccountCreated_NotExpected(r) == red[r].row.expected = Null
AccountCreated(r) == red[r].created

RedeemEnds(r) ==
    /\ red[r].pc = "granting"
    /\ red[r].left = {}
    /\ signedOn' = IF AccountCreated(r)
                   THEN signedOn \cup {[user |-> red[r].user, token |-> red[r].token]}
                   ELSE signedOn
    /\ red' = [red EXCEPT ![r] = NoRed]
    /\ UNCHANGED <<now, invites, issued, users, access, iss, imp, given, reports>>

\* A statement fails, createUser's unique violation among them, or the server dies.
RedeemFail(r) ==
    /\ red[r].pc # "idle"
    /\ red' = [red EXCEPT ![r] = NoRed]
    /\ UNCHANGED <<now, invites, issued, users, access, iss, imp, given, signedOn, reports>>

-----------------------------------------------------------------------------
(* POST /internal/users/import, for an entry that passed the validation.  The *)
(* role is one the app declares, its lowest one where the entry names none,   *)
(* or Null where the app declares none.                                       *)

ImportBegin(p, e, n, a, r) ==
    /\ imp[p].pc = "idle"
    /\ IF a \in RoleLess THEN r = Null ELSE r # Null /\ r >= 0
    /\ imp' = [imp EXCEPT ![p] = [NoImp EXCEPT !.pc = "begun", !.email = e, !.name = n,
                                                !.app = a, !.role = r]]
    /\ UNCHANGED <<now, invites, issued, users, access, iss, red, given, signedOn, reports>>

\* findUserByEmail, before createUser or after its unique violation.
ImportFinds(p, u) ==
    /\ imp[p].pc \in {"begun", "clashed"}
    /\ Owner(u, imp[p].email)
    /\ imp' = [imp EXCEPT ![p] = [@ EXCEPT !.pc = "granting", !.user = u]]
    /\ UNCHANGED <<now, invites, issued, users, access, iss, red, given, signedOn, reports>>

ImportFindsNone(p) ==
    /\ imp[p].pc = "begun"
    /\ NobodyOwns(imp[p].email)
    /\ imp' = [imp EXCEPT ![p].pc = "absent"]
    /\ UNCHANGED <<now, invites, issued, users, access, iss, red, given, signedOn, reports>>

ImportCreates(p, u) ==
    /\ imp[p].pc = "absent"
    /\ users[u] = Null
    /\ ~Clash(imp[p].email, imp[p].name)
    /\ users' = Registered(u, imp[p].email, imp[p].name, Null)
    /\ imp' = [imp EXCEPT ![p] = [@ EXCEPT !.pc = "granting", !.user = u,
                                            !.status = "created"]]
    /\ UNCHANGED <<now, invites, issued, access, iss, red, given, signedOn, reports>>

ImportClashes(p) ==
    /\ imp[p].pc = "absent"
    /\ Clash(imp[p].email, imp[p].name)
    /\ imp' = [imp EXCEPT ![p].pc = "clashed"]
    /\ UNCHANGED <<now, invites, issued, users, access, iss, red, given, signedOn, reports>>

ReportOf(p, u) ==
    [email |-> imp[p].email, name |-> imp[p].name, app |-> imp[p].app,
     role |-> imp[p].role, status |-> imp[p].status, user |-> u, granted |-> u # Null /\ imp[p].role # Null]

\* Nobody has the email after the violation: reported as skipped, ungranted.
ImportGivesUp_NoRetry(p) ==
    /\ imp[p].pc = "clashed"
    /\ reports' = reports \cup {ReportOf(p, Null)}
    /\ imp' = [imp EXCEPT ![p] = NoImp]
    /\ UNCHANGED <<now, invites, issued, users, access, iss, red, given, signedOn>>
ImportGivesUp(p) ==
    /\ imp[p].pc = "clashed"
    /\ NobodyOwns(imp[p].email)
    /\ reports' = reports \cup {ReportOf(p, Null)}
    /\ imp' = [imp EXCEPT ![p] = NoImp]
    /\ UNCHANGED <<now, invites, issued, users, access, iss, red, given, signedOn>>

ImportGrants(p) ==
    /\ imp[p].pc = "granting"
    /\ IF imp[p].role = Null THEN UNCHANGED <<access, given>>
       ELSE /\ access' = Granted(imp[p].user, imp[p].app, imp[p].role)
            /\ given' = given \cup {[app |-> imp[p].app, role |-> imp[p].role]}
    /\ reports' = reports \cup {ReportOf(p, imp[p].user)}
    /\ imp' = [imp EXCEPT ![p] = NoImp]
    /\ UNCHANGED <<now, invites, issued, users, iss, red, signedOn>>

ImportFails(p) ==
    /\ imp[p].pc # "idle"
    /\ imp' = [imp EXCEPT ![p] = NoImp]
    /\ UNCHANGED <<now, invites, issued, users, access, iss, red, given, signedOn, reports>>

-----------------------------------------------------------------------------

\* The admin's grantAccess and revokeAccess; the user must exist.
AdminGrants(u, g) ==
    /\ users[u] # Null
    /\ access' = Granted(u, g.app, g.role)
    /\ given' = given \cup {g}
    /\ UNCHANGED <<now, invites, issued, users, iss, red, imp, signedOn, reports>>

AdminRevokes(u, a) ==
    /\ access' = Granted(u, a, Null)
    /\ UNCHANGED <<now, invites, issued, users, iss, red, imp, given, signedOn, reports>>

\* runCleanup on invite_tokens.
Overdue(row) == row.expiresAt < now - Keep

PurgeInvites ==
    /\ \E t \in Token : invites[t] # Null /\ Overdue(invites[t])
    /\ invites' = [t \in Token |->
                     IF invites[t] # Null /\ Overdue(invites[t]) THEN Null ELSE invites[t]]
    /\ UNCHANGED <<now, issued, users, access, iss, red, imp, given, signedOn, reports>>

Tick ==
    /\ now < MaxTime
    /\ now' = now + 1
    /\ UNCHANGED <<invites, issued, users, access, iss, red, imp, given, signedOn, reports>>

InviteStep(i) ==
    \/ InviteLooks(i)
    \/ \E t \in Token : InviteStored(i, t)
    \/ InvitePatched(i)
    \/ InviteFails(i)

RedeemStep(r) ==
    \/ RedeemLookup(r)
    \/ RedeemCheck(r)
    \/ RedeemDropExpired(r)
    \/ RedeemConsume(r)
    \/ \E u \in User : RedeemFinds(r, u)
    \/ RedeemFindsNone(r)
    \/ \E u \in User : RedeemCreates(r, u)
    \/ \E g \in Grant : RedeemGrants(r, g)
    \/ RedeemEnds(r)
    \/ RedeemFail(r)

ImportStep(p) ==
    \/ \E u \in User : ImportFinds(p, u)
    \/ ImportFindsNone(p)
    \/ \E u \in User : ImportCreates(p, u)
    \/ ImportClashes(p)
    \/ ImportGivesUp(p)
    \/ ImportGrants(p)
    \/ ImportFails(p)

Next ==
    \/ \E i \in Issuer, e \in Email, G \in Grants : AdminInvite(i, e, G)
    \/ \E i \in Issuer, e \in Email, u \in User, a \in App, r \in Role :
         DelegatedInvite(i, e, u, a, r)
    \/ \E i \in Issuer : InviteStep(i)
    \/ \E r \in Redeem, t \in Token, n \in Name : RedeemBegin(r, t, n)
    \/ \E r \in Redeem : RedeemStep(r)
    \/ \E p \in Importer, e \in Email, n \in Name, a \in App, r \in Role \cup {Null} :
         ImportBegin(p, e, n, a, r)
    \/ \E p \in Importer : ImportStep(p)
    \/ \E u \in User, g \in Grant : AdminGrants(u, g)
    \/ \E u \in User, a \in App : AdminRevokes(u, a)
    \/ PurgeInvites
    \/ Tick

Spec == Init /\ [][Next]_vars

-----------------------------------------------------------------------------
(* Properties. *)

\* Delegation never raises: whatever chain of delegated invites led to it, an
\* access is at most as high as something an admin, or the app's own import, gave
\* out in that app, and a delegated invite carries strictly less (the rank check
\* of createDelegatedInvite, which reads the inviter's access long before the
\* invite is redeemed).
NeverAboveGiven ==
    /\ \A u \in User, a \in App : access[u][a] # Null =>
         \E g \in given : g.app = a /\ access[u][a] <= g.role
    /\ \A t \in Token : invites[t] # Null /\ invites[t].by # Null =>
         \A g \in invites[t].grants : \E h \in given : h.app = g.app /\ g.role < h.role

\* POST /invite signs on only the redeemer who chose the account's password
\* (invite.router.ts:59-67).
SignOnIsOwn ==
    \A s \in signedOn : users[s.user] # Null /\ users[s.user].from = s.token

\* Every entry an import reports has its account, whoever created that in the
\* meantime; it is reported without one only where usernames are unique and the
\* account of another email holds the name, which the handler takes for the entry's
\* own account (internal-users.router.ts:156-206).
ImportLands ==
    \A rep \in reports :
        \/ \E u \in User : rep.user = u /\ Owner(u, rep.email)
        \/ /\ NameIsUnique /\ rep.user = Null
           /\ \E u \in User : Named(u, rep.name) /\ users[u].email # rep.email

\* The EMAIL_RACE check has nothing to reject: an invite for an account still
\* finds that account (invite.service.ts:197-200).
NoRaceToReject ==
    \A r \in Redeem, u \in User :
        red[r].pc = "consumed" /\ Owner(u, red[r].row.email) => ~IsRace(red[r].row, u)

\* An invite is taken by one redemption.
Take == INSTANCE OneShot WITH
    Request <- Redeem,
    offered <- {t \in Token : invites[t] # Null},
    gone <- {t \in issued : invites[t] = Null},
    holding <- [r \in Redeem |->
                  IF red[r].pc \in {"consumed", "absent", "granting"} THEN red[r].token ELSE Null]

ImplementsOneShot == Take!Spec

\* docs/prd.md:133 says that an invite is rejected if its email belongs to an
\* account that was created after the invite was issued.
LateAccountRejected ==
    \A r \in Redeem :
        red[r].pc = "granting" /\ ~red[r].created =>
          red[r].token \notin users[red[r].user].after

\* What does hold of it: an invite that was issued for an account reaches that
\* account, which was there before it.  Only where the issuer found no account,
\* one that came up since takes the grants (invite.service.ts:193-212).
LateAccountsAreNew ==
    \A r \in Redeem :
        red[r].pc = "granting" /\ ~red[r].created /\ red[r].row.expected # Null =>
          /\ red[r].user = red[r].row.expected
          /\ red[r].token \notin users[red[r].user].after

-----------------------------------------------------------------------------
(* The inductive invariant of the proofs, which says of every row of an       *)
(* invite and of every running request what it has established.               *)

\* An invite for an account names the account's email; what it grants was given
\* out, and by a delegated invite something higher was.
RowOK(w) ==
    /\ w.expected # Null => Owner(w.expected, w.email)
    /\ \A g \in w.grants : \E h \in given :
         h.app = g.app /\ IF w.by = Null THEN g.role <= h.role ELSE g.role < h.role

IssOK(x) ==
    /\ x.pc # "idle" => x.email \in Email
    /\ x.pc = "looked" /\ x.expected # Null => Owner(x.expected, x.email)
    /\ x.pc # "idle" /\ x.by # Null =>
         \A g \in x.grants : \E h \in given : h.app = g.app /\ g.role < h.role
    /\ x.pc = "unpatched" => x.token \in issued

RedOK(x) ==
    /\ x.pc # "idle" => x.token \in Token /\ x.name \in Name
    /\ x.pc \notin {"idle", "begun"} => x.row \in Row /\ x.token \in issued /\ RowOK(x.row)
    /\ x.pc \in {"consumed", "absent", "granting"} => invites[x.token] = Null
    /\ x.created => x.pc = "granting"
    /\ x.pc = "granting" =>
         /\ x.user \in User /\ users[x.user] # Null /\ x.left \subseteq x.row.grants
         /\ x.created => users[x.user].from = x.token

ImpOK(x) ==
    /\ x.pc # "idle" => x.email \in Email /\ x.name \in Name /\ x.app \in App
    /\ x.pc # "idle" /\ x.role # Null => x.app \notin RoleLess
    /\ x.pc = "granting" => x.user \in User /\ Owner(x.user, x.email)
    /\ x.pc = "clashed" =>
         \E u \in User : Owner(u, x.email) \/ (NameIsUnique /\ Named(u, x.name))

InviteInv == \A w \in {invites[t] : t \in issued} : w # Null => RowOK(w)
IssInv == \A x \in {iss[i] : i \in Issuer} : IssOK(x)
RedInv == \A x \in {red[r] : r \in Redeem} : RedOK(x)
ImpInv == \A x \in {imp[p] : p \in Importer} : ImpOK(x)

\* One account per email; every stored invite was issued; access was given out.
TableInv ==
    /\ \A u, v \in User : users[u] # Null /\ users[v] # Null /\ users[u].email = users[v].email
                            => u = v
    /\ \A t \in Token : invites[t] # Null => t \in issued
    /\ \A u \in User, a \in App : access[u][a] # Null =>
         \E g \in given : g.app = a /\ access[u][a] <= g.role

\* Preserved by every step; it implies the safety properties above.
CoreInv ==
    /\ TypeOK /\ TableInv /\ InviteInv /\ IssInv /\ RedInv /\ ImpInv
    /\ SignOnIsOwn /\ ImportLands

\* The account that invite t was issued for was there before the invite.
AccountFirst(t, w) == w.expected # Null => t \notin users[w.expected].after

PriorInv ==
    /\ \A u \in User : users[u] # Null => users[u].after \subseteq issued
    /\ \A t \in Token : invites[t] # Null => AccountFirst(t, invites[t])
    /\ \A r \in Redeem : red[r].pc \notin {"idle", "begun"} =>
         AccountFirst(red[r].token, red[r].row)

IInv == CoreInv /\ PriorInv /\ LateAccountsAreNew
=============================================================================
