---------------------------- MODULE SessionStore ----------------------------
(***************************************************************************)
(* The table homectl_auth.sessions and everything that reads or writes it: *)
(* createSession, rotateSession, deleteSessionByToken and                  *)
(* deleteAllSessionsForUser (modules/session/session.service.ts) and the   *)
(* two DELETEs of runCleanup (jobs/cleanup.ts) that touch it.              *)
(*                                                                         *)
(* rotateSession is a database transaction of several awaited statements,  *)
(* so each one is a step and other requests run in between.  What a        *)
(* transaction has written is kept in its own record until it commits.     *)
(* SELECT ... FOR UPDATE gives it the row lock, held to the end of the     *)
(* transaction; any statement that would change the row waits.             *)
(* deleteAllSessionsForUser is one DELETE under READ COMMITTED: it works   *)
(* on the rows that are visible when it starts, and waits for the locked   *)
(* ones, which makes it two steps.                                         *)
(*                                                                         *)
(* Time: Date.now() of the server is now; NOW() of the database is         *)
(* now + Skew, read when the transaction begins.                           *)
(***************************************************************************)
EXTENDS Integers

CONSTANTS
    Token,          \* refresh tokens (32 random bytes: a draw never repeats)
    User, Client,
    Proc,           \* concurrent executions of rotateSession
    Resetter,       \* concurrent executions of deleteAllSessionsForUser
    Ttl,            \* REFRESH_TTL_DAYS
    Grace,          \* ROTATION_GRACE_SECONDS
    Keep,           \* how long cleanup leaves an expired row (1 day)
    Purge,          \* how long cleanup leaves a rotated row (1 hour)
    Skew,           \* database clock minus server clock
    MaxTime,        \* bound on the clock
    Null

\* The purge delays of cleanup.ts exceed the validity they must not cut short,
\* also when the database's clock is ahead of the server's.
ASSUME TimesAssumption ==
    /\ Ttl \in Nat /\ Grace \in Nat /\ Keep \in Nat /\ Purge \in Nat
    /\ Skew \in Int /\ MaxTime \in Nat
    /\ Skew <= Keep
    /\ Grace + Skew <= Purge

\* Null is a value of its own.
ASSUME NullAssumption ==
    /\ Null \notin Int
    /\ Null \notin Token /\ Null \notin User /\ Null \notin Client
    /\ Null \notin [user : User, client : Client, expiresAt : Int,
                    rotatedAt : Int \cup {Null}]
    /\ Null \notin [user : User, client : Client, until : Int, used : BOOLEAN]
    /\ Null \notin [token : Token, user : User, client : Client]

VARIABLES
    now,            \* the server's clock
    sessions,       \* [Token -> row, or Null]: the committed rows by token_hash
    txn,            \* [Proc -> the running rotateSession]
    del,            \* [Resetter -> the running deleteAllSessionsForUser: its user, the rows
                    \* of its snapshot, and (history) the tokens stored by then]
    job,            \* where runCleanup is between its two DELETEs on the table
    issued,         \* history: the tokens of every committed INSERT
    revoked,        \* history: the tokens deleted by a logout or a reset
    grants          \* history: the successors committed by rotateSession

vars == <<now, sessions, txn, del, job, issued, revoked, grants>>

-----------------------------------------------------------------------------
(* Rows, transactions and their types. *)

Row == [user : User, client : Client, expiresAt : Int, rotatedAt : Int \cup {Null}]

Phase == {"idle", "begun", "locked", "admitted", "inserted"}

Txn == [pc : Phase,
        token : Token \cup {Null}, client : Client \cup {Null},
        begin : Int,                  \* NOW() of the transaction
        read : Row \cup {Null},       \* the row SELECT ... FOR UPDATE returned
        at : Int,                     \* Date.now() when the row was accepted
        succ : Token \cup {Null},     \* the token of the uncommitted INSERT
        expires : Int]                \* and its expires_at

NoTxn == [pc |-> "idle", token |-> Null, client |-> Null, begin |-> 0,
          read |-> Null, at |-> 0, succ |-> Null, expires |-> 0]

NoDelete == [user |-> Null, doomed |-> {}, seen |-> {}]

\* from was accepted at the time at and bought to, which lapses at lapse.
Grant == [from : Token, to : Token, first : BOOLEAN, at : Int, stamp : Int, lapse : Int]

\* One type invariant: rows, transactions and histories are what the code's
\* types say they are.
TypeOK ==
    /\ now \in Int
    /\ sessions \in [Token -> Row \cup {Null}]
    /\ txn \in [Proc -> Txn]
    /\ del \in [Resetter -> [user : User \cup {Null}, doomed : SUBSET Token,
                             seen : SUBSET Token]]
    /\ job \in {"idle", "between"}
    /\ issued \subseteq Token
    /\ revoked \subseteq Token
    /\ grants \subseteq Grant

Init ==
    /\ now = 0
    /\ sessions = [t \in Token |-> Null]
    /\ txn = [p \in Proc |-> NoTxn]
    /\ del = [d \in Resetter |-> NoDelete]
    /\ job = "idle"
    /\ issued = {}
    /\ revoked = {}
    /\ grants = {}

-----------------------------------------------------------------------------
(* Conditions of the code. *)

DbNow == now + Skew

\* p holds the row lock of token t.
Holds(p, t) ==
    txn[p].pc \in {"locked", "admitted", "inserted"} /\ txn[p].token = t

\* Nobody holds the row lock of t: FOR UPDATE and DELETE need not wait.
RowFree_NoForUpdate(t) == TRUE
RowFree(t) == \A p \in Proc : ~Holds(p, t)

\* A token that was never stored and that no open transaction has drawn.
Fresh(t) == t \notin issued /\ \A p \in Proc : txn[p].succ # t

\* The row r is accepted by rotateSession at time n.
Honourable_NoWindow(r, n) == r.expiresAt >= n
Honourable(r, n) ==
    /\ r.expiresAt >= n
    /\ r.rotatedAt # Null => r.rotatedAt >= n - Grace

\* The rows runCleanup's two DELETEs select.
DoomedExpired(r) == r.expiresAt < DbNow - Keep

DoomedRotated_Any(r) == r.rotatedAt # Null
DoomedRotated(r) == r.rotatedAt # Null /\ r.rotatedAt < DbNow - Purge

\* The table without the rows of S.
Without(S) == [t \in Token |-> IF t \in S THEN Null ELSE sessions[t]]

\* The rows that satisfy the condition Doomed.
ExpiredRows == {t \in Token : sessions[t] # Null /\ DoomedExpired(sessions[t])}
RotatedRows_AlsoExpired ==
    {t \in Token : sessions[t] # Null /\ DoomedRotated(sessions[t])
                    /\ DoomedExpired(sessions[t])}
RotatedRows == {t \in Token : sessions[t] # Null /\ DoomedRotated(sessions[t])}
RowsOf(u) == {t \in Token : sessions[t] # Null /\ sessions[t].user = u}

NewRow(u, c, e) == [user |-> u, client |-> c, expiresAt |-> e, rotatedAt |-> Null]

-----------------------------------------------------------------------------
(* createSession. *)

CreateSession(t, u, c) ==
    /\ Fresh(t)
    /\ sessions' = [sessions EXCEPT ![t] = NewRow(u, c, now + Ttl)]
    /\ issued' = issued \cup {t}
    /\ UNCHANGED <<now, txn, del, job, revoked, grants>>

-----------------------------------------------------------------------------
(* rotateSession. *)

\* BEGIN.  The caller may present any token, stored or not, with any client.
RotateBegin(p, t, c) ==
    /\ txn[p].pc = "idle"
    /\ txn' = [txn EXCEPT ![p] =
                 [NoTxn EXCEPT !.pc = "begun", !.token = t, !.client = c,
                               !.begin = DbNow]]
    /\ UNCHANGED <<now, sessions, del, job, issued, revoked, grants>>

\* The row SELECT ... FOR UPDATE looks for is there.
Matches(t, c) == sessions[t] # Null /\ sessions[t].client = c

\* The SELECT returns no row: ROLLBACK, null.
RotateUnknown(p) ==
    /\ txn[p].pc = "begun"
    /\ ~Matches(txn[p].token, txn[p].client)
    /\ txn' = [txn EXCEPT ![p] = NoTxn]
    /\ UNCHANGED <<now, sessions, del, job, issued, revoked, grants>>

\* The SELECT returns the row, as last committed, and locks it.
RotateLock(p) ==
    /\ txn[p].pc = "begun"
    /\ Matches(txn[p].token, txn[p].client)
    /\ RowFree(txn[p].token)
    /\ txn' = [txn EXCEPT ![p] =
                 [@ EXCEPT !.pc = "locked", !.read = sessions[txn[p].token]]]
    /\ UNCHANGED <<now, sessions, del, job, issued, revoked, grants>>

\* Expired, or rotated longer ago than the grace window: ROLLBACK, null.
RotateReject_NoRollback(p) ==
    /\ txn[p].pc = "locked"
    /\ ~Honourable(txn[p].read, now)
    /\ UNCHANGED vars
RotateReject(p) ==
    /\ txn[p].pc = "locked"
    /\ ~Honourable(txn[p].read, now)
    /\ txn' = [txn EXCEPT ![p] = NoTxn]
    /\ UNCHANGED <<now, sessions, del, job, issued, revoked, grants>>

\* The row is accepted; on first use the UPDATE stamps it, inside the
\* transaction.
RotateAdmit(p) ==
    /\ txn[p].pc = "locked"
    /\ Honourable(txn[p].read, now)
    /\ txn' = [txn EXCEPT ![p] = [@ EXCEPT !.pc = "admitted", !.at = now]]
    /\ UNCHANGED <<now, sessions, del, job, issued, revoked, grants>>

\* INSERT of the successor, inside the transaction.
RotateInsert(p, s) ==
    /\ txn[p].pc = "admitted"
    /\ Fresh(s)
    /\ txn' = [txn EXCEPT ![p] =
                 [@ EXCEPT !.pc = "inserted", !.succ = s, !.expires = now + Ttl]]
    /\ UNCHANGED <<now, sessions, del, job, issued, revoked, grants>>

\* p is the first to use its token, so its transaction holds the UPDATE.
FirstUse(p) == txn[p].read.rotatedAt = Null

\* The stamp the row carries once p commits: NOW() of the first transaction.
StampOf_Restamp(p) == txn[p].begin
StampOf(p) == IF FirstUse(p) THEN txn[p].begin ELSE txn[p].read.rotatedAt

\* UPDATE ... SET rotated_at, which finds nothing when the row is gone.
Stamped(r, s) == IF r = Null THEN Null ELSE [r EXCEPT !.rotatedAt = s]

\* COMMIT: the stamp and the successor become visible together.
RotateCommit(p) ==
    /\ txn[p].pc = "inserted"
    /\ sessions' = [sessions EXCEPT
            ![txn[p].token] = Stamped(sessions[txn[p].token], StampOf(p)),
            ![txn[p].succ] = NewRow(txn[p].read.user, txn[p].client, txn[p].expires)]
    /\ issued' = issued \cup {txn[p].succ}
    /\ grants' = grants \cup
            {[from |-> txn[p].token, to |-> txn[p].succ, first |-> FirstUse(p),
              at |-> txn[p].at, stamp |-> StampOf(p), lapse |-> txn[p].expires]}
    /\ txn' = [txn EXCEPT ![p] = NoTxn]
    /\ UNCHANGED <<now, del, job, revoked>>

\* A statement fails, or the server or its connection dies: the database
\* rolls the transaction back and the row lock is gone.
RotateFail(p) ==
    /\ txn[p].pc # "idle"
    /\ txn' = [txn EXCEPT ![p] = NoTxn]
    /\ UNCHANGED <<now, sessions, del, job, issued, revoked, grants>>

-----------------------------------------------------------------------------
(* The DELETEs. *)

\* deleteSessionByToken: one row, or none.
DeleteSessionByToken(t, c) ==
    /\ Matches(t, c)
    /\ RowFree(t)
    /\ sessions' = Without({t})
    /\ revoked' = revoked \cup {t}
    /\ UNCHANGED <<now, txn, del, job, issued, grants>>

\* deleteAllSessionsForUser: the statement takes its snapshot ...
DeleteAllStart(d, u) ==
    /\ del[d].user = Null
    /\ del' = [del EXCEPT ![d] = [user |-> u, doomed |-> RowsOf(u), seen |-> issued]]
    /\ UNCHANGED <<now, sessions, txn, job, issued, revoked, grants>>

\* ... waits for the locked rows, and removes the rows of the snapshot.
DeleteAllEnd(d) ==
    /\ del[d].user # Null
    /\ \A t \in del[d].doomed : RowFree(t)
    /\ sessions' = Without(del[d].doomed)
    /\ revoked' = revoked \cup del[d].doomed
    /\ del' = [del EXCEPT ![d] = NoDelete]
    /\ UNCHANGED <<now, txn, job, issued, grants>>

DeleteAllFail(d) ==
    /\ del[d].user # Null
    /\ del' = [del EXCEPT ![d] = NoDelete]
    /\ UNCHANGED <<now, sessions, txn, job, issued, revoked, grants>>

\* runCleanup: DELETE of the expired rows ...
PurgeExpired ==
    /\ job = "idle"
    /\ \A t \in ExpiredRows : RowFree(t)
    /\ sessions' = Without(ExpiredRows)
    /\ job' = "between"
    /\ UNCHANGED <<now, txn, del, issued, revoked, grants>>

\* ... then of the rows rotated long ago.
PurgeRotated ==
    /\ job = "between"
    /\ \A t \in RotatedRows : RowFree(t)
    /\ sessions' = Without(RotatedRows)
    /\ job' = "idle"
    /\ UNCHANGED <<now, txn, del, issued, revoked, grants>>

\* An error, or a restart, ends the run between the two.
PurgeFail ==
    /\ job = "between"
    /\ job' = "idle"
    /\ UNCHANGED <<now, sessions, txn, del, issued, revoked, grants>>

-----------------------------------------------------------------------------

Tick ==
    /\ now < MaxTime
    /\ now' = now + 1
    /\ UNCHANGED <<sessions, txn, del, job, issued, revoked, grants>>

\* The steps of rotateSession that end it or take it on.
RotateStep(p) ==
    \/ RotateUnknown(p)
    \/ RotateLock(p)
    \/ RotateReject(p)
    \/ RotateAdmit(p)
    \/ \E s \in Token : RotateInsert(p, s)
    \/ RotateCommit(p)

Next ==
    \/ \E t \in Token, u \in User, c \in Client : CreateSession(t, u, c)
    \/ \E p \in Proc, t \in Token, c \in Client : RotateBegin(p, t, c)
    \/ \E p \in Proc : RotateStep(p)
    \/ \E p \in Proc : RotateFail(p)
    \/ \E t \in Token, c \in Client : DeleteSessionByToken(t, c)
    \/ \E d \in Resetter, u \in User : DeleteAllStart(d, u)
    \/ \E d \in Resetter : DeleteAllEnd(d)
    \/ \E d \in Resetter : DeleteAllFail(d)
    \/ PurgeExpired
    \/ PurgeRotated
    \/ PurgeFail
    \/ Tick

Spec == Init /\ [][Next]_vars

\* What the code's scheduling gives: the database answers every statement of
\* an open transaction and serves row locks in turn, and the interval timer
\* starts runCleanup again and again, of which only finitely many runs fail (a
\* failed run that had nothing to delete is not told from a successful one).
\* Nothing makes a client call.  Only the
\* model runs out of tokens: a transaction that needs one takes what another returns,
\* or fails.
Exhausted == \A t \in Token : ~Fresh(t)

Fairness ==
    /\ \A p \in Proc : SF_vars(RotateStep(p))
    /\ \A p \in Proc : WF_vars(Exhausted /\ txn[p].pc = "admitted" /\ RotateFail(p))
    /\ SF_vars(PurgeExpired) /\ SF_vars(PurgeRotated)
    /\ <>[][PurgeFail => PurgeRotated]_vars

FairSpec == Spec /\ Fairness

-----------------------------------------------------------------------------
(* Properties. *)

\* However many refreshes present one token at once, exactly one of them is
\* its first use, and all of them leave the same stamp (the FOR UPDATE of
\* rotateSession; session.service.ts:129).
OneFirstUse ==
    \A g, h \in grants :
        g.from = h.from => g.stamp = h.stamp /\ (g.first /\ h.first => g = h)

\* A token buys no successor later than the grace window after its first use was
\* accepted, and the successor that a refresh committed buys none after the expiry
\* it was given, whatever the order in which the transactions ran and committed and
\* however many rotations lie in between (session.service.ts:156-168, 185).
ReplayRefused ==
    \A g, h \in grants :
        /\ g.from = h.from /\ g.first /\ g # h => h.at <= g.at + Grace + Skew
        /\ h.from = g.to => h.at <= g.lapse

\* Once a logout or a reset has deleted a token, no refresh that was already in
\* flight with it commits a successor (deleteSessionByToken and
\* deleteAllSessionsForUser against the open transaction of rotateSession).
NoGrantAfterRevoke ==
    [][\A g \in grants' \ grants : g.from \notin revoked]_vars

\* However refreshes race, a successor is answered to one of them only, and it is of
\* the user and the client of the token that was presented.
LineageIsOwn ==
    /\ \A g, h \in grants : g.to = h.to => g = h
    /\ \A g \in grants :
         /\ g.to # g.from
         /\ sessions[g.from] # Null /\ sessions[g.to] # Null =>
              /\ sessions[g.to].user = sessions[g.from].user
              /\ sessions[g.to].client = sessions[g.from].client

\* What a row means to the callers of the module while it is honourable: its
\* owner, and the time up to which it stays so.
Deadline(r) ==
    IF r.rotatedAt # Null /\ r.rotatedAt + Grace < r.expiresAt
    THEN r.rotatedAt + Grace ELSE r.expiresAt

GoodToken(t) ==
    IF sessions[t] # Null /\ Honourable(sessions[t], now)
    THEN [user |-> sessions[t].user, client |-> sessions[t].client,
          until |-> Deadline(sessions[t]), used |-> sessions[t].rotatedAt # Null]
    ELSE Null

HeldToken(p) ==
    IF txn[p].pc \in {"admitted", "inserted"}
    THEN [token |-> txn[p].token, user |-> txn[p].read.user, client |-> txn[p].client]
    ELSE Null

\* Nothing gives a token more than it was issued with.  One that is no longer good
\* never is again, whatever is rolled back, retried, purged or presented again; one
\* that is good keeps its owner, and neither gets a later deadline nor is unused
\* again; and the stamp of a row stays what it is, so that a grace refresh does
\* not extend the window of the token it presents (rotateSession).
TokensOnlyWane ==
    [][\A t \in issued :
         /\ GoodToken(t) = Null => GoodToken(t)' = Null
         /\ GoodToken(t) # Null /\ GoodToken(t)' # Null =>
              /\ GoodToken(t)'.user = GoodToken(t).user
              /\ GoodToken(t)'.client = GoodToken(t).client
              /\ GoodToken(t)'.until <= GoodToken(t).until
              /\ GoodToken(t).used => GoodToken(t)'.used
         /\ sessions[t] # Null /\ sessions'[t] # Null /\ sessions[t].rotatedAt # Null =>
              sessions'[t].rotatedAt = sessions[t].rotatedAt]_vars

\* A token that has ended, in whatever way, has ended for good.
EndedForGood ==
    \A t \in Token : [](t \in issued /\ GoodToken(t) = Null => [](GoodToken(t) = Null))

Abs == INSTANCE RefreshTokens WITH
    Request <- Proc,
    Window <- Grace + Skew,
    good <- [t \in Token |-> GoodToken(t)],
    held <- [p \in Proc |-> HeldToken(p)]

\* The table, its locks and its cleanup implement RefreshTokens: in particular
\* cleanup is invisible (it never removes a row that would still be accepted),
\* and a refresh whose token lapses or is purged while the transaction is open
\* is answered as one that was admitted in time.
ImplementsRefreshTokens == Abs!Spec

\* A refresh request never waits for ever on the row lock.
RotateEnds == \A p \in Proc : txn[p].pc # "idle" ~> txn[p].pc = "idle"

\* A row rotated longer ago than the purge delay is removed, although the
\* job's runs may fail between its statements (cleanup.ts:41-45).
RotatedRowsPurged ==
    \A t \in Token :
        sessions[t] # Null /\ DoomedRotated(sessions[t]) ~> sessions[t] = Null

\* A reset that comes to its end leaves its user no session that was stored before
\* its snapshot, whatever was refreshed, logged out or purged in the meantime: what
\* it misses was committed while it waited for row locks
\* (deleteAllSessionsForUser; compare ResetEndsLineage).
ResetEndsWhatItSaw ==
    [][\A d \in Resetter : DeleteAllEnd(d) =>
         \A t \in del[d].seen : sessions'[t] # Null => sessions'[t].user # del[d].user]_vars

\* docs/prd.md:139 says that after a password reset all rows of the user are
\* deleted, so that a later /refresh fails.  A successor of a deleted token
\* should then be gone as well.
ResetEndsLineage ==
    [][\A d \in Resetter : DeleteAllEnd(d) =>
         \A g \in grants : g.from \in del[d].doomed => sessions'[g.to] = Null]_vars

-----------------------------------------------------------------------------
(* The inductive invariant of the proofs, part by part. *)

\* A row lock has one holder, and the row it read is still the row.
LockInv ==
    /\ \A p, q \in Proc, t \in Token : Holds(p, t) /\ Holds(q, t) => p = q
    /\ \A p \in Proc : txn[p].pc \in {"locked", "admitted", "inserted"} =>
          /\ sessions[txn[p].token] # Null
          /\ txn[p].read = sessions[txn[p].token]
          /\ txn[p].read.client = txn[p].client

\* What an open transaction has established so far.
TxnInv ==
    \A p \in Proc :
        /\ txn[p].pc # "idle" =>
             txn[p].token \in Token /\ txn[p].client \in Client /\ txn[p].begin <= DbNow
        /\ txn[p].pc \in {"admitted", "inserted"} =>
             /\ txn[p].begin <= txn[p].at + Skew
             /\ Honourable(txn[p].read, txn[p].at)
        /\ txn[p].pc = "inserted" =>
             /\ txn[p].succ \in Token \ issued
             /\ txn[p].expires <= now + Ttl
        /\ txn[p].pc # "inserted" => txn[p].succ = Null

\* Two open transactions never draw the same token.
SuccInv ==
    \A p, q \in Proc : txn[p].succ # Null /\ txn[p].succ = txn[q].succ => p = q

\* Only issued tokens occur in the table, in a snapshot or in the history.
IssuedInv ==
    /\ \A t \in Token : sessions[t] # Null => t \in issued
    /\ \A g \in grants : g.from \in issued /\ g.to \in issued
    /\ \A d \in Resetter : del[d].doomed \subseteq issued /\ del[d].seen \subseteq issued
    /\ revoked \subseteq issued

\* The rows of a DELETE's snapshot that are still there are its user's, and of the
\* rows that were there then, the user has no others.
DoomedInv ==
    \A d \in Resetter :
        /\ del[d].user = Null => del[d].doomed = {}
        /\ \A t \in del[d].doomed : sessions[t] # Null => sessions[t].user = del[d].user
        /\ \A t \in del[d].seen :
             sessions[t] # Null /\ sessions[t].user = del[d].user => t \in del[d].doomed

\* What the history says of a token is what its row says, and no successor was
\* accepted after its expiry.
GrantInv ==
    /\ \A g \in grants :
        /\ sessions[g.from] # Null => sessions[g.from].rotatedAt = g.stamp
        /\ sessions[g.to] # Null => sessions[g.to].expiresAt = g.lapse
        /\ g.first => g.stamp <= g.at + Skew
        /\ ~g.first => g.at - Grace <= g.stamp
    /\ \A g, h \in grants : h.from = g.to => h.at <= g.lapse

\* A deleted token has no row.
RevokedInv == \A t \in revoked : sessions[t] = Null

\* The inductive invariant: together the parts are preserved by every step,
\* and they imply the safety properties above (rotateSession, runCleanup).
IInv ==
    /\ TypeOK
    /\ LockInv
    /\ TxnInv
    /\ SuccInv
    /\ IssuedInv
    /\ DoomedInv
    /\ GrantInv
    /\ OneFirstUse
    /\ LineageIsOwn
    /\ RevokedInv

=============================================================================
