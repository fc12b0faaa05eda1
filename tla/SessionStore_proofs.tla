------------------------- MODULE SessionStore_proofs ------------------------
(***************************************************************************)
(* Theorems about SessionStore for every number of tokens, users, clients, *)
(* requests and resets, every validity, delay and clock skew that          *)
(* TimesAssumption admits, and every bound on the clock.                   *)
(***************************************************************************)
EXTENDS SessionStore, TLAPS

\* The initial state satisfies every part of the invariant.
LEMMA InitIInv == Init => IInv
BY NullAssumption, TimesAssumption
   DEF Init, IInv, TypeOK, LockInv, TxnInv, SuccInv, IssuedInv, DoomedInv,
       GrantInv, OneFirstUse, LineageIsOwn, RevokedInv, NoTxn, NoDelete, Txn, Phase, Holds

\* createSession stores a fresh token, which nothing else refers to.
LEMMA CreateSessionIInv ==
    ASSUME IInv, NEW t \in Token, NEW u \in User, NEW c \in Client,
           CreateSession(t, u, c)
    PROVE  IInv'
<1> USE DEF CreateSession, IInv
<1>a. NewRow(u, c, now + Ttl) \in Row /\ NewRow(u, c, now + Ttl) # Null
  BY NullAssumption, TimesAssumption DEF NewRow, Row, TypeOK
<1>b. sessions[t] = Null /\ t \notin revoked /\ t \notin issued
  BY DEF IssuedInv, Fresh
<1>1. TypeOK'
  BY <1>a DEF TypeOK
<1>2. LockInv'
  BY <1>b DEF LockInv, Holds, TypeOK, Txn
<1>3. TxnInv'
  BY DEF TxnInv, Fresh, DbNow
<1>4. SuccInv' /\ OneFirstUse'
  BY DEF SuccInv, OneFirstUse
<1>5. IssuedInv'
  BY <1>b DEF IssuedInv, TypeOK
<1>6. DoomedInv'
  BY <1>b DEF DoomedInv, IssuedInv, TypeOK
<1>7. GrantInv'
  BY <1>b DEF GrantInv, IssuedInv, TypeOK, Grant
<1>8. RevokedInv'
  BY <1>b DEF RevokedInv, TypeOK
<1>9. LineageIsOwn'
  BY <1>b DEF LineageIsOwn, IssuedInv, TypeOK, Grant
<1> QED BY <1>1, <1>2, <1>3, <1>4, <1>5, <1>6, <1>7, <1>8, <1>9

\* BEGIN, and every way of ending a transaction without a commit.
LEMMA RotateBeginIInv ==
    ASSUME IInv, NEW p \in Proc, NEW t \in Token, NEW c \in Client,
           RotateBegin(p, t, c)
    PROVE  IInv'
<1> USE DEF IInv
<1> DEFINE x == [NoTxn EXCEPT !.pc = "begun", !.token = t, !.client = c,
                              !.begin = DbNow]
<1>0. DbNow \in Int /\ NoTxn \in Txn
  BY TimesAssumption DEF Txn, Phase, NoTxn, TypeOK, DbNow
<1>a. x \in Txn /\ x.pc = "begun" /\ x.token = t /\ x.client = c /\ x.begin = DbNow
      /\ x.succ = Null
  BY <1>0 DEF Txn, Phase, NoTxn
<1>b. /\ txn' = [txn EXCEPT ![p] = x]
      /\ txn[p].pc = "idle"
      /\ UNCHANGED <<now, sessions, del, job, issued, revoked, grants>>
  BY DEF RotateBegin
<1> HIDE DEF x
<1>1. TypeOK'
  BY <1>a, <1>b DEF TypeOK
<1>2. LockInv'
  BY <1>a, <1>b DEF LockInv, Holds, TypeOK
<1>3. TxnInv'
  BY <1>a, <1>b, TimesAssumption DEF TxnInv, DbNow, TypeOK
<1>4. SuccInv'
  BY <1>a, <1>b DEF SuccInv, TypeOK
<1>5. IssuedInv' /\ OneFirstUse' /\ LineageIsOwn' /\ DoomedInv' /\ GrantInv' /\ RevokedInv'
  BY <1>b DEF IssuedInv, OneFirstUse, LineageIsOwn, DoomedInv, GrantInv, RevokedInv
<1> QED BY <1>1, <1>2, <1>3, <1>4, <1>5

\* Ending a transaction without a commit only drops what it had established.
LEMMA RotateEndIInv ==
    ASSUME IInv, NEW p \in Proc, txn' = [txn EXCEPT ![p] = NoTxn],
           UNCHANGED <<now, sessions, del, job, issued, revoked, grants>>
    PROVE  IInv'
<1> USE DEF IInv
<1>a. NoTxn \in Txn /\ NoTxn.pc = "idle" /\ NoTxn.succ = Null
  BY DEF Txn, Phase, NoTxn
<1>1. TypeOK'
  BY <1>a DEF TypeOK
<1>2. LockInv'
  BY <1>a DEF LockInv, Holds, TypeOK
<1>3. TxnInv'
  BY <1>a DEF TxnInv, DbNow, TypeOK
<1>4. SuccInv'
  BY <1>a DEF SuccInv, TypeOK
<1>5. IssuedInv' /\ OneFirstUse' /\ LineageIsOwn' /\ DoomedInv' /\ GrantInv' /\ RevokedInv'
  BY DEF IssuedInv, OneFirstUse, LineageIsOwn, DoomedInv, GrantInv, RevokedInv
<1> QED BY <1>1, <1>2, <1>3, <1>4, <1>5

\* SELECT ... FOR UPDATE takes the lock only when nobody else has it.
LEMMA RotateLockIInv ==
    ASSUME IInv, NEW p \in Proc, RotateLock(p)
    PROVE  IInv'
<1> USE DEF IInv
<1> DEFINE x == [txn[p] EXCEPT !.pc = "locked", !.read = sessions[txn[p].token]]
<1>0. txn[p] \in Txn /\ txn[p].token \in Token
  BY DEF TypeOK, TxnInv, RotateLock
<1>a. x \in Txn /\ x.pc = "locked" /\ x.token = txn[p].token /\ x.client = txn[p].client
      /\ x.begin = txn[p].begin /\ x.read = sessions[txn[p].token] /\ x.succ = txn[p].succ
  BY <1>0 DEF Txn, Phase, TypeOK
<1>b. /\ txn' = [txn EXCEPT ![p] = x]
      /\ txn[p].pc = "begun" /\ Matches(txn[p].token, txn[p].client)
      /\ RowFree(txn[p].token)
      /\ UNCHANGED <<now, sessions, del, job, issued, revoked, grants>>
  BY DEF RotateLock
<1> HIDE DEF x
<1>1. TypeOK'
  BY <1>a, <1>b DEF TypeOK
<1>2. LockInv'
  BY <1>0, <1>a, <1>b DEF LockInv, Holds, RowFree, TypeOK, Matches
<1>3. TxnInv'
  BY <1>a, <1>b DEF TxnInv, DbNow, TypeOK
<1>4. SuccInv'
  BY <1>a, <1>b DEF SuccInv, TypeOK
<1>5. IssuedInv' /\ OneFirstUse' /\ LineageIsOwn' /\ DoomedInv' /\ GrantInv' /\ RevokedInv'
  BY <1>b DEF IssuedInv, OneFirstUse, LineageIsOwn, DoomedInv, GrantInv, RevokedInv
<1> QED BY <1>1, <1>2, <1>3, <1>4, <1>5

\* Accepting the row records when it was accepted.
LEMMA RotateAdmitIInv ==
    ASSUME IInv, NEW p \in Proc, RotateAdmit(p)
    PROVE  IInv'
<1> USE DEF IInv
<1> DEFINE x == [txn[p] EXCEPT !.pc = "admitted", !.at = now]
<1>0. txn[p] \in Txn
  BY DEF TypeOK
<1>a. x \in Txn /\ x.pc = "admitted" /\ x.token = txn[p].token /\ x.client = txn[p].client
      /\ x.begin = txn[p].begin /\ x.read = txn[p].read /\ x.succ = txn[p].succ
      /\ x.at = now
  BY <1>0 DEF Txn, Phase, TypeOK
<1>b. /\ txn' = [txn EXCEPT ![p] = x]
      /\ txn[p].pc = "locked" /\ Honourable(txn[p].read, now)
      /\ UNCHANGED <<now, sessions, del, job, issued, revoked, grants>>
  BY DEF RotateAdmit
<1> HIDE DEF x
<1>1. TypeOK'
  BY <1>a, <1>b DEF TypeOK
<1>2. LockInv'
  BY <1>a, <1>b DEF LockInv, Holds, TypeOK
<1>3. TxnInv'
  BY <1>a, <1>b, TimesAssumption DEF TxnInv, DbNow, TypeOK, Honourable
<1>4. SuccInv'
  BY <1>a, <1>b DEF SuccInv, TypeOK
<1>5. IssuedInv' /\ OneFirstUse' /\ LineageIsOwn' /\ DoomedInv' /\ GrantInv' /\ RevokedInv'
  BY <1>b DEF IssuedInv, OneFirstUse, LineageIsOwn, DoomedInv, GrantInv, RevokedInv
<1> QED BY <1>1, <1>2, <1>3, <1>4, <1>5

\* The uncommitted INSERT draws a token nobody else has drawn.
LEMMA RotateInsertIInv ==
    ASSUME IInv, NEW p \in Proc, NEW s \in Token, RotateInsert(p, s)
    PROVE  IInv'
<1> USE DEF IInv
<1> DEFINE x == [txn[p] EXCEPT !.pc = "inserted", !.succ = s, !.expires = now + Ttl]
<1>0. txn[p] \in Txn
  BY DEF TypeOK
<1>t. now + Ttl \in Int
  BY TimesAssumption DEF TypeOK
<1>a. x \in Txn /\ x.pc = "inserted" /\ x.token = txn[p].token /\ x.client = txn[p].client
      /\ x.begin = txn[p].begin /\ x.read = txn[p].read /\ x.succ = s
      /\ x.at = txn[p].at /\ x.expires = now + Ttl
  BY <1>0, <1>t DEF Txn, Phase
<1>b. /\ txn' = [txn EXCEPT ![p] = x]
      /\ txn[p].pc = "admitted" /\ Fresh(s)
      /\ UNCHANGED <<now, sessions, del, job, issued, revoked, grants>>
  BY DEF RotateInsert
<1> HIDE DEF x
<1>1. TypeOK'
  BY <1>a, <1>b DEF TypeOK
<1>2. LockInv'
  BY <1>a, <1>b DEF LockInv, Holds, TypeOK
<1>3. TxnInv'
  BY <1>a, <1>b, TimesAssumption DEF TxnInv, DbNow, TypeOK, Fresh
<1>4. SuccInv'
  BY <1>a, <1>b DEF SuccInv, TypeOK, Fresh
<1>5. IssuedInv' /\ OneFirstUse' /\ LineageIsOwn' /\ DoomedInv' /\ GrantInv' /\ RevokedInv'
  BY <1>b DEF IssuedInv, OneFirstUse, LineageIsOwn, DoomedInv, GrantInv, RevokedInv
<1> QED BY <1>1, <1>2, <1>3, <1>4, <1>5

\* COMMIT: the locked row is still the one that was read, so the stamp goes
\* where the first use left none, and the history agrees with the table.
LEMMA RotateCommitIInv ==
    ASSUME IInv, NEW p \in Proc, RotateCommit(p)
    PROVE  IInv'
<1> USE DEF IInv
<1> DEFINE t == txn[p].token
           s == txn[p].succ
           r == sessions[t]
           rNew == [r EXCEPT !.rotatedAt = StampOf(p)]
           sNew == NewRow(r.user, txn[p].client, txn[p].expires)
           g == [from |-> t, to |-> s, first |-> FirstUse(p),
                 at |-> txn[p].at, stamp |-> StampOf(p), lapse |-> txn[p].expires]
<1>1. /\ txn[p].pc = "inserted" /\ txn[p] \in Txn
      /\ t \in Token /\ s \in Token /\ s \notin issued /\ txn[p].client \in Client
      /\ txn[p].at \in Int /\ txn[p].begin \in Int /\ txn[p].expires \in Int
  BY DEF RotateCommit, TypeOK, TxnInv, Txn
<1>2. /\ r \in Row /\ r # Null /\ r = txn[p].read /\ r.client = txn[p].client
      /\ r.rotatedAt \in Int \cup {Null}
  BY <1>1 DEF LockInv, TypeOK, Row
<1>3. t # s /\ t \in issued /\ sessions[s] = Null /\ s \notin revoked /\ t \notin revoked
  BY <1>1, <1>2 DEF IssuedInv, RevokedInv
<1>4. /\ StampOf(p) \in Int
      /\ FirstUse(p) <=> r.rotatedAt = Null
      /\ FirstUse(p) => StampOf(p) = txn[p].begin
      /\ ~FirstUse(p) => StampOf(p) = r.rotatedAt
      /\ FirstUse(p) \in BOOLEAN
  BY <1>1, <1>2 DEF StampOf, FirstUse
<1>5. /\ rNew \in Row /\ rNew.rotatedAt = StampOf(p) /\ rNew # Null
      /\ rNew.user = r.user /\ rNew.client = r.client /\ rNew.expiresAt = r.expiresAt
  BY <1>2, <1>4, NullAssumption DEF Row
<1>6. /\ sNew \in Row /\ sNew.user = r.user /\ sNew.client = txn[p].client /\ sNew # Null
      /\ sNew.expiresAt = txn[p].expires
  BY <1>1, <1>2, NullAssumption DEF Row, NewRow
<1>7. g \in Grant /\ g.from = t /\ g.to = s /\ g.first = FirstUse(p)
      /\ g.at = txn[p].at /\ g.stamp = StampOf(p) /\ g.lapse = txn[p].expires
  BY <1>1, <1>4 DEF Grant
<1>8. /\ sessions' = [sessions EXCEPT ![t] = rNew, ![s] = sNew]
      /\ issued' = issued \cup {s}
      /\ grants' = grants \cup {g}
      /\ txn' = [txn EXCEPT ![p] = NoTxn]
      /\ UNCHANGED <<now, del, job, revoked>>
  BY <1>2 DEF RotateCommit, Stamped
<1>9. NoTxn \in Txn /\ NoTxn.pc = "idle" /\ NoTxn.succ = Null
  BY DEF Txn, Phase, NoTxn
<1>10. /\ txn[p].begin <= txn[p].at + Skew
       /\ r.rotatedAt # Null => r.rotatedAt >= txn[p].at - Grace
       /\ r.expiresAt >= txn[p].at
  BY <1>1, <1>2 DEF TxnInv, Honourable
<1>11. \A q \in Proc : q # p => txn[q].succ # s /\ ~Holds(q, t)
  BY <1>1, NullAssumption DEF SuccInv, LockInv, Holds
<1>12. \A q \in Proc : q # p /\ txn[q].pc \in {"locked", "admitted", "inserted"} =>
          txn[q].token # t /\ txn[q].token # s
  BY <1>3, <1>11 DEF Holds, LockInv
<1> HIDE DEF t, s, r, rNew, sNew, g
<1>a. TypeOK'
  BY <1>1, <1>5, <1>6, <1>7, <1>8, <1>9 DEF TypeOK
<1>b. LockInv'
  <2>1. \A q, o \in Proc, u \in Token : Holds(q, u)' /\ Holds(o, u)' => q = o
    BY <1>8, <1>9 DEF LockInv, Holds, TypeOK
  <2>2. ASSUME NEW q \in Proc, txn'[q].pc \in {"locked", "admitted", "inserted"}
        PROVE  /\ sessions'[txn'[q].token] # Null
               /\ txn'[q].read = sessions'[txn'[q].token]
               /\ txn'[q].read.client = txn'[q].client
    <3>1. q # p /\ txn'[q] = txn[q]
      BY <2>2, <1>8, <1>9 DEF TypeOK
    <3>2. txn[q].token \in Token
      BY <3>1, <2>2 DEF TxnInv
    <3>3. sessions'[txn[q].token] = sessions[txn[q].token]
      BY <3>1, <3>2, <2>2, <1>8, <1>12 DEF TypeOK
    <3> QED BY <3>1, <3>3, <2>2 DEF LockInv
  <2> QED BY <2>1, <2>2 DEF LockInv
<1>c. TxnInv'
  BY <1>8, <1>9, <1>11 DEF TxnInv, TypeOK, DbNow
<1>d. SuccInv'
  BY <1>8, <1>9 DEF SuccInv, TypeOK
<1>e. IssuedInv'
  BY <1>1, <1>3, <1>7, <1>8 DEF IssuedInv, TypeOK
<1>f. DoomedInv'
  BY <1>1, <1>2, <1>3, <1>5, <1>8, <1>1 DEF DoomedInv, IssuedInv, TypeOK, r
<1>g. \A h \in grants : h.from = t =>
         ~FirstUse(p) /\ h.stamp = StampOf(p)
  BY <1>2, <1>4, NullAssumption DEF GrantInv, TypeOK, Grant, r
<1>h. GrantInv'
  <2>1. g.first => g.stamp <= g.at + Skew
    BY <1>4, <1>7, <1>10
  <2>2. ~g.first => g.at - Grace <= g.stamp
    BY <1>1, <1>2, <1>4, <1>7, <1>10, TimesAssumption
  <2>3. sessions'[g.from] # Null => sessions'[g.from].rotatedAt = g.stamp
    BY <1>1, <1>3, <1>5, <1>7, <1>8 DEF TypeOK
  <2>4. \A h \in grants : sessions'[h.from] # Null => sessions'[h.from].rotatedAt = h.stamp
    <3> TAKE h \in grants
    <3>1. h.from \in Token /\ h.from # s
      BY <1>1 DEF TypeOK, Grant, IssuedInv
    <3>2. CASE h.from = t
      BY <3>2, <1>g, <1>1, <1>3, <1>5, <1>8 DEF TypeOK
    <3>3. CASE h.from # t
      BY <3>1, <3>3, <1>8 DEF TypeOK, GrantInv
    <3> QED BY <3>2, <3>3
  <2>5. \A h \in grants : h.from \in Token \ {s} /\ h.to \in Token \ {s}
    BY <1>1 DEF TypeOK, Grant, IssuedInv
  <2>6. sessions'[g.to] # Null => sessions'[g.to].expiresAt = g.lapse
    BY <1>1, <1>3, <1>6, <1>7, <1>8 DEF TypeOK
  <2>7. \A h \in grants : sessions'[h.to] # Null => sessions'[h.to].expiresAt = h.lapse
    <3> TAKE h \in grants
    <3>1. CASE h.to = t
      BY <3>1, <2>5, <1>1, <1>3, <1>2, <1>5, <1>8 DEF TypeOK, GrantInv, r
    <3>2. CASE h.to # t
      BY <3>2, <2>5, <1>8 DEF TypeOK, GrantInv
    <3> QED BY <3>1, <3>2
  <2>8. \A h \in grants : t = h.to => txn[p].at <= h.lapse
    BY <1>2, <1>10 DEF GrantInv, r
  <2>9. \A h, k \in grants' : k.from = h.to => k.at <= h.lapse
    BY <2>5, <2>8, <1>3, <1>7, <1>8 DEF GrantInv
  <2> QED BY <2>1, <2>2, <2>3, <2>4, <2>6, <2>7, <2>9, <1>8 DEF GrantInv
<1>i. OneFirstUse'
  <2> SUFFICES ASSUME NEW a \in grants', NEW b \in grants', a.from = b.from
               PROVE  a.stamp = b.stamp /\ (a.first /\ b.first => a = b)
    BY DEF OneFirstUse
  <2>1. CASE a \in grants /\ b \in grants
    BY <2>1 DEF OneFirstUse
  <2>2. CASE a = g \/ b = g
    BY <2>2, <1>7, <1>8, <1>g
  <2> QED BY <2>1, <2>2, <1>8
<1>j. RevokedInv'
  BY <1>1, <1>3, <1>8 DEF RevokedInv, TypeOK
<1>k. LineageIsOwn'
  <2>1. \A h \in grants : h.from \in Token \ {s} /\ h.to \in Token \ {s}
    BY <1>1 DEF TypeOK, Grant, IssuedInv
  <2>2. \A x \in Token \ {s} : sessions'[x] # Null =>
           /\ sessions[x] # Null
           /\ sessions'[x].user = sessions[x].user /\ sessions'[x].client = sessions[x].client
    BY <1>1, <1>2, <1>5, <1>8 DEF TypeOK, r
  <2>3. sessions'[s] = sNew /\ sessions'[t] = rNew
    BY <1>1, <1>3, <1>8 DEF TypeOK
  <2>4. \A h, k \in grants' : h.to = k.to => h = k
    BY <2>1, <1>7, <1>8 DEF LineageIsOwn
  <2>5. \A h \in grants : h.to # h.from /\ (sessions'[h.from] # Null /\ sessions'[h.to] # Null =>
            /\ sessions'[h.to].user = sessions'[h.from].user
            /\ sessions'[h.to].client = sessions'[h.from].client)
    BY <2>1, <2>2 DEF LineageIsOwn
  <2>6. g.to # g.from /\ sessions'[g.to].user = sessions'[g.from].user
        /\ sessions'[g.to].client = sessions'[g.from].client
    BY <1>2, <1>3, <1>5, <1>6, <1>7, <2>3
  <2> QED BY <2>4, <2>5, <2>6, <1>8 DEF LineageIsOwn
<1> QED BY <1>a, <1>b, <1>c, <1>d, <1>e, <1>f, <1>h, <1>i, <1>j, <1>k

\* Every DELETE of the module removes a set of unlocked rows.
LEMMA RemoveIInv ==
    ASSUME IInv, NEW S \in SUBSET Token,
           \A t \in S : sessions[t] # Null => RowFree(t),
           sessions' = Without(S),
           UNCHANGED <<now, txn, issued, grants>>,
           job' \in {"idle", "between"},
           S \subseteq issued,
           revoked' = revoked \/ revoked' = revoked \cup S,
           \/ UNCHANGED del
           \/ \E d \in Resetter : del' = [del EXCEPT ![d] = NoDelete]
    PROVE  IInv'
<1> USE DEF IInv
<1>1. \A t \in Token : sessions'[t] = IF t \in S THEN Null ELSE sessions[t]
  BY DEF Without
<1>2. /\ NoDelete.user = Null /\ NoDelete.doomed = {} /\ NoDelete.seen = {}
      /\ NoDelete \in [user : User \cup {Null}, doomed : SUBSET Token, seen : SUBSET Token]
  BY DEF NoDelete
<1>3. \A d \in Resetter : del'[d] = del[d] \/ del'[d] = NoDelete
  BY DEF TypeOK
<1>a. TypeOK'
  BY <1>2 DEF TypeOK, Without
<1>b. LockInv'
  <2>1. ASSUME NEW p \in Proc, txn[p].pc \in {"locked", "admitted", "inserted"}
        PROVE  txn[p].token \in Token /\ txn[p].token \notin S
    BY <2>1 DEF LockInv, TxnInv, RowFree, Holds
  <2> QED BY <1>1, <2>1 DEF LockInv, Holds
<1>c. TxnInv' /\ SuccInv' /\ OneFirstUse'
  BY DEF TxnInv, SuccInv, OneFirstUse, DbNow
<1>d. IssuedInv'
  BY <1>1, <1>2, <1>3 DEF IssuedInv
<1>e. DoomedInv'
  BY <1>1, <1>2, <1>3 DEF DoomedInv, TypeOK
<1>f. GrantInv'
  BY <1>1 DEF GrantInv, TypeOK, Grant
<1>g. RevokedInv'
  BY <1>1 DEF RevokedInv, TypeOK
<1>h. LineageIsOwn'
  BY <1>1 DEF LineageIsOwn, TypeOK, Grant
<1> QED BY <1>a, <1>b, <1>c, <1>d, <1>e, <1>f, <1>g, <1>h

\* Every DELETE of committed rows, whatever rows it selects, waits for their locks.
LEMMA DeleteIInv ==
    ASSUME IInv,
           \/ \E t \in Token, c \in Client : DeleteSessionByToken(t, c)
           \/ \E d \in Resetter : DeleteAllEnd(d)
           \/ PurgeExpired
           \/ PurgeRotated
    PROVE  IInv'
<1>1. CASE \E t \in Token, c \in Client : DeleteSessionByToken(t, c)
  <2> PICK t \in Token, c \in Client : DeleteSessionByToken(t, c)
    BY <1>1
  <2>1. {t} \in SUBSET Token /\ {t} \subseteq issued
    BY DEF DeleteSessionByToken, Matches, IInv, IssuedInv
  <2> QED BY <2>1, RemoveIInv DEF DeleteSessionByToken, IInv, TypeOK
<1>2. CASE \E d \in Resetter : DeleteAllEnd(d)
  <2> PICK d \in Resetter : DeleteAllEnd(d)
    BY <1>2
  <2>1. del[d].doomed \in SUBSET Token /\ del[d].doomed \subseteq issued
    BY DEF IInv, TypeOK, IssuedInv
  <2> QED BY <2>1, RemoveIInv DEF DeleteAllEnd, IInv, TypeOK
<1>3. CASE PurgeExpired
  <2>1. ExpiredRows \in SUBSET Token /\ ExpiredRows \subseteq issued
    BY DEF ExpiredRows, IInv, IssuedInv
  <2> QED BY <1>3, <2>1, RemoveIInv DEF PurgeExpired, IInv, TypeOK
<1>4. CASE PurgeRotated
  <2>1. RotatedRows \in SUBSET Token /\ RotatedRows \subseteq issued
    BY DEF RotatedRows, IInv, IssuedInv
  <2> QED BY <1>4, <2>1, RemoveIInv DEF PurgeRotated, IInv, TypeOK
<1> QED BY <1>1, <1>2, <1>3, <1>4

\* The snapshot of deleteAllSessionsForUser holds rows of its user.
LEMMA DeleteAllStartIInv ==
    ASSUME IInv, NEW d \in Resetter, NEW u \in User, DeleteAllStart(d, u)
    PROVE  IInv'
<1> USE DEF IInv
<1> DEFINE x == [user |-> u, doomed |-> RowsOf(u), seen |-> issued]
<1>1. /\ del' = [del EXCEPT ![d] = x]
      /\ UNCHANGED <<now, sessions, txn, job, issued, revoked, grants>>
  BY DEF DeleteAllStart
<1>2. /\ RowsOf(u) \in SUBSET Token /\ RowsOf(u) \subseteq issued
      /\ \A t \in RowsOf(u) : sessions[t].user = u
      /\ \A t \in Token : sessions[t] # Null /\ sessions[t].user = u => t \in RowsOf(u)
  BY DEF RowsOf, IssuedInv
<1>3. /\ x.user = u /\ x.doomed = RowsOf(u) /\ x.seen = issued /\ u # Null
      /\ x \in [user : User \cup {Null}, doomed : SUBSET Token, seen : SUBSET Token]
  BY <1>2, NullAssumption DEF TypeOK
<1> HIDE DEF x
<1>a. TypeOK'
  BY <1>1, <1>3 DEF TypeOK
<1>b. LockInv' /\ TxnInv' /\ SuccInv' /\ OneFirstUse' /\ LineageIsOwn' /\ GrantInv' /\ RevokedInv'
  BY <1>1 DEF LockInv, Holds, TxnInv, DbNow, SuccInv, OneFirstUse, LineageIsOwn, GrantInv,
              RevokedInv
<1>c. IssuedInv'
  BY <1>1, <1>2, <1>3 DEF IssuedInv, TypeOK
<1>d. DoomedInv'
  <2>1. del'[d] = x /\ \A e \in Resetter \ {d} : del'[e] = del[e]
    BY <1>1 DEF TypeOK
  <2>2. x.seen \subseteq Token
    BY <1>3 DEF TypeOK
  <2>3. \A t \in x.seen : sessions[t] # Null /\ sessions[t].user = x.user => t \in x.doomed
    <3> TAKE t \in x.seen
    <3> HAVE sessions[t] # Null /\ sessions[t].user = x.user
    <3>1. t \in Token /\ sessions[t].user = u
      BY <2>2, <1>3
    <3>2. t \in RowsOf(u)
      BY <3>1 DEF RowsOf
    <3> QED BY <3>2, <1>3
  <2>4. \A t \in x.doomed : sessions[t] # Null => sessions[t].user = x.user
    BY <1>2, <1>3
  <2>5. sessions' = sessions /\ x.user # Null
    BY <1>1, <1>3
  <2> HIDE <1>1, <1>2, <1>3
  <2> QED BY <2>1, <2>3, <2>4, <2>5 DEF DoomedInv
<1> QED BY <1>a, <1>b, <1>c, <1>d

\* The remaining steps change neither the table nor a transaction.
LEMMA OtherIInv ==
    ASSUME IInv,
           \/ \E d \in Resetter : DeleteAllFail(d)
           \/ PurgeFail
           \/ Tick
           \/ UNCHANGED vars
    PROVE  IInv'
<1> USE DEF IInv
<1>1. CASE \E d \in Resetter : DeleteAllFail(d)
  <2> PICK d \in Resetter : DeleteAllFail(d)
    BY <1>1
  <2>1. /\ del' = [del EXCEPT ![d] = NoDelete]
        /\ UNCHANGED <<now, sessions, txn, job, issued, revoked, grants>>
    BY DEF DeleteAllFail
  <2>2. /\ NoDelete.user = Null /\ NoDelete.doomed = {} /\ NoDelete.seen = {}
        /\ NoDelete \in [user : User \cup {Null}, doomed : SUBSET Token, seen : SUBSET Token]
    BY DEF NoDelete
  <2>a. TypeOK'
    BY <2>1, <2>2 DEF TypeOK
  <2>b. LockInv' /\ TxnInv' /\ SuccInv' /\ OneFirstUse' /\ LineageIsOwn' /\ GrantInv' /\ RevokedInv'
    BY <2>1 DEF LockInv, Holds, TxnInv, DbNow, SuccInv, OneFirstUse, LineageIsOwn, GrantInv,
                RevokedInv
  <2>c. IssuedInv' /\ DoomedInv'
    BY <2>1, <2>2 DEF IssuedInv, DoomedInv, TypeOK
  <2> QED BY <2>a, <2>b, <2>c
<1>2. CASE PurgeFail \/ UNCHANGED vars
  BY <1>2 DEF PurgeFail, vars, TypeOK, LockInv, Holds, TxnInv, DbNow, SuccInv,
              IssuedInv, DoomedInv, GrantInv, OneFirstUse, LineageIsOwn, RevokedInv
<1>3. CASE Tick
  <2> USE <1>3 DEF Tick
  <2>1. TypeOK' /\ LockInv' /\ SuccInv' /\ IssuedInv' /\ DoomedInv' /\ GrantInv'
        /\ OneFirstUse' /\ LineageIsOwn' /\ RevokedInv'
    BY DEF TypeOK, LockInv, Holds, SuccInv, IssuedInv, DoomedInv, GrantInv,
           OneFirstUse, LineageIsOwn, RevokedInv
  <2>2. TxnInv'
    BY TimesAssumption DEF TxnInv, TypeOK, Txn, DbNow
  <2> QED BY <2>1, <2>2
<1> QED BY <1>1, <1>2, <1>3

\* Every step preserves the invariant.
LEMMA StepIInv == IInv /\ [Next]_vars => IInv'
<1> SUFFICES ASSUME IInv, [Next]_vars PROVE IInv'
  OBVIOUS
<1>1. CASE \E t \in Token, u \in User, c \in Client : CreateSession(t, u, c)
  BY <1>1, CreateSessionIInv
<1>2. CASE \E p \in Proc, t \in Token, c \in Client : RotateBegin(p, t, c)
  BY <1>2, RotateBeginIInv
<1>3. CASE \E p \in Proc : RotateStep(p)
  <2> PICK p \in Proc : RotateStep(p)
    BY <1>3
  <2>1. CASE RotateUnknown(p) \/ RotateReject(p)
    BY <2>1, RotateEndIInv DEF RotateUnknown, RotateReject
  <2>2. CASE RotateLock(p)
    BY <2>2, RotateLockIInv
  <2>3. CASE RotateAdmit(p)
    BY <2>3, RotateAdmitIInv
  <2>4. CASE \E s \in Token : RotateInsert(p, s)
    BY <2>4, RotateInsertIInv
  <2>5. CASE RotateCommit(p)
    BY <2>5, RotateCommitIInv
  <2> QED BY <2>1, <2>2, <2>3, <2>4, <2>5 DEF RotateStep
<1>4. CASE \E p \in Proc : RotateFail(p)
  BY <1>4, RotateEndIInv DEF RotateFail
<1>5. CASE \/ \E t \in Token, c \in Client : DeleteSessionByToken(t, c)
           \/ \E d \in Resetter : DeleteAllEnd(d)
           \/ PurgeExpired
           \/ PurgeRotated
  BY <1>5, DeleteIInv
<1>6. CASE \E d \in Resetter, u \in User : DeleteAllStart(d, u)
  BY <1>6, DeleteAllStartIInv
<1>7. CASE \/ \E d \in Resetter : DeleteAllFail(d)
           \/ PurgeFail
           \/ Tick
           \/ UNCHANGED vars
  BY <1>7, OtherIInv
<1> QED BY <1>1, <1>2, <1>3, <1>4, <1>5, <1>6, <1>7 DEF Next

-----------------------------------------------------------------------------

\* The inductive invariant holds in every reachable state: in particular a row
\* lock has one holder, and what a transaction read is still there when it
\* commits (rotateSession).
THEOREM Invariance == Spec => []IInv
BY InitIInv, StepIInv, PTL DEF Spec

\* Type correctness of the table, the transactions and the histories.
THEOREM TypeCorrect == Spec => []TypeOK
<1>1. IInv => TypeOK
  BY DEF IInv
<1> QED BY <1>1, Invariance, PTL

\* rotateSession stamps a token once, however many refreshes present it at once.
THEOREM FirstUseIsUnique == Spec => []OneFirstUse
<1>1. IInv => OneFirstUse
  BY DEF IInv
<1> QED BY <1>1, Invariance, PTL

\* rotateSession answers a successor to one request only, and keeps its owner.
THEOREM Lineage == Spec => []LineageIsOwn
<1>1. IInv => LineageIsOwn
  BY DEF IInv
<1> QED BY <1>1, Invariance, PTL

\* rotateSession grants nothing for a token used more than the grace window ago, nor
\* for one that another refresh was given and that has expired.
THEOREM NoReplay == Spec => []ReplayRefused
<1>1. IInv => ReplayRefused
  <2> SUFFICES ASSUME IInv, NEW g \in grants, NEW h \in grants,
                      g.from = h.from, g.first, g # h
               PROVE  h.at <= g.at + Grace + Skew
    BY DEF ReplayRefused, IInv, GrantInv
  <2>1. g.stamp = h.stamp /\ ~h.first
    BY DEF IInv, OneFirstUse
  <2>2. g.stamp <= g.at + Skew /\ h.at - Grace <= h.stamp
    BY <2>1 DEF IInv, GrantInv
  <2>3. g.at \in Int /\ h.at \in Int /\ g.stamp \in Int /\ h.stamp \in Int
    BY DEF IInv, TypeOK, Grant
  <2> QED BY <2>1, <2>2, <2>3, TimesAssumption
<1> QED BY <1>1, Invariance, PTL

\* The ways in which a step changes the table and the history of grants.
LEMMA StepCases ==
    ASSUME TypeOK, Next
    PROVE  \/ UNCHANGED <<sessions, grants>>
           \/ \E t \in Token, u \in User, c \in Client : CreateSession(t, u, c)
           \/ \E p \in Proc : RotateCommit(p)
           \/ \E S \in SUBSET Token : sessions' = Without(S) /\ UNCHANGED grants
<1>1. CASE \E t \in Token, u \in User, c \in Client : CreateSession(t, u, c)
  BY <1>1
<1>2. CASE \E p \in Proc, t \in Token, c \in Client : RotateBegin(p, t, c)
  BY <1>2 DEF RotateBegin
<1>3. CASE \E p \in Proc : RotateStep(p)
  BY <1>3 DEF RotateStep, RotateUnknown, RotateLock, RotateReject, RotateAdmit,
              RotateInsert
<1>4. CASE \E p \in Proc : RotateFail(p)
  BY <1>4 DEF RotateFail
<1>5. CASE \E t \in Token, c \in Client : DeleteSessionByToken(t, c)
  BY <1>5 DEF DeleteSessionByToken
<1>6. CASE \E d \in Resetter : DeleteAllEnd(d)
  BY <1>6 DEF DeleteAllEnd, TypeOK
<1>7. CASE PurgeExpired
  BY <1>7 DEF PurgeExpired, ExpiredRows
<1>8. CASE PurgeRotated
  BY <1>8 DEF PurgeRotated, RotatedRows
<1>9. CASE \/ \E d \in Resetter, u \in User : DeleteAllStart(d, u)
           \/ \E d \in Resetter : DeleteAllFail(d)
           \/ PurgeFail
           \/ Tick
  BY <1>9 DEF DeleteAllStart, DeleteAllFail, PurgeFail, Tick
<1> QED BY <1>1, <1>2, <1>3, <1>4, <1>5, <1>6, <1>7, <1>8, <1>9 DEF Next

\* The stamp of a row that stays in the table never changes (rotateSession).
LEMMA StampKept ==
    ASSUME IInv, Next, NEW t \in Token, sessions[t] # Null, sessions'[t] # Null,
           sessions[t].rotatedAt # Null
    PROVE  sessions'[t].rotatedAt = sessions[t].rotatedAt
<1>0. TypeOK
  BY DEF IInv
<1>1. CASE UNCHANGED sessions
  BY <1>1
<1>2. CASE \E s \in Token, u \in User, c \in Client : CreateSession(s, u, c)
  BY <1>2 DEF CreateSession, Fresh, IInv, IssuedInv, TypeOK
<1>3. CASE \E p \in Proc : RotateCommit(p)
  <2> PICK p \in Proc : RotateCommit(p)
    BY <1>3
  <2>1. txn[p].pc = "inserted" /\ txn[p].token \in Token /\ txn[p].succ \in Token \ issued
        /\ txn[p].read = sessions[txn[p].token] /\ sessions[txn[p].token] # Null
    BY DEF RotateCommit, IInv, TxnInv, LockInv
  <2>2. t # txn[p].succ
    BY <2>1 DEF IInv, IssuedInv
  <2>3. CASE t = txn[p].token
    <3>1. sessions'[t] = [sessions[t] EXCEPT !.rotatedAt = sessions[t].rotatedAt]
      BY <2>1, <2>2, <2>3 DEF RotateCommit, Stamped, StampOf, FirstUse, IInv, TypeOK
    <3>2. sessions[t] \in Row
      BY DEF IInv, TypeOK
    <3> QED BY <3>1, <3>2 DEF Row
  <2>4. CASE t # txn[p].token
    BY <2>1, <2>2, <2>4 DEF RotateCommit, IInv, TypeOK
  <2> QED BY <2>3, <2>4
<1>4. CASE \E S \in SUBSET Token : sessions' = Without(S)
  BY <1>4 DEF Without
<1> QED BY <1>0, <1>1, <1>2, <1>3, <1>4, StepCases

\* No successor is committed for a token that a logout or a reset has deleted,
\* however the DELETE and the open transactions of rotateSession interleave.
THEOREM RevokeWins == Spec => NoGrantAfterRevoke
<1> DEFINE A == \A g \in grants' \ grants : g.from \notin revoked
<1>1. IInv /\ [Next]_vars => [A]_vars
  <2> SUFFICES ASSUME IInv, Next, NEW g \in grants' \ grants
               PROVE  g.from \notin revoked
    OBVIOUS
  <2>0. TypeOK
    BY DEF IInv
  <2>1. CASE UNCHANGED grants
    BY <2>1
  <2>2. CASE \E p \in Proc : RotateCommit(p)
    <3> PICK p \in Proc : RotateCommit(p)
      BY <2>2
    <3>1. g.from = txn[p].token
      BY DEF RotateCommit
    <3>2. sessions[txn[p].token] # Null
      BY DEF RotateCommit, IInv, LockInv
    <3> QED BY <3>1, <3>2 DEF IInv, RevokedInv
  <2> QED BY <2>0, <2>1, <2>2, StepCases DEF CreateSession
<1> QED BY <1>1, Invariance, PTL DEF Spec, NoGrantAfterRevoke

-----------------------------------------------------------------------------
(* SessionStore implements RefreshTokens. *)

\* A good token is a record, never Null.
LEMMA GoodTokenFacts ==
    ASSUME TypeOK, NEW t \in Token, sessions[t] # Null, Honourable(sessions[t], now)
    PROVE  /\ GoodToken(t) # Null
           /\ GoodToken(t).user = sessions[t].user
           /\ GoodToken(t).client = sessions[t].client
           /\ GoodToken(t).until = Deadline(sessions[t])
           /\ GoodToken(t).used = (sessions[t].rotatedAt # Null)
<1>1. sessions[t] \in Row
  BY DEF TypeOK
<1>2. Deadline(sessions[t]) \in Int
  BY <1>1, TimesAssumption DEF Deadline, Row
<1>3. GoodToken(t) \in [user : User, client : Client, until : Int, used : BOOLEAN]
  BY <1>1, <1>2 DEF GoodToken, Row
<1> QED BY <1>3, NullAssumption DEF GoodToken

\* A token stays good exactly as long as its deadline is not passed.
LEMMA DeadlineIsExact ==
    ASSUME TypeOK, NEW r \in Row, NEW n \in Int
    PROVE  Honourable(r, n) <=> Deadline(r) >= n
<1>1. r.expiresAt \in Int /\ (r.rotatedAt = Null \/ r.rotatedAt \in Int)
  BY DEF Row
<1>2. CASE r.rotatedAt = Null
  BY <1>1, <1>2 DEF Honourable, Deadline
<1>3. CASE r.rotatedAt # Null
  BY <1>1, <1>3, TimesAssumption DEF Honourable, Deadline
<1> QED BY <1>2, <1>3

\* The empty table is the initial state of RefreshTokens.
LEMMA AbsInit == Init => Abs!Init
BY DEF Init, Abs!Init, GoodToken, HeldToken, NoTxn

\* A step that leaves the clock, the table and the histories alone, and admits
\* or answers nobody, is invisible.
LEMMA AbsStutter ==
    ASSUME UNCHANGED <<now, sessions, issued, revoked>>,
           \A p \in Proc : HeldToken(p)' = HeldToken(p)
    PROVE  UNCHANGED Abs!vars
BY DEF Abs!vars, GoodToken, Honourable, Deadline

\* A cleanup step is invisible: no row it removes is honourable.
LEMMA AbsPurge ==
    ASSUME IInv, NEW S \in SUBSET Token, sessions' = Without(S),
           UNCHANGED <<now, txn, issued, revoked>>,
           \A t \in S : sessions[t] # Null => ~Honourable(sessions[t], now)
    PROVE  UNCHANGED Abs!vars
<1>1. \A t \in Token : GoodToken(t)' = GoodToken(t)
  <2> TAKE t \in Token
  <2>1. sessions'[t] = IF t \in S THEN Null ELSE sessions[t]
    BY DEF Without
  <2>2. CASE t \in S
    BY <2>1, <2>2 DEF GoodToken
  <2>3. CASE t \notin S
    BY <2>1, <2>3 DEF GoodToken, Honourable, Deadline
  <2> QED BY <2>2, <2>3
<1>2. \A p \in Proc : HeldToken(p)' = HeldToken(p)
  BY DEF HeldToken
<1> QED BY <1>1, <1>2 DEF Abs!vars

\* A row that either DELETE of runCleanup selects is no longer honourable.
LEMMA PurgedIsDead ==
    ASSUME TypeOK, NEW r \in Row, DoomedExpired(r) \/ DoomedRotated(r)
    PROVE  ~Honourable(r, now)
<1>1. r.expiresAt \in Int /\ (r.rotatedAt = Null \/ r.rotatedAt \in Int) /\ now \in Int
  BY DEF Row, TypeOK
<1>2. CASE DoomedExpired(r)
  BY <1>1, <1>2, TimesAssumption DEF DoomedExpired, DbNow, Honourable
<1>3. CASE DoomedRotated(r)
  BY <1>1, <1>3, TimesAssumption DEF DoomedRotated, DbNow, Honourable
<1> QED BY <1>2, <1>3

\* A DELETE of a logout or a reset is a revocation.
LEMMA AbsRevoke ==
    ASSUME IInv, NEW S \in SUBSET issued, NEW u \in User, sessions' = Without(S),
           UNCHANGED <<now, txn, issued>>, revoked' = revoked \cup S,
           \A t \in S : sessions[t] # Null => sessions[t].user = u
    PROVE  Abs!Revoke(u, S)
<1> DEFINE gd == [t \in Token |-> GoodToken(t)]
<1>0. TypeOK /\ S \in SUBSET Token
  BY DEF IInv, TypeOK
<1>1. \A t \in Token : sessions'[t] = IF t \in S THEN Null ELSE sessions[t]
  BY DEF Without
<1>2. \A t \in Token : GoodToken(t)' = IF t \in S THEN Null ELSE GoodToken(t)
  BY <1>1 DEF GoodToken, Honourable, Deadline
<1>3. \A t \in S : gd[t] # Null => gd[t].user = u
  BY <1>0, GoodTokenFacts DEF GoodToken
<1>4. [t \in Token |-> GoodToken(t)]' = [t \in Token |-> IF t \in S THEN Null ELSE gd[t]]
  BY <1>2
<1>5. [p \in Proc |-> HeldToken(p)]' = [p \in Proc |-> HeldToken(p)]
  BY DEF HeldToken
<1> QED BY <1>3, <1>4, <1>5 DEF Abs!Revoke

\* When the server's clock moves, exactly the rows past their deadline end.
LEMMA AbsTick ==
    ASSUME IInv, Tick
    PROVE  Abs!Tick
<1> DEFINE gd == [t \in Token |-> GoodToken(t)]
<1>0. TypeOK /\ now \in Int /\ now' = now + 1 /\ UNCHANGED <<sessions, txn, issued, revoked>>
  BY DEF IInv, TypeOK, Tick
<1>1. ASSUME NEW t \in Token
      PROVE  GoodToken(t)' = IF gd[t] # Null /\ gd[t].until >= now + 1 THEN gd[t] ELSE Null
  <2>1. CASE sessions[t] = Null
    BY <1>0, <2>1 DEF GoodToken
  <2>2. CASE sessions[t] # Null
    <3>1. sessions[t] \in Row
      BY <1>0, <2>2 DEF TypeOK
    <3>2. Deadline(sessions[t]) \in Int
      BY <3>1, TimesAssumption DEF Deadline, Row
    <3>3. /\ Honourable(sessions[t], now) <=> Deadline(sessions[t]) >= now
          /\ Honourable(sessions[t], now + 1) <=> Deadline(sessions[t]) >= now + 1
      BY <1>0, <3>1, DeadlineIsExact
    <3>4. GoodToken(t)' = IF Honourable(sessions[t], now + 1)
                          THEN [user |-> sessions[t].user, client |-> sessions[t].client,
                                until |-> Deadline(sessions[t]),
                                used |-> sessions[t].rotatedAt # Null]
                          ELSE Null
      BY <1>0, <2>2 DEF GoodToken, Honourable, Deadline
    <3>5. CASE Honourable(sessions[t], now)
      <4>1. gd[t] # Null /\ gd[t].until = Deadline(sessions[t])
        BY <1>0, <2>2, <3>5, GoodTokenFacts
      <4> QED BY <4>1, <3>3, <3>4, <3>5, <2>2 DEF GoodToken
    <3>6. CASE ~Honourable(sessions[t], now)
      BY <1>0, <3>2, <3>3, <3>4, <3>6, <2>2 DEF GoodToken
    <3> QED BY <3>5, <3>6
  <2> QED BY <2>1, <2>2
<1>2. [p \in Proc |-> HeldToken(p)]' = [p \in Proc |-> HeldToken(p)]
  BY <1>0 DEF HeldToken
<1> QED BY <1>0, <1>1, <1>2 DEF Abs!Tick

\* createSession is Issue.
LEMMA AbsIssue ==
    ASSUME IInv, NEW t \in Token, NEW u \in User, NEW c \in Client,
           CreateSession(t, u, c)
    PROVE  Abs!Issue(t, u, c)
<1> DEFINE gd == [o \in Token |-> GoodToken(o)]
           g == [user |-> u, client |-> c, until |-> now + Ttl, used |-> FALSE]
<1>1. /\ sessions' = [sessions EXCEPT ![t] = NewRow(u, c, now + Ttl)]
      /\ issued' = issued \cup {t} /\ t \notin issued
      /\ UNCHANGED <<now, txn, revoked>>
  BY DEF CreateSession, Fresh
<1>2. now \in Int /\ sessions \in [Token -> Row \cup {Null}]
  BY DEF IInv, TypeOK
<1>3. NewRow(u, c, now + Ttl) \in Row
  BY <1>2, TimesAssumption DEF NewRow, Row
<1>4. GoodToken(t)' = g
  <2> DEFINE r == NewRow(u, c, now + Ttl)
  <2>1. sessions'[t] = r /\ now' = now
    BY <1>1, <1>2
  <2>2. r # Null /\ r.user = u /\ r.client = c /\ r.expiresAt = now + Ttl /\ r.rotatedAt = Null
    BY <1>3, NullAssumption DEF NewRow, Row
  <2> HIDE DEF r
  <2>3. Honourable(r, now) /\ Deadline(r) = now + Ttl
    BY <1>2, <2>2, TimesAssumption DEF Honourable, Deadline
  <2>4. GoodToken(t)' = IF r # Null /\ Honourable(r, now)
                        THEN [user |-> r.user, client |-> r.client, until |-> Deadline(r),
                              used |-> r.rotatedAt # Null]
                        ELSE Null
    BY <2>1 DEF GoodToken, Honourable, Deadline
  <2> QED BY <2>2, <2>3, <2>4
<1>5. \A o \in Token : o # t => GoodToken(o)' = GoodToken(o)
  BY <1>1, <1>2 DEF GoodToken, Honourable, Deadline
<1>6. [o \in Token |-> GoodToken(o)]' = [gd EXCEPT ![t] = g]
  BY <1>4, <1>5
<1>7. [p \in Proc |-> HeldToken(p)]' = [p \in Proc |-> HeldToken(p)]
  BY <1>1 DEF HeldToken
<1> QED BY <1>1, <1>6, <1>7 DEF Abs!Issue

\* Accepting a locked row is Admit.
LEMMA AbsAdmit ==
    ASSUME IInv, NEW p \in Proc, RotateAdmit(p)
    PROVE  Abs!Admit(p, txn[p].token)
<1> DEFINE t == txn[p].token
           hd == [q \in Proc |-> HeldToken(q)]
           gd == [o \in Token |-> GoodToken(o)]
           h == [token |-> t, user |-> gd[t].user, client |-> gd[t].client]
<1>0. TypeOK
  BY DEF IInv
<1>1. /\ txn[p].pc = "locked" /\ txn[p] \in Txn /\ Honourable(txn[p].read, now)
      /\ UNCHANGED <<now, sessions, issued, revoked>>
      /\ txn' = [txn EXCEPT ![p] = [txn[p] EXCEPT !.pc = "admitted", !.at = now]]
  BY <1>0 DEF RotateAdmit, TypeOK
<1>2. /\ t \in Token /\ sessions[t] # Null /\ txn[p].read = sessions[t]
      /\ txn[p].client = sessions[t].client
  BY <1>1 DEF IInv, TxnInv, LockInv
<1>3. gd[t] # Null /\ gd[t].user = sessions[t].user /\ gd[t].client = sessions[t].client
  BY <1>0, <1>1, <1>2, GoodTokenFacts
<1>4. hd[p] = Null
  BY <1>1 DEF HeldToken
<1>5. HeldToken(p)' = h
  BY <1>0, <1>1, <1>2, <1>3 DEF HeldToken, TypeOK, Txn
<1>6. \A q \in Proc : q # p => HeldToken(q)' = HeldToken(q)
  BY <1>0, <1>1 DEF HeldToken, TypeOK
<1>7. [q \in Proc |-> HeldToken(q)]' = [hd EXCEPT ![p] = h]
  BY <1>5, <1>6
<1>8. [o \in Token |-> GoodToken(o)]' = gd
  BY <1>1 DEF GoodToken, Honourable, Deadline
<1> QED BY <1>1, <1>3, <1>4, <1>7, <1>8 DEF Abs!Admit

\* The commit of rotateSession is Answer.
LEMMA AbsAnswer ==
    ASSUME IInv, NEW p \in Proc, RotateCommit(p),
           NEW t \in Token, t = txn[p].token, NEW s \in Token, s = txn[p].succ
    PROVE  Abs!Answer(p, s)
<1> DEFINE r == sessions[t]
           rNew == [r EXCEPT !.rotatedAt = StampOf(p)]
           sNew == NewRow(r.user, txn[p].client, txn[p].expires)
           hd == [q \in Proc |-> HeldToken(q)]
           gd == [o \in Token |-> GoodToken(o)]
<1>0. TypeOK /\ now \in Int /\ sessions \in [Token -> Row \cup {Null}]
  BY DEF IInv, TypeOK
<1>1. /\ txn[p].pc = "inserted" /\ s \notin issued
      /\ txn[p].client \in Client /\ txn[p].begin \in Int /\ txn[p].expires \in Int
      /\ txn[p].begin <= now + Skew /\ txn[p].expires <= now + Ttl
  BY DEF RotateCommit, IInv, TypeOK, TxnInv, Txn, DbNow
<1>2. /\ r \in Row /\ r # Null /\ r = txn[p].read /\ r.client = txn[p].client
      /\ r.rotatedAt \in Int \cup {Null} /\ r.expiresAt \in Int
  BY <1>0, <1>1 DEF IInv, LockInv, Row
<1>3. t # s
  BY <1>1, <1>2 DEF IInv, IssuedInv
<1>4. /\ sessions' = [sessions EXCEPT ![t] = rNew, ![s] = sNew]
      /\ issued' = issued \cup {s}
      /\ txn' = [txn EXCEPT ![p] = NoTxn]
      /\ UNCHANGED <<now, revoked>>
  BY <1>2 DEF RotateCommit, Stamped
<1>5. /\ StampOf(p) \in Int
      /\ r.rotatedAt = Null => StampOf(p) <= now + Skew
      /\ r.rotatedAt # Null => StampOf(p) = r.rotatedAt
  BY <1>1, <1>2 DEF StampOf, FirstUse
<1>6. /\ rNew \in Row /\ rNew # Null /\ rNew.rotatedAt = StampOf(p)
      /\ rNew.user = r.user /\ rNew.client = r.client /\ rNew.expiresAt = r.expiresAt
  BY <1>2, <1>5, NullAssumption DEF Row
<1>7. /\ sNew \in Row /\ sNew # Null /\ sNew.user = r.user /\ sNew.client = r.client
      /\ sNew.expiresAt = txn[p].expires /\ sNew.rotatedAt = Null
  BY <1>1, <1>2, NullAssumption DEF Row, NewRow
<1>8. sessions'[t] = rNew /\ sessions'[s] = sNew
      /\ \A o \in Token \ {s, t} : sessions'[o] = sessions[o]
  BY <1>0, <1>1, <1>3, <1>4
<1>9. hd[p] = [token |-> t, user |-> r.user, client |-> txn[p].client] /\ hd[p] # Null
      /\ hd[p].token = t /\ hd[p].user = r.user /\ hd[p].client = r.client
  <2>1. hd[p] = [token |-> t, user |-> r.user, client |-> txn[p].client]
    BY <1>1, <1>2 DEF HeldToken
  <2>2. [token |-> t, user |-> r.user, client |-> txn[p].client]
          \in [token : Token, user : User, client : Client]
    BY <1>1, <1>2 DEF Row
  <2> QED BY <2>1, <2>2, <1>2, NullAssumption
<1> HIDE DEF r, rNew, sNew
<1>10. [q \in Proc |-> HeldToken(q)]' = [hd EXCEPT ![p] = Null]
  <2>1. HeldToken(p)' = Null
    BY <1>0, <1>4 DEF HeldToken, TypeOK, NoTxn
  <2>2. \A q \in Proc : q # p => HeldToken(q)' = HeldToken(q)
    BY <1>0, <1>4 DEF HeldToken, TypeOK
  <2> QED BY <2>1, <2>2
<1>11. \A o \in Token \ {s, t} : GoodToken(o)' = GoodToken(o)
  BY <1>4, <1>8 DEF GoodToken, Honourable, Deadline
<1>s. GoodToken(s)' = IF Honourable(sNew, now)
                      THEN [user |-> r.user, client |-> r.client,
                            until |-> txn[p].expires, used |-> FALSE]
                      ELSE Null
  <2>1. Deadline(sNew) = txn[p].expires
    BY <1>7 DEF Deadline
  <2>2. GoodToken(s)' = IF sNew # Null /\ Honourable(sNew, now)
                        THEN [user |-> sNew.user, client |-> sNew.client,
                              until |-> Deadline(sNew), used |-> sNew.rotatedAt # Null]
                        ELSE Null
    BY <1>4, <1>8 DEF GoodToken, Honourable, Deadline
  <2> QED BY <2>1, <2>2, <1>7
<1>12. GoodToken(s)' = Null
       \/ /\ GoodToken(s)'.user = hd[p].user /\ GoodToken(s)'.client = hd[p].client
          /\ GoodToken(s)'.until <= now + Ttl
          /\ ~GoodToken(s)'.used
  BY <1>1, <1>9, <1>s
<1>13. GoodToken(t) = IF Honourable(r, now)
                      THEN [user |-> r.user, client |-> r.client, until |-> Deadline(r),
                            used |-> r.rotatedAt # Null]
                      ELSE Null
  BY <1>2 DEF GoodToken, r
<1>14. GoodToken(t)' = IF Honourable(rNew, now)
                       THEN [user |-> r.user, client |-> r.client,
                             until |-> Deadline(rNew), used |-> rNew.rotatedAt # Null]
                       ELSE Null
  <2>1. GoodToken(t)' = IF rNew # Null /\ Honourable(rNew, now)
                        THEN [user |-> rNew.user, client |-> rNew.client,
                              until |-> Deadline(rNew), used |-> rNew.rotatedAt # Null]
                        ELSE Null
    BY <1>4, <1>8 DEF GoodToken, Honourable, Deadline
  <2> QED BY <2>1, <1>6
<1>15. \/ GoodToken(t)' = GoodToken(t) /\ (GoodToken(t) = Null \/ GoodToken(t).used)
       \/ /\ GoodToken(t) # Null /\ ~GoodToken(t).used
          /\ \/ GoodToken(t)' = Null
             \/ /\ GoodToken(t)'.user = GoodToken(t).user
                /\ GoodToken(t)'.client = GoodToken(t).client
                /\ GoodToken(t)'.used
                /\ GoodToken(t)'.until <= GoodToken(t).until
                /\ GoodToken(t)'.until <= now + (Grace + Skew)
  <2>1. CASE r.rotatedAt # Null
    <3>1. (Honourable(rNew, now) <=> Honourable(r, now)) /\ Deadline(rNew) = Deadline(r)
      BY <1>5, <1>6, <2>1 DEF Honourable, Deadline
    <3>2. GoodToken(t)' = GoodToken(t)
      BY <3>1, <1>5, <1>6, <1>13, <1>14, <2>1
    <3>3. GoodToken(t) = Null \/ GoodToken(t).used
      <4>1. CASE Honourable(r, now)
        BY <4>1, <1>0, <1>2, <2>1, GoodTokenFacts DEF r
      <4>2. CASE ~Honourable(r, now)
        BY <4>2, <1>13
      <4> QED BY <4>1, <4>2
    <3> QED BY <3>2, <3>3
  <2>2. CASE r.rotatedAt = Null /\ ~Honourable(r, now)
    <3>1. ~Honourable(rNew, now)
      BY <2>2, <1>6 DEF Honourable
    <3> QED BY <3>1, <2>2, <1>13, <1>14
  <2>3. CASE r.rotatedAt = Null /\ Honourable(r, now)
    <3>1. /\ rNew.rotatedAt \in Int /\ rNew.rotatedAt # Null
          /\ rNew.rotatedAt + Grace <= now + (Grace + Skew)
      BY <1>0, <1>5, <1>6, <2>3, TimesAssumption, NullAssumption
    <3>2. \/ Deadline(rNew) <= Deadline(r) /\ Deadline(rNew) <= now + (Grace + Skew)
          \/ ~(rNew.rotatedAt + Grace < rNew.expiresAt)
      BY <1>0, <1>2, <1>6, <2>3, <3>1, TimesAssumption DEF Deadline
    <3>3. ~(rNew.rotatedAt + Grace < rNew.expiresAt) =>
             Deadline(rNew) = r.expiresAt /\ r.expiresAt <= now + (Grace + Skew)
             /\ Deadline(r) = r.expiresAt
      BY <1>0, <1>2, <1>6, <2>3, <3>1, TimesAssumption DEF Deadline
    <3>4. Deadline(rNew) <= Deadline(r) /\ Deadline(rNew) <= now + (Grace + Skew)
      BY <1>2, <3>2, <3>3
    <3>5. GoodToken(t) # Null /\ ~GoodToken(t).used /\ GoodToken(t).until = Deadline(r)
          /\ GoodToken(t).user = r.user /\ GoodToken(t).client = r.client
      BY <1>0, <1>1, <1>2, <2>3, GoodTokenFacts DEF r
    <3>6. CASE Honourable(rNew, now)
      <4>1. GoodToken(t)' = [user |-> r.user, client |-> r.client,
                             until |-> Deadline(rNew), used |-> TRUE]
        BY <3>1, <3>6, <1>14
      <4>2. GoodToken(t)'.user = r.user /\ GoodToken(t)'.client = r.client
            /\ GoodToken(t)'.until = Deadline(rNew) /\ GoodToken(t)'.used
        BY <4>1
      <4> QED BY <4>2, <3>4, <3>5
    <3>7. CASE ~Honourable(rNew, now)
      BY <3>7, <3>5, <1>14
    <3> QED BY <3>6, <3>7
  <2> QED BY <2>1, <2>2, <2>3
<1> QED
  BY <1>1, <1>4, <1>9, <1>10, <1>11, <1>12, <1>15
     DEF Abs!Answer, Abs!HandOut, Abs!SuccessorOf, Abs!UsedUp

\* Ending a transaction without a commit is Drop, or nothing when it had not been admitted.
LEMMA AbsDrop ==
    ASSUME IInv, NEW p \in Proc, txn' = [txn EXCEPT ![p] = NoTxn],
           UNCHANGED <<now, sessions, del, job, issued, revoked, grants>>
    PROVE  Abs!Drop(p) \/ UNCHANGED Abs!vars
<1> DEFINE hd == [q \in Proc |-> HeldToken(q)]
<1>0. TypeOK
  BY DEF IInv
<1>1. HeldToken(p)' = Null /\ \A q \in Proc : q # p => HeldToken(q)' = HeldToken(q)
  BY <1>0 DEF HeldToken, TypeOK, NoTxn
<1>2. [o \in Token |-> GoodToken(o)]' = [o \in Token |-> GoodToken(o)]
  BY DEF GoodToken, Honourable, Deadline
<1>3. CASE HeldToken(p) = Null
  BY <1>1, <1>3, AbsStutter
<1>4. CASE HeldToken(p) # Null
  <2>1. hd' = [hd EXCEPT ![p] = Null] /\ hd[p] # Null
    BY <1>1, <1>4
  <2> QED BY <1>2, <2>1 DEF Abs!Drop
<1> QED BY <1>3, <1>4

\* Every step of SessionStore is a step of RefreshTokens or leaves it alone.
LEMMA AbsStep == IInv /\ [Next]_vars => [Abs!Next]_(Abs!vars)
<1> SUFFICES ASSUME IInv, [Next]_vars PROVE Abs!Next \/ UNCHANGED Abs!vars
  OBVIOUS
<1>0. TypeOK /\ issued \subseteq Token
  BY DEF IInv, TypeOK
<1>1. CASE \E t \in Token, u \in User, c \in Client : CreateSession(t, u, c)
  BY <1>1, AbsIssue DEF Abs!Next
<1>2. CASE \E p \in Proc, t \in Token, c \in Client : RotateBegin(p, t, c)
  <2> PICK p \in Proc, t \in Token, c \in Client : RotateBegin(p, t, c)
    BY <1>2
  <2>1. \A q \in Proc : HeldToken(q)' = HeldToken(q)
    <3> DEFINE x == [NoTxn EXCEPT !.pc = "begun", !.token = t, !.client = c, !.begin = DbNow]
    <3>1. txn' = [txn EXCEPT ![p] = x] /\ txn[p].pc = "idle"
      BY DEF RotateBegin
    <3>2. x.pc = "begun"
      BY DEF NoTxn
    <3> HIDE DEF x
    <3> QED BY <3>1, <3>2, <1>0 DEF HeldToken, TypeOK
  <2> QED BY <2>1, AbsStutter DEF RotateBegin
<1>3. CASE \E p \in Proc : RotateStep(p) \/ RotateFail(p)
  <2> PICK p \in Proc : RotateStep(p) \/ RotateFail(p)
    BY <1>3
  <2>1. CASE RotateUnknown(p) \/ RotateReject(p) \/ RotateFail(p)
    BY <2>1, AbsDrop DEF RotateUnknown, RotateReject, RotateFail, Abs!Next
  <2>2. CASE RotateLock(p)
    <3>1. \A q \in Proc : HeldToken(q)' = HeldToken(q)
      BY <2>2, <1>0 DEF RotateLock, HeldToken, TypeOK, Txn
    <3> QED BY <3>1, <2>2, AbsStutter DEF RotateLock
  <2>3. CASE RotateAdmit(p)
    <3>1. txn[p].token \in Token
      BY <2>3 DEF RotateAdmit, IInv, TxnInv
    <3> QED BY <3>1, <2>3, AbsAdmit DEF Abs!Next
  <2>4. CASE \E s \in Token : RotateInsert(p, s)
    <3>1. \A q \in Proc : HeldToken(q)' = HeldToken(q)
      BY <2>4, <1>0 DEF RotateInsert, HeldToken, TypeOK, Txn
    <3> QED BY <3>1, <2>4, AbsStutter DEF RotateInsert
  <2>5. CASE RotateCommit(p)
    <3>1. txn[p].token \in Token /\ txn[p].succ \in Token
      BY <2>5 DEF RotateCommit, IInv, TxnInv
    <3> QED BY <3>1, <2>5, AbsAnswer DEF Abs!Next
  <2> QED BY <2>1, <2>2, <2>3, <2>4, <2>5 DEF RotateStep
<1>4. CASE \E t \in Token, c \in Client : DeleteSessionByToken(t, c)
  <2> PICK t \in Token, c \in Client : DeleteSessionByToken(t, c)
    BY <1>4
  <2>1. {t} \in SUBSET issued /\ sessions[t] # Null
    BY DEF DeleteSessionByToken, Matches, IInv, IssuedInv
  <2>2. sessions[t].user \in User
    BY <1>0, <2>1 DEF TypeOK, Row
  <2>3. \A o \in {t} : sessions[o] # Null => sessions[o].user = sessions[t].user
    OBVIOUS
  <2>4. sessions' = Without({t}) /\ UNCHANGED <<now, txn, issued>> /\ revoked' = revoked \cup {t}
    BY DEF DeleteSessionByToken
  <2>5. PICK u \in User : u = sessions[t].user
    BY <2>2
  <2>6. Abs!Revoke(u, {t})
    BY <2>1, <2>4, <2>5, AbsRevoke
  <2> QED BY <2>1, <2>6 DEF Abs!Next
<1>5. CASE \E d \in Resetter : DeleteAllEnd(d)
  <2> PICK d \in Resetter : DeleteAllEnd(d)
    BY <1>5
  <2>1. del[d].doomed \in SUBSET issued /\ del[d].user \in User
    BY <1>0 DEF DeleteAllEnd, IInv, IssuedInv, TypeOK
  <2>2. PICK u \in User, S \in SUBSET issued : u = del[d].user /\ S = del[d].doomed
    BY <2>1
  <2>3. /\ sessions' = Without(S) /\ UNCHANGED <<now, txn, issued>>
        /\ revoked' = revoked \cup S
        /\ \A t \in S : sessions[t] # Null => sessions[t].user = u
    BY <2>2 DEF DeleteAllEnd, IInv, DoomedInv
  <2>4. Abs!Revoke(u, S)
    BY <2>3, AbsRevoke
  <2> QED BY <2>4 DEF Abs!Next
<1>6. CASE PurgeExpired \/ PurgeRotated
  <2>1. /\ \A t \in ExpiredRows : sessions[t] \in Row /\ DoomedExpired(sessions[t])
        /\ \A t \in RotatedRows : sessions[t] \in Row /\ DoomedRotated(sessions[t])
    BY <1>0 DEF ExpiredRows, RotatedRows, TypeOK
  <2>2. \A t \in ExpiredRows \cup RotatedRows : ~Honourable(sessions[t], now)
    BY <1>0, <2>1, PurgedIsDead
  <2>3. ExpiredRows \in SUBSET Token /\ RotatedRows \in SUBSET Token
    BY DEF ExpiredRows, RotatedRows
  <2>4. CASE PurgeExpired
    BY <2>2, <2>3, <2>4, AbsPurge DEF PurgeExpired
  <2>5. CASE PurgeRotated
    BY <2>2, <2>3, <2>5, AbsPurge DEF PurgeRotated
  <2> QED BY <1>6, <2>4, <2>5
<1>7. CASE \/ \E d \in Resetter, u \in User : DeleteAllStart(d, u)
           \/ \E d \in Resetter : DeleteAllFail(d)
           \/ PurgeFail
           \/ UNCHANGED vars
  <2>1. UNCHANGED <<now, sessions, txn, issued, revoked>>
    BY <1>7 DEF DeleteAllStart, DeleteAllFail, PurgeFail, vars
  <2> QED BY <2>1, AbsStutter DEF HeldToken
<1>8. CASE Tick
  BY <1>8, AbsTick DEF Abs!Next
<1> QED BY <1>1, <1>2, <1>3, <1>4, <1>5, <1>6, <1>7, <1>8 DEF Next

\* The table with its row locks, stamps and cleanup job implements the promise
\* of RefreshTokens: cleanup is invisible, admitted refreshes are answered with
\* successors of their own, and only a deadline or a revocation ends a token.
THEOREM Refinement == Spec => ImplementsRefreshTokens
BY AbsInit, AbsStep, Invariance, PTL DEF Spec, ImplementsRefreshTokens, Abs!Spec

-----------------------------------------------------------------------------
(* What follows from the promise. *)

\* The deadline of a good token is a time.
LEMMA GoodUntil ==
    ASSUME TypeOK, NEW t \in Token, GoodToken(t) # Null
    PROVE  GoodToken(t).until \in Int
<1>1. sessions[t] # Null /\ Honourable(sessions[t], now) /\ sessions[t] \in Row
  BY DEF GoodToken, TypeOK
<1>2. Deadline(sessions[t]) \in Int
  BY <1>1, TimesAssumption DEF Deadline, Row
<1> QED BY <1>1, <1>2, GoodTokenFacts

\* Handing out a successor changes one issued token at most, the presented one,
\* and takes from it.
LEMMA HandOutWanes ==
    ASSUME NEW h, NEW s \in Token, Abs!HandOut(h, s), NEW t \in issued, t \in Token,
           GoodToken(t)' # GoodToken(t), GoodToken(t)' # Null
    PROVE  /\ GoodToken(t) # Null
           /\ GoodToken(t)'.user = GoodToken(t).user
           /\ GoodToken(t)'.client = GoodToken(t).client
           /\ GoodToken(t)'.until <= GoodToken(t).until
           /\ GoodToken(t).used => GoodToken(t)'.used
<1>1. s # t
  BY DEF Abs!HandOut
<1>2. t = h.token
  BY <1>1 DEF Abs!HandOut
<1>3. GoodToken(t) # Null /\ Abs!UsedUp(GoodToken(t), GoodToken(t)')
  BY <1>2 DEF Abs!HandOut
<1> QED BY <1>3 DEF Abs!UsedUp

\* No step of RefreshTokens gives an issued token more than it had.
LEMMA AbsWanes ==
    ASSUME TypeOK, [Abs!Next]_(Abs!vars), NEW t \in issued
    PROVE  /\ GoodToken(t) = Null => GoodToken(t)' = Null
           /\ GoodToken(t) # Null /\ GoodToken(t)' # Null =>
                /\ GoodToken(t)'.user = GoodToken(t).user
                /\ GoodToken(t)'.client = GoodToken(t).client
                /\ GoodToken(t)'.until <= GoodToken(t).until
                /\ GoodToken(t).used => GoodToken(t)'.used
<1>0. t \in Token
  BY DEF TypeOK
<1>1. GoodToken(t) # Null => GoodToken(t).until <= GoodToken(t).until
  BY <1>0, GoodUntil
<1>2. SUFFICES ASSUME GoodToken(t)' # GoodToken(t), GoodToken(t)' # Null
               PROVE  /\ GoodToken(t) # Null
                      /\ GoodToken(t)'.user = GoodToken(t).user
                      /\ GoodToken(t)'.client = GoodToken(t).client
                      /\ GoodToken(t)'.until <= GoodToken(t).until
                      /\ GoodToken(t).used => GoodToken(t)'.used
  BY <1>1
<1>3. CASE UNCHANGED Abs!vars
  BY <1>0, <1>2, <1>3 DEF Abs!vars
<1>4. CASE Abs!Tick
  BY <1>0, <1>2, <1>4 DEF Abs!Tick
<1>5. CASE \E s \in Token, u \in User, c \in Client : Abs!Issue(s, u, c)
  BY <1>0, <1>2, <1>5 DEF Abs!Issue
<1>6. CASE \E r \in Proc, s \in Token : Abs!Admit(r, s)
  BY <1>0, <1>2, <1>6 DEF Abs!Admit
<1>7. CASE \E r \in Proc, s \in Token : Abs!Answer(r, s)
  <2> PICK r \in Proc, s \in Token : Abs!Answer(r, s)
    BY <1>7
  <2>1. PICK h \in {HeldToken(r)} : Abs!HandOut(h, s)
    BY DEF Abs!Answer
  <2> QED BY <1>0, <1>2, <2>1, HandOutWanes
<1>10. CASE \E o, s \in Token : Abs!Serve(o, s)
  <2> PICK o \in Token, s \in Token : Abs!Serve(o, s)
    BY <1>10
  <2>1. PICK h \in {[token |-> o, user |-> GoodToken(o).user, client |-> GoodToken(o).client]} :
           Abs!HandOut(h, s)
    BY DEF Abs!Serve
  <2> QED BY <1>0, <1>2, <2>1, HandOutWanes
<1>8. CASE \E r \in Proc : Abs!Drop(r)
  BY <1>0, <1>2, <1>8 DEF Abs!Drop
<1>9. CASE \E u \in User, S \in SUBSET issued : Abs!Revoke(u, S)
  BY <1>0, <1>2, <1>9 DEF Abs!Revoke
<1> QED BY <1>3, <1>4, <1>5, <1>6, <1>7, <1>8, <1>9, <1>10 DEF Abs!Next

\* Rotation, rollback, replay, logout, reset and cleanup together never give a
\* token more than it was issued with (rotateSession, runCleanup).
THEOREM NothingIsGivenBack == Spec => TokensOnlyWane
<1>1. IInv /\ [Next]_vars =>
        [\A t \in issued :
           /\ GoodToken(t) = Null => GoodToken(t)' = Null
           /\ GoodToken(t) # Null /\ GoodToken(t)' # Null =>
                /\ GoodToken(t)'.user = GoodToken(t).user
                /\ GoodToken(t)'.client = GoodToken(t).client
                /\ GoodToken(t)'.until <= GoodToken(t).until
                /\ GoodToken(t).used => GoodToken(t)'.used
           /\ sessions[t] # Null /\ sessions'[t] # Null /\ sessions[t].rotatedAt # Null =>
                sessions'[t].rotatedAt = sessions[t].rotatedAt]_vars
  <2> SUFFICES ASSUME IInv, Next, NEW t \in issued
               PROVE  /\ GoodToken(t) = Null => GoodToken(t)' = Null
                      /\ GoodToken(t) # Null /\ GoodToken(t)' # Null =>
                           /\ GoodToken(t)'.user = GoodToken(t).user
                           /\ GoodToken(t)'.client = GoodToken(t).client
                           /\ GoodToken(t)'.until <= GoodToken(t).until
                           /\ GoodToken(t).used => GoodToken(t)'.used
                      /\ sessions[t] # Null /\ sessions'[t] # Null
                           /\ sessions[t].rotatedAt # Null =>
                           sessions'[t].rotatedAt = sessions[t].rotatedAt
    OBVIOUS
  <2>1. TypeOK /\ t \in Token
    BY DEF IInv, TypeOK
  <2>2. [Abs!Next]_(Abs!vars)
    BY AbsStep
  <2> QED BY <2>1, <2>2, AbsWanes, StampKept
<1> QED BY <1>1, Invariance, PTL DEF Spec, TokensOnlyWane

\* A token whose deadline passed, that was logged out, reset or used up, is never
\* honoured again (the callers of rotateSession).
THEOREM EndsForGood == Spec => EndedForGood
<1> SUFFICES ASSUME NEW t \in Token
             PROVE  Spec => [](t \in issued /\ GoodToken(t) = Null => [](GoodToken(t) = Null))
  BY DEF EndedForGood
<1>1. IInv /\ [Next]_vars /\ t \in issued /\ GoodToken(t) = Null
        => (t \in issued)' /\ (GoodToken(t) = Null)'
  <2> SUFFICES ASSUME IInv, [Next]_vars, t \in issued, GoodToken(t) = Null
               PROVE  t \in issued' /\ GoodToken(t)' = Null
    OBVIOUS
  <2>1. TypeOK
    BY DEF IInv
  <2>2. [Abs!Next]_(Abs!vars)
    BY AbsStep
  <2>3. GoodToken(t)' = Null
    BY <2>1, <2>2, AbsWanes
  <2>4. issued \subseteq issued'
    BY <2>2 DEF Abs!Next, Abs!vars, Abs!Tick, Abs!Issue, Abs!Admit, Abs!Answer, Abs!Serve,
                Abs!HandOut, Abs!Drop, Abs!Revoke
  <2> QED BY <2>3, <2>4
<1> QED BY <1>1, Invariance, PTL DEF Spec

\* A reset that comes to its end has ended every session of its user that was
\* stored before its snapshot (deleteAllSessionsForUser).
THEOREM ResetEndsAll == Spec => ResetEndsWhatItSaw
<1>1. IInv /\ [Next]_vars =>
        [\A d \in Resetter : DeleteAllEnd(d) =>
           \A t \in del[d].seen : sessions'[t] # Null => sessions'[t].user # del[d].user]_vars
  <2> SUFFICES ASSUME IInv, NEW d \in Resetter, DeleteAllEnd(d), NEW t \in del[d].seen,
                      sessions'[t] # Null
               PROVE  sessions'[t].user # del[d].user
    OBVIOUS
  <2>1. t \in Token
    BY DEF IInv, TypeOK
  <2>2. t \notin del[d].doomed /\ sessions'[t] = sessions[t]
    BY <2>1 DEF DeleteAllEnd, Without
  <2> QED BY <2>2 DEF IInv, DoomedInv
<1> QED BY <1>1, Invariance, PTL DEF Spec, ResetEndsWhatItSaw

=============================================================================
