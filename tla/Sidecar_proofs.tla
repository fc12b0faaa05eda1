---------------------------- MODULE Sidecar_proofs ----------------------------
(***************************************************************************)
(* Proofs that Sidecar keeps its invariant, for any number of exchanges,   *)
(* users, tokens and logins under way.                                     *)
(***************************************************************************)
EXTENDS Sidecar, TLAPS

(* Cookies and answers. *)

\* The cookies after a response are cookies.
LEMMA AfterIsJar ==
    ASSUME TypeOK, NEW new \in SetCookies
    PROVE  /\ After(new) \in Jar
           /\ After(new).session = IF new.session = Keep THEN jar.session ELSE new.session
           /\ After(new).state = IF new.state = Keep THEN jar.state ELSE new.state
           /\ After(new).refresh = IF new.refresh = Keep THEN jar.refresh ELSE new.refresh
  BY DEF TypeOK, Jar, SetCookies, After

LEMMA KeepAllSets ==
    /\ KeepAll \in SetCookies /\ EmptyJar \in Jar
    /\ KeepAll.session = Keep /\ KeepAll.state = Keep /\ KeepAll.refresh = Keep
    /\ EmptyJar.session = None /\ EmptyJar.state = None /\ EmptyJar.refresh = None
  BY DEF KeepAll, EmptyJar, SetCookies, Jar

LEMMA QuietIs ==
    /\ Quiet \in Request /\ Quiet.pc = "idle" /\ Quiet.at = None /\ Quiet.with = EmptyJar
    /\ Quiet.new = KeepAll /\ Quiet.nonce = None /\ Quiet.code = None /\ Quiet.as = None
  BY KeepAllSets DEF Quiet, Request, Kind

LEMMA NoCallIs ==
    /\ NoCall \in Call /\ Failed \in Call /\ NoCall.pc = "none" /\ Failed.pc = "failed"
    /\ \A c \in {NoCall, Failed} : c.token = None /\ c.succ = None /\ c.access = None
  BY DEF NoCall, Failed, Call

\* The answer to an exchange.
LEMMA AnswerIs ==
    ASSUME TypeOK, NEW r \in Exchange, NEW new \in SetCookies
    PROVE  /\ Answer(r, new) \in Request
           /\ Answer(r, new).pc = "answered" /\ Answer(r, new).new = new
           /\ Answer(r, new).at = req[r].at /\ Answer(r, new).with = EmptyJar
           /\ Answer(r, new).nonce = None /\ Answer(r, new).code = None
           /\ Answer(r, new).as = None
  BY KeepAllSets DEF TypeOK, Answer, Quiet, Request, Kind

\* Exchange r is answered with cookies new and nonce n, and no other changes.
Answered(r, new, n) ==
    /\ new \in SetCookies /\ n \in Nonce \cup {None}
    /\ req' \in [Exchange -> Request]
    /\ \A q \in Exchange \ {r} : req'[q] = req[q]
    /\ req'[r].pc = "answered" /\ req'[r].new = new /\ req'[r].at = req[r].at
    /\ req'[r].with = EmptyJar /\ req'[r].nonce = n /\ req'[r].code = None

\* A login is started with a new nonce, or refused to an XHR.
LEMMA StartLoginIs ==
    ASSUME TypeOK, NEW r \in Exchange, NEW s \in {None, Keep}, StartLogin(r, s)
    PROVE  \E n \in Nonce \cup {None}, c \in SetCookies :
              /\ Answered(r, c, n)
              /\ c.session = s /\ c.refresh = Keep /\ c.state = IF n = None THEN Keep ELSE n
              /\ n = None => UNCHANGED drawn
              /\ n # None => /\ drawn' = drawn \cup {n} /\ n \notin drawn
                             /\ req[r].kind = "page"
              /\ req'[r].as = None
  <1>1. CASE req[r].kind # "page"
    <2> DEFINE c == [KeepAll EXCEPT !.session = s]
    <2>1. c \in SetCookies /\ c.session = s /\ c.refresh = Keep /\ c.state = Keep
      BY DEF SetCookies, KeepAll
    <2>2. req' = [req EXCEPT ![r] = Answer(r, c)] /\ UNCHANGED drawn
      BY <1>1 DEF StartLogin
    <2> HIDE DEF c
    <2>3. Answered(r, c, None) /\ req'[r].as = None
      BY <2>1, <2>2, AnswerIs DEF Answered, TypeOK
    <2>4. QED
      BY <2>1, <2>2, <2>3
  <1>2. CASE req[r].kind = "page"
    <2>1. PICK n \in Nonce \ drawn :
             /\ drawn' = drawn \cup {n}
             /\ req' = [req EXCEPT ![r] =
                   [Answer(r, [KeepAll EXCEPT !.session = s, !.state = n]) EXCEPT !.nonce = n]]
      BY <1>2 DEF StartLogin
    <2> DEFINE c == [KeepAll EXCEPT !.session = s, !.state = n]
               g == [Answer(r, c) EXCEPT !.nonce = n]
    <2>2. c \in SetCookies /\ c.session = s /\ c.refresh = Keep /\ c.state = n
      BY DEF SetCookies, KeepAll
    <2>3. req' = [req EXCEPT ![r] = g]
      BY <2>1
    <2>4. n # None
      BY ValuesAssumption
    <2> HIDE DEF c
    <2>5. /\ g \in Request /\ g.pc = "answered" /\ g.new = c /\ g.at = req[r].at
          /\ g.with = EmptyJar /\ g.nonce = n /\ g.code = None /\ g.as = None
      BY <2>2, AnswerIs DEF Request
    <2> HIDE DEF g
    <2>6. Answered(r, c, n) /\ req'[r].as = None
      BY <2>2, <2>3, <2>5 DEF Answered, TypeOK
    <2>7. QED
      BY <1>2, <2>1, <2>2, <2>4, <2>6
  <1>3. QED
    BY <1>1, <1>2

\* An exchange that is answered by what the sidecar is told.
LEMMA AnsweredBy ==
    ASSUME TypeOK, NEW r \in Exchange, NEW new \in SetCookies,
           req' = [req EXCEPT ![r] = Answer(r, new)]
    PROVE  Answered(r, new, None)
  BY AnswerIs DEF Answered, TypeOK

LEMMA InjectIs ==
    ASSUME TypeOK, NEW r \in Exchange, NEW s \in Session, NEW new \in SetCookies, Inject(r, s, new)
    PROVE  Answered(r, new, None) /\ req'[r].as = s.access
  <1> DEFINE g == [Answer(r, new) EXCEPT !.as = s.access]
  <1>1. s.access \in Access
    BY DEF Session
  <1>2. /\ g \in Request /\ g.pc = "answered" /\ g.new = new /\ g.at = req[r].at
        /\ g.with = EmptyJar /\ g.nonce = None /\ g.code = None /\ g.as = s.access
    BY <1>1, AnswerIs DEF Request
  <1>3. req' = [req EXCEPT ![r] = g]
    BY DEF Inject
  <1> HIDE DEF g
  <1>4. QED
    BY <1>2, <1>3 DEF Answered, TypeOK

-----------------------------------------------------------------------------
(* What each step does to its exchange. *)

\* No other exchange changes.
Others(r) ==
    /\ req' \in [Exchange -> Request] /\ call' \in [Exchange -> Call]
    /\ \A q \in Exchange \ {r} : req'[q] = req[q] /\ call'[q] = call[q]

\* Exchange r has nothing of a login or a response.
Plain(r) == req'[r].new = KeepAll /\ req'[r].nonce = None /\ req'[r].code = None

LEMMA SendIs ==
    ASSUME TypeOK, NEW r \in Exchange, Send(r)
    PROVE  /\ Others(r) /\ Plain(r) /\ call' = call
           /\ req'[r].pc = "sent" /\ req'[r].with = jar
           /\ req'[r].at = IF jar.session = None THEN None ELSE now
  <1>1. PICK k \in Kind :
           req' = [req EXCEPT ![r] = [Quiet EXCEPT !.pc = "sent", !.kind = k, !.with = jar,
                                        !.at = IF jar.session = None THEN None ELSE now]]
    BY DEF Send
  <1> DEFINE a == IF jar.session = None THEN None ELSE now
             g == [Quiet EXCEPT !.pc = "sent", !.kind = k, !.with = jar, !.at = a]
  <1>2. a \in Time \cup {None} /\ jar \in Jar
    BY DEF TypeOK
  <1> HIDE DEF a
  <1>3. /\ g \in Request /\ g.pc = "sent" /\ g.with = jar /\ g.at = a
        /\ g.new = KeepAll /\ g.nonce = None /\ g.code = None
    BY <1>2, QuietIs DEF Request
  <1>4. req' = [req EXCEPT ![r] = g]
    BY <1>1 DEF a
  <1> HIDE DEF g
  <1>5. QED
    BY <1>3, <1>4 DEF Send, TypeOK, Others, Plain, a

LEMMA DeliverIs ==
    ASSUME TypeOK, NEW r \in Exchange, Deliver(r)
    PROVE  /\ Others(r) /\ call' = call /\ jar' \in Jar
           /\ jar'.session = IF req[r].new.session = Keep THEN jar.session ELSE req[r].new.session
           /\ jar'.state = IF req[r].new.state = Keep THEN jar.state ELSE req[r].new.state
           /\ jar'.refresh = IF req[r].new.refresh = Keep THEN jar.refresh ELSE req[r].new.refresh
           /\ req'[r].pc = IF req[r].nonce # None THEN "atAuth" ELSE "idle"
           /\ req'[r].nonce = req[r].nonce
           /\ req'[r].new = KeepAll /\ req'[r].code = None
           /\ req'[r].with = EmptyJar /\ req'[r].at = None
  <1> DEFINE n == req[r].nonce
             g == IF n # None THEN [Quiet EXCEPT !.pc = "atAuth", !.nonce = n] ELSE Quiet
  <1>1. n \in Nonce \cup {None} /\ req[r].new \in SetCookies
    BY DEF TypeOK, Request
  <1>2. req' = [req EXCEPT ![r] = g] /\ jar' = After(req[r].new) /\ call' = call
    BY DEF Deliver
  <1> HIDE DEF n
  <1>3. /\ g \in Request /\ g.pc = IF n # None THEN "atAuth" ELSE "idle"
        /\ g.nonce = n /\ g.new = KeepAll /\ g.code = None /\ g.with = EmptyJar /\ g.at = None
    BY <1>1, QuietIs DEF Request
  <1> HIDE DEF g
  <1>4. QED
    BY <1>1, <1>2, <1>3, AfterIsJar DEF TypeOK, Others, n

LEMMA AbandonIs ==
    ASSUME TypeOK, NEW r \in Exchange, Abandon(r)
    PROVE  /\ Others(r) /\ req'[r] = Quiet
           /\ call'[r] = IF call[r].pc \in {"back", "failed"} THEN NoCall ELSE call[r]
  BY QuietIs, NoCallIs DEF Abandon, TypeOK, Others

LEMMA SignInIs ==
    ASSUME TypeOK, NEW r \in Exchange, SignIn(r)
    PROVE  /\ Others(r) /\ call' = call
           /\ \E u \in User, t \in Unissued :
                 /\ role[u] # None
                 /\ store' = [store EXCEPT ![t] = FreshRow(u)]
                 /\ req'[r].code = [user |-> u, until |-> now + CodeTtl]
                 /\ req'[r].code \in Code
                 /\ req'[r].new.session = Keep /\ req'[r].new.state = Keep
                 /\ req'[r].new.refresh = t
           /\ req'[r].pc = "returning" /\ req'[r].nonce = req[r].nonce
           /\ req'[r].with = req[r].with /\ req'[r].at = req[r].at /\ req'[r].as = req[r].as
  <1>1. PICK u \in User, t \in Unissued :
           /\ role[u] # None
           /\ store' = [store EXCEPT ![t] = FreshRow(u)]
           /\ req' = [req EXCEPT ![r].pc = "returning", ![r].code = [user |-> u, until |-> now + CodeTtl],
                                 ![r].new = [KeepAll EXCEPT !.refresh = t]]
    BY DEF SignIn
  <1> DEFINE c == [user |-> u, until |-> now + CodeTtl]
             k == [KeepAll EXCEPT !.refresh = t]
             g == [req[r] EXCEPT !.pc = "returning", !.code = c, !.new = k]
  <1>2. c \in Code
    BY TimesAssumption DEF TypeOK, Time, Code
  <1>3. k \in SetCookies /\ k.session = Keep /\ k.state = Keep /\ k.refresh = t
    BY DEF KeepAll, SetCookies, Unissued
  <1> HIDE DEF c, k
  <1>4. /\ g \in Request /\ g.pc = "returning" /\ g.code = c /\ g.new = k
        /\ g.nonce = req[r].nonce /\ g.with = req[r].with /\ g.at = req[r].at /\ g.as = req[r].as
    BY <1>2, <1>3 DEF TypeOK, Request
  <1>5. req' = [req EXCEPT ![r] = g]
    BY <1>1 DEF TypeOK, c, k
  <1> HIDE DEF g
  <1>6. Others(r) /\ call' = call /\ req'[r] = g
    BY <1>4, <1>5 DEF TypeOK, Others, SignIn
  <1>7. QED
    BY <1>1, <1>2, <1>3, <1>4, <1>6 DEF c

LEMMA ReturnIs ==
    ASSUME TypeOK, NEW r \in Exchange, Return(r)
    PROVE  /\ Others(r) /\ call' = call /\ jar' \in Jar
           /\ jar'.session = IF req[r].new.session = Keep THEN jar.session ELSE req[r].new.session
           /\ jar'.state = IF req[r].new.state = Keep THEN jar.state ELSE req[r].new.state
           /\ jar'.refresh = IF req[r].new.refresh = Keep THEN jar.refresh ELSE req[r].new.refresh
           /\ req'[r].pc = "returned" /\ req'[r].new = KeepAll
           /\ req'[r].nonce = req[r].nonce /\ req'[r].code = req[r].code
           /\ req'[r].with = req[r].with /\ req'[r].at = req[r].at
  <1> DEFINE g == [req[r] EXCEPT !.pc = "returned", !.new = KeepAll]
  <1>1. /\ g \in Request /\ g.pc = "returned" /\ g.new = KeepAll /\ g.code = req[r].code
        /\ g.nonce = req[r].nonce /\ g.with = req[r].with /\ g.at = req[r].at
    BY KeepAllSets DEF TypeOK, Request
  <1>2. req' = [req EXCEPT ![r] = g] /\ jar' = After(req[r].new) /\ call' = call
    BY DEF Return, TypeOK
  <1>3. req[r].new \in SetCookies
    BY DEF TypeOK, Request
  <1> HIDE DEF g
  <1>4. QED
    BY <1>1, <1>2, <1>3, AfterIsJar DEF TypeOK, Others

LEMMA SendCallbackIs ==
    ASSUME TypeOK, NEW r \in Exchange, SendCallback(r)
    PROVE  /\ Others(r) /\ call' = call
           /\ req'[r].pc = "callback" /\ req'[r].with = jar
           /\ req'[r].nonce = req[r].nonce /\ req'[r].code = req[r].code
           /\ req'[r].new = req[r].new /\ req'[r].at = req[r].at
  <1> DEFINE g == [req[r] EXCEPT !.pc = "callback", !.with = jar]
  <1>1. /\ g \in Request /\ g.pc = "callback" /\ g.with = jar /\ g.code = req[r].code
        /\ g.nonce = req[r].nonce /\ g.new = req[r].new /\ g.at = req[r].at
    BY DEF TypeOK, Request
  <1>2. req' = [req EXCEPT ![r] = g] /\ call' = call
    BY DEF SendCallback, TypeOK
  <1> HIDE DEF g
  <1>3. QED
    BY <1>1, <1>2 DEF TypeOK, Others

LEMMA StartRefreshIs ==
    ASSUME TypeOK, NEW r \in Exchange, StartRefresh(r)
    PROVE  /\ Others(r)
           /\ req'[r].pc = "refreshing" /\ req'[r].with = req[r].with
           /\ req'[r].nonce = req[r].nonce /\ req'[r].code = req[r].code
           /\ req'[r].new = req[r].new /\ req'[r].at = req[r].at
           /\ req[r].with.session \in Session
           /\ call'[r].pc = "out" /\ call'[r].token = req[r].with.session.refresh
           /\ call'[r].succ = None /\ call'[r].access = None
  <1> DEFINE g == [req[r] EXCEPT !.pc = "refreshing"]
             k == req[r].with.session.refresh
             c == [NoCall EXCEPT !.pc = "out", !.token = k]
  <1>1. /\ g \in Request /\ g.pc = "refreshing" /\ g.with = req[r].with /\ g.code = req[r].code
        /\ g.nonce = req[r].nonce /\ g.new = req[r].new /\ g.at = req[r].at
    BY DEF TypeOK, Request
  <1>2. req[r].with.session \in Session
    BY DEF StartRefresh, TypeOK, Request, Jar
  <1>3. k \in Token \cup {None}
    BY <1>2 DEF Session
  <1>4. req' = [req EXCEPT ![r] = g] /\ call' = [call EXCEPT ![r] = c]
    BY DEF StartRefresh, TypeOK
  <1> HIDE DEF k
  <1>5. c \in Call /\ c.pc = "out" /\ c.token = k /\ c.succ = None /\ c.access = None
    BY <1>3 DEF NoCall, Call
  <1> HIDE DEF g, c
  <1>6. Others(r) /\ req'[r] = g /\ call'[r] = c
    BY <1>1, <1>4, <1>5 DEF TypeOK, Others
  <1>7. QED
    BY <1>1, <1>2, <1>5, <1>6 DEF k

\* The end of a call.
LEMMA ReplyIs ==
    ASSUME TypeOK, NEW r \in Exchange, NEW c \in Call, Reply(r, c), req' = req
    PROVE  /\ Others(r)
           /\ call'[r] = IF req[r].pc = "refreshing" THEN c ELSE NoCall
  BY NoCallIs DEF Reply, TypeOK, Others

LEMMA LogoutIs ==
    ASSUME TypeOK, NEW r \in Exchange, Logout(r)
    PROVE  \E c \in SetCookies :
              /\ Answered(r, c, None) /\ call' = call
              /\ c.session = None /\ c.state = Keep /\ c.refresh = Keep
  <1> DEFINE c == [KeepAll EXCEPT !.session = None]
  <1>1. c \in SetCookies /\ c.session = None /\ c.state = Keep /\ c.refresh = Keep
    BY DEF KeepAll, SetCookies
  <1>2. req' = [req EXCEPT ![r] = Answer(r, c)] /\ call' = call
    BY DEF Logout
  <1> HIDE DEF c
  <1>3. QED
    BY <1>1, <1>2, AnsweredBy

\* The callback that does not lead to a session.
LEMMA CallbackEndsIs ==
    ASSUME TypeOK, NEW r \in Exchange, CallbackRefused(r) \/ CallbackFailed(r)
    PROVE  \E c \in SetCookies :
              /\ Answered(r, c, None) /\ call' = call
              /\ c.session = Keep /\ c.state = None /\ c.refresh = Keep
  <1> DEFINE c == [KeepAll EXCEPT !.state = None]
  <1>1. c \in SetCookies /\ c.session = Keep /\ c.state = None /\ c.refresh = Keep
    BY DEF KeepAll, SetCookies
  <1>2. req' = [req EXCEPT ![r] = Answer(r, c)] /\ call' = call
    BY DEF CallbackRefused, CallbackFailed
  <1> HIDE DEF c
  <1>3. QED
    BY <1>1, <1>2, AnsweredBy

\* ... and the one that does.
LEMMA CallbackAcceptedIs ==
    ASSUME TypeOK, NEW r \in Exchange, ShapeInv(r), CallbackAccepted(r)
    PROVE  /\ req[r].code \in Code /\ Mint(req[r].code.user) \in Access
           /\ \E c \in SetCookies :
                 /\ Answered(r, c, None) /\ call' = call
                 /\ c.session = [access |-> Mint(req[r].code.user), refresh |-> req[r].with.refresh]
                 /\ c.session \in Session
                 /\ c.state = None /\ c.refresh = Keep
  <1> DEFINE s == [access |-> Mint(req[r].code.user), refresh |-> req[r].with.refresh]
             c == [KeepAll EXCEPT !.session = s, !.state = None]
  <1>1. req[r].code \in Code
    BY DEF ShapeInv, CallbackAccepted
  <1>2. Mint(req[r].code.user) \in Access
    BY <1>1, TimesAssumption DEF Code, Mint, Access, TypeOK, Time
  <1>3. req[r].with.refresh \in Token \cup {None}
    BY DEF TypeOK, Request, Jar
  <1>4. s \in Session
    BY <1>2, <1>3 DEF Session
  <1>5. req' = [req EXCEPT ![r] = Answer(r, c)] /\ call' = call
    BY DEF CallbackAccepted, FirstRefresh
  <1> HIDE DEF s
  <1>6. c \in SetCookies /\ c.session = s /\ c.state = None /\ c.refresh = Keep
    BY <1>4 DEF KeepAll, SetCookies
  <1> HIDE DEF c
  <1>7. Answered(r, c, None)
    BY <1>5, <1>6, AnsweredBy
  <1>8. QED
    BY <1>1, <1>2, <1>4, <1>5, <1>6, <1>7 DEF s

LEMMA PassFreshIs ==
    ASSUME TypeOK, NEW r \in Exchange, PassFresh(r)
    PROVE  /\ Answered(r, KeepAll, None) /\ call' = call
           /\ req[r].with.session \in Session /\ req'[r].as = req[r].with.session.access
  <1>1. req[r].with.session \in Session
    BY DEF PassFresh, TypeOK, Request, Jar
  <1>2. QED
    BY <1>1, InjectIs, KeepAllSets DEF PassFresh

LEMMA PassRefreshedIs ==
    ASSUME TypeOK, NEW r \in Exchange, ShapeInv(r), PassRefreshed(r)
    PROVE  /\ call[r].access \in Access /\ call[r].succ \in Token /\ req'[r].as = call[r].access
           /\ \E c \in SetCookies :
                 /\ Answered(r, c, None)
                 /\ c.session = [access |-> call[r].access, refresh |-> call[r].succ]
                 /\ c.session \in Session
                 /\ c.state = Keep /\ c.refresh = Keep
           /\ call' \in [Exchange -> Call] /\ call'[r] = NoCall
           /\ \A q \in Exchange \ {r} : call'[q] = call[q]
  <1> DEFINE s == [access |-> call[r].access, refresh |-> call[r].succ]
             c == [KeepAll EXCEPT !.session = s]
  <1>1. call[r].access \in Access /\ call[r].succ \in Token
    BY DEF ShapeInv, PassRefreshed
  <1>2. s \in Session /\ s.access = call[r].access
    BY <1>1 DEF Session
  <1>3. Inject(r, s, c) /\ call' = [call EXCEPT ![r] = NoCall]
    BY DEF PassRefreshed, Refreshed
  <1> HIDE DEF s
  <1>4. c \in SetCookies /\ c.session = s /\ c.state = Keep /\ c.refresh = Keep
    BY <1>2 DEF KeepAll, SetCookies
  <1> HIDE DEF c
  <1>5. Answered(r, c, None) /\ req'[r].as = s.access
    BY <1>2, <1>3, <1>4, InjectIs
  <1>6. call' \in [Exchange -> Call] /\ call'[r] = NoCall
        /\ \A q \in Exchange \ {r} : call'[q] = call[q]
    BY <1>3, NoCallIs DEF TypeOK
  <1>7. QED
    BY <1>1, <1>2, <1>4, <1>5, <1>6 DEF s

\* A login that starts because there is no session any more, or none yet.
LEMMA LoginIs ==
    ASSUME TypeOK, NEW r \in Exchange, NoSession(r) \/ RefreshFailed(r) \/ RefreshTimeout(r)
    PROVE  \E n \in Nonce \cup {None}, c \in SetCookies :
              /\ Answered(r, c, n)
              /\ c.session = IF NoSession(r) THEN Keep ELSE None
              /\ c.refresh = Keep /\ c.state = IF n = None THEN Keep ELSE n
              /\ n # None => /\ n \notin drawn
                             /\ rivals' = (rivals \/ \E q \in Exchange \ {r} : InFlow(q))
              /\ drawn' = IF n = None THEN drawn ELSE drawn \cup {n}
              /\ rivals => rivals'
              /\ rivals' \in BOOLEAN /\ req'[r].as = None
              /\ call' \in [Exchange -> Call] /\ call'[r] \in {call[r], NoCall}
              /\ \A q \in Exchange \ {r} : call'[q] = call[q]
  <1> DEFINE s == IF NoSession(r) THEN Keep ELSE None
  <1>1. s \in {None, Keep} /\ StartLogin(r, s) /\ NoteRival(r)
    <2>1. CASE NoSession(r)
      BY <2>1 DEF NoSession
    <2>2. CASE ~NoSession(r)
      BY <2>2 DEF RefreshFailed, RefreshTimeout
    <2>3. QED
      BY <2>1, <2>2
  <1>2. /\ call' \in [Exchange -> Call] /\ call'[r] \in {call[r], NoCall}
        /\ \A q \in Exchange \ {r} : call'[q] = call[q]
    BY NoCallIs DEF TypeOK, NoSession, RefreshFailed, RefreshTimeout
  <1>3. rivals' = (rivals \/ (req[r].kind = "page" /\ \E q \in Exchange \ {r} : InFlow(q)))
    BY <1>1 DEF NoteRival
  <1> HIDE DEF s
  <1>4. PICK n \in Nonce \cup {None}, c \in SetCookies :
              /\ Answered(r, c, n)
              /\ c.session = s /\ c.refresh = Keep /\ c.state = IF n = None THEN Keep ELSE n
              /\ n = None => UNCHANGED drawn
              /\ n # None => /\ drawn' = drawn \cup {n} /\ n \notin drawn
                             /\ req[r].kind = "page"
              /\ req'[r].as = None
    BY <1>1, StartLoginIs
  <1>5. rivals' \in BOOLEAN /\ (rivals => rivals')
    BY <1>3 DEF TypeOK
  <1>6. n # None => n \notin drawn /\ rivals' = (rivals \/ \E q \in Exchange \ {r} : InFlow(q))
    BY <1>3, <1>4
  <1>7. drawn' = IF n = None THEN drawn ELSE drawn \cup {n}
    BY <1>4
  <1>8. QED
    BY <1>2, <1>4, <1>5, <1>6, <1>7 DEF s

-----------------------------------------------------------------------------
(* Rows. *)

\* What a row can become.
LEMMA StampedIs ==
    ASSUME TypeOK, NEW row \in Row
    PROVE  /\ Stamped(row) \in Row
           /\ Stamped(row).user = row.user /\ Stamped(row).ended = row.ended
           /\ Stamped(row).lapse = row.lapse
           /\ Stamped(row).usedAt = IF row.usedAt = None THEN now ELSE row.usedAt
  <1> DEFINE a == IF row.usedAt = None THEN now ELSE row.usedAt
  <1>1. a \in Int \cup {None}
    BY DEF TypeOK, Time, Row
  <1>2. Stamped(row) = [row EXCEPT !.usedAt = a]
    BY DEF Stamped
  <1> HIDE DEF a
  <1>3. /\ Stamped(row) \in Row
        /\ Stamped(row).user = row.user /\ Stamped(row).ended = row.ended
        /\ Stamped(row).lapse = row.lapse /\ Stamped(row).usedAt = a
    BY <1>1, <1>2 DEF Row
  <1>4. QED
    BY <1>3 DEF a

LEMMA EndedIs ==
    ASSUME NEW row \in Row
    PROVE  /\ Ended(row) \in Row /\ Ended(row).user = row.user
           /\ Ended(row).usedAt = None /\ Ended(row).ended
  BY DEF Row, Ended

LEMMA FreshRowIs ==
    ASSUME TypeOK, NEW u \in User
    PROVE  /\ FreshRow(u) \in Row /\ FreshRow(u) # None /\ FreshRow(u).user = u
           /\ FreshRow(u).usedAt = None
  <1>0. now \in Int /\ RefreshTtl \in Int
    BY TimesAssumption DEF TypeOK, Time
  <1>1. now + RefreshTtl \in Int
    BY <1>0
  <1>2. FreshRow(u) \in Row
    BY <1>1 DEF Row, FreshRow
  <1>3. FreshRow(u) # None
    BY <1>2, MarksAssumption
  <1>4. QED
    BY <1>2, <1>3 DEF FreshRow

\* A token that rotateSession honours has a row.
LEMMA GoodHasRow ==
    ASSUME TypeOK, NEW r \in Exchange, Rotate(r), KnownInv
    PROVE  call[r].token \in Token /\ store[call[r].token] \in Row
  <1>1. call[r].token \in Token
    BY DEF Rotate, Good, TypeOK, Call
  <1>2. store[call[r].token] # None
    BY <1>1 DEF KnownInv, Known
  <1>3. QED
    BY <1>1, <1>2 DEF TypeOK

\* What Rotate does.
LEMMA RotateIs ==
    ASSUME TypeOK, NEW r \in Exchange, Rotate(r), KnownInv
    PROVE  \E s \in Unissued :
              LET t == call[r].token IN
              /\ t \in Token /\ store[t] \in Row /\ s # t
              /\ store' \in [Token -> Row \cup {None}]
              /\ store'[t] = Stamped(store[t]) /\ store'[s] = FreshRow(store[t].user)
              /\ \A k \in Token \ {t, s} : store'[k] = store[k]
              /\ Others(r) /\ req' = req
              /\ call'[r].pc = "rotated" /\ call'[r].token = t /\ call'[r].succ = s
              /\ call'[r].access = call[r].access
  <1> DEFINE t == call[r].token
  <1>1. PICK s \in Unissued :
           /\ store' = [store EXCEPT ![t] = Stamped(@), ![s] = FreshRow(store[t].user)]
           /\ call' = [call EXCEPT ![r].pc = "rotated", ![r].succ = s]
    BY DEF Rotate
  <1>2. t \in Token /\ store[t] \in Row /\ store[t] # None
    BY GoodHasRow, MarksAssumption
  <1>3. s \in Token /\ s # t
    BY <1>2 DEF Unissued
  <1>4. store[t].user \in User
    BY <1>2 DEF Row
  <1>5. Stamped(store[t]) \in Row /\ FreshRow(store[t].user) \in Row
    BY <1>2, <1>4, StampedIs, FreshRowIs
  <1> DEFINE c == [call[r] EXCEPT !.pc = "rotated", !.succ = s]
  <1>6. /\ c \in Call /\ c.pc = "rotated" /\ c.succ = s /\ c.token = t /\ c.access = call[r].access
    BY <1>3 DEF TypeOK, Call
  <1>7. call' = [call EXCEPT ![r] = c] /\ req' = req
    BY <1>1 DEF TypeOK, Rotate
  <1> HIDE DEF c, t
  <1>8. Others(r) /\ call'[r] = c
    BY <1>6, <1>7 DEF TypeOK, Others
  <1>9. /\ store' \in [Token -> Row \cup {None}]
        /\ store'[t] = Stamped(store[t]) /\ store'[s] = FreshRow(store[t].user)
        /\ \A k \in Token \ {t, s} : store'[k] = store[k]
    BY <1>1, <1>2, <1>3, <1>5 DEF TypeOK
  <1>10. QED
    BY <1>2, <1>3, <1>6, <1>7, <1>8, <1>9 DEF t

LEMMA AdmitIs ==
    ASSUME TypeOK, NEW r \in Exchange, Admit(r), ShapeInv(r), KnownInv
    PROVE  LET u == store[call[r].succ].user IN
           /\ call[r].succ \in Token /\ call[r].token \in Token
           /\ u \in User /\ role[u] # None /\ Mint(u) \in Access
           /\ Others(r) /\ req' = req
           /\ IF req[r].pc = "refreshing"
              THEN /\ call'[r].pc = "back" /\ call'[r].succ = call[r].succ
                   /\ call'[r].token = call[r].token /\ call'[r].access = Mint(u)
              ELSE call'[r] = NoCall
  <1> DEFINE u == store[call[r].succ].user
             a == Mint(u)
             c == [call[r] EXCEPT !.pc = "back", !.access = a]
  <1>1. call[r].succ \in Token /\ call[r].token \in Token
    BY DEF Admit, ShapeInv
  <1>2. store[call[r].succ] \in Row
    BY <1>1 DEF KnownInv, Known, TypeOK
  <1>3. u \in User /\ role[u] # None
    BY <1>2 DEF Admit, Row
  <1>4. a \in Access
    BY <1>3, TimesAssumption DEF Mint, Access, TypeOK, Time
  <1>5. Reply(r, c) /\ req' = req
    BY DEF Admit
  <1> HIDE DEF a
  <1>6. c \in Call /\ c.pc = "back" /\ c.succ = call[r].succ /\ c.token = call[r].token /\ c.access = a
    BY <1>4 DEF TypeOK, Call
  <1> HIDE DEF c
  <1>7. Others(r) /\ call'[r] = IF req[r].pc = "refreshing" THEN c ELSE NoCall
    BY <1>5, <1>6, ReplyIs
  <1>8. QED
    BY <1>1, <1>3, <1>4, <1>5, <1>6, <1>7 DEF a

\* A call that fails, or whose token is refused.
LEMMA FailIs ==
    ASSUME TypeOK, NEW r \in Exchange, Refuse(r) \/ Expel(r) \/ CallFails(r)
    PROVE  /\ Others(r) /\ req' = req
           /\ call'[r] = IF req[r].pc = "refreshing" THEN Failed ELSE NoCall
  <1>1. Reply(r, Failed) /\ req' = req
    BY DEF Refuse, Expel, CallFails
  <1>2. QED
    BY <1>1, NoCallIs, ReplyIs

LEMMA ExpelIs ==
    ASSUME TypeOK, NEW r \in Exchange, Expel(r), ShapeInv(r), KnownInv
    PROVE  /\ call[r].succ \in Token /\ store[call[r].succ] \in Row
           /\ store' \in [Token -> Row \cup {None}]
           /\ store' = [store EXCEPT ![call[r].succ] = Ended(store[call[r].succ])]
  <1>1. call[r].succ \in Token
    BY DEF Expel, ShapeInv
  <1>2. store[call[r].succ] \in Row
    BY <1>1 DEF KnownInv, Known, TypeOK
  <1>3. store' = [store EXCEPT ![call[r].succ] = Ended(store[call[r].succ])]
    BY DEF Expel
  <1>4. QED
    BY <1>1, <1>2, <1>3, EndedIs DEF TypeOK

\* Rows stay, and stay of their user.
LEMMA StoreGrows ==
    ASSUME TypeOK, KnownInv, \A r \in Exchange : ShapeInv(r), Next
    PROVE  /\ store' \in [Token -> Row \cup {None}]
           /\ \A t \in Token : store[t] # None => store'[t] # None /\ store'[t].user = store[t].user
  <1>r. \A row \in Row : row # None
    BY MarksAssumption
  <1>1. CASE UNCHANGED store
    BY <1>1 DEF TypeOK
  <1>2. ASSUME NEW r \in Exchange, SignIn(r)
        PROVE  /\ store' \in [Token -> Row \cup {None}]
               /\ \A t \in Token : store[t] # None => store'[t] = store[t]
    <2>1. PICK u \in User, t \in Unissued : store' = [store EXCEPT ![t] = FreshRow(u)]
      BY <1>2, SignInIs
    <2>2. FreshRow(u) \in Row /\ t \in Token /\ store[t] = None
      BY FreshRowIs DEF Unissued
    <2>3. QED
      BY <2>1, <2>2 DEF TypeOK
  <1>3. ASSUME NEW r \in Exchange, Rotate(r)
        PROVE  /\ store' \in [Token -> Row \cup {None}]
               /\ \A t \in Token : store[t] # None => store'[t] # None /\ store'[t].user = store[t].user
    <2> DEFINE t == call[r].token
    <2>1. PICK s \in Unissued :
             /\ t \in Token /\ store[t] \in Row /\ s # t
             /\ store' \in [Token -> Row \cup {None}]
             /\ store'[t] = Stamped(store[t]) /\ store'[s] = FreshRow(store[t].user)
             /\ \A k \in Token \ {t, s} : store'[k] = store[k]
      BY <1>3, RotateIs
    <2>2. Stamped(store[t]) \in Row /\ Stamped(store[t]).user = store[t].user
      BY <2>1, StampedIs
    <2>3. s \in Token /\ store[s] = None
      BY DEF Unissued
    <2> HIDE DEF t
    <2>4. QED
      BY <1>r, <2>1, <2>2, <2>3
  <1>4. ASSUME NEW r \in Exchange, Expel(r)
        PROVE  /\ store' \in [Token -> Row \cup {None}]
               /\ \A t \in Token : store[t] # None => store'[t] # None /\ store'[t].user = store[t].user
    <2> DEFINE t == call[r].succ
    <2>1. /\ t \in Token /\ store[t] \in Row
          /\ store' \in [Token -> Row \cup {None}]
          /\ store' = [store EXCEPT ![t] = Ended(store[t])]
      BY <1>4, ExpelIs
    <2>2. Ended(store[t]) \in Row /\ Ended(store[t]).user = store[t].user
      BY <2>1, EndedIs
    <2> HIDE DEF t
    <2>3. QED
      BY <1>r, <2>1, <2>2 DEF TypeOK
  <1>5. ASSUME NEW u \in User, Reset(u)
        PROVE  /\ store' \in [Token -> Row \cup {None}]
               /\ \A t \in Token : store[t] # None => store'[t] # None /\ store'[t].user = store[t].user
    <2>1. \A t \in Token : store[t] # None => store[t] \in Row
      BY DEF TypeOK
    <2>2. QED
      BY <1>r, <1>5, <2>1, EndedIs DEF Reset, TypeOK
  <1>6. UNCHANGED store
        \/ (\E r \in Exchange : SignIn(r) \/ Rotate(r) \/ Expel(r)) \/ (\E u \in User : Reset(u))
    BY DEF Next, BrowserStep, SidecarStep, RefreshStep, Tick, SetRole, Send, Deliver, Abandon, Return,
           SendCallback, Logout, NoSession, PassFresh, StartRefresh, PassRefreshed, RefreshFailed,
           RefreshTimeout, CallbackRefused, CallbackAccepted, CallbackFailed, Refuse, Admit, CallFails
  <1>7. QED
    BY <1>1, <1>2, <1>3, <1>4, <1>5, <1>6

-----------------------------------------------------------------------------
(* Types and shapes. *)

Sane == TypeOK /\ (\A r \in Exchange : ShapeInv(r)) /\ KnownInv

\* An answer has the shape of one.
LEMMA AnsweredShape ==
    ASSUME Sane, NEW r \in Exchange, NEW n, NEW c, Answered(r, c, n),
           c.refresh = Keep, c.state \in {None, Keep, n}, n # None => c.state = n,
           call' \in [Exchange -> Call], call'[r] \in {call[r], NoCall},
           \A q \in Exchange \ {r} : call'[q] = call[q]
    PROVE  Others(r) /\ ShapeInv(r)'
  <1>1. ShapeInv(r) /\ Others(r)
    BY DEF Sane, Answered, Others
  <1>2. /\ req'[r].pc = "answered" /\ req'[r].new = c /\ req'[r].nonce = n
    BY DEF Answered
  <1>3. /\ call'[r].pc \in {"rotated", "back"} => call'[r].token \in Token /\ call'[r].succ \in Token
        /\ call'[r].pc = "back" => call'[r].access \in Access
    BY <1>1, NoCallIs DEF ShapeInv
  <1>4. QED
    BY <1>1, <1>2, <1>3 DEF ShapeInv

\* A step of the browser on exchange r.
LEMMA BrowserShape ==
    ASSUME Sane, NEW r \in Exchange, BrowserStep(r)
    PROVE  Others(r) /\ ShapeInv(r)'
  <1>0. TypeOK /\ ShapeInv(r)
    BY DEF Sane
  <1>q. req[r] \in Request /\ jar \in Jar
    BY <1>0 DEF TypeOK
  <1>1. CASE Send(r)
    BY <1>0, <1>1, SendIs DEF ShapeInv, Plain
  <1>2. CASE Deliver(r)
    BY <1>0, <1>2, DeliverIs DEF ShapeInv
  <1>3. CASE Abandon(r)
    BY <1>0, <1>3, AbandonIs, QuietIs, NoCallIs DEF ShapeInv
  <1>4. CASE SignIn(r)
    <2>1. PICK t \in Unissued :
             /\ req'[r].code \in Code /\ req'[r].new.session = Keep
             /\ req'[r].new.state = Keep /\ req'[r].new.refresh = t
      BY <1>0, <1>4, SignInIs
    <2>2. req[r].nonce # None /\ t \in Token
      BY <1>0, <1>4 DEF ShapeInv, SignIn, Unissued
    <2>3. Others(r) /\ call' = call /\ req'[r].pc = "returning" /\ req'[r].nonce = req[r].nonce
      BY <1>0, <1>4, SignInIs
    <2>4. QED
      BY <1>0, <2>1, <2>2, <2>3 DEF ShapeInv
  <1>5. CASE Return(r)
    BY <1>0, <1>5, ReturnIs DEF ShapeInv, Return
  <1>6. CASE SendCallback(r)
    BY <1>0, <1>6, SendCallbackIs DEF ShapeInv, SendCallback
  <1>7. QED
    BY <1>1, <1>2, <1>3, <1>4, <1>5, <1>6 DEF BrowserStep

\* A step of the sidecar.
LEMMA SidecarShape ==
    ASSUME Sane, NEW r \in Exchange, SidecarStep(r)
    PROVE  Others(r) /\ ShapeInv(r)'
  <1>0. TypeOK /\ ShapeInv(r) /\ call \in [Exchange -> Call]
    BY DEF Sane, TypeOK
  <1>1. CASE Logout(r)
    BY <1>0, <1>1, LogoutIs, AnsweredShape
  <1>2. CASE NoSession(r) \/ RefreshFailed(r) \/ RefreshTimeout(r)
    <2>1. PICK n \in Nonce \cup {None}, c \in SetCookies :
              /\ Answered(r, c, n)
              /\ c.refresh = Keep /\ c.state = IF n = None THEN Keep ELSE n
              /\ call' \in [Exchange -> Call] /\ call'[r] \in {call[r], NoCall}
              /\ \A q \in Exchange \ {r} : call'[q] = call[q]
      BY <1>0, <1>2, LoginIs
    <2>2. QED
      BY <2>1, AnsweredShape
  <1>3. CASE PassFresh(r)
    BY <1>0, <1>3, PassFreshIs, KeepAllSets, AnsweredShape
  <1>4. CASE StartRefresh(r)
    <2>1. req[r].pc = "sent"
      BY <1>4 DEF StartRefresh, Arrived
    <2>2. QED
      BY <1>0, <1>4, <2>1, StartRefreshIs DEF ShapeInv
  <1>5. CASE PassRefreshed(r)
    <2>1. PICK c \in SetCookies : /\ Answered(r, c, None) /\ c.state = Keep /\ c.refresh = Keep
      BY <1>0, <1>5, PassRefreshedIs
    <2>2. /\ call' \in [Exchange -> Call] /\ call'[r] = NoCall
          /\ \A q \in Exchange \ {r} : call'[q] = call[q]
      BY <1>0, <1>5, PassRefreshedIs
    <2>3. QED
      BY <2>1, <2>2, AnsweredShape
  <1>6. CASE CallbackRefused(r) \/ CallbackFailed(r)
    BY <1>0, <1>6, CallbackEndsIs, AnsweredShape
  <1>7. CASE CallbackAccepted(r)
    <2>1. PICK c \in SetCookies :
             Answered(r, c, None) /\ call' = call /\ c.state = None /\ c.refresh = Keep
      BY <1>0, <1>7, CallbackAcceptedIs
    <2>2. QED
      BY <1>0, <2>1, AnsweredShape
  <1>8. QED
    BY <1>1, <1>2, <1>3, <1>4, <1>5, <1>6, <1>7 DEF SidecarStep

\* A statement of POST /internal/refresh.
LEMMA RefreshShape ==
    ASSUME Sane, NEW r \in Exchange, RefreshStep(r)
    PROVE  Others(r) /\ ShapeInv(r)' /\ req' = req
  <1>0. TypeOK /\ ShapeInv(r) /\ KnownInv
    BY DEF Sane
  <1>1. CASE Refuse(r) \/ Expel(r) \/ CallFails(r)
    BY <1>0, <1>1, FailIs, NoCallIs DEF ShapeInv
  <1>2. CASE Rotate(r)
    <2>1. PICK s \in Unissued :
             /\ call[r].token \in Token /\ Others(r) /\ req' = req
             /\ call'[r].pc = "rotated" /\ call'[r].token = call[r].token /\ call'[r].succ = s
      BY <1>0, <1>2, RotateIs
    <2>2. s \in Token
      BY DEF Unissued
    <2>3. QED
      BY <1>0, <2>1, <2>2 DEF ShapeInv
  <1>3. CASE Admit(r)
    BY <1>0, <1>3, AdmitIs, NoCallIs DEF ShapeInv
  <1>4. QED
    BY <1>1, <1>2, <1>3 DEF RefreshStep

\* The steps that concern no exchange.
Elsewhere == Tick \/ \E u \in User : SetRole(u) \/ Reset(u)

LEMMA ElsewhereIs ==
    ASSUME Elsewhere
    PROVE  UNCHANGED <<jar, req, call, drawn, overlap, rivals>>
  BY DEF Elsewhere, Tick, SetRole, Reset

LEMMA StepCases ==
    ASSUME Next
    PROVE  Elsewhere \/ \E r \in Exchange : BrowserStep(r) \/ SidecarStep(r) \/ RefreshStep(r)
  BY DEF Next, Elsewhere

\* What the exchanges hold keeps its shape.
LEMMA ShapeStep ==
    ASSUME Sane, Next
    PROVE  /\ req' \in [Exchange -> Request] /\ call' \in [Exchange -> Call]
           /\ \A r \in Exchange : ShapeInv(r)'
  <1>1. ASSUME NEW r \in Exchange, Others(r), ShapeInv(r)'
        PROVE  /\ req' \in [Exchange -> Request] /\ call' \in [Exchange -> Call]
               /\ \A q \in Exchange : ShapeInv(q)'
    <2>1. SUFFICES ASSUME NEW q \in Exchange \ {r} PROVE ShapeInv(q)'
      BY <1>1 DEF Others
    <2>2. req'[q] = req[q] /\ call'[q] = call[q] /\ ShapeInv(q)
      BY <1>1 DEF Others, Sane
    <2>3. QED
      BY <2>2 DEF ShapeInv
  <1>2. CASE Elsewhere
    BY <1>2, ElsewhereIs DEF Sane, TypeOK, ShapeInv
  <1>3. QED
    BY <1>1, <1>2, StepCases, BrowserShape, SidecarShape, RefreshShape

\* The jar.
LEMMA JarStep ==
    ASSUME Sane, Next
    PROVE  jar' \in Jar
  <1>0. TypeOK /\ jar \in Jar
    BY DEF Sane, TypeOK
  <1>1. UNCHANGED jar \/ \E r \in Exchange : Deliver(r) \/ Return(r)
    BY DEF Next, BrowserStep, SidecarStep, RefreshStep, Tick, SetRole, Reset, Send, Abandon, SignIn,
           SendCallback, Logout, NoSession, PassFresh, StartRefresh, PassRefreshed, RefreshFailed,
           RefreshTimeout, CallbackRefused, CallbackAccepted, CallbackFailed, Refuse, Rotate, Admit,
           Expel, CallFails
  <1>2. QED
    BY <1>0, <1>1, DeliverIs, ReturnIs

\* The rest of the state.
LEMMA RestStep ==
    ASSUME Sane, Next
    PROVE  /\ now' \in Time /\ role' \in [User -> Role \cup {None}] /\ drawn' \subseteq Nonce
           /\ past' \in [User -> [Role \cup {None} -> Time \cup {None}]]
           /\ changes' \in 0..MaxChanges
           /\ overlap' \in BOOLEAN /\ smooth' \in BOOLEAN /\ rivals' \in BOOLEAN
  <1>0. TypeOK
    BY DEF Sane
  <1>1. CASE Tick
    <2>1. now' \in Time
      BY <1>0, <1>1, TimesAssumption DEF Tick, TypeOK, Time
    <2>2. smooth' \in BOOLEAN
      BY <1>1, Zenon DEF Tick
    <2>3. QED
      BY <1>0, <1>1, <2>1, <2>2 DEF Tick, TypeOK
  <1>2. ASSUME NEW u \in User, SetRole(u) \/ Reset(u)
        PROVE  /\ now' \in Time /\ role' \in [User -> Role \cup {None}] /\ drawn' \subseteq Nonce
               /\ past' \in [User -> [Role \cup {None} -> Time \cup {None}]]
               /\ changes' \in 0..MaxChanges
               /\ overlap' \in BOOLEAN /\ smooth' \in BOOLEAN /\ rivals' \in BOOLEAN
    <2>1. changes' \in 0..MaxChanges
      BY <1>0, <1>2, TimesAssumption DEF SetRole, Reset, TypeOK
    <2>2. role' \in [User -> Role \cup {None}] /\ past' \in [User -> [Role \cup {None} -> Time \cup {None}]]
      <3>1. CASE Reset(u)
        BY <1>0, <3>1 DEF Reset, TypeOK
      <3>2. CASE SetRole(u)
        <4>1. PICK ro \in Role \cup {None} : role' = [role EXCEPT ![u] = ro]
          BY <3>2 DEF SetRole
        <4>2. now \in Time \cup {None} /\ past[u] \in [Role \cup {None} -> Time \cup {None}]
              /\ role[u] \in Role \cup {None}
          BY <1>0 DEF TypeOK
        <4>3. [past[u] EXCEPT ![role[u]] = now] \in [Role \cup {None} -> Time \cup {None}]
          BY <4>2
        <4>4. past' = [past EXCEPT ![u] = [past[u] EXCEPT ![role[u]] = now]]
          BY <1>0, <3>2 DEF SetRole, TypeOK
        <4>5. QED
          BY <1>0, <4>1, <4>3, <4>4 DEF TypeOK
      <3>3. QED
        BY <1>2, <3>1, <3>2
    <2>3. QED
      BY <1>0, <1>2, <2>1, <2>2 DEF SetRole, Reset, TypeOK
  <1>3. ASSUME NEW r \in Exchange, NoSession(r) \/ RefreshFailed(r) \/ RefreshTimeout(r)
        PROVE  drawn' \subseteq Nonce /\ rivals' \in BOOLEAN /\ smooth' \in BOOLEAN
               /\ UNCHANGED <<now, role, past, changes, overlap>>
    <2>1. /\ smooth' \in BOOLEAN /\ UNCHANGED <<now, role, past, changes, overlap>>
      BY <1>0, <1>3 DEF NoSession, RefreshFailed, RefreshTimeout, TypeOK
    <2>2. PICK n \in Nonce \cup {None}, c \in SetCookies :
              drawn' = (IF n = None THEN drawn ELSE drawn \cup {n}) /\ rivals' \in BOOLEAN
      BY <1>0, <1>3, LoginIs
    <2>3. drawn' \subseteq Nonce
      BY <1>0, <2>2 DEF TypeOK
    <2>4. QED
      BY <2>1, <2>2, <2>3
  <1>4. ASSUME NEW r \in Exchange, BrowserStep(r) \/ SidecarStep(r) \/ RefreshStep(r),
               ~(NoSession(r) \/ RefreshFailed(r) \/ RefreshTimeout(r))
        PROVE  /\ UNCHANGED <<now, role, drawn, past, changes, rivals>>
               /\ overlap' \in BOOLEAN /\ smooth' \in BOOLEAN
    BY <1>0, <1>4
       DEF TypeOK, BrowserStep, SidecarStep, RefreshStep, Send, Deliver, Abandon, SignIn, Return,
           SendCallback, Logout, PassFresh, StartRefresh, PassRefreshed, CallbackRefused,
           CallbackAccepted, CallbackFailed, Refuse, Rotate, Admit, Expel, CallFails
  <1>5. QED
    BY <1>0, <1>1, <1>2, <1>3, <1>4 DEF Next, TypeOK

LEMMA TypeStep ==
    ASSUME Sane, Next
    PROVE  TypeOK'
  BY ShapeStep, JarStep, RestStep, StoreGrows DEF Sane, TypeOK

-----------------------------------------------------------------------------
(* Every token that is around was issued. *)

Issued(t) == t \in Token => store'[t] # None

IssuedCookies(c) == Issued(c.refresh) /\ (c.session \in Session => Issued(c.session.refresh))

\* All that exchange r holds after the step was issued.
HoldsIssued(r) ==
    /\ IssuedCookies(req'[r].with) /\ IssuedCookies(req'[r].new)
    /\ Issued(call'[r].token) /\ Issued(call'[r].succ)

LEMMA KnownStaysIssued ==
    ASSUME Sane, Next
    PROVE  /\ \A t : Known(t) => Issued(t)
           /\ \A c : KnownCookies(c) => IssuedCookies(c)
           /\ Issued(None) /\ Issued(Keep) /\ IssuedCookies(KeepAll) /\ IssuedCookies(EmptyJar)
           /\ IssuedCookies(jar)
           /\ \A r \in Exchange : /\ IssuedCookies(req[r].with) /\ IssuedCookies(req[r].new)
                                  /\ Issued(call[r].token) /\ Issued(call[r].succ)
  <1>1. \A t : Known(t) => Issued(t)
    BY StoreGrows DEF Sane, Known, Issued
  <1>2. \A c : KnownCookies(c) => IssuedCookies(c)
    BY <1>1 DEF KnownCookies, IssuedCookies
  <1>3. Issued(None) /\ Issued(Keep)
    BY ValuesAssumption DEF Issued
  <1>4. IssuedCookies(KeepAll) /\ IssuedCookies(EmptyJar)
    BY <1>3, KeepAllSets, MarksAssumption DEF IssuedCookies
  <1>5. QED
    BY <1>1, <1>2, <1>3, <1>4 DEF Sane, KnownInv

\* An answer holds what its cookies hold.
LEMMA AnsweredIssued ==
    ASSUME Sane, Next, NEW r \in Exchange, NEW n, NEW c, Answered(r, c, n),
           c.refresh = Keep, c.session \in Session => Issued(c.session.refresh),
           call'[r] \in {call[r], NoCall}
    PROVE  HoldsIssued(r)
  <1>1. IssuedCookies(c)
    BY KnownStaysIssued DEF IssuedCookies
  <1>2. IssuedCookies(req'[r].with) /\ IssuedCookies(req'[r].new)
    BY <1>1, KnownStaysIssued DEF Answered
  <1>3. Issued(call'[r].token) /\ Issued(call'[r].succ)
    BY KnownStaysIssued, NoCallIs
  <1>4. QED
    BY <1>2, <1>3 DEF HoldsIssued

LEMMA BrowserIssued ==
    ASSUME Sane, Next, NEW r \in Exchange, BrowserStep(r)
    PROVE  HoldsIssued(r)
  <1>0. TypeOK /\ ShapeInv(r)
    BY DEF Sane
  <1>1. CASE Send(r)
    BY <1>0, <1>1, SendIs, KnownStaysIssued DEF HoldsIssued, Plain
  <1>2. CASE Deliver(r)
    BY <1>0, <1>2, DeliverIs, KnownStaysIssued DEF HoldsIssued
  <1>3. CASE Abandon(r)
    BY <1>0, <1>3, AbandonIs, QuietIs, NoCallIs, KnownStaysIssued DEF HoldsIssued
  <1>4. CASE SignIn(r)
    <2>1. PICK u \in User, t \in Unissued :
             /\ store' = [store EXCEPT ![t] = FreshRow(u)]
             /\ req'[r].new.session = Keep /\ req'[r].new.refresh = t
      BY <1>0, <1>4, SignInIs
    <2>2. store'[t] # None
      BY <1>0, <2>1, FreshRowIs DEF TypeOK, Unissued
    <2>3. IssuedCookies(req'[r].new)
      BY <2>1, <2>2, MarksAssumption DEF IssuedCookies, Issued
    <2>4. call' = call /\ req'[r].with = req[r].with
      BY <1>0, <1>4, SignInIs
    <2>5. QED
      BY <2>3, <2>4, KnownStaysIssued DEF HoldsIssued
  <1>5. CASE Return(r)
    BY <1>0, <1>5, ReturnIs, KnownStaysIssued DEF HoldsIssued
  <1>6. CASE SendCallback(r)
    BY <1>0, <1>6, SendCallbackIs, KnownStaysIssued DEF HoldsIssued
  <1>7. QED
    BY <1>1, <1>2, <1>3, <1>4, <1>5, <1>6 DEF BrowserStep

LEMMA SidecarIssued ==
    ASSUME Sane, Next, NEW r \in Exchange, SidecarStep(r)
    PROVE  HoldsIssued(r)
  <1>0. TypeOK /\ ShapeInv(r)
    BY DEF Sane
  <1>m. None \notin Session /\ Keep \notin Session
    BY MarksAssumption
  <1>1. CASE Logout(r)
    BY <1>0, <1>1, <1>m, LogoutIs, AnsweredIssued
  <1>2. CASE NoSession(r) \/ RefreshFailed(r) \/ RefreshTimeout(r)
    <2>1. PICK n \in Nonce \cup {None}, c \in SetCookies :
              /\ Answered(r, c, n) /\ c.refresh = Keep
              /\ c.session = IF NoSession(r) THEN Keep ELSE None
              /\ call'[r] \in {call[r], NoCall}
      BY <1>0, <1>2, LoginIs
    <2>2. c.session \notin Session
      BY <2>1, <1>m
    <2>3. QED
      BY <2>1, <2>2, AnsweredIssued
  <1>3. CASE PassFresh(r)
    BY <1>0, <1>3, <1>m, PassFreshIs, KeepAllSets, AnsweredIssued
  <1>4. CASE StartRefresh(r)
    <2>1. /\ IssuedCookies(req'[r].with) /\ IssuedCookies(req'[r].new)
      BY <1>0, <1>4, StartRefreshIs, KnownStaysIssued
    <2>2. call'[r].token = req[r].with.session.refresh /\ req[r].with.session \in Session
          /\ call'[r].succ = None
      BY <1>0, <1>4, StartRefreshIs
    <2>3. QED
      BY <2>1, <2>2, KnownStaysIssued DEF HoldsIssued, IssuedCookies
  <1>5. CASE PassRefreshed(r)
    <2>1. PICK c \in SetCookies :
             /\ Answered(r, c, None) /\ c.refresh = Keep
             /\ c.session = [access |-> call[r].access, refresh |-> call[r].succ]
      BY <1>0, <1>5, PassRefreshedIs
    <2>2. c.session.refresh = call[r].succ /\ call'[r] = NoCall
      BY <1>0, <1>5, <2>1, PassRefreshedIs
    <2>3. QED
      BY <2>1, <2>2, KnownStaysIssued, AnsweredIssued
  <1>6. CASE CallbackRefused(r) \/ CallbackFailed(r)
    BY <1>0, <1>6, <1>m, CallbackEndsIs, AnsweredIssued
  <1>7. CASE CallbackAccepted(r)
    <2>1. PICK c \in SetCookies :
             /\ Answered(r, c, None) /\ call' = call /\ c.refresh = Keep
             /\ c.session = [access |-> Mint(req[r].code.user), refresh |-> req[r].with.refresh]
      BY <1>0, <1>7, CallbackAcceptedIs
    <2>2. c.session.refresh = req[r].with.refresh
      BY <2>1
    <2>3. Issued(req[r].with.refresh)
      BY KnownStaysIssued DEF IssuedCookies
    <2>4. QED
      BY <2>1, <2>2, <2>3, AnsweredIssued
  <1>8. QED
    BY <1>1, <1>2, <1>3, <1>4, <1>5, <1>6, <1>7 DEF SidecarStep

LEMMA RefreshIssued ==
    ASSUME Sane, Next, NEW r \in Exchange, RefreshStep(r)
    PROVE  HoldsIssued(r)
  <1>0. TypeOK /\ ShapeInv(r) /\ KnownInv
    BY DEF Sane
  <1>1. req' = req /\ IssuedCookies(req'[r].with) /\ IssuedCookies(req'[r].new)
    BY RefreshShape, KnownStaysIssued
  <1>2. CASE Refuse(r) \/ Expel(r) \/ CallFails(r)
    BY <1>0, <1>1, <1>2, FailIs, NoCallIs, KnownStaysIssued DEF HoldsIssued
  <1>3. CASE Rotate(r)
    <2>1. PICK s \in Unissued :
             /\ store[call[r].token] \in Row
             /\ store'[s] = FreshRow(store[call[r].token].user)
             /\ call'[r].token = call[r].token /\ call'[r].succ = s
      BY <1>0, <1>3, RotateIs
    <2>2. store'[s] # None
      BY <1>0, <2>1, FreshRowIs DEF Row
    <2>3. QED
      BY <1>1, <2>1, <2>2, KnownStaysIssued DEF HoldsIssued, Issued
  <1>4. CASE Admit(r)
    BY <1>0, <1>1, <1>4, AdmitIs, NoCallIs, KnownStaysIssued DEF HoldsIssued
  <1>5. QED
    BY <1>2, <1>3, <1>4 DEF RefreshStep

LEMMA KnownStep ==
    ASSUME Sane, Next
    PROVE  KnownInv'
  <1>0. TypeOK
    BY DEF Sane
  <1>1. IssuedCookies(jar')
    <2>1. UNCHANGED jar \/ \E r \in Exchange : Deliver(r) \/ Return(r)
      BY DEF Next, BrowserStep, SidecarStep, RefreshStep, Tick, SetRole, Reset, Send, Abandon, SignIn,
             SendCallback, Logout, NoSession, PassFresh, StartRefresh, PassRefreshed, RefreshFailed,
             RefreshTimeout, CallbackRefused, CallbackAccepted, CallbackFailed, Refuse, Rotate, Admit,
             Expel, CallFails
    <2>2. CASE UNCHANGED jar
      BY <2>2, KnownStaysIssued
    <2>3. ASSUME NEW r \in Exchange, Deliver(r) \/ Return(r) PROVE IssuedCookies(jar')
      <3>1. /\ jar'.session = IF req[r].new.session = Keep THEN jar.session ELSE req[r].new.session
            /\ jar'.refresh = IF req[r].new.refresh = Keep THEN jar.refresh ELSE req[r].new.refresh
        BY <1>0, <2>3, DeliverIs, ReturnIs
      <3>2. QED
        BY <3>1, KnownStaysIssued DEF IssuedCookies
    <2>4. QED
      BY <2>1, <2>2, <2>3
  <1>2. \A r \in Exchange : HoldsIssued(r)
    <2>1. CASE Elsewhere
      BY <2>1, ElsewhereIs, KnownStaysIssued DEF HoldsIssued
    <2>2. ASSUME NEW r \in Exchange, BrowserStep(r) \/ SidecarStep(r) \/ RefreshStep(r)
          PROVE  \A q \in Exchange : HoldsIssued(q)
      <3>1. Others(r) /\ HoldsIssued(r)
        BY <2>2, BrowserShape, SidecarShape, RefreshShape, BrowserIssued, SidecarIssued, RefreshIssued
      <3>2. \A q \in Exchange \ {r} : HoldsIssued(q)
        BY <3>1, KnownStaysIssued DEF Others, HoldsIssued
      <3>3. QED
        BY <3>1, <3>2
    <2>3. QED
      BY <2>1, <2>2, StepCases
  <1>3. QED
    BY <1>1, <1>2 DEF KnownInv, KnownCookies, Known, Issued, IssuedCookies, HoldsIssued

-----------------------------------------------------------------------------
(* A session is of one user. *)

\* OfOneUser after the step.
OneUser(s) == s \in Session /\ s.refresh \in Token => store'[s.refresh].user = s.access.sub

\* What UserInv says of exchange r alone, after the step.
HoldsOneUser(r) ==
    /\ OneUser(req'[r].with.session) /\ OneUser(req'[r].new.session)
    /\ req'[r].pc = "returning" => store'[req'[r].new.refresh].user = req'[r].code.user
    /\ req'[r].pc = "callback" =>
          req'[r].with.refresh \in Token /\ store'[req'[r].with.refresh].user = req'[r].code.user

LEMMA UserStays ==
    ASSUME Sane, UserInv, ~overlap, Next
    PROVE  /\ OneUser(jar.session) /\ OneUser(None) /\ OneUser(Keep)
           /\ \A r \in Exchange :
                /\ OneUser(req[r].with.session) /\ OneUser(req[r].new.session)
                /\ req[r].pc = "returning" => store'[req[r].new.refresh].user = req[r].code.user
                /\ req[r].pc = "returned" =>
                      jar.refresh \in Token /\ store'[jar.refresh].user = req[r].code.user
                /\ req[r].pc = "callback" =>
                      req[r].with.refresh \in Token
                      /\ store'[req[r].with.refresh].user = req[r].code.user
  <1>1. \A t \in Token : Known(t) => store'[t].user = store[t].user
    BY StoreGrows DEF Sane, Known
  <1>2. \A c : KnownCookies(c) /\ OfOneUser(c.session) => OneUser(c.session)
    BY <1>1 DEF KnownCookies, OfOneUser, OneUser
  <1>3. OneUser(None) /\ OneUser(Keep)
    BY MarksAssumption DEF OneUser
  <1>4. OneUser(jar.session)
    BY <1>2 DEF Sane, KnownInv, UserInv
  <1>5. ASSUME NEW r \in Exchange
        PROVE  /\ OneUser(req[r].with.session) /\ OneUser(req[r].new.session)
               /\ req[r].pc = "returning" => store'[req[r].new.refresh].user = req[r].code.user
               /\ req[r].pc = "returned" =>
                     jar.refresh \in Token /\ store'[jar.refresh].user = req[r].code.user
               /\ req[r].pc = "callback" =>
                     req[r].with.refresh \in Token
                     /\ store'[req[r].with.refresh].user = req[r].code.user
    <2>1. KnownCookies(req[r].with) /\ KnownCookies(req[r].new) /\ KnownCookies(jar)
      BY DEF Sane, KnownInv
    <2>2. OneUser(req[r].with.session) /\ OneUser(req[r].new.session)
      BY <1>2, <2>1 DEF UserInv
    <2>3. req[r].pc = "returning" => req[r].new.refresh \in Token
      BY DEF Sane, ShapeInv
    <2>4. QED
      BY <1>1, <2>1, <2>2, <2>3 DEF UserInv, KnownCookies
  <1>6. QED
    BY <1>3, <1>4, <1>5

LEMMA AnsweredOneUser ==
    ASSUME Sane, UserInv, ~overlap, Next, NEW r \in Exchange, NEW n, NEW c, Answered(r, c, n),
           OneUser(c.session)
    PROVE  HoldsOneUser(r)
  BY UserStays, KeepAllSets DEF Answered, HoldsOneUser

LEMMA BrowserOneUser ==
    ASSUME Sane, UserInv, ~overlap, Next, NEW r \in Exchange, BrowserStep(r)
    PROVE  HoldsOneUser(r)
  <1>0. TypeOK /\ ShapeInv(r)
    BY DEF Sane
  <1>1. CASE Send(r)
    BY <1>0, <1>1, SendIs, UserStays, KeepAllSets DEF HoldsOneUser, Plain
  <1>2. CASE Deliver(r)
    BY <1>0, <1>2, DeliverIs, UserStays, KeepAllSets DEF HoldsOneUser
  <1>3. CASE Abandon(r)
    BY <1>0, <1>3, AbandonIs, QuietIs, UserStays, KeepAllSets DEF HoldsOneUser
  <1>4. CASE SignIn(r)
    <2>1. PICK u \in User, t \in Unissued :
             /\ store' = [store EXCEPT ![t] = FreshRow(u)]
             /\ req'[r].code = [user |-> u, until |-> now + CodeTtl]
             /\ req'[r].new.session = Keep /\ req'[r].new.refresh = t
      BY <1>0, <1>4, SignInIs
    <2>2. store'[t] = FreshRow(u) /\ FreshRow(u).user = u /\ req'[r].code.user = u
      <3>1. store'[t] = FreshRow(u)
        BY <1>0, <2>1 DEF TypeOK, Unissued
      <3>2. req'[r].code.user = u
        BY <2>1
      <3>3. QED
        BY <1>0, <3>1, <3>2, FreshRowIs
    <2>3. req'[r].with = req[r].with /\ req'[r].pc = "returning"
      BY <1>0, <1>4, SignInIs
    <2>4. QED
      BY <2>1, <2>2, <2>3, UserStays DEF HoldsOneUser
  <1>5. CASE Return(r)
    BY <1>0, <1>5, ReturnIs, UserStays, KeepAllSets DEF HoldsOneUser
  <1>6. CASE SendCallback(r)
    <2>1. /\ req'[r].pc = "callback" /\ req'[r].with = jar
          /\ req'[r].code = req[r].code /\ req'[r].new = req[r].new /\ req[r].pc = "returned"
      BY <1>0, <1>6, SendCallbackIs DEF SendCallback
    <2>2. QED
      BY <2>1, UserStays DEF HoldsOneUser
  <1>7. QED
    BY <1>1, <1>2, <1>3, <1>4, <1>5, <1>6 DEF BrowserStep

LEMMA SidecarOneUser ==
    ASSUME Sane, UserInv, ~overlap, Next, NEW r \in Exchange, SidecarStep(r)
    PROVE  HoldsOneUser(r)
  <1>0. TypeOK /\ ShapeInv(r)
    BY DEF Sane
  <1>1. CASE Logout(r)
    BY <1>0, <1>1, LogoutIs, UserStays, AnsweredOneUser
  <1>2. CASE NoSession(r) \/ RefreshFailed(r) \/ RefreshTimeout(r)
    <2>1. PICK n \in Nonce \cup {None}, c \in SetCookies :
              /\ Answered(r, c, n) /\ c.session = IF NoSession(r) THEN Keep ELSE None
      BY <1>0, <1>2, LoginIs
    <2>2. OneUser(c.session)
      BY <2>1, UserStays
    <2>3. QED
      BY <2>1, <2>2, AnsweredOneUser
  <1>3. CASE PassFresh(r)
    BY <1>0, <1>3, UserStays, PassFreshIs, KeepAllSets, AnsweredOneUser
  <1>4. CASE StartRefresh(r)
    BY <1>0, <1>4, StartRefreshIs, UserStays DEF HoldsOneUser
  <1>5. CASE PassRefreshed(r)
    <2>1. PICK c \in SetCookies :
             /\ Answered(r, c, None)
             /\ c.session = [access |-> call[r].access, refresh |-> call[r].succ]
      BY <1>0, <1>5, PassRefreshedIs
    <2>2. c.session.refresh = call[r].succ /\ c.session.access = call[r].access
      BY <2>1
    <2>3. UNCHANGED store /\ call[r].pc = "back"
      BY <1>5 DEF PassRefreshed
    <2>4. OneUser(c.session)
      BY <2>2, <2>3 DEF UserInv, OneUser
    <2>5. QED
      BY <2>1, <2>4, AnsweredOneUser
  <1>6. CASE CallbackRefused(r) \/ CallbackFailed(r)
    BY <1>0, <1>6, UserStays, CallbackEndsIs, AnsweredOneUser
  <1>7. CASE CallbackAccepted(r)
    <2>1. PICK c \in SetCookies :
             /\ Answered(r, c, None)
             /\ c.session = [access |-> Mint(req[r].code.user), refresh |-> req[r].with.refresh]
      BY <1>0, <1>7, CallbackAcceptedIs
    <2>2. c.session.refresh = req[r].with.refresh /\ c.session.access.sub = req[r].code.user
      BY <2>1 DEF Mint
    <2>3. OneUser(c.session)
      BY <1>7, <2>2, UserStays DEF CallbackAccepted, OneUser
    <2>4. QED
      BY <2>1, <2>3, AnsweredOneUser
  <1>8. QED
    BY <1>1, <1>2, <1>3, <1>4, <1>5, <1>6, <1>7 DEF SidecarStep

\* A login that comes back is the only one.
LEMMA ReturnedIsAlone ==
    ASSUME Sane, UserInv, ~overlap', Next
    PROVE  /\ ~overlap /\ OneUser(jar'.session)
           /\ \A r \in Exchange : req'[r].pc = "returned" =>
                 jar'.refresh \in Token /\ store'[jar'.refresh].user = req'[r].code.user
  <1>0. TypeOK /\ \A r \in Exchange : ShapeInv(r)
    BY DEF Sane
  <1>1. ~overlap
    BY DEF Next, BrowserStep, SidecarStep, RefreshStep, Tick, SetRole, Reset, Send, Abandon, SignIn,
           Deliver, Return,
           SendCallback, Logout, NoSession, PassFresh, StartRefresh, PassRefreshed, RefreshFailed,
           RefreshTimeout, CallbackRefused, CallbackAccepted, CallbackFailed, Refuse, Rotate, Admit,
           Expel, CallFails
  <1>2. ASSUME NEW r \in Exchange, Return(r)
        PROVE  /\ OneUser(jar'.session)
               /\ \A q \in Exchange : req'[q].pc = "returned" =>
                     jar'.refresh \in Token /\ store'[jar'.refresh].user = req'[q].code.user
    <2>1. /\ req[r].pc = "returning" /\ \A q \in Exchange \ {r} : ~Returning(q)
      BY <1>2 DEF Return
    <2>2. req[r].new.session = Keep /\ req[r].new.refresh \in Token /\ req[r].new.refresh # Keep
      BY <1>0, <2>1, ValuesAssumption DEF ShapeInv
    <2>3. /\ Others(r) /\ jar'.session = jar.session /\ jar'.refresh = req[r].new.refresh
          /\ req'[r].code = req[r].code
      BY <1>0, <1>2, <2>2, ReturnIs
    <2>4. \A q \in Exchange \ {r} : req'[q].pc # "returned"
      BY <2>1, <2>3 DEF Others, Returning
    <2>5. QED
      BY <1>1, <2>1, <2>2, <2>3, <2>4, UserStays
  <1>3. ASSUME \A r \in Exchange : ~Return(r)
        PROVE  /\ OneUser(jar'.session) /\ jar'.refresh = jar.refresh
    <2>1. CASE UNCHANGED jar
      BY <1>1, <2>1, UserStays
    <2>2. ASSUME NEW r \in Exchange, Deliver(r)
          PROVE  OneUser(jar'.session) /\ jar'.refresh = jar.refresh
      <3>1. req[r].new.refresh = Keep
        BY <1>0, <2>2 DEF ShapeInv, Deliver
      <3>2. QED
        BY <1>0, <1>1, <2>2, <3>1, DeliverIs, UserStays
    <2>3. UNCHANGED jar \/ \E r \in Exchange : Deliver(r)
      BY <1>3 DEF Next, BrowserStep, SidecarStep, RefreshStep, Tick, SetRole, Reset, Send, Abandon, SignIn,
             SendCallback, Logout, NoSession, PassFresh, StartRefresh, PassRefreshed, RefreshFailed,
             RefreshTimeout, CallbackRefused, CallbackAccepted, CallbackFailed, Refuse, Rotate, Admit,
             Expel, CallFails
    <2>4. QED
      BY <2>1, <2>2, <2>3
  <1>4. ASSUME \A r \in Exchange : ~Return(r), NEW r \in Exchange, req'[r].pc = "returned"
        PROVE  req[r].pc = "returned" /\ req'[r].code = req[r].code
    <2>1. CASE Elsewhere
      BY <1>4, <2>1, ElsewhereIs
    <2>2. ASSUME NEW q \in Exchange, BrowserStep(q)
          PROVE  q # r
      BY <1>0, <1>4, <2>2, SendIs, DeliverIs, AbandonIs, QuietIs, SignInIs, SendCallbackIs DEF BrowserStep
    <2>3. ASSUME NEW q \in Exchange, SidecarStep(q)
          PROVE  q # r
      <3>1. CASE StartRefresh(q)
        BY <1>0, <1>4, <3>1, StartRefreshIs
      <3>2. CASE PassRefreshed(q) \/ PassFresh(q) \/ Logout(q) \/ CallbackRefused(q) \/ CallbackFailed(q)
                 \/ CallbackAccepted(q)
        BY <1>0, <1>4, <3>2, PassRefreshedIs, PassFreshIs, LogoutIs, CallbackEndsIs, CallbackAcceptedIs
           DEF Answered
      <3>3. CASE NoSession(q) \/ RefreshFailed(q) \/ RefreshTimeout(q)
        BY <1>0, <1>4, <3>3, LoginIs DEF Answered
      <3>4. QED
        BY <2>3, <3>1, <3>2, <3>3 DEF SidecarStep
    <2>4. ASSUME NEW q \in Exchange, RefreshStep(q)
          PROVE  req' = req
      BY <2>4, RefreshShape
    <2>5. ASSUME NEW q \in Exchange, BrowserStep(q) \/ SidecarStep(q)
          PROVE  req'[r] = req[r]
      BY <2>2, <2>3, <2>5, BrowserShape, SidecarShape DEF Others
    <2>6. QED
      BY <1>4, <2>1, <2>4, <2>5, StepCases
  <1>5. QED
    BY <1>1, <1>2, <1>3, <1>4, UserStays

\* What a call brings back is of the user of its successor.
LEMMA CallsAreOfOneUser ==
    ASSUME Sane, UserInv, Next
    PROVE  \A r \in Exchange : call'[r].pc = "back" => store'[call'[r].succ].user = call'[r].access.sub
  <1>0. TypeOK /\ KnownInv /\ \A r \in Exchange : ShapeInv(r)
    BY DEF Sane
  <1>1. ASSUME NEW r \in Exchange, call'[r] = call[r], call'[r].pc = "back"
        PROVE  store'[call'[r].succ].user = call'[r].access.sub
    <2>1. call[r].succ \in Token /\ store[call[r].succ] # None
      BY <1>0, <1>1 DEF ShapeInv, KnownInv, Known
    <2>2. store'[call[r].succ].user = store[call[r].succ].user
      BY <1>0, <2>1, StoreGrows
    <2>3. QED
      BY <1>1, <2>2 DEF UserInv
  <1>2. ASSUME NEW r \in Exchange, Admit(r), call'[r].pc = "back"
        PROVE  store'[call'[r].succ].user = call'[r].access.sub
    <2>1. call'[r].succ = call[r].succ /\ call'[r].access = Mint(store[call[r].succ].user)
      BY <1>0, <1>2, AdmitIs, NoCallIs
    <2>2. UNCHANGED store
      BY <1>2 DEF Admit
    <2>3. QED
      BY <2>1, <2>2 DEF Mint
  <1>3. ASSUME NEW r \in Exchange, BrowserStep(r) \/ SidecarStep(r) \/ RefreshStep(r),
               ~Admit(r), call'[r].pc = "back"
        PROVE  call'[r] = call[r]
    <2>1. CASE BrowserStep(r)
      BY <1>0, <1>3, <2>1, SendIs, DeliverIs, AbandonIs, NoCallIs, SignInIs, ReturnIs, SendCallbackIs
         DEF BrowserStep
    <2>2. CASE SidecarStep(r)
      <3>1. CASE StartRefresh(r) \/ PassRefreshed(r)
        BY <1>0, <1>3, <3>1, StartRefreshIs, PassRefreshedIs, NoCallIs
      <3>2. CASE PassFresh(r) \/ Logout(r) \/ CallbackRefused(r) \/ CallbackFailed(r) \/ CallbackAccepted(r)
        BY <3>2 DEF PassFresh, Logout, CallbackRefused, CallbackFailed, CallbackAccepted
      <3>3. CASE NoSession(r) \/ RefreshFailed(r) \/ RefreshTimeout(r)
        BY <1>0, <1>3, <3>3, LoginIs, NoCallIs
      <3>4. QED
        BY <2>2, <3>1, <3>2, <3>3 DEF SidecarStep
    <2>3. CASE RefreshStep(r)
      <3>1. CASE Rotate(r)
        BY <1>0, <1>3, <3>1, RotateIs
      <3>2. CASE Refuse(r) \/ Expel(r) \/ CallFails(r)
        BY <1>0, <1>3, <3>2, FailIs, NoCallIs
      <3>3. QED
        BY <1>3, <2>3, <3>1, <3>2 DEF RefreshStep
    <2>4. QED
      BY <1>3, <2>1, <2>2, <2>3
  <1>4. ASSUME NEW r \in Exchange, BrowserStep(r) \/ SidecarStep(r) \/ RefreshStep(r)
        PROVE  Others(r)
    BY <1>4, BrowserShape, SidecarShape, RefreshShape
  <1>5. CASE Elsewhere
    BY <1>1, <1>5, ElsewhereIs
  <1>6. QED
    BY <1>1, <1>2, <1>3, <1>4, <1>5, StepCases DEF Others

LEMMA UserStep ==
    ASSUME Sane, UserInv, Next
    PROVE  UserInv'
  <1>1. ASSUME ~overlap'
        PROVE  \A r \in Exchange : HoldsOneUser(r)
    <2>0. ~overlap
      BY <1>1, ReturnedIsAlone
    <2>1. CASE Elsewhere
      BY <2>0, <2>1, ElsewhereIs, UserStays DEF HoldsOneUser
    <2>2. ASSUME NEW r \in Exchange, BrowserStep(r) \/ SidecarStep(r)
          PROVE  \A q \in Exchange : HoldsOneUser(q)
      <3>1. Others(r) /\ HoldsOneUser(r)
        BY <2>0, <2>2, BrowserShape, SidecarShape, BrowserOneUser, SidecarOneUser
      <3>2. \A q \in Exchange \ {r} : HoldsOneUser(q)
        BY <2>0, <3>1, UserStays DEF Others, HoldsOneUser
      <3>3. QED
        BY <3>1, <3>2
    <2>3. ASSUME NEW r \in Exchange, RefreshStep(r)
          PROVE  \A q \in Exchange : HoldsOneUser(q)
      BY <2>0, <2>3, RefreshShape, UserStays DEF HoldsOneUser
    <2>4. QED
      BY <2>1, <2>2, <2>3, StepCases
  <1>2. QED
    BY <1>1, ReturnedIsAlone, CallsAreOfOneUser DEF UserInv, OfOneUser, OneUser, HoldsOneUser

-----------------------------------------------------------------------------
(* The claims of a token were true. *)

\* HadSince and what is made of it, after the step.
Had(u, ro, t) ==
    \/ role'[u] = ro
    \/ past'[u][ro] # None /\ past'[u][ro] >= t

StillTrue(a) ==
    a \in Access =>
        /\ a.exp <= now' + AccessTtl
        /\ Had(a.sub, a.role, a.exp - AccessTtl)
        /\ \E ro \in Role : Had(a.sub, ro, a.exp - AccessTtl - CodeTtl)

StillTrueSession(s) == s \in Session => StillTrue(s.access)

StillTrueCode(c) ==
    c \in Code => /\ c.until <= now' + CodeTtl
                  /\ \E ro \in Role : Had(c.user, ro, c.until - CodeTtl)

\* What TruthInv says of exchange r, after the step.
HoldsTruth(r) ==
    /\ StillTrueSession(req'[r].with.session) /\ StillTrueSession(req'[r].new.session)
    /\ StillTrue(call'[r].access) /\ StillTrueCode(req'[r].code)

\* A role that was lost is remembered.
LEMMA HadStays ==
    ASSUME Sane, Next, NEW u \in User, NEW ro \in Role \cup {None}, NEW t \in Int, t <= now,
           HadSince(u, ro, t)
    PROVE  Had(u, ro, t)
  <1>0. /\ now \in Int /\ past[u][ro] # None => past[u][ro] \in Int
    BY DEF Sane, TypeOK, Time
  <1>1. CASE UNCHANGED <<role, past>>
    BY <1>1 DEF HadSince, Had
  <1>2. ASSUME NEW v \in User, SetRole(v)
        PROVE  Had(u, ro, t)
    <2>1. PICK x \in Role \cup {None} : role' = [role EXCEPT ![v] = x]
      BY <1>2 DEF SetRole
    <2>2. past' = [past EXCEPT ![v] = [past[v] EXCEPT ![role[v]] = now]]
      BY <1>2 DEF SetRole, Sane, TypeOK
    <2>3. /\ role \in [User -> Role \cup {None}] /\ past \in [User -> [Role \cup {None} -> Time \cup {None}]]
          /\ now # None
      BY MarksAssumption DEF Sane, TypeOK, Time
    <2>4. CASE v # u
      BY <2>1, <2>2, <2>3, <2>4 DEF HadSince, Had
    <2>5. CASE v = u /\ role[u] = ro
      <3>1. past'[u] = [past[u] EXCEPT ![ro] = now]
        BY <2>2, <2>3, <2>5
      <3>2. past'[u][ro] = now
        BY <2>3, <3>1
      <3>3. QED
        BY <1>0, <2>3, <3>2 DEF Had
    <2>6. CASE v = u /\ role[u] # ro
      <3>1. past'[u] = [past[u] EXCEPT ![role[u]] = now]
        BY <2>2, <2>3, <2>6
      <3>2. past'[u][ro] = past[u][ro]
        BY <2>3, <2>6, <3>1
      <3>3. QED
        BY <2>6, <3>2 DEF HadSince, Had
    <2>7. QED
      BY <2>4, <2>5, <2>6
  <1>3. UNCHANGED <<role, past>> \/ \E v \in User : SetRole(v)
    BY DEF Next, BrowserStep, SidecarStep, RefreshStep, Tick, Reset, Send, Abandon, SignIn,
           Deliver, Return,
           SendCallback, Logout, NoSession, PassFresh, StartRefresh, PassRefreshed, RefreshFailed,
           RefreshTimeout, CallbackRefused, CallbackAccepted, CallbackFailed, Refuse, Rotate, Admit,
           Expel, CallFails
  <1>4. QED
    BY <1>1, <1>2, <1>3

LEMMA TimeGrows ==
    ASSUME Sane, Next
    PROVE  now \in Int /\ now' \in Int /\ now <= now'
  <1>1. now \in Int /\ now' \in Int
    <2>1. now \in Time /\ now' \in Time
      BY RestStep DEF Sane, TypeOK
    <2>2. QED
      BY <2>1 DEF Time
  <1>2. UNCHANGED now \/ now' = now + 1
    BY DEF Next, BrowserStep, SidecarStep, RefreshStep, Tick, SetRole, Reset, Send, Abandon, SignIn,
           Deliver, Return,
           SendCallback, Logout, NoSession, PassFresh, StartRefresh, PassRefreshed, RefreshFailed,
           RefreshTimeout, CallbackRefused, CallbackAccepted, CallbackFailed, Refuse, Rotate, Admit,
           Expel, CallFails
  <1>3. QED
    BY <1>1, <1>2

LEMMA TruthStays ==
    ASSUME Sane, TruthInv, Next
    PROVE  /\ \A a : Truthful(a) => StillTrue(a)
           /\ \A s : TruthfulSession(s) => StillTrueSession(s)
           /\ StillTrue(None) /\ StillTrueSession(None) /\ StillTrueSession(Keep) /\ StillTrueCode(None)
           /\ StillTrueSession(jar.session)
           /\ \A r \in Exchange :
                /\ StillTrueSession(req[r].with.session) /\ StillTrueSession(req[r].new.session)
                /\ StillTrue(call[r].access) /\ StillTrueCode(req[r].code)
  <1>t. /\ now \in Int /\ now' \in Int /\ now <= now' /\ AccessTtl \in Nat /\ CodeTtl \in Nat
    BY TimeGrows, TimesAssumption
  <1>1. ASSUME NEW a \in Access, Truthful(a)
        PROVE  StillTrue(a)
    <2>1. /\ a.sub \in User /\ a.role \in Role \cup {None} /\ a.exp \in Int
      BY DEF Access
    <2>2. PICK ro \in Role : HadSince(a.sub, ro, a.exp - AccessTtl - CodeTtl)
      BY <1>1 DEF Truthful
    <2>3. a.exp <= now + AccessTtl /\ HadSince(a.sub, a.role, a.exp - AccessTtl)
      BY <1>1 DEF Truthful
    <2>4. /\ a.exp - AccessTtl \in Int /\ a.exp - AccessTtl <= now
          /\ a.exp - AccessTtl - CodeTtl \in Int /\ a.exp - AccessTtl - CodeTtl <= now
          /\ a.exp <= now' + AccessTtl
      BY <1>t, <2>1, <2>3
    <2>5. Had(a.sub, a.role, a.exp - AccessTtl)
      BY <2>1, <2>3, <2>4, HadStays
    <2>6. Had(a.sub, ro, a.exp - AccessTtl - CodeTtl)
      BY <2>1, <2>2, <2>4, HadStays
    <2>7. QED
      BY <2>4, <2>5, <2>6 DEF StillTrue
  <1>2. \A a : Truthful(a) => StillTrue(a)
    BY <1>1 DEF StillTrue
  <1>3. \A s : TruthfulSession(s) => StillTrueSession(s)
    BY <1>2 DEF TruthfulSession, StillTrueSession
  <1>4. StillTrue(None) /\ StillTrueSession(None) /\ StillTrueSession(Keep) /\ StillTrueCode(None)
    BY MarksAssumption DEF StillTrue, StillTrueSession, StillTrueCode, Code
  <1>5. ASSUME NEW r \in Exchange
        PROVE  StillTrueCode(req[r].code)
    <2>1. SUFFICES ASSUME req[r].code \in Code
                   PROVE  /\ req[r].code.until <= now' + CodeTtl
                          /\ \E ro \in Role : Had(req[r].code.user, ro, req[r].code.until - CodeTtl)
      BY DEF StillTrueCode
    <2>2. req[r].code.user \in User /\ req[r].code.until \in Int
      BY <2>1 DEF Code
    <2>3. req[r].code.until <= now + CodeTtl
      BY <2>1 DEF TruthInv
    <2>4. PICK ro \in Role : HadSince(req[r].code.user, ro, req[r].code.until - CodeTtl)
      BY <2>1 DEF TruthInv
    <2>5. /\ req[r].code.until - CodeTtl \in Int /\ req[r].code.until - CodeTtl <= now
          /\ req[r].code.until <= now' + CodeTtl
      BY <1>t, <2>2, <2>3
    <2>6. Had(req[r].code.user, ro, req[r].code.until - CodeTtl)
      BY <2>2, <2>4, <2>5, HadStays
    <2>7. QED
      BY <2>5, <2>6
  <1>6. QED
    BY <1>2, <1>3, <1>4, <1>5 DEF TruthInv

\* What is signed now is true, of a user with access now or when the code was made.
LEMMA MintIsTrue ==
    ASSUME Sane, NEW u \in User, UNCHANGED <<now, role, past>>,
           NEW k \in Int, now - CodeTtl <= k, NEW ro \in Role, HadSince(u, ro, k)
    PROVE  StillTrue(Mint(u))
  <1>1. /\ now \in Int /\ AccessTtl \in Nat /\ CodeTtl \in Nat /\ role \in [User -> Role \cup {None}]
        /\ past[u][ro] # None => past[u][ro] \in Int
    BY TimesAssumption DEF Sane, TypeOK, Time
  <1> DEFINE a == Mint(u)
  <1>2. a.sub = u /\ a.role = role[u] /\ a.exp = now + AccessTtl
    BY DEF Mint
  <1> HIDE DEF a
  <1>3. a.exp <= now' + AccessTtl /\ Had(a.sub, a.role, a.exp - AccessTtl)
    BY <1>1, <1>2 DEF Had
  <1>4. a.exp - AccessTtl - CodeTtl = now - CodeTtl
    BY <1>1, <1>2
  <1>5. Had(u, ro, now - CodeTtl)
    BY <1>1 DEF Had, HadSince
  <1>6. StillTrue(a)
    BY <1>2, <1>3, <1>4, <1>5 DEF StillTrue
  <1>7. QED
    BY <1>6 DEF a

LEMMA AnsweredTruth ==
    ASSUME Sane, TruthInv, Next, NEW r \in Exchange, NEW n, NEW c, Answered(r, c, n),
           StillTrueSession(c.session), call'[r] \in {call[r], NoCall}
    PROVE  HoldsTruth(r)
  BY TruthStays, KeepAllSets, NoCallIs DEF Answered, HoldsTruth

LEMMA BrowserTruth ==
    ASSUME Sane, TruthInv, Next, NEW r \in Exchange, BrowserStep(r)
    PROVE  HoldsTruth(r)
  <1>0. TypeOK /\ ShapeInv(r)
    BY DEF Sane
  <1>1. CASE Send(r)
    BY <1>0, <1>1, SendIs, TruthStays, KeepAllSets DEF HoldsTruth, Plain
  <1>2. CASE Deliver(r)
    BY <1>0, <1>2, DeliverIs, TruthStays, KeepAllSets DEF HoldsTruth
  <1>3. CASE Abandon(r)
    BY <1>0, <1>3, AbandonIs, QuietIs, NoCallIs, TruthStays, KeepAllSets DEF HoldsTruth
  <1>4. CASE SignIn(r)
    <2>1. PICK u \in User, t \in Unissued :
             /\ role[u] # None
             /\ req'[r].code = [user |-> u, until |-> now + CodeTtl]
             /\ req'[r].new.session = Keep
      BY <1>0, <1>4, SignInIs
    <2>2. call' = call /\ req'[r].with = req[r].with
      BY <1>0, <1>4, SignInIs
    <2>3. /\ UNCHANGED <<now, role>> /\ role[u] \in Role /\ now \in Int /\ CodeTtl \in Nat
      BY <1>0, <1>4, <2>1, TimesAssumption DEF SignIn, TypeOK, Time
    <2>4. req'[r].code.until = now + CodeTtl /\ req'[r].code.user = u
      BY <2>1
    <2>5. Had(u, role[u], now + CodeTtl - CodeTtl)
      BY <2>3 DEF Had
    <2>6. StillTrueCode(req'[r].code)
      BY <2>3, <2>4, <2>5 DEF StillTrueCode
    <2>7. QED
      BY <2>1, <2>2, <2>6, TruthStays DEF HoldsTruth
  <1>5. CASE Return(r)
    BY <1>0, <1>5, ReturnIs, TruthStays, KeepAllSets DEF HoldsTruth
  <1>6. CASE SendCallback(r)
    BY <1>0, <1>6, SendCallbackIs, TruthStays DEF HoldsTruth
  <1>7. QED
    BY <1>1, <1>2, <1>3, <1>4, <1>5, <1>6 DEF BrowserStep

LEMMA SidecarTruth ==
    ASSUME Sane, TruthInv, Next, NEW r \in Exchange, SidecarStep(r)
    PROVE  HoldsTruth(r)
  <1>0. TypeOK /\ ShapeInv(r)
    BY DEF Sane
  <1>1. CASE Logout(r)
    BY <1>0, <1>1, LogoutIs, TruthStays, AnsweredTruth
  <1>2. CASE NoSession(r) \/ RefreshFailed(r) \/ RefreshTimeout(r)
    <2>1. PICK n \in Nonce \cup {None}, c \in SetCookies :
              /\ Answered(r, c, n) /\ c.session = IF NoSession(r) THEN Keep ELSE None
              /\ call'[r] \in {call[r], NoCall}
      BY <1>0, <1>2, LoginIs
    <2>2. StillTrueSession(c.session)
      BY <2>1, TruthStays
    <2>3. QED
      BY <2>1, <2>2, AnsweredTruth
  <1>3. CASE PassFresh(r)
    BY <1>0, <1>3, TruthStays, PassFreshIs, KeepAllSets, AnsweredTruth
  <1>4. CASE StartRefresh(r)
    BY <1>0, <1>4, StartRefreshIs, TruthStays DEF HoldsTruth
  <1>5. CASE PassRefreshed(r)
    <2>1. PICK c \in SetCookies :
             /\ Answered(r, c, None)
             /\ c.session = [access |-> call[r].access, refresh |-> call[r].succ]
      BY <1>0, <1>5, PassRefreshedIs
    <2>2. c.session.access = call[r].access /\ call'[r] = NoCall
      BY <1>0, <1>5, <2>1, PassRefreshedIs
    <2>3. StillTrueSession(c.session)
      BY <2>2, TruthStays DEF StillTrueSession
    <2>4. QED
      BY <2>1, <2>2, <2>3, AnsweredTruth
  <1>6. CASE CallbackRefused(r) \/ CallbackFailed(r)
    BY <1>0, <1>6, TruthStays, CallbackEndsIs, AnsweredTruth
  <1>7. CASE CallbackAccepted(r)
    <2>1. PICK c \in SetCookies :
             /\ Answered(r, c, None) /\ call' = call
             /\ c.session = [access |-> Mint(req[r].code.user), refresh |-> req[r].with.refresh]
      BY <1>0, <1>7, CallbackAcceptedIs
    <2>2. c.session.access = Mint(req[r].code.user)
      BY <2>1
    <2>3. req[r].code \in Code /\ req[r].code.user \in User /\ req[r].code.until \in Int
      BY <1>0, <1>7, CallbackAcceptedIs DEF Code
    <2>4. UNCHANGED <<now, role, past>> /\ now <= req[r].code.until
      BY <1>7 DEF CallbackAccepted
    <2>5. PICK ro \in Role : HadSince(req[r].code.user, ro, req[r].code.until - CodeTtl)
      BY <2>3 DEF TruthInv
    <2>6. req[r].code.until - CodeTtl \in Int /\ now - CodeTtl <= req[r].code.until - CodeTtl
      BY <1>0, <2>3, <2>4, TimesAssumption DEF TypeOK, Time
    <2>7. StillTrue(Mint(req[r].code.user))
      BY <2>3, <2>4, <2>5, <2>6, MintIsTrue
    <2>8. QED
      BY <2>1, <2>2, <2>7, AnsweredTruth DEF StillTrueSession
  <1>8. QED
    BY <1>1, <1>2, <1>3, <1>4, <1>5, <1>6, <1>7 DEF SidecarStep

LEMMA RefreshTruth ==
    ASSUME Sane, TruthInv, Next, NEW r \in Exchange, RefreshStep(r)
    PROVE  HoldsTruth(r)
  <1>0. TypeOK /\ ShapeInv(r) /\ KnownInv /\ req' = req
    BY RefreshShape DEF Sane
  <1>1. CASE Refuse(r) \/ Expel(r) \/ CallFails(r)
    BY <1>0, <1>1, FailIs, NoCallIs, TruthStays DEF HoldsTruth
  <1>2. CASE Rotate(r)
    <2>1. call'[r].access = call[r].access
      BY <1>0, <1>2, RotateIs
    <2>2. QED
      BY <1>0, <2>1, TruthStays DEF HoldsTruth
  <1>3. CASE Admit(r)
    <2> DEFINE u == store[call[r].succ].user
    <2>1. u \in User /\ role[u] # None /\ call'[r].access \in {Mint(u), None}
      BY <1>0, <1>3, AdmitIs, NoCallIs
    <2>2. UNCHANGED <<now, role, past>> /\ now \in Int /\ now - CodeTtl <= now /\ role[u] \in Role
      BY <1>0, <1>3, <2>1, TimesAssumption DEF Admit, TypeOK, Time
    <2>3. HadSince(u, role[u], now)
      BY DEF HadSince
    <2> HIDE DEF u
    <2>4. StillTrue(Mint(u))
      BY <2>1, <2>2, <2>3, MintIsTrue
    <2>5. QED
      BY <1>0, <2>1, <2>4, TruthStays DEF HoldsTruth
  <1>4. QED
    BY <1>1, <1>2, <1>3 DEF RefreshStep

LEMMA TruthStep ==
    ASSUME Sane, TruthInv, Next
    PROVE  TruthInv'
  <1>0. TypeOK
    BY DEF Sane
  <1>1. StillTrueSession(jar'.session)
    <2>1. UNCHANGED jar \/ \E r \in Exchange : Deliver(r) \/ Return(r)
      BY DEF Next, BrowserStep, SidecarStep, RefreshStep, Tick, SetRole, Reset, Send, Abandon, SignIn,
             SendCallback, Logout, NoSession, PassFresh, StartRefresh, PassRefreshed, RefreshFailed,
             RefreshTimeout, CallbackRefused, CallbackAccepted, CallbackFailed, Refuse, Rotate, Admit,
             Expel, CallFails
    <2>2. QED
      BY <1>0, <2>1, DeliverIs, ReturnIs, TruthStays
  <1>2. \A r \in Exchange : HoldsTruth(r)
    <2>1. CASE Elsewhere
      BY <2>1, ElsewhereIs, TruthStays DEF HoldsTruth
    <2>2. ASSUME NEW r \in Exchange, BrowserStep(r) \/ SidecarStep(r) \/ RefreshStep(r)
          PROVE  \A q \in Exchange : HoldsTruth(q)
      <3>1. Others(r) /\ HoldsTruth(r)
        BY <2>2, BrowserShape, SidecarShape, RefreshShape, BrowserTruth, SidecarTruth, RefreshTruth
      <3>2. \A q \in Exchange \ {r} : HoldsTruth(q)
        BY <3>1, TruthStays DEF Others, HoldsTruth
      <3>3. QED
        BY <3>1, <3>2
    <2>3. QED
      BY <2>1, <2>2, StepCases
  <1>3. QED
    BY <1>1, <1>2 DEF TruthInv, TruthfulSession, Truthful, HadSince, StillTrueSession, StillTrue,
                      StillTrueCode, HoldsTruth, Had

-----------------------------------------------------------------------------
(* The state cookie of a login without a rival. *)

AtLogin == {"atAuth", "returning", "returned"}

\* After the step exchange r is in a login only if it was in it before, or no
\* other is; and then the state cookie is its own.
FlowsAlone(r) ==
    /\ req'[r].nonce # None \/ req'[r].new.state # Keep =>
          InFlow(r) \/ \A q \in Exchange \ {r} : ~InFlow(q)
    /\ req'[r].pc \in AtLogin => jar'.state = req'[r].nonce
    /\ req'[r].pc = "callback" => req'[r].with.state = req'[r].nonce
    /\ jar'.state # jar.state => InFlow(r)

LEMMA BrowserFlow ==
    ASSUME Sane, FlowInv, ~rivals, NEW r \in Exchange, BrowserStep(r)
    PROVE  FlowsAlone(r)
  <1>0. TypeOK /\ ShapeInv(r)
    BY DEF Sane
  <1>f. /\ req[r].pc \in AtLogin => jar.state = req[r].nonce
    BY DEF FlowInv, AtLogin
  <1>1. CASE Send(r)
    <2>1. UNCHANGED jar
      BY <1>1 DEF Send
    <2>2. QED
      BY <1>0, <1>1, <2>1, SendIs, KeepAllSets DEF FlowsAlone, Plain, AtLogin
  <1>2. CASE Deliver(r)
    <2>1. /\ req[r].nonce # None => req[r].new.state = req[r].nonce
          /\ req[r].nonce # Keep
      BY <1>0, <1>2, ValuesAssumption DEF ShapeInv, Deliver, TypeOK, Request
    <2>2. /\ jar'.state = IF req[r].new.state = Keep THEN jar.state ELSE req[r].new.state
          /\ req'[r].pc = IF req[r].nonce # None THEN "atAuth" ELSE "idle"
          /\ req'[r].nonce = req[r].nonce /\ req'[r].new = KeepAll
      BY <1>0, <1>2, DeliverIs
    <2>3. QED
      BY <2>1, <2>2, KeepAllSets DEF FlowsAlone, InFlow, AtLogin
  <1>3. CASE Abandon(r)
    <2>1. UNCHANGED jar
      BY <1>3 DEF Abandon
    <2>2. QED
      BY <1>0, <1>3, <2>1, AbandonIs, QuietIs, KeepAllSets DEF FlowsAlone, AtLogin
  <1>4. CASE SignIn(r)
    <2>1. UNCHANGED jar /\ req[r].pc = "atAuth"
      BY <1>4 DEF SignIn
    <2>2. req'[r].pc = "returning" /\ req'[r].nonce = req[r].nonce /\ req[r].nonce # None
      BY <1>0, <1>4, <2>1, SignInIs DEF ShapeInv
    <2>3. QED
      BY <1>f, <2>1, <2>2 DEF FlowsAlone, InFlow, AtLogin
  <1>5. CASE Return(r)
    <2>1. req[r].pc = "returning" /\ req[r].new.state = Keep /\ req[r].nonce # None
      BY <1>0, <1>5 DEF Return, ShapeInv
    <2>2. QED
      BY <1>0, <1>5, <1>f, <2>1, ReturnIs DEF FlowsAlone, InFlow, AtLogin
  <1>6. CASE SendCallback(r)
    <2>1. UNCHANGED jar /\ req[r].pc = "returned" /\ req[r].nonce # None
      BY <1>0, <1>6 DEF SendCallback, ShapeInv
    <2>2. QED
      BY <1>0, <1>6, <1>f, <2>1, SendCallbackIs DEF FlowsAlone, InFlow, AtLogin
  <1>7. QED
    BY <1>1, <1>2, <1>3, <1>4, <1>5, <1>6 DEF BrowserStep

LEMMA SidecarFlow ==
    ASSUME Sane, FlowInv, ~rivals', NEW r \in Exchange, SidecarStep(r)
    PROVE  FlowsAlone(r)
  <1>0. TypeOK /\ ShapeInv(r)
    BY DEF Sane
  <1>j. UNCHANGED jar
    BY DEF SidecarStep, Logout, NoSession, PassFresh, StartRefresh, PassRefreshed, RefreshFailed,
           RefreshTimeout, CallbackRefused, CallbackAccepted, CallbackFailed
  <1>1. CASE Logout(r)
    BY <1>0, <1>j, <1>1, LogoutIs DEF Answered, FlowsAlone, AtLogin
  <1>2. CASE NoSession(r) \/ RefreshFailed(r) \/ RefreshTimeout(r)
    <2>1. PICK n \in Nonce \cup {None}, c \in SetCookies :
              /\ Answered(r, c, n) /\ c.state = IF n = None THEN Keep ELSE n
              /\ n # None => rivals' = (rivals \/ \E q \in Exchange \ {r} : InFlow(q))
      BY <1>0, <1>2, LoginIs
    <2>2. req'[r].pc = "answered" /\ req'[r].nonce = n /\ req'[r].new = c
      BY <2>1 DEF Answered
    <2>3. QED
      BY <1>j, <2>1, <2>2 DEF FlowsAlone, AtLogin
  <1>3. CASE PassFresh(r)
    BY <1>0, <1>j, <1>3, PassFreshIs, KeepAllSets DEF Answered, FlowsAlone, AtLogin
  <1>4. CASE StartRefresh(r)
    BY <1>0, <1>j, <1>4, StartRefreshIs DEF FlowsAlone, InFlow, AtLogin
  <1>5. CASE PassRefreshed(r)
    BY <1>0, <1>j, <1>5, PassRefreshedIs DEF Answered, FlowsAlone, AtLogin
  <1>6. CASE CallbackRefused(r) \/ CallbackFailed(r) \/ CallbackAccepted(r)
    <2>1. InFlow(r)
      BY <1>0, <1>6 DEF CallbackRefused, CallbackFailed, CallbackAccepted, ShapeInv, InFlow
    <2>2. req'[r].pc = "answered"
      BY <1>0, <1>6, CallbackEndsIs, CallbackAcceptedIs DEF Answered
    <2>3. QED
      BY <1>j, <2>1, <2>2 DEF FlowsAlone, AtLogin
  <1>7. QED
    BY <1>1, <1>2, <1>3, <1>4, <1>5, <1>6 DEF SidecarStep

LEMMA FlowStep ==
    ASSUME Sane, FlowInv, Next
    PROVE  FlowInv'
  <1>1. SUFFICES ASSUME ~rivals' PROVE FlowInv'
    BY DEF FlowInv
  <1>2. ~rivals
    <2>1. ASSUME NEW r \in Exchange, NoSession(r) \/ RefreshFailed(r) \/ RefreshTimeout(r)
          PROVE  ~rivals
      BY <1>1, <2>1 DEF NoSession, RefreshFailed, RefreshTimeout, NoteRival
    <2>2. QED
      BY <1>1, <2>1
         DEF Next, BrowserStep, SidecarStep, RefreshStep, Tick, SetRole, Reset, Send, Abandon, SignIn,
             Deliver, Return, SendCallback, Logout, PassFresh, StartRefresh, PassRefreshed,
             CallbackRefused, CallbackAccepted, CallbackFailed, Refuse, Rotate, Admit, Expel, CallFails
  <1>3. CASE UNCHANGED <<jar, req>>
    BY <1>2, <1>3 DEF FlowInv, InFlow
  <1>4. ASSUME NEW r \in Exchange, BrowserStep(r) \/ SidecarStep(r)
        PROVE  FlowInv'
    <2>1. Others(r) /\ FlowsAlone(r)
      BY <1>1, <1>2, <1>4, BrowserShape, SidecarShape, BrowserFlow, SidecarFlow
    <2>2. \A q \in Exchange \ {r} : req'[q] = req[q]
      BY <2>1 DEF Others
    <2>3. \A p, q \in Exchange : InFlow(p) /\ InFlow(q) => p = q
      BY <1>2 DEF FlowInv
    <2>4. \A p, q \in Exchange :
             /\ req'[p].nonce # None \/ req'[p].new.state # Keep
             /\ req'[q].nonce # None \/ req'[q].new.state # Keep
             => p = q
      BY <2>1, <2>2, <2>3 DEF FlowsAlone, InFlow
    <2>5. ASSUME NEW q \in Exchange \ {r}
          PROVE  /\ req'[q].pc \in AtLogin => jar'.state = req'[q].nonce
                 /\ req'[q].pc = "callback" => req'[q].with.state = req'[q].nonce
      <3>1. req[q].pc \in AtLogin => InFlow(q)
        BY DEF Sane, ShapeInv, InFlow, AtLogin
      <3>2. req[q].pc \in AtLogin => jar'.state = jar.state
        BY <2>1, <2>3, <3>1 DEF FlowsAlone
      <3>3. QED
        BY <1>2, <2>2, <3>2 DEF FlowInv, AtLogin
    <2>6. QED
      BY <2>1, <2>4, <2>5 DEF FlowInv, InFlow, FlowsAlone, AtLogin
  <1>5. ASSUME NEW r \in Exchange, RefreshStep(r)
        PROVE  UNCHANGED <<jar, req>>
    BY <1>5, RefreshShape DEF RefreshStep, Refuse, Rotate, Admit, Expel, CallFails
  <1>6. QED
    BY <1>3, <1>4, <1>5, StepCases, ElsewhereIs

-----------------------------------------------------------------------------
(* Smooth runs. *)

\* The sets of SmoothInv after the step.
FreshNext(r) ==
    {t \in Token :
        \/ req'[r].pc = "answered" /\ req'[r].new.session \in Session /\ req'[r].new.session.refresh = t
        \/ call'[r].pc \in {"rotated", "back"} /\ call'[r].succ = t
        \/ req'[r].pc = "returning" /\ req'[r].new.refresh = t
        \/ req'[r].pc = "returned" /\ jar'.refresh = t
        \/ req'[r].pc = "callback" /\ req'[r].with.refresh = t}

InJarNext == {t \in Token : jar'.session \in Session /\ jar'.session.refresh = t}

PresentsNext(r) ==
    {t \in Token : /\ req'[r].pc \in {"sent", "refreshing"}
                   /\ req'[r].with.session \in Session /\ req'[r].with.session.refresh = t}

UsedNext(t) == store'[t] # None /\ store'[t].usedAt # None

PendingNext(r) == req'[r].at # None

ReplacesNext(r) ==
    \/ req'[r].pc = "refreshing" /\ call'[r].pc \in {"rotated", "back", "failed"}
    \/ req'[r].pc = "answered" /\ req'[r].new.session # Keep

\* What an exchange that is under way has to do with its call.
Steady(r) ==
    /\ call'[r].pc # "none" => req'[r].pc = "refreshing" /\ PendingNext(r)
    /\ call'[r].pc = "out" => call'[r].token = req'[r].with.session.refresh
    /\ req'[r].pc \in {"sent", "refreshing"} /\ req'[r].with.session \in Session => PendingNext(r)

\* No token is used by the step but one that exchange r presents, and then the
\* response to r is going to replace the session.
UsesOwn(r) ==
    \A t \in Token : UsedNext(t) =>
        \/ Used(t) /\ store'[t].usedAt = store[t].usedAt
        \/ t \in Presents(r) /\ store'[t].usedAt = now /\ PendingNext(r) /\ ReplacesNext(r)

\* A step on exchange r takes the tokens through the stages of SmoothInv.
Smoothly(r) ==
    /\ Others(r) /\ now' = now /\ ~overlap' /\ Steady(r) /\ UsesOwn(r)
    /\ FreshNext(r) \subseteq Fresh(r) \cup Unissued
    /\ \A q \in Exchange \ {r} : FreshNext(q) \subseteq Fresh(q)
    /\ \A t \in PresentsNext(r) : \/ t \in Presents(r) /\ req'[r].at = req[r].at
                                  \/ t \in InJar /\ req'[r].at = now
    /\ InJarNext \subseteq InJar \/ (InJarNext \subseteq Fresh(r) /\ FreshNext(r) = {})
    /\ Pending(r) /\ Replaces(r) =>
          \/ PendingNext(r) /\ ReplacesNext(r) /\ req'[r].at = req[r].at
          \/ InJarNext \subseteq Fresh(r)
    /\ req'[r].at \in {None, req[r].at, now}

\* A fresh or unissued token is nowhere else.
LEMMA FreshIsNowhere ==
    ASSUME Sane, SmoothInv, smooth, NEW r \in Exchange, NEW t \in Fresh(r) \cup Unissued
    PROVE  /\ t \in Token /\ ~Used(t) /\ t \notin InJar
           /\ \A q \in Exchange : t \notin Presents(q) /\ (q # r => t \notin Fresh(q))
  <1>1. CASE t \in Fresh(r)
    BY <1>1 DEF SmoothInv, Fresh
  <1>2. CASE t \in Unissued
    <2>1. t \in Token /\ store[t] = None
      BY <1>2 DEF Unissued
    <2>2. KnownCookies(jar) /\ \A q \in Exchange : /\ KnownCookies(req[q].with) /\ KnownCookies(req[q].new)
                                                   /\ Known(call[q].succ)
      BY DEF Sane, KnownInv
    <2>3. ~Used(t) /\ t \notin InJar
      BY <2>1, <2>2 DEF Used, InJar, KnownCookies, Known
    <2>4. \A q \in Exchange : t \notin Presents(q) /\ t \notin Fresh(q)
      BY <2>1, <2>2 DEF Presents, Fresh, KnownCookies, Known
    <2>5. QED
      BY <2>1, <2>3, <2>4
  <1>3. QED
    BY <1>1, <1>2

LEMMA SmoothlyKeeps ==
    ASSUME Sane, SmoothInv, smooth, NEW r \in Exchange, Smoothly(r)
    PROVE  SmoothInv'
  <1>t. /\ now \in Int /\ Delay \in Nat
        /\ \A q \in Exchange : Pending(q) => req[q].at \in Int
    BY TimesAssumption DEF Sane, TypeOK, Time, Request, Pending
  <1>o. /\ \A q \in Exchange \ {r} : req'[q] = req[q] /\ call'[q] = call[q]
    BY DEF Smoothly, Others
  <1>u. UsesOwn(r) /\ now' = now
    BY DEF Smoothly
  <1>1. ASSUME NEW q \in Exchange
        PROVE  PendingNext(q) => /\ req'[q].at \in Int /\ req'[q].at <= now
                                 /\ now <= req'[q].at + Delay
    <2>1. req'[q].at \in {None, req[q].at, now}
      BY <1>o DEF Smoothly
    <2>2. Pending(q) => req[q].at <= now /\ now <= req[q].at + Delay
      BY DEF SmoothInv
    <2>3. QED
      BY <1>t, <2>1, <2>2 DEF Pending, PendingNext
  <1>2. ASSUME NEW q \in Exchange
        PROVE  Steady(q)
    BY <1>o DEF Smoothly, Steady, SmoothInv, PendingNext, Pending
  <1>3. ASSUME NEW q \in Exchange, NEW t \in FreshNext(q)
        PROVE  /\ ~UsedNext(t) /\ t \notin InJarNext
               /\ \A p \in Exchange : t \notin PresentsNext(p) /\ (p # q => t \notin FreshNext(p))
    <2>1. t \in Fresh(q) \cup Unissued /\ (q # r => t \in Fresh(q))
      BY DEF Smoothly
    <2>2. /\ t \in Token /\ ~Used(t) /\ t \notin InJar
          /\ \A p \in Exchange : t \notin Presents(p) /\ (p # q => t \notin Fresh(p))
      BY <2>1, FreshIsNowhere
    <2>3. ~UsedNext(t)
      BY <1>u, <2>2 DEF UsesOwn
    <2>4. t \notin InJarNext
      BY <2>1, <2>2 DEF Smoothly
    <2>5. q # r => t \notin Unissued
      BY <2>1, FreshIsNowhere
    <2>6. \A p \in Exchange \ {r} : PresentsNext(p) = Presents(p) /\ FreshNext(p) \subseteq Fresh(p)
      BY <1>o DEF PresentsNext, Presents, Smoothly
    <2>7. t \notin PresentsNext(r)
      BY <2>2 DEF Smoothly
    <2>8. q # r => t \notin FreshNext(r)
      BY <2>2, <2>5 DEF Smoothly
    <2>9. QED
      BY <2>2, <2>3, <2>4, <2>6, <2>7, <2>8
  <1>4. ASSUME NEW q \in Exchange, NEW t \in PresentsNext(q), UsedNext(t)
        PROVE  req'[q].at <= store'[t].usedAt + Delay
    <2>1. t \in Token /\ PendingNext(q)
      BY <1>2 DEF PresentsNext, Steady
    <2>2. CASE store'[t].usedAt = now
      BY <1>t, <1>1, <2>1, <2>2 DEF PendingNext
    <2>3. CASE Used(t) /\ store'[t].usedAt = store[t].usedAt
      <3>1. store[t].usedAt \in Int
        BY <2>1, <2>3 DEF Used, Sane, TypeOK, Row
      <3>2. CASE t \in Presents(q) /\ req'[q].at = req[q].at
        BY <2>3, <3>2 DEF SmoothInv
      <3>3. CASE t \in InJar /\ req'[q].at = now
        <4>1. PICK p \in Exchange : Pending(p) /\ req[p].at <= store[t].usedAt
          BY <2>3, <3>3 DEF SmoothInv
        <4>2. now <= req[p].at + Delay /\ req[p].at \in Int
          BY <1>t, <4>1 DEF SmoothInv
        <4>3. QED
          BY <1>t, <2>3, <3>1, <3>3, <4>1, <4>2
      <3>4. QED
        BY <1>o, <3>2, <3>3 DEF Smoothly, PresentsNext, Presents
    <2>4. QED
      BY <1>u, <2>1, <2>2, <2>3, <1>4 DEF UsesOwn
  <1>5. ASSUME NEW t \in InJarNext, UsedNext(t)
        PROVE  \E q \in Exchange : PendingNext(q) /\ ReplacesNext(q) /\ req'[q].at <= store'[t].usedAt
    <2>1. t \in Token
      BY DEF InJarNext
    <2>2. CASE store'[t].usedAt = now /\ PendingNext(r) /\ ReplacesNext(r)
      BY <1>1, <2>2
    <2>3. CASE Used(t) /\ store'[t].usedAt = store[t].usedAt
      <3>1. t \notin Fresh(r)
        BY <2>3, FreshIsNowhere
      <3>2. t \in InJar /\ ~(InJarNext \subseteq Fresh(r))
        BY <3>1 DEF Smoothly
      <3>3. PICK q \in Exchange : Pending(q) /\ Replaces(q) /\ req[q].at <= store[t].usedAt
        BY <2>3, <3>2 DEF SmoothInv
      <3>4. PendingNext(q) /\ ReplacesNext(q) /\ req'[q].at = req[q].at
        <4>1. CASE q = r
          BY <3>2, <3>3, <4>1 DEF Smoothly
        <4>2. CASE q # r
          BY <1>o, <3>3, <4>2 DEF PendingNext, ReplacesNext, Pending, Replaces
        <4>3. QED
          BY <4>1, <4>2
      <3>5. QED
        BY <2>3, <3>3, <3>4
    <2>4. QED
      BY <1>u, <1>5, <2>1, <2>2, <2>3 DEF UsesOwn
  <1>6. ~overlap'
    BY DEF Smoothly
  <1>7. QED
    BY <1>u, <1>1, <1>2, <1>3, <1>4, <1>5, <1>6
       DEF SmoothInv, Fresh, InJar, Presents, Used, Pending, Replaces,
           FreshNext, InJarNext, PresentsNext, UsedNext, PendingNext, ReplacesNext, Steady

LEMMA OthersFresh ==
    ASSUME NEW r \in Exchange, Others(r), jar'.refresh = jar.refresh
    PROVE  \A q \in Exchange \ {r} : FreshNext(q) \subseteq Fresh(q)
  BY DEF Others, FreshNext, Fresh

LEMMA StoreUnused ==
    ASSUME UNCHANGED store, NEW r \in Exchange
    PROVE  UsesOwn(r)
  BY DEF UsesOwn, Used, UsedNext

LEMMA JarSame ==
    ASSUME jar'.session = jar.session
    PROVE  InJarNext = InJar
  BY DEF InJarNext, InJar

\* An answer in a smooth run.
LEMMA AnsweredSmooth ==
    ASSUME Sane, SmoothInv, smooth, NEW r \in Exchange, NEW n, NEW c, Answered(r, c, n), Others(r),
           UNCHANGED <<now, jar, overlap, store>>, call'[r].pc = "none",
           c.session \in Session /\ c.session.refresh \in Token => c.session.refresh \in Fresh(r),
           Pending(r) /\ Replaces(r) => c.session # Keep
    PROVE  Smoothly(r)
  <1>1. /\ req'[r].pc = "answered" /\ req'[r].new = c /\ req'[r].at = req[r].at
    BY DEF Answered
  <1>2. ~overlap' /\ Steady(r) /\ UsesOwn(r)
    BY <1>1, StoreUnused DEF SmoothInv, Steady
  <1>3. FreshNext(r) \subseteq Fresh(r) /\ PresentsNext(r) = {}
    BY <1>1 DEF FreshNext, PresentsNext
  <1>4. InJarNext = InJar /\ \A q \in Exchange \ {r} : FreshNext(q) \subseteq Fresh(q)
    BY JarSame, OthersFresh
  <1>5. Pending(r) /\ Replaces(r) => PendingNext(r) /\ ReplacesNext(r)
    BY <1>1 DEF Pending, PendingNext, ReplacesNext
  <1>6. QED
    BY <1>1, <1>2, <1>3, <1>4, <1>5 DEF Smoothly

LEMMA BrowserSmooth ==
    ASSUME Sane, SmoothInv, smooth, smooth', NEW r \in Exchange, BrowserStep(r)
    PROVE  Smoothly(r)
  <1>0. TypeOK /\ ShapeInv(r) /\ Others(r)
    BY BrowserShape DEF Sane
  <1>n. now' = now
    BY DEF BrowserStep, Send, Deliver, Abandon, SignIn, Return, SendCallback
  <1>c. req[r].pc # "refreshing" => call[r].pc = "none"
    BY DEF SmoothInv
  <1>o. ~overlap
    BY DEF SmoothInv
  <1>1. CASE Send(r)
    <2>1. UNCHANGED <<jar, store, overlap>> /\ call' = call /\ call[r].pc = "none" /\ req[r].pc = "idle"
      BY <1>1 DEF Send
    <2>2. /\ req'[r].pc = "sent" /\ req'[r].with = jar /\ req'[r].new = KeepAll
          /\ req'[r].at = IF jar.session = None THEN None ELSE now
      BY <1>0, <1>1, SendIs DEF Plain
    <2>3. now # None /\ None \notin Session
      BY <1>0, MarksAssumption DEF TypeOK, Time
    <2>4. FreshNext(r) = {}
      BY <2>1, <2>2 DEF FreshNext
    <2>5. \A t \in PresentsNext(r) : t \in InJar /\ req'[r].at = now
      BY <2>2, <2>3 DEF PresentsNext, InJar
    <2>6. InJarNext = InJar /\ \A q \in Exchange \ {r} : FreshNext(q) \subseteq Fresh(q)
      BY <1>0, <2>1, JarSame, OthersFresh
    <2>7. Steady(r)
      BY <2>1, <2>2, <2>3 DEF Steady, PendingNext
    <2>8. ~Replaces(r)
      BY <2>1 DEF Replaces
    <2>9. UsesOwn(r)
      BY <2>1, StoreUnused
    <2>10. req'[r].at \in {None, now}
      BY <2>2
    <2>11. QED
      BY <1>0, <1>n, <1>o, <2>1, <2>4, <2>5, <2>6, <2>7, <2>8, <2>9, <2>10 DEF Smoothly
  <1>2. CASE Deliver(r)
    <2>1. UNCHANGED <<store, overlap>> /\ call' = call /\ req[r].pc = "answered"
      BY <1>2 DEF Deliver
    <2>2. call[r].pc = "none" /\ req[r].new.refresh = Keep
      BY <1>0, <1>c, <2>1 DEF ShapeInv
    <2>3. /\ req'[r].pc \in {"atAuth", "idle"} /\ req'[r].at = None
          /\ jar'.refresh = jar.refresh
          /\ jar'.session = IF req[r].new.session = Keep THEN jar.session ELSE req[r].new.session
      BY <1>0, <1>2, <2>2, DeliverIs
    <2>4. FreshNext(r) = {} /\ PresentsNext(r) = {}
      BY <2>1, <2>2, <2>3 DEF FreshNext, PresentsNext
    <2>5. \A q \in Exchange \ {r} : FreshNext(q) \subseteq Fresh(q)
      BY <1>0, <2>3, OthersFresh
    <2>6. req[r].new.session # Keep => InJarNext \subseteq Fresh(r)
      BY <2>1, <2>3 DEF InJarNext, Fresh
    <2>7. req[r].new.session = Keep => InJarNext = InJar /\ ~Replaces(r)
      BY <2>1, <2>3, JarSame DEF Replaces
    <2>8. Steady(r) /\ UsesOwn(r)
      BY <2>1, <2>2, <2>3, StoreUnused DEF Steady
    <2>9. QED
      BY <1>0, <1>n, <1>o, <2>1, <2>3, <2>4, <2>5, <2>6, <2>7, <2>8 DEF Smoothly
  <1>3. CASE Abandon(r)
    <2>1. UNCHANGED <<jar, store, overlap>> /\ ~Pending(r)
      BY <1>3 DEF Abandon
    <2>2. call[r].pc = "none"
      BY <2>1 DEF SmoothInv
    <2>3. req'[r] = Quiet /\ call'[r].pc = "none"
      BY <1>0, <1>3, <2>2, AbandonIs
    <2>4. FreshNext(r) = {} /\ PresentsNext(r) = {} /\ Steady(r) /\ req'[r].at = None
      BY <2>3, QuietIs DEF FreshNext, PresentsNext, Steady
    <2>5. InJarNext = InJar /\ \A q \in Exchange \ {r} : FreshNext(q) \subseteq Fresh(q)
      BY <1>0, <2>1, JarSame, OthersFresh
    <2>6. UsesOwn(r)
      BY <2>1, StoreUnused
    <2>7. QED
      BY <1>0, <1>n, <1>o, <2>1, <2>4, <2>5, <2>6 DEF Smoothly
  <1>4. CASE SignIn(r)
    <2>1. UNCHANGED <<jar, overlap>> /\ call' = call /\ req[r].pc = "atAuth"
      BY <1>4 DEF SignIn
    <2>2. PICK u \in User, t \in Unissued :
             store' = [store EXCEPT ![t] = FreshRow(u)] /\ req'[r].new.refresh = t
      BY <1>0, <1>4, SignInIs
    <2>3. req'[r].pc = "returning" /\ req'[r].at = req[r].at
      BY <1>0, <1>4, SignInIs
    <2>4. call[r].pc = "none"
      BY <1>c, <2>1
    <2>5. FreshNext(r) \subseteq Unissued /\ PresentsNext(r) = {} /\ Steady(r)
      BY <2>1, <2>2, <2>3, <2>4 DEF FreshNext, PresentsNext, Steady
    <2>6. InJarNext = InJar /\ \A q \in Exchange \ {r} : FreshNext(q) \subseteq Fresh(q)
      BY <1>0, <2>1, JarSame, OthersFresh
    <2>7. UsesOwn(r)
      <3>1. store'[t].usedAt = None /\ \A k \in Token \ {t} : store'[k] = store[k]
        BY <1>0, <2>2, FreshRowIs DEF TypeOK, Unissued
      <3>2. QED
        BY <3>1 DEF UsesOwn, Used, UsedNext
    <2>8. ~Replaces(r)
      BY <2>1 DEF Replaces
    <2>9. QED
      BY <1>0, <1>n, <1>o, <2>1, <2>3, <2>5, <2>6, <2>7, <2>8 DEF Smoothly
  <1>5. CASE Return(r)
    <2>1. UNCHANGED store /\ call' = call /\ req[r].pc = "returning" /\ ~overlap'
      BY <1>5 DEF Return
    <2>2. \A q \in Exchange \ {r} : ~Returning(q)
      BY <1>5, <2>1 DEF Return
    <2>3. call[r].pc = "none" /\ req[r].new.session = Keep /\ req[r].new.refresh \in Token
      BY <1>0, <1>c, <2>1 DEF ShapeInv
    <2>4. /\ req'[r].pc = "returned" /\ req'[r].at = req[r].at
          /\ jar'.session = jar.session /\ jar'.refresh = req[r].new.refresh
      BY <1>0, <1>5, <2>3, ReturnIs, ValuesAssumption
    <2>5. FreshNext(r) \subseteq Fresh(r) /\ PresentsNext(r) = {} /\ Steady(r)
      BY <2>1, <2>3, <2>4 DEF FreshNext, Fresh, PresentsNext, Steady
    <2>6. \A q \in Exchange \ {r} : FreshNext(q) \subseteq Fresh(q)
      BY <1>0, <2>2 DEF Others, Returning, FreshNext, Fresh
    <2>7. InJarNext = InJar /\ UsesOwn(r)
      BY <2>1, <2>4, JarSame, StoreUnused
    <2>8. ~Replaces(r)
      BY <2>1 DEF Replaces
    <2>9. QED
      BY <1>0, <1>n, <2>1, <2>4, <2>5, <2>6, <2>7, <2>8 DEF Smoothly
  <1>6. CASE SendCallback(r)
    <2>1. UNCHANGED <<jar, store, overlap>> /\ call' = call /\ req[r].pc = "returned"
      BY <1>6 DEF SendCallback
    <2>2. call[r].pc = "none"
      BY <1>c, <2>1
    <2>3. req'[r].pc = "callback" /\ req'[r].with = jar /\ req'[r].at = req[r].at
      BY <1>0, <1>6, SendCallbackIs
    <2>4. FreshNext(r) \subseteq Fresh(r) /\ PresentsNext(r) = {} /\ Steady(r)
      BY <2>1, <2>2, <2>3 DEF FreshNext, Fresh, PresentsNext, Steady
    <2>5. InJarNext = InJar /\ \A q \in Exchange \ {r} : FreshNext(q) \subseteq Fresh(q)
      BY <1>0, <2>1, JarSame, OthersFresh
    <2>6. UsesOwn(r) /\ ~Replaces(r)
      BY <2>1, StoreUnused DEF Replaces
    <2>7. QED
      BY <1>0, <1>n, <1>o, <2>1, <2>3, <2>4, <2>5, <2>6 DEF Smoothly
  <1>7. QED
    BY <1>1, <1>2, <1>3, <1>4, <1>5, <1>6 DEF BrowserStep

LEMMA SidecarSmooth ==
    ASSUME Sane, SmoothInv, smooth, smooth', NEW r \in Exchange, SidecarStep(r)
    PROVE  Smoothly(r)
  <1>0. TypeOK /\ ShapeInv(r) /\ Others(r)
    BY SidecarShape DEF Sane
  <1>n. UNCHANGED <<now, jar, overlap, store>>
    BY DEF SidecarStep, Logout, NoSession, PassFresh, StartRefresh, PassRefreshed, RefreshFailed,
           RefreshTimeout, CallbackRefused, CallbackAccepted, CallbackFailed
  <1>c. req[r].pc # "refreshing" => call[r].pc = "none"
    BY DEF SmoothInv
  <1>m. None \notin Session /\ Keep \notin Session /\ None # Keep
    BY MarksAssumption, ValuesAssumption
  <1>1. CASE Logout(r)
    <2>1. PICK c \in SetCookies : Answered(r, c, None) /\ call' = call /\ c.session = None
      BY <1>0, <1>1, LogoutIs
    <2>2. call[r].pc = "none"
      BY <1>1, <1>c DEF Logout
    <2>3. QED
      BY <1>0, <1>n, <1>m, <2>1, <2>2, AnsweredSmooth
  <1>2. CASE NoSession(r) \/ RefreshFailed(r)
    <2>1. PICK n \in Nonce \cup {None}, c \in SetCookies :
              Answered(r, c, n) /\ c.session = IF NoSession(r) THEN Keep ELSE None
      BY <1>0, <1>2, LoginIs
    <2>2. call'[r].pc = "none"
      <3>1. CASE NoSession(r)
        BY <1>c, <3>1 DEF NoSession, Arrived
      <3>2. CASE RefreshFailed(r)
        BY <1>0, <3>2, NoCallIs DEF RefreshFailed, TypeOK
      <3>3. QED
        BY <1>2, <3>1, <3>2
    <2>3. NoSession(r) => ~Replaces(r)
      BY DEF NoSession, Arrived, Replaces
    <2>4. c.session \notin Session /\ (Replaces(r) => c.session # Keep)
      BY <1>m, <2>1, <2>3
    <2>5. QED
      BY <1>0, <1>n, <2>1, <2>2, <2>4, AnsweredSmooth
  <1>3. CASE RefreshTimeout(r)
    BY <1>3 DEF RefreshTimeout
  <1>4. CASE PassFresh(r)
    <2>1. Answered(r, KeepAll, None) /\ call' = call
      BY <1>0, <1>4, PassFreshIs
    <2>2. call[r].pc = "none" /\ ~Replaces(r)
      BY <1>c, <1>4 DEF PassFresh, Arrived, Replaces
    <2>3. QED
      BY <1>0, <1>n, <1>m, <2>1, <2>2, KeepAllSets, AnsweredSmooth
  <1>5. CASE StartRefresh(r)
    <2>1. /\ req'[r].pc = "refreshing" /\ req'[r].with = req[r].with /\ req'[r].at = req[r].at
          /\ req[r].with.session \in Session
          /\ call'[r].pc = "out" /\ call'[r].token = req[r].with.session.refresh
      BY <1>0, <1>5, StartRefreshIs
    <2>2. req[r].pc = "sent"
      BY <1>5 DEF StartRefresh, Arrived
    <2>3. Pending(r)
      BY <2>1, <2>2 DEF SmoothInv
    <2>4. FreshNext(r) = {} /\ PresentsNext(r) = Presents(r) /\ Steady(r) /\ ~Replaces(r)
      BY <2>1, <2>2, <2>3 DEF FreshNext, PresentsNext, Presents, Steady, Pending, PendingNext, Replaces
    <2>5. InJarNext = InJar /\ \A q \in Exchange \ {r} : FreshNext(q) \subseteq Fresh(q)
      BY <1>0, <1>n, JarSame, OthersFresh
    <2>6. UsesOwn(r) /\ ~overlap'
      BY <1>n, StoreUnused DEF SmoothInv
    <2>7. QED
      BY <1>0, <1>n, <2>1, <2>4, <2>5, <2>6 DEF Smoothly
  <1>6. CASE PassRefreshed(r)
    <2>1. PICK c \in SetCookies :
             /\ Answered(r, c, None) /\ c.session \in Session
             /\ c.session = [access |-> call[r].access, refresh |-> call[r].succ]
      BY <1>0, <1>6, PassRefreshedIs
    <2>2. call'[r].pc = "none" /\ call[r].succ \in Token /\ call[r].pc = "back"
      BY <1>0, <1>6, PassRefreshedIs, NoCallIs DEF PassRefreshed
    <2>3. c.session.refresh = call[r].succ /\ call[r].succ \in Fresh(r)
      BY <2>1, <2>2 DEF Fresh
    <2>4. QED
      BY <1>0, <1>n, <1>m, <2>1, <2>2, <2>3, AnsweredSmooth
  <1>7. CASE CallbackRefused(r) \/ CallbackFailed(r)
    <2>1. PICK c \in SetCookies : Answered(r, c, None) /\ call' = call /\ c.session = Keep
      BY <1>0, <1>7, CallbackEndsIs
    <2>2. call[r].pc = "none" /\ ~Replaces(r)
      BY <1>7, <1>c DEF CallbackRefused, CallbackFailed, Replaces
    <2>3. QED
      BY <1>0, <1>n, <1>m, <2>1, <2>2, AnsweredSmooth
  <1>8. CASE CallbackAccepted(r)
    <2>1. PICK c \in SetCookies :
             /\ Answered(r, c, None) /\ call' = call
             /\ c.session = [access |-> Mint(req[r].code.user), refresh |-> req[r].with.refresh]
      BY <1>0, <1>8, CallbackAcceptedIs
    <2>2. call[r].pc = "none" /\ ~Replaces(r) /\ req[r].pc = "callback"
      BY <1>8, <1>c DEF CallbackAccepted, Replaces
    <2>3. c.session.refresh = req[r].with.refresh
      BY <2>1
    <2>4. c.session.refresh \in Token => c.session.refresh \in Fresh(r)
      BY <2>2, <2>3 DEF Fresh
    <2>5. QED
      BY <1>0, <1>n, <2>1, <2>2, <2>4, AnsweredSmooth
  <1>9. QED
    BY <1>1, <1>2, <1>3, <1>4, <1>5, <1>6, <1>7, <1>8 DEF SidecarStep

LEMMA RefreshSmooth ==
    ASSUME Sane, SmoothInv, smooth, smooth', NEW r \in Exchange, RefreshStep(r)
    PROVE  Smoothly(r)
  <1>0. TypeOK /\ ShapeInv(r) /\ KnownInv /\ Others(r) /\ req' = req
    BY RefreshShape DEF Sane
  <1>n. UNCHANGED <<now, jar, overlap>>
    BY DEF RefreshStep, Refuse, Rotate, Admit, Expel, CallFails
  <1>p. req[r].pc = "refreshing" /\ Pending(r) /\ PendingNext(r) /\ ~overlap'
    <2>1. call[r].pc # "none"
      BY DEF RefreshStep, Refuse, Rotate, Admit, Expel, CallFails
    <2>2. QED
      BY <1>0, <1>n, <2>1 DEF SmoothInv, Pending, PendingNext
  <1>q. PresentsNext(r) = Presents(r) /\ InJarNext = InJar
        /\ \A q \in Exchange \ {r} : FreshNext(q) \subseteq Fresh(q)
    BY <1>0, <1>n, JarSame, OthersFresh DEF PresentsNext, Presents
  <1>1. ASSUME Refuse(r) \/ Expel(r)
        PROVE  Smoothly(r)
    <2>1. call'[r] = Failed
      BY <1>0, <1>p, <1>1, FailIs
    <2>2. FreshNext(r) = {} /\ Steady(r) /\ ReplacesNext(r)
      BY <1>0, <1>p, <2>1, NoCallIs DEF FreshNext, Steady, ReplacesNext
    <2>3. UsesOwn(r)
      <3>1. CASE Refuse(r)
        BY <3>1, StoreUnused DEF Refuse
      <3>2. CASE Expel(r)
        <4>1. /\ call[r].succ \in Token /\ store[call[r].succ] \in Row
              /\ store' = [store EXCEPT ![call[r].succ] = Ended(store[call[r].succ])]
          BY <1>0, <3>2, ExpelIs
        <4>2. /\ store'[call[r].succ] = Ended(store[call[r].succ])
              /\ \A t \in Token \ {call[r].succ} : store'[t] = store[t]
          BY <1>0, <4>1 DEF TypeOK
        <4>3. QED
          BY <4>1, <4>2, EndedIs DEF UsesOwn, Used, UsedNext
      <3>3. QED
        BY <1>1, <3>1, <3>2
    <2>4. QED
      BY <1>0, <1>n, <1>p, <1>q, <2>2, <2>3 DEF Smoothly
  <1>2. CASE CallFails(r)
    BY <1>2 DEF CallFails
  <1>3. CASE Rotate(r)
    <2> DEFINE t == call[r].token
    <2>1. PICK s \in Unissued :
             /\ t \in Token /\ store[t] \in Row /\ s # t
             /\ store'[t] = Stamped(store[t]) /\ store'[s] = FreshRow(store[t].user)
             /\ \A k \in Token \ {t, s} : store'[k] = store[k]
             /\ call'[r].pc = "rotated" /\ call'[r].token = t /\ call'[r].succ = s
      BY <1>0, <1>3, RotateIs
    <2>2. t \in Presents(r)
      <3>1. call[r].pc = "out"
        BY <1>3 DEF Rotate
      <3>2. t = req[r].with.session.refresh /\ req[r].with.session \in Session
        BY <1>0, <1>p, <3>1 DEF SmoothInv, ShapeInv
      <3>3. QED
        BY <1>p, <2>1, <3>2 DEF Presents
    <2>3. FreshNext(r) \subseteq Unissued /\ Steady(r) /\ ReplacesNext(r)
      BY <1>0, <1>p, <2>1 DEF FreshNext, Steady, ReplacesNext
    <2>4. UsesOwn(r)
      <3>1. store'[t].usedAt = IF store[t].usedAt = None THEN now ELSE store[t].usedAt
        BY <1>0, <2>1, StampedIs
      <3>2. store'[s].usedAt = None
        <4>1. store[t].user \in User
          BY <2>1 DEF Row
        <4>2. QED
          BY <1>0, <2>1, <4>1, FreshRowIs
      <3>3. store[t] # None
        BY <2>1, MarksAssumption
      <3> HIDE DEF t
      <3>4. QED
        BY <1>p, <2>1, <2>2, <2>3, <3>1, <3>2, <3>3 DEF UsesOwn, Used, UsedNext
    <2>5. QED
      BY <1>0, <1>n, <1>p, <1>q, <2>3, <2>4 DEF Smoothly
  <1>4. CASE Admit(r)
    <2>1. call'[r].pc = "back" /\ call'[r].succ = call[r].succ /\ call[r].pc = "rotated"
      BY <1>0, <1>p, <1>4, AdmitIs DEF Admit
    <2>2. FreshNext(r) \subseteq Fresh(r) /\ Steady(r) /\ ReplacesNext(r)
      BY <1>0, <1>p, <2>1 DEF FreshNext, Fresh, Steady, ReplacesNext
    <2>3. UsesOwn(r)
      BY <1>4, StoreUnused DEF Admit
    <2>4. QED
      BY <1>0, <1>n, <1>p, <1>q, <2>2, <2>3 DEF Smoothly
  <1>5. QED
    BY <1>1, <1>2, <1>3, <1>4 DEF RefreshStep

LEMMA ElsewhereSmooth ==
    ASSUME Sane, SmoothInv, smooth, smooth', Elsewhere
    PROVE  SmoothInv'
  <1>0. TypeOK /\ UNCHANGED <<jar, req, call, overlap>>
    BY ElsewhereIs DEF Sane
  <1>1. \A t \in Token : UsedNext(t) => Used(t) /\ store'[t].usedAt = store[t].usedAt
    <2>1. CASE UNCHANGED store
      BY <2>1 DEF Used, UsedNext
    <2>2. ASSUME NEW u \in User, Reset(u)
          PROVE  \A t \in Token : UsedNext(t) => Used(t) /\ store'[t].usedAt = store[t].usedAt
      <3>1. \A t \in Token : store[t] # None => store[t] \in Row
        BY <1>0 DEF TypeOK
      <3>2. QED
        BY <2>2, <3>1, EndedIs DEF Reset, Used, UsedNext
    <2>3. QED
      BY <2>1, <2>2 DEF Elsewhere, Tick, SetRole
  <1>2. /\ now \in Int /\ Delay \in Nat /\ \A q \in Exchange : Pending(q) => req[q].at \in Int
    BY <1>0, TimesAssumption DEF TypeOK, Time, Request, Pending
  <1>3. \A q \in Exchange : Pending(q) => req[q].at <= now' /\ now' <= req[q].at + Delay
    <2>1. CASE Tick
      <3>1. now' = now + 1 /\ \A q \in Exchange : Pending(q) => now + 1 <= req[q].at + Delay
        BY <2>1, Zenon DEF Tick
      <3>2. \A q \in Exchange : Pending(q) => req[q].at <= now
        BY DEF SmoothInv
      <3>3. QED
        BY <1>2, <3>1, <3>2
    <2>2. CASE UNCHANGED now
      BY <2>2 DEF SmoothInv
    <2>3. QED
      BY <2>1, <2>2 DEF Elsewhere, SetRole, Reset
  <1>4. \A r \in Exchange : \A t \in Fresh(r) : ~UsedNext(t)
    BY <1>1 DEF SmoothInv, Fresh
  <1>5. \A r \in Exchange : \A t \in Presents(r) : UsedNext(t) => req[r].at <= store'[t].usedAt + Delay
    BY <1>1 DEF SmoothInv, Presents
  <1>6. \A t \in InJar : UsedNext(t) =>
             \E q \in Exchange : Pending(q) /\ Replaces(q) /\ req[q].at <= store'[t].usedAt
    BY <1>1 DEF SmoothInv, InJar
  <1>7. QED
    BY <1>0, <1>3, <1>4, <1>5, <1>6
       DEF SmoothInv, Fresh, InJar, Presents, Used, UsedNext, Pending, Replaces

LEMMA SmoothStep ==
    ASSUME Sane, SmoothInv, Next
    PROVE  SmoothInv'
  <1>1. SUFFICES ASSUME smooth' PROVE SmoothInv'
    BY DEF SmoothInv
  <1>2. smooth
    BY <1>1
       DEF Next, BrowserStep, SidecarStep, RefreshStep, Tick, SetRole, Reset, Send, Abandon, SignIn,
           Deliver, Return, SendCallback, Logout, NoSession, PassFresh, StartRefresh, PassRefreshed,
           RefreshFailed, RefreshTimeout, CallbackRefused, CallbackAccepted, CallbackFailed, Refuse,
           Rotate, Admit, Expel, CallFails
  <1>3. QED
    BY <1>1, <1>2, StepCases, ElsewhereSmooth, BrowserSmooth, SidecarSmooth, RefreshSmooth, SmoothlyKeeps

-----------------------------------------------------------------------------
(* The invariant and the properties. *)

LEMMA InitIInv ==
    ASSUME Init
    PROVE  IInv
  <1>1. TypeOK
    <2>1. 0 \in Time
      BY TimesAssumption DEF Time
    <2>2. /\ jar \in Jar /\ req \in [Exchange -> Request] /\ call \in [Exchange -> Call]
      BY KeepAllSets, QuietIs, NoCallIs DEF Init
    <2>3. past \in [User -> [Role \cup {None} -> Time \cup {None}]]
      BY DEF Init
    <2>4. changes \in 0..MaxChanges
      BY TimesAssumption DEF Init
    <2>5. role \in [User -> Role \cup {None}] /\ store \in [Token -> Row \cup {None}]
      BY DEF Init
    <2>6. QED
      BY <2>1, <2>2, <2>3, <2>4, <2>5 DEF Init, TypeOK
  <1>2. \A r \in Exchange : ShapeInv(r)
    BY QuietIs, NoCallIs DEF Init, ShapeInv
  <1>m. /\ None \notin Token /\ Keep \notin Token /\ None \notin Session /\ Keep \notin Session
        /\ None \notin Access /\ None \notin Code
    BY ValuesAssumption, MarksAssumption DEF Code
  <1>r. \A r \in Exchange :
           /\ req[r].pc = "idle" /\ req[r].with = EmptyJar /\ req[r].new = KeepAll
           /\ req[r].at = None /\ req[r].nonce = None /\ req[r].code = None
           /\ call[r].pc = "none" /\ call[r].token = None /\ call[r].succ = None
           /\ call[r].access = None
    BY QuietIs, NoCallIs DEF Init
  <1>j. jar = EmptyJar
    BY DEF Init
  <1>3. KnownInv
    BY <1>m, <1>r, <1>j, KeepAllSets DEF KnownInv, KnownCookies, Known
  <1>4. UserInv
    BY <1>m, <1>r, <1>j, KeepAllSets DEF UserInv, OfOneUser
  <1>5. TruthInv
    BY <1>m, <1>r, <1>j, KeepAllSets DEF TruthInv, TruthfulSession, Truthful
  <1>6. FlowInv
    BY <1>r, KeepAllSets DEF FlowInv, InFlow
  <1>7. SmoothInv
    <2>1. InJar = {} /\ \A r \in Exchange : Fresh(r) = {} /\ Presents(r) = {} /\ ~Pending(r)
      BY <1>m, <1>r, <1>j, KeepAllSets DEF InJar, Fresh, Presents, Pending
    <2>2. ~overlap
      BY DEF Init
    <2>3. QED
      BY <1>r, <2>1, <2>2 DEF SmoothInv
  <1>8. QED
    BY <1>1, <1>2, <1>3, <1>4, <1>5, <1>6, <1>7 DEF IInv

LEMMA NextIInv ==
    ASSUME IInv, [Next]_vars
    PROVE  IInv'
  <1>1. CASE Next
    <2>1. Sane /\ UserInv /\ TruthInv /\ FlowInv /\ SmoothInv
      BY DEF IInv, Sane
    <2>2. QED
      BY <1>1, <2>1, TypeStep, ShapeStep, KnownStep, UserStep, TruthStep, FlowStep, SmoothStep DEF IInv
  <1>2. CASE UNCHANGED vars
    <2>1. TypeOK'
      BY <1>2 DEF vars, IInv, TypeOK
    <2>2. \A r \in Exchange : ShapeInv(r)'
      BY <1>2 DEF vars, IInv, ShapeInv
    <2>3. KnownInv'
      BY <1>2 DEF vars, IInv, KnownInv, KnownCookies, Known
    <2>4. UserInv'
      BY <1>2 DEF vars, IInv, UserInv, OfOneUser
    <2>5. TruthInv'
      <3>1. TruthInv /\ UNCHANGED <<now, jar, req, call, role, past>>
        BY <1>2 DEF vars, IInv
      <3>2. \A a : Truthful(a) => StillTrue(a)
        BY <3>1 DEF Truthful, StillTrue, HadSince, Had
      <3>3. \A c : TruthfulSession(c) => StillTrueSession(c)
        BY <3>2 DEF TruthfulSession, StillTrueSession
      <3>4. \A r \in Exchange : HoldsTruth(r)
        BY <3>1, <3>2, <3>3 DEF TruthInv, HoldsTruth, StillTrueCode, HadSince, Had
      <3>5. StillTrueSession(jar'.session)
        BY <3>1, <3>3 DEF TruthInv
      <3>6. QED
        BY <3>4, <3>5 DEF TruthInv, TruthfulSession, Truthful, HadSince, StillTrueSession, StillTrue,
                          StillTrueCode, HoldsTruth, Had
    <2>6. FlowInv'
      BY <1>2 DEF vars, IInv, FlowInv, InFlow
    <2>7. SmoothInv'
      BY <1>2 DEF vars, IInv, SmoothInv, Fresh, InJar, Presents, Used, Pending, Replaces
    <2>8. QED
      BY <2>1, <2>2, <2>3, <2>4, <2>5, <2>6, <2>7 DEF IInv
  <1>3. QED
    BY <1>1, <1>2

\* Every state satisfies the inductive invariant: what cookies, requests and
\* calls of the sidecar (app.ts:156-289) hold was issued, is of one user,
\* was true when it was signed and is where SmoothInv says.
THEOREM Invariance == Spec => []IInv
  <1>1. Init => IInv
    BY InitIInv
  <1>2. IInv /\ [Next]_vars => IInv'
    BY NextIInv
  <1>3. QED
    BY <1>1, <1>2, PTL DEF Spec

\* Unless two logins come back at once, the refresh token of every session is
\* of the user whose identity the session injects (app.ts:185-202, 250-261).
THEOREM SessionsAreOfOneUser == Spec => []OneUsersSession
  <1>1. IInv => OneUsersSession
    <2>1. SUFFICES ASSUME IInv, ~overlap, NEW s \in Sessions, s.refresh # None
                   PROVE  store[s.refresh].user = s.access.sub
      BY DEF OneUsersSession
    <2>2. /\ jar \in Jar
          /\ \A r \in Exchange : req[r].with \in Jar /\ req[r].new \in SetCookies
      BY <2>1 DEF IInv, TypeOK, Request
    <2>3. s \in Session
      BY <2>2 DEF Sessions, Jar, SetCookies
    <2>4. s.refresh \in Token
      BY <2>1, <2>3 DEF Session
    <2>5. OfOneUser(s)
      BY <2>1 DEF IInv, UserInv, Sessions
    <2>6. QED
      BY <2>3, <2>4, <2>5 DEF OfOneUser
  <1>2. QED
    BY <1>1, Invariance, PTL

\* A login is refused for its state only if two were under way at once
\* (app.ts:159-175): the state cookie is of the only login until its callback.
THEOREM OnlyRivalsRefused == Spec => OnlyRivalsCollide
  <1>1. ASSUME IInv, NEW r \in Exchange, CallbackRefused(r)
        PROVE  rivals
    <2>1. SUFFICES ASSUME ~rivals PROVE FALSE
      OBVIOUS
    <2>2. req[r].pc = "callback" /\ req[r].nonce # None
      BY <1>1 DEF CallbackRefused, IInv, ShapeInv
    <2>3. req[r].with.state = req[r].nonce
      BY <1>1, <2>1, <2>2 DEF IInv, FlowInv
    <2>4. QED
      BY <1>1, <2>2, <2>3 DEF CallbackRefused, StateMatches
  <1>2. IInv => [\A r \in Exchange : CallbackRefused(r) => rivals]_vars
    BY <1>1
  <1>3. QED
    BY <1>2, Invariance, PTL DEF OnlyRivalsCollide

\* A refresh that a tab starts with a token that another tab has used is honoured,
\* if the exchanges take no longer than half the grace period: what is sent with
\* a used token was sent at most Delay after the use (session.service.ts:26-33).
THEOREM SiblingsAreNotLoggedOut == Spec => SiblingsSurvive
  <1>1. ASSUME IInv, NEW r \in Exchange, Refuse(r), smooth, call[r].token # None
        PROVE  store[call[r].token].ended \/ now > store[call[r].token].lapse
    <2> DEFINE t == call[r].token
    <2>1. call[r].pc = "out" /\ ~Good(t)
      BY <1>1 DEF Refuse
    <2>2. SmoothInv /\ ShapeInv(r) /\ KnownInv /\ TypeOK
      BY <1>1 DEF IInv
    <2>3. t \in Token /\ store[t] \in Row
      BY <1>1, <2>2 DEF TypeOK, Call, KnownInv, Known
    <2>4. req[r].pc = "refreshing" /\ Pending(r) /\ t = req[r].with.session.refresh
      BY <1>1, <2>1, <2>2 DEF SmoothInv
    <2>5. t \in Presents(r)
      BY <2>2, <2>3, <2>4 DEF ShapeInv, Presents
    <2> HIDE DEF t
    <2>6. /\ now \in Int /\ req[r].at \in Int /\ Delay \in Nat /\ Grace \in Nat /\ 2 * Delay <= Grace
          /\ store[t].lapse \in Int
          /\ store[t].usedAt # None => store[t].usedAt \in Int
      BY <2>2, <2>3, <2>4, TimesAssumption DEF TypeOK, Time, Request, Row, Pending
    <2>7. store[t].usedAt # None => now <= store[t].usedAt + Grace
      <3>1. SUFFICES ASSUME store[t].usedAt # None PROVE now <= store[t].usedAt + Grace
        OBVIOUS
      <3>2. Used(t)
        BY <2>3, <3>1, MarksAssumption DEF Used
      <3>3. req[r].at <= store[t].usedAt + Delay /\ now <= req[r].at + Delay
        BY <1>1, <2>2, <2>4, <2>5, <3>2 DEF SmoothInv
      <3>4. QED
        BY <2>6, <3>1, <3>3
    <2>8. store[t].ended \/ now > store[t].lapse
      BY <1>1, <2>1, <2>6, <2>7 DEF Good, t
    <2>9. QED
      BY <2>8 DEF t
  <1>2. IInv => [\A r \in Exchange : Refuse(r) /\ smooth /\ call[r].token # None =>
                    store[call[r].token].ended \/ now > store[call[r].token].lapse]_vars
    BY <1>1
  <1>3. QED
    BY <1>2, Invariance, PTL DEF SiblingsSurvive

\* A request is passed to the app with the session it came with or with the one
\* that a refresh led to.
LEMMA PassesOnly ==
    ASSUME Sane, Next, NEW r \in Exchange, Passes(r)
    PROVE  PassFresh(r) \/ PassRefreshed(r)
  <1>0. TypeOK /\ ShapeInv(r)
    BY DEF Sane
  <1>1. ~Elsewhere
    BY ElsewhereIs DEF Passes
  <1>2. ASSUME NEW q \in Exchange, BrowserStep(q) \/ SidecarStep(q) \/ RefreshStep(q)
        PROVE  q = r /\ req' # req
    BY <1>2, BrowserShape, SidecarShape, RefreshShape DEF Others, Passes
  <1>3. CASE BrowserStep(r)
    <2>1. CASE Send(r)
      <3>1. PICK k \in Kind, a \in {None, now} :
               req' = [req EXCEPT ![r] = [Quiet EXCEPT !.pc = "sent", !.kind = k, !.with = jar, !.at = a]]
        BY <2>1 DEF Send
      <3>2. req'[r].as = None
        BY <1>0, <3>1, QuietIs DEF TypeOK, Quiet
      <3>3. QED
        BY <3>2 DEF Passes
    <2>2. CASE Deliver(r)
      <3>1. req'[r] = IF req[r].nonce # None THEN [Quiet EXCEPT !.pc = "atAuth", !.nonce = req[r].nonce]
                                             ELSE Quiet
        BY <1>0, <2>2 DEF Deliver, TypeOK
      <3>2. QED
        BY <3>1 DEF Quiet, Passes
    <2>3. CASE Abandon(r)
      BY <1>0, <2>3, AbandonIs, QuietIs DEF Passes
    <2>4. CASE SignIn(r)
      BY <1>0, <2>4, SignInIs DEF Passes
    <2>5. CASE Return(r)
      BY <1>0, <2>5 DEF Return, TypeOK, Request, Passes
    <2>6. CASE SendCallback(r)
      BY <1>0, <2>6 DEF SendCallback, TypeOK, Request, Passes
    <2>7. QED
      BY <1>3, <2>1, <2>2, <2>3, <2>4, <2>5, <2>6 DEF BrowserStep
  <1>4. CASE SidecarStep(r)
    <2>1. \A c : Answer(r, c).as = None
      BY DEF Answer, Quiet
    <2>2. CASE Logout(r) \/ CallbackRefused(r) \/ CallbackFailed(r) \/ CallbackAccepted(r)
      <3>1. PICK c : req' = [req EXCEPT ![r] = Answer(r, c)]
        BY <2>2 DEF Logout, CallbackRefused, CallbackFailed, CallbackAccepted
      <3>2. req'[r].as = None
        BY <1>0, <2>1, <3>1 DEF TypeOK
      <3>3. QED
        BY <3>2 DEF Passes
    <2>3. CASE NoSession(r) \/ RefreshFailed(r) \/ RefreshTimeout(r)
      BY <1>0, <2>3, LoginIs DEF Passes
    <2>4. CASE StartRefresh(r)
      BY <1>0, <2>4 DEF StartRefresh, TypeOK, Request, Passes
    <2>5. QED
      BY <1>4, <2>2, <2>3, <2>4 DEF SidecarStep
  <1>5. QED
    BY <1>1, <1>2, <1>3, <1>4, StepCases, RefreshShape

\* What is passed was true at most one life of an access token ago.
LEMMA PassesAreTrue ==
    ASSUME IInv, Next, NEW r \in Exchange, Passes(r)
    PROVE  LET a == req'[r].as IN
           /\ HadSince(a.sub, a.role, now - AccessTtl)
           /\ \E ro \in Role : HadSince(a.sub, ro, now - AccessTtl - CodeTtl)
  <1> DEFINE a == req'[r].as
  <1>0. Sane /\ TypeOK /\ ShapeInv(r) /\ TruthInv
    BY DEF IInv, Sane
  <1>1. a \in Access /\ Truthful(a) /\ now <= a.exp
    <2>1. CASE PassFresh(r)
      <3>1. a = req[r].with.session.access /\ req[r].with.session \in Session
        BY <1>0, <2>1, PassFreshIs
      <3>2. a \in Access /\ Truthful(a)
        BY <1>0, <3>1 DEF Session, TruthInv, TruthfulSession
      <3>3. ~(a.exp - now < RefreshSkew)
        BY <2>1, <3>1 DEF PassFresh, NeedsRefresh
      <3> HIDE DEF a
      <3>4. now <= a.exp
        BY <1>0, <3>2, <3>3, TimesAssumption DEF Access, TypeOK, Time
      <3>5. QED
        BY <3>2, <3>4
    <2>2. CASE PassRefreshed(r)
      <3>1. a = call[r].access /\ a \in Access
        BY <1>0, <2>2, PassRefreshedIs
      <3>2. Truthful(a) /\ a.exp > now
        BY <1>0, <2>2, <3>1 DEF TruthInv, PassRefreshed, Verified
      <3> HIDE DEF a
      <3>3. now <= a.exp
        BY <1>0, <3>1, <3>2 DEF Access, TypeOK, Time
      <3>4. QED
        BY <3>1, <3>2, <3>3
    <2>3. QED
      BY <1>0, <2>1, <2>2, PassesOnly
  <1> HIDE DEF a
  <1>2. a.sub \in User /\ a.role \in Role \cup {None} /\ a.exp \in Int
    BY <1>1 DEF Access
  <1>3. ASSUME NEW ro \in Role \cup {None}, NEW t \in Int, NEW k \in Int, k <= t, HadSince(a.sub, ro, t)
        PROVE  HadSince(a.sub, ro, k)
    <2>1. past[a.sub][ro] # None => past[a.sub][ro] \in Int
      BY <1>0, <1>2 DEF TypeOK, Time
    <2>2. QED
      BY <1>3, <2>1 DEF HadSince
  <1>4. /\ now \in Int /\ AccessTtl \in Nat /\ CodeTtl \in Nat
    BY <1>0, TimesAssumption DEF TypeOK, Time
  <1>5. HadSince(a.sub, a.role, now - AccessTtl)
    <2>1. HadSince(a.sub, a.role, a.exp - AccessTtl)
      BY <1>1 DEF Truthful
    <2>2. /\ a.exp - AccessTtl \in Int /\ now - AccessTtl \in Int
          /\ now - AccessTtl <= a.exp - AccessTtl
      BY <1>1, <1>2, <1>4
    <2>3. QED
      BY <1>2, <1>3, <2>1, <2>2
  <1>6. \E ro \in Role : HadSince(a.sub, ro, now - AccessTtl - CodeTtl)
    <2>1. PICK ro \in Role : HadSince(a.sub, ro, a.exp - AccessTtl - CodeTtl)
      BY <1>1 DEF Truthful
    <2>2. /\ a.exp - AccessTtl - CodeTtl \in Int /\ now - AccessTtl - CodeTtl \in Int
          /\ now - AccessTtl - CodeTtl <= a.exp - AccessTtl - CodeTtl
      BY <1>1, <1>2, <1>4
    <2>3. QED
      BY <1>3, <2>1, <2>2
  <1>7. QED
    BY <1>5, <1>6 DEF a

\* The app is told a role that the user had at most one life of an access token
\* ago (app.ts:249, internal.router.ts:62-70).
THEOREM RolesAreRecent == Spec => RoleIsRecent
  <1>1. IInv /\ [Next]_vars =>
          [\A r \in Exchange : Passes(r) =>
             LET a == req'[r].as IN HadSince(a.sub, a.role, now - AccessTtl)]_vars
    BY PassesAreTrue
  <1>2. QED
    BY <1>1, Invariance, PTL DEF Spec, RoleIsRecent

\* A user without access is kept out after one life of an access token and one
\* of a code (app.ts:238-261, internal.router.ts:36-51): what is passed is of a user
\* who had some role since then.
THEOREM RevokedAreOut == Spec => RevokedIsOut
  <1>1. IInv /\ [Next]_vars =>
          [\A r \in Exchange : Passes(r) =>
             \E ro \in Role : HadSince(req'[r].as.sub, ro, now - AccessTtl - CodeTtl)]_vars
    BY PassesAreTrue
  <1>2. QED
    BY <1>1, Invariance, PTL DEF Spec, RevokedIsOut

-----------------------------------------------------------------------------
(* The refresh tokens of this module are those of RefreshTokens. *)

\* The deadline of a row is a time, and the row is honoured up to it.
LEMMA DeadlineIsExact ==
    ASSUME NEW row \in Row
    PROVE  /\ Deadline(row) \in Int /\ Deadline(row) <= row.lapse
           /\ row.usedAt # None => Deadline(row) <= row.usedAt + Grace
           /\ \A n \in Int : n <= Deadline(row) <=>
                 n <= row.lapse /\ (row.usedAt # None => n <= row.usedAt + Grace)
  <1>1. row.lapse \in Int /\ Grace \in Int /\ (row.usedAt = None \/ row.usedAt \in Int)
    BY TimesAssumption DEF Row
  <1>2. CASE row.usedAt = None
    BY <1>1, <1>2 DEF Deadline
  <1>3. CASE row.usedAt # None
    BY <1>1, <1>3 DEF Deadline
  <1>4. QED
    BY <1>2, <1>3

\* A good token is a record, never None.
LEMMA GoodTokenIs ==
    ASSUME TypeOK, NEW t \in Token
    PROVE  /\ GoodToken(t) # None <=>
                 store[t] # None /\ ~store[t].ended /\ now <= Deadline(store[t])
           /\ GoodToken(t) # None =>
                 /\ GoodToken(t).user = store[t].user
                 /\ GoodToken(t).client = "app"
                 /\ GoodToken(t).until = Deadline(store[t])
                 /\ GoodToken(t).used = (store[t].usedAt # None)
  <1>1. now \in Int /\ (store[t] = None \/ store[t] \in Row)
    BY TimesAssumption DEF TypeOK, Time
  <1>2. t # None
    BY ValuesAssumption
  <1>3. CASE store[t] # None
    <2>1. Good(t) <=> ~store[t].ended /\ now <= Deadline(store[t])
      BY <1>1, <1>2, <1>3, DeadlineIsExact DEF Good
    <2>2. [user |-> store[t].user, client |-> "app", until |-> Deadline(store[t]),
           used |-> store[t].usedAt # None] # None
      <3>1. Deadline(store[t]) \in Int /\ store[t].user \in User
        BY <1>1, <1>3, DeadlineIsExact DEF Row
      <3>2. (store[t].usedAt # None) \in BOOLEAN
        OBVIOUS
      <3>3. [user |-> store[t].user, client |-> "app", until |-> Deadline(store[t]),
             used |-> store[t].usedAt # None]
               \in [user : User, client : {"app"}, until : Int, used : BOOLEAN]
        BY <3>1, <3>2
      <3>4. QED
        BY <3>3, MarksAssumption
    <2>3. QED
      BY <1>3, <2>1, <2>2 DEF GoodToken
  <1>4. CASE store[t] = None
    BY <1>4 DEF GoodToken
  <1>5. QED
    BY <1>3, <1>4

\* A row that stays what it is at the same time means what it meant.
LEMMA SameRow ==
    ASSUME NEW t \in Token, store'[t] = store[t], now' = now
    PROVE  GoodToken(t)' = GoodToken(t)
  BY DEF GoodToken, Good, Deadline

\* The row of a fresh token.
LEMMA FreshRowHas ==
    ASSUME TypeOK, NEW u \in User
    PROVE  /\ FreshRow(u) \in Row /\ FreshRow(u) # None
           /\ FreshRow(u).user = u /\ FreshRow(u).lapse = now + RefreshTtl
           /\ FreshRow(u).usedAt = None /\ ~FreshRow(u).ended
  <1>0. now \in Int /\ RefreshTtl \in Int
    BY TimesAssumption DEF TypeOK, Time
  <1>1. now + RefreshTtl \in Int
    BY <1>0
  <1>2. FreshRow(u) = [user |-> u, lapse |-> now + RefreshTtl, usedAt |-> None, ended |-> FALSE]
    BY DEF FreshRow
  <1>3. FreshRow(u) \in Row
    BY <1>1, <1>2 DEF Row
  <1>4. FreshRow(u) # None
    BY <1>3, MarksAssumption
  <1>5. QED
    BY <1>2, <1>3, <1>4

\* The initial state is that of RefreshTokens.
LEMMA AbsInit == Init => Abs!Init
  BY DEF Init, Abs!Init, GoodToken

\* A step that leaves the clock and the rows alone is invisible.
LEMMA AbsStutter ==
    ASSUME UNCHANGED <<now, store>>
    PROVE  UNCHANGED Abs!vars
  BY SameRow DEF Abs!vars

\* With the clock go exactly the tokens whose deadline it passes.
LEMMA AbsTick ==
    ASSUME TypeOK, TypeOK', now' = now + 1, store' = store
    PROVE  Abs!Tick
  <1>1. ASSUME NEW t \in Token
        PROVE  GoodToken(t)' = IF GoodToken(t) # None /\ GoodToken(t).until >= now + 1
                               THEN GoodToken(t) ELSE None
    <2>1. now \in Int /\ (store[t] = None \/ store[t] \in Row)
      BY TimesAssumption DEF TypeOK, Time
    <2>2. CASE store[t] = None
      BY <2>2 DEF GoodToken
    <2>3. CASE store[t] # None
      <3>1. /\ Deadline(store[t]) \in Int /\ t # None
            /\ \A n \in Int : n <= Deadline(store[t]) <=>
                  /\ n <= store[t].lapse
                  /\ store[t].usedAt # None => n <= store[t].usedAt + Grace
        BY <2>1, <2>3, DeadlineIsExact, ValuesAssumption
      <3>2. Good(t)' <=> ~store[t].ended /\ now + 1 <= Deadline(store[t])
        BY <2>1, <3>1 DEF Good
      <3>3. Good(t) <=> ~store[t].ended /\ now <= Deadline(store[t])
        BY <2>1, <3>1 DEF Good
      <3>4. Deadline(store[t])' = Deadline(store[t])
        BY DEF Deadline
      <3>5. GoodToken(t) # None <=> Good(t)
        BY <2>3, <3>3, GoodTokenIs
      <3>6. GoodToken(t) # None => GoodToken(t).until = Deadline(store[t])
        BY GoodTokenIs
      <3>7. GoodToken(t)' = IF Good(t)' THEN GoodToken(t) ELSE None
        BY <2>1, <2>3, <3>1, <3>2, <3>3, <3>4 DEF GoodToken
      <3>8. QED
        BY <2>1, <3>1, <3>2, <3>3, <3>5, <3>6, <3>7
    <2>4. QED
      BY <2>2, <2>3
  <1>2. QED
    BY <1>1 DEF Abs!Tick

\* A login hands out a fresh token.
LEMMA AbsIssue ==
    ASSUME TypeOK, TypeOK', NEW u \in User, NEW t \in Unissued,
           store' = [store EXCEPT ![t] = FreshRow(u)], now' = now
    PROVE  \E c \in {"app"} : Abs!Issue(t, u, c)
  <1>1. /\ t \in Token /\ store[t] = None
        /\ store'[t] = FreshRow(u) /\ \A o \in Token \ {t} : store'[o] = store[o]
    BY DEF Unissued, TypeOK
  <1>2. \A o \in Token \ {t} : GoodToken(o)' = GoodToken(o)
    BY <1>1, SameRow
  <1>f. /\ store'[t] # None /\ store'[t].user = u /\ store'[t].lapse = now + RefreshTtl
        /\ store'[t].usedAt = None /\ ~store'[t].ended
    <2>1. /\ FreshRow(u) # None /\ FreshRow(u).user = u /\ FreshRow(u).lapse = now + RefreshTtl
          /\ FreshRow(u).usedAt = None /\ ~FreshRow(u).ended
      BY FreshRowHas
    <2>2. QED
      BY <1>1, <2>1
  <1>3. GoodToken(t)' = [user |-> u, client |-> "app", until |-> now + RefreshTtl, used |-> FALSE]
    <2>1. now \in Int /\ RefreshTtl \in Nat /\ t # None
      BY <1>1, TimesAssumption, ValuesAssumption DEF TypeOK, Time
    <2>2. Deadline(store[t])' = now + RefreshTtl
      BY <1>f DEF Deadline
    <2>3. Good(t)'
      BY <1>f, <2>1 DEF Good
    <2>4. QED
      BY <1>f, <2>2, <2>3 DEF GoodToken
  <1>4. {o \in Token : store'[o] # None} = {o \in Token : store[o] # None} \cup {t}
    BY <1>1, <1>f
  <1>5. {o \in Token : store'[o] # None /\ store'[o].ended}
           = {o \in Token : store[o] # None /\ store[o].ended}
    BY <1>1, <1>f
  <1>6. QED
    BY <1>1, <1>2, <1>3, <1>4, <1>5 DEF Abs!Issue

\* A rotation is a refresh that is admitted and answered in one moment.
LEMMA AbsServe ==
    ASSUME TypeOK, TypeOK', NEW t \in Token, store[t] # None, Good(t), NEW s \in Unissued,
           store' = [store EXCEPT ![t] = Stamped(@), ![s] = FreshRow(store[t].user)],
           now' = now
    PROVE  Abs!Serve(t, s)
  <1> DEFINE u == store[t].user
             r == Stamped(store[t])
  <1>0. /\ store[t] \in Row /\ u \in User /\ now \in Int /\ now \in Time
        /\ RefreshTtl \in Nat /\ Grace \in Nat /\ t # None /\ s # None
    BY TimesAssumption, ValuesAssumption DEF TypeOK, Time, Row, Unissued
  <1>1. s \in Token /\ store[s] = None /\ s # t
    BY DEF Unissued
  <1>2. /\ store'[t] = r /\ store'[s] = FreshRow(u)
        /\ \A o \in Token \ {s, t} : store'[o] = store[o]
    BY <1>1 DEF TypeOK
  <1>3. /\ r \in Row /\ r # None /\ r.user = u /\ r.lapse = store[t].lapse
        /\ r.ended = store[t].ended /\ r.usedAt # None
        /\ r.usedAt = IF store[t].usedAt = None THEN now ELSE store[t].usedAt
    <2>1. now # None
      BY <1>0, MarksAssumption DEF Time
    <2>2. QED
      BY <1>0, <2>1, MarksAssumption DEF Stamped, Row
  <1>4. \A o \in Token \ {s, t} : GoodToken(o)' = GoodToken(o)
    BY <1>2, SameRow
  <1>5. /\ GoodToken(t) # None /\ GoodToken(t).user = u /\ GoodToken(t).client = "app"
        /\ GoodToken(t).until = Deadline(store[t])
        /\ GoodToken(t).used = (store[t].usedAt # None)
        /\ ~store[t].ended /\ now <= Deadline(store[t])
    <2>1. ~store[t].ended /\ now <= Deadline(store[t])
      BY <1>0, DeadlineIsExact DEF Good
    <2>2. QED
      BY <2>1, GoodTokenIs
  <1>6. /\ GoodToken(s)' # None => GoodToken(s)'.user = FreshRow(u).user
        /\ GoodToken(s)' # None => GoodToken(s)'.client = "app"
        /\ GoodToken(s)' # None => GoodToken(s)'.until = Deadline(FreshRow(u))
        /\ GoodToken(s)' # None => GoodToken(s)'.used = (FreshRow(u).usedAt # None)
    BY <1>1, <1>2 DEF GoodToken, Deadline
  <1>7. Deadline(FreshRow(u)) = now + RefreshTtl /\ FreshRow(u).user = u /\ FreshRow(u).usedAt = None
    <2>1. FreshRow(u).usedAt = None /\ FreshRow(u).lapse = now + RefreshTtl /\ FreshRow(u).user = u
      BY <1>0, FreshRowHas
    <2>2. QED
      BY <2>1 DEF Deadline
  <1>8. /\ GoodToken(t)' # None => GoodToken(t)'.user = r.user
        /\ GoodToken(t)' # None => GoodToken(t)'.client = "app"
        /\ GoodToken(t)' # None => GoodToken(t)'.until = Deadline(r)
        /\ GoodToken(t)' # None => GoodToken(t)'.used = (r.usedAt # None)
    BY <1>1, <1>2 DEF GoodToken, Deadline
  <1>9. Deadline(store[t]) \in Int /\ Deadline(r) \in Int
    BY <1>0, <1>3, DeadlineIsExact
  <1> HIDE DEF u, r
  <1>10. \/ GoodToken(t)' = GoodToken(t) /\ GoodToken(t).used
         \/ /\ ~GoodToken(t).used
            /\ \/ GoodToken(t)' = None
               \/ /\ GoodToken(t)'.user = GoodToken(t).user
                  /\ GoodToken(t)'.client = GoodToken(t).client
                  /\ GoodToken(t)'.used
                  /\ GoodToken(t)'.until <= GoodToken(t).until
                  /\ GoodToken(t)'.until <= now + Grace
    <2>1. CASE store[t].usedAt # None
      <3>1. r = store[t]
        <4>1. Stamped(store[t]) = [store[t] EXCEPT !.usedAt = store[t].usedAt]
          BY <2>1 DEF Stamped
        <4>2. QED
          BY <1>0, <4>1 DEF Row, r
      <3>2. GoodToken(t)' = GoodToken(t)
        BY <1>2, <3>1, SameRow
      <3>3. QED
        BY <1>5, <2>1, <3>2
    <2>2. CASE store[t].usedAt = None
      <3>1. ~GoodToken(t).used /\ Deadline(store[t]) = store[t].lapse
        BY <1>5, <2>2 DEF Deadline
      <3>2. r.usedAt = now
        BY <1>3, <2>2
      <3>3. Deadline(r) <= store[t].lapse /\ Deadline(r) <= now + Grace
        BY <1>3, <3>2, DeadlineIsExact
      <3>4. QED
        BY <1>3, <1>5, <1>8, <3>1, <3>3
    <2>3. QED
      BY <2>1, <2>2
  <1>11. \/ GoodToken(s)' = None
         \/ /\ GoodToken(s)'.user = u
            /\ GoodToken(s)'.client = "app"
            /\ GoodToken(s)'.until <= now + RefreshTtl
            /\ ~GoodToken(s)'.used
    <2>1. now + RefreshTtl <= now + RefreshTtl
      BY <1>0
    <2>2. QED
      BY <1>6, <1>7, <2>1
  <1>12. store'[s] # None /\ ~store'[s].ended
    <2>1. FreshRow(u) # None /\ ~FreshRow(u).ended
      BY <1>0, FreshRowHas
    <2>2. QED
      BY <1>2, <2>1
  <1>13. {o \in Token : store'[o] # None} = {o \in Token : store[o] # None} \cup {s}
    BY <1>1, <1>2, <1>3, <1>12
  <1>14. {o \in Token : store'[o] # None /\ store'[o].ended}
           = {o \in Token : store[o] # None /\ store[o].ended}
    BY <1>1, <1>2, <1>3, <1>12
  <1>15. [q \in Exchange |-> None]' = [q \in Exchange |-> None]
    OBVIOUS
  <1>16. s \notin {o \in Token : store[o] # None}
    BY <1>1
  <1>17. [o \in Token |-> GoodToken(o)][t] = GoodToken(t)
    OBVIOUS
  <1>18. PICK h \in {[token |-> t, user |-> GoodToken(t).user, client |-> GoodToken(t).client]} :
            h.token = t /\ h.user = u /\ h.client = "app"
    BY <1>5
  <1>19. Abs!HandOut(h, s)
    BY <1>1, <1>4, <1>5, <1>10, <1>11, <1>13, <1>14, <1>16, <1>18
       DEF Abs!HandOut, Abs!SuccessorOf, Abs!UsedUp
  <1>20. QED
    BY <1>5, <1>15, <1>17, <1>18, <1>19 DEF Abs!Serve

\* Tokens of one user are ended.
LEMMA AbsRevoke ==
    ASSUME TypeOK, NEW u \in User, NEW S \in SUBSET {t \in Token : store[t] # None},
           \A t \in S : store[t].user = u,
           store' = [t \in Token |-> IF t \in S THEN Ended(store[t]) ELSE store[t]],
           now' = now
    PROVE  Abs!Revoke(u, S)
  <1>1. /\ \A t \in S : t \in Token /\ store[t] # None /\ store[t] \in Row /\ store'[t] = Ended(store[t])
        /\ \A t \in Token \ S : store'[t] = store[t]
    BY DEF TypeOK
  <1>2. \A t \in S : store'[t] # None /\ store'[t].ended
    <2>1. \A t \in S : Ended(store[t]) \in Row /\ Ended(store[t]).ended
      BY <1>1, EndedIs
    <2>2. QED
      BY <1>1, <2>1, MarksAssumption
  <1>3. \A t \in S : GoodToken(t)' = None
    BY <1>2 DEF GoodToken, Good
  <1>4. \A t \in Token \ S : GoodToken(t)' = GoodToken(t)
    BY <1>1, SameRow
  <1>5. [t \in Token |-> GoodToken(t)]'
           = [t \in Token |-> IF t \in S THEN None ELSE [o \in Token |-> GoodToken(o)][t]]
    BY <1>3, <1>4
  <1>6. \A t \in S : GoodToken(t) # None => GoodToken(t).user = u
    BY <1>1, GoodTokenIs
  <1>7. {t \in Token : store'[t] # None} = {t \in Token : store[t] # None}
    BY <1>1, <1>2
  <1>8. {t \in Token : store'[t] # None /\ store'[t].ended}
           = {t \in Token : store[t] # None /\ store[t].ended} \cup S
    BY <1>1, <1>2
  <1>9. QED
    BY <1>1, <1>5, <1>6, <1>7, <1>8 DEF Abs!Revoke

\* Every step is one of RefreshTokens or leaves it alone.
LEMMA AbsStep == IInv /\ [Next]_vars => [Abs!Next]_(Abs!vars)
  <1> SUFFICES ASSUME IInv, [Next]_vars
               PROVE  [Abs!Next]_(Abs!vars)
    OBVIOUS
  <1>0. TypeOK /\ TypeOK'
    BY NextIInv DEF IInv
  <1>1. CASE Tick
    BY <1>0, <1>1, AbsTick DEF Tick, Abs!Next
  <1>2. ASSUME NEW r \in Exchange, SignIn(r)
        PROVE  Abs!Next
    <2>1. PICK u \in User, t \in Unissued : store' = [store EXCEPT ![t] = FreshRow(u)]
      BY <1>2 DEF SignIn
    <2>2. now' = now /\ t \in Token
      BY <1>2 DEF SignIn, Unissued
    <2>3. \E c \in {"app"} : Abs!Issue(t, u, c)
      BY <1>0, <2>1, <2>2, AbsIssue
    <2>4. QED
      BY <2>2, <2>3 DEF Abs!Next
  <1>3. ASSUME NEW r \in Exchange, Rotate(r)
        PROVE  Abs!Next
    <2>1. PICK s \in Unissued :
             store' = [store EXCEPT ![call[r].token] = Stamped(@),
                                    ![s] = FreshRow(store[call[r].token].user)]
      BY <1>3 DEF Rotate
    <2>2. /\ now' = now /\ s \in Token /\ Good(call[r].token)
          /\ call[r].token \in Token /\ store[call[r].token] # None
      BY <1>0, <1>3 DEF Rotate, Unissued, Good, IInv, KnownInv, Known, TypeOK, Call
    <2>3. PICK t \in Token : t = call[r].token
      BY <2>2
    <2>4. Abs!Serve(t, s)
      BY <1>0, <2>1, <2>2, <2>3, AbsServe
    <2>5. QED
      BY <2>2, <2>4 DEF Abs!Next
  <1>4. ASSUME NEW r \in Exchange, Expel(r)
        PROVE  Abs!Next
    <2>1. /\ call[r].succ \in Token /\ store[call[r].succ] # None /\ now' = now
          /\ store' = [store EXCEPT ![call[r].succ] = Ended(@)]
      BY <1>4 DEF Expel, IInv, ShapeInv, KnownInv, Known
    <2>2. PICK t \in Token : t = call[r].succ
      BY <2>1
    <2>3. store[t] \in Row
      BY <1>0, <2>1, <2>2 DEF TypeOK
    <2>4. PICK u \in User : u = store[t].user
      BY <2>3 DEF Row
    <2>5. store' = [o \in Token |-> IF o \in {t} THEN Ended(store[o]) ELSE store[o]]
      BY <1>0, <2>1, <2>2 DEF TypeOK
    <2>6. {t} \in SUBSET {o \in Token : store[o] # None}
      BY <2>1, <2>2
    <2>7. Abs!Revoke(u, {t})
      BY <1>0, <2>1, <2>4, <2>5, <2>6, AbsRevoke
    <2>8. QED
      BY <2>6, <2>7 DEF Abs!Next
  <1>5. ASSUME NEW u \in User, Reset(u)
        PROVE  Abs!Next
    <2>1. PICK S \in SUBSET {t \in Token : store[t] # None} :
             S = {t \in Token : store[t] # None /\ store[t].user = u}
      OBVIOUS
    <2>2. /\ now' = now
          /\ \A t \in S : store[t].user = u
          /\ store' = [t \in Token |-> IF t \in S THEN Ended(store[t]) ELSE store[t]]
      BY <1>5, <2>1 DEF Reset
    <2>3. Abs!Revoke(u, S)
      BY <1>0, <2>2, AbsRevoke
    <2>4. QED
      BY <2>3 DEF Abs!Next
  <1>6. ASSUME NEW r \in Exchange,
               \/ Send(r) \/ Deliver(r) \/ Abandon(r) \/ Return(r) \/ SendCallback(r)
               \/ SidecarStep(r)
               \/ Refuse(r) \/ Admit(r) \/ CallFails(r)
        PROVE  UNCHANGED <<now, store>>
    BY <1>6 DEF Send, Deliver, Abandon, Return, SendCallback, SidecarStep, Logout, NoSession,
                PassFresh, StartRefresh, PassRefreshed, RefreshFailed, RefreshTimeout,
                CallbackRefused, CallbackAccepted, CallbackFailed, Refuse, Admit, CallFails
  <1>7. CASE \E u \in User : SetRole(u)
    BY <1>7, AbsStutter DEF SetRole
  <1>8. CASE UNCHANGED vars
    BY <1>8, AbsStutter DEF vars
  <1>9. CASE \E r \in Exchange : BrowserStep(r) \/ SidecarStep(r) \/ RefreshStep(r)
    BY <1>9, <1>2, <1>3, <1>4, <1>6, AbsStutter DEF BrowserStep, RefreshStep
  <1>10. QED
    BY <1>1, <1>5, <1>7, <1>8, <1>9 DEF Next

\* What the sidecar is proved against of homectl-auth is what the session module
\* promises: its refresh tokens, with their rotation, admission and reset, are those
\* of RefreshTokens, which SessionStore implements.
THEOREM HomectlAuthAsPromised == Spec => ImplementsRefreshTokens
  BY AbsInit, AbsStep, Invariance, PTL DEF Spec, ImplementsRefreshTokens, Abs!Spec

-----------------------------------------------------------------------------
(* Logged out. *)

\* No session is around of which the browser could get hold.
LEMMA NoneIsLeft ==
    ASSUME TypeOK, Sessions = {}
    PROVE  /\ jar.session = None
           /\ \A r \in Exchange :
                 req[r].with.session = None /\ req[r].new.session \in {None, Keep}
  <1>1. Keep # None /\ Keep \notin Session
    BY ValuesAssumption, MarksAssumption
  <1>2. jar.session \in {None, Keep} /\ jar.session \in Session \cup {None}
    BY DEF Sessions, TypeOK, Jar
  <1>3. ASSUME NEW r \in Exchange
        PROVE  req[r].with.session = None /\ req[r].new.session \in {None, Keep}
    <2>1. req[r].with.session \in {None, Keep} /\ req[r].new.session \in {None, Keep}
      BY DEF Sessions
    <2>2. req[r].with.session \in Session \cup {None}
      BY DEF TypeOK, Request, Jar
    <2>3. QED
      BY <1>1, <2>1, <2>2
  <1>4. QED
    BY <1>1, <1>2, <1>3

\* What is to be shown of the exchange that a step moves.
Out(r) == req'[r].with.session = None /\ req'[r].new.session \in {None, Keep}

LEMMA AnsweredOut ==
    ASSUME NEW r \in Exchange, NEW n, NEW c, Answered(r, c, n), c.session \in {None, Keep}
    PROVE  Out(r)
  BY KeepAllSets DEF Answered, Out

LEMMA BrowserOut ==
    ASSUME Sane, Sessions = {}, NEW r \in Exchange, BrowserStep(r)
    PROVE  Out(r) /\ jar'.session = None
  <1>0. TypeOK
    BY DEF Sane
  <1>1. /\ jar.session = None
        /\ req[r].with.session = None /\ req[r].new.session \in {None, Keep}
    BY <1>0, NoneIsLeft
  <1>2. CASE Send(r)
    <2>1. req'[r].with = jar /\ Plain(r) /\ jar' = jar
      BY <1>0, <1>2, SendIs DEF Send
    <2>2. QED
      BY <1>1, <2>1, KeepAllSets DEF Out, Plain
  <1>3. CASE Deliver(r)
    BY <1>0, <1>1, <1>3, DeliverIs, KeepAllSets DEF Out
  <1>4. CASE Abandon(r)
    <2>1. jar' = jar
      BY <1>4 DEF Abandon
    <2>2. QED
      BY <1>0, <1>1, <1>4, <2>1, AbandonIs, QuietIs, KeepAllSets DEF Out
  <1>5. CASE SignIn(r)
    <2>1. jar' = jar /\ req'[r].with = req[r].with /\ req'[r].new.session = Keep
      BY <1>0, <1>5, SignInIs DEF SignIn
    <2>2. QED
      BY <1>1, <2>1 DEF Out
  <1>6. CASE Return(r)
    BY <1>0, <1>1, <1>6, ReturnIs, KeepAllSets DEF Out
  <1>7. CASE SendCallback(r)
    <2>1. jar' = jar /\ req'[r].with = jar /\ req'[r].new = req[r].new
      BY <1>0, <1>7, SendCallbackIs DEF SendCallback
    <2>2. QED
      BY <1>1, <2>1 DEF Out
  <1>8. QED
    BY <1>2, <1>3, <1>4, <1>5, <1>6, <1>7 DEF BrowserStep

\* A refresh is under way only for a request that carries its session.
LEMMA SidecarOut ==
    ASSUME Sane, Sessions = {}, NEW r \in Exchange, SidecarStep(r), ~CallbackAccepted(r)
    PROVE  Out(r)
  <1>0. TypeOK /\ ShapeInv(r) /\ None \notin Session
    BY MarksAssumption DEF Sane
  <1>1. req[r].with.session = None /\ req[r].new.session \in {None, Keep}
    BY <1>0, NoneIsLeft
  <1>2. CASE Logout(r)
    BY <1>0, <1>2, LogoutIs, AnsweredOut
  <1>3. CASE NoSession(r) \/ RefreshFailed(r) \/ RefreshTimeout(r)
    <2>1. PICK n \in Nonce \cup {None}, c \in SetCookies :
              /\ Answered(r, c, n) /\ c.session = IF NoSession(r) THEN Keep ELSE None
      BY <1>0, <1>3, LoginIs
    <2>2. c.session \in {None, Keep}
      BY <2>1
    <2>3. QED
      BY <2>1, <2>2, AnsweredOut
  <1>4. CASE PassFresh(r)
    BY <1>1, <1>4 DEF PassFresh
  <1>5. CASE StartRefresh(r)
    BY <1>1, <1>5 DEF StartRefresh
  <1>6. CASE PassRefreshed(r)
    BY <1>0, <1>1, <1>6 DEF PassRefreshed, ShapeInv
  <1>7. CASE CallbackRefused(r) \/ CallbackFailed(r)
    BY <1>0, <1>7, CallbackEndsIs, AnsweredOut
  <1>8. QED
    BY <1>2, <1>3, <1>4, <1>5, <1>6, <1>7 DEF SidecarStep

LEMMA OutStep ==
    ASSUME Sane, Sessions = {}, Next, \A r \in Exchange : ~CallbackAccepted(r)
    PROVE  Sessions' = {}
  <1>0. /\ jar.session = None
        /\ \A r \in Exchange :
              req[r].with.session = None /\ req[r].new.session \in {None, Keep}
    BY NoneIsLeft DEF Sane
  <1>1. ASSUME jar'.session = None,
               \A r \in Exchange : Out(r)
        PROVE  Sessions' = {}
    BY <1>1 DEF Sessions, Out
  <1>2. CASE Elsewhere
    BY <1>0, <1>1, <1>2, ElsewhereIs DEF Out
  <1>3. ASSUME NEW r \in Exchange, Out(r), Others(r), jar'.session = None
        PROVE  Sessions' = {}
    BY <1>0, <1>1, <1>3 DEF Others, Out
  <1>4. ASSUME NEW r \in Exchange, BrowserStep(r)
        PROVE  Sessions' = {}
    BY <1>3, <1>4, BrowserOut, BrowserShape
  <1>5. ASSUME NEW r \in Exchange, SidecarStep(r)
        PROVE  Sessions' = {}
    <2>1. jar' = jar
      BY <1>5 DEF SidecarStep, Logout, NoSession, PassFresh, StartRefresh, PassRefreshed,
                  RefreshFailed, RefreshTimeout, CallbackRefused, CallbackAccepted, CallbackFailed
    <2>2. QED
      BY <1>0, <1>3, <1>5, <2>1, SidecarOut, SidecarShape
  <1>6. ASSUME NEW r \in Exchange, RefreshStep(r)
        PROVE  Sessions' = {}
    <2>1. jar' = jar
      BY <1>6 DEF RefreshStep, Refuse, Rotate, Admit, Expel, CallFails
    <2>2. req' = req
      BY <1>6, RefreshShape
    <2>3. QED
      BY <1>0, <1>1, <2>1, <2>2 DEF Out
  <1>7. QED
    BY <1>2, <1>4, <1>5, <1>6, StepCases

\* A logout is final once what was under way has been answered: from then on only
\* the callback of a login puts a session into the browser.
THEOREM LogoutLasts == Spec => LoggedOutIsOut
  <1>1. IInv /\ [Next]_vars
          => [Sessions = {} => Sessions' = {} \/ \E r \in Exchange : CallbackAccepted(r)]_vars
    <2> SUFFICES ASSUME IInv, Next, Sessions = {}, \A r \in Exchange : ~CallbackAccepted(r)
                 PROVE  Sessions' = {}
      OBVIOUS
    <2>1. Sane
      BY DEF IInv, Sane
    <2>2. QED
      BY <2>1, OutStep
  <1>2. QED
    BY <1>1, Invariance, PTL DEF Spec, LoggedOutIsOut

=============================================================================
