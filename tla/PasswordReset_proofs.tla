------------------------ MODULE PasswordReset_proofs -------------------------
(***************************************************************************)
(* Theorems about PasswordReset for every number of tokens, users,         *)
(* redemptions and browsers.                                               *)
(***************************************************************************)
EXTENDS PasswordReset, TLAPS

\* The initial state satisfies every part of the invariant.
LEMMA InitCore == Init => CoreInv
BY NullAssumption
   DEF Init, CoreInv, TypeOK, RedInv, SignInInv, IssuedInv, OldPasswordsAreOut,
       NoRed, Red, NoSignIn, SignIn, Password

\* A redemption that moves from x to y, neither of them "updated", and a table
\* that gains at most an issued row: nothing happens to passwords and sessions.
LEMMA RedeemMoveCore ==
    ASSUME CoreInv, NEW r \in Redeem, NEW y \in Red,
           red' = [red EXCEPT ![r] = y],
           red[r].pc # "updated",
           y.pc # "idle" => y.token \in Token,
           y.pc \notin {"idle", "begun"} => y.row \in Row /\ y.token \in issued,
           tokens' \in [Token -> Row \cup {Null}],
           \A t \in Token : tokens'[t] # Null => tokens[t] # Null,
           UNCHANGED <<now, issued, pw, sso, signin, sessions, halfway>>
    PROVE  CoreInv'
<1>0. TypeOK /\ RedInv /\ SignInInv /\ IssuedInv /\ OldPasswordsAreOut
  BY DEF CoreInv
<1>1. TypeOK'
  BY <1>0 DEF TypeOK
<1>2. RedInv' /\ IssuedInv'
  BY <1>0 DEF RedInv, IssuedInv, TypeOK
<1>3. \A u \in User : Unfinished(u) => Unfinished(u)'
  BY <1>0 DEF Unfinished, TypeOK
<1>4. SignInInv'
  BY <1>0, <1>3 DEF SignInInv
<1>5. OldPasswordsAreOut'
  BY <1>0, <1>3 DEF OldPasswordsAreOut, TypeOK, Session
<1> QED BY <1>1, <1>2, <1>4, <1>5 DEF CoreInv

\* updatePasswordHash makes the reset unfinished, which excuses what is open.
LEMMA RedeemUpdateCore ==
    ASSUME CoreInv, NEW r \in Redeem, RedeemUpdate(r)
    PROVE  CoreInv'
<1>0. TypeOK /\ RedInv /\ SignInInv /\ IssuedInv /\ OldPasswordsAreOut
  BY DEF CoreInv
<1>a. red[r].pc = "consumed" /\ red[r] \in Red /\ red[r].token \in Token
      /\ red[r].row \in Row /\ red[r].token \in issued
  BY <1>0 DEF RedeemUpdate, TypeOK, RedInv
<1>b. PICK u \in User, t \in Token : u = red[r].row.user /\ t = red[r].token
  BY <1>a DEF Row
<1>c. PICK y \in Red : y = [red[r] EXCEPT !.pc = "updated"]
  BY <1>a DEF Red
<1>d. y.pc = "updated" /\ y.token = t /\ y.row = red[r].row
  BY <1>a, <1>b, <1>c DEF Red
<1>e. /\ red' = [red EXCEPT ![r] = y] /\ pw' = [pw EXCEPT ![u] = t]
      /\ UNCHANGED <<now, tokens, issued, sso, signin, sessions, halfway>>
  BY <1>b, <1>c DEF RedeemUpdate
<1>1. TypeOK'
  BY <1>0, <1>e DEF TypeOK, Password
<1>2. RedInv' /\ IssuedInv'
  BY <1>0, <1>a, <1>b, <1>d, <1>e DEF RedInv, IssuedInv, TypeOK
<1>3. Unfinished(u)' /\ \A v \in User : Unfinished(v) => Unfinished(v)'
  BY <1>0, <1>a, <1>b, <1>d, <1>e DEF Unfinished, TypeOK
<1>4. SignInInv'
  BY <1>0, <1>3, <1>e DEF SignInInv, TypeOK
<1>5. OldPasswordsAreOut'
  BY <1>0, <1>3, <1>e DEF OldPasswordsAreOut, TypeOK, Session
<1> QED BY <1>1, <1>2, <1>4, <1>5 DEF CoreInv

\* deleteAllSessionsForUser leaves no session of the user, and marks the
\* sign-ins it overtook.
LEMMA RedeemRevokeCore ==
    ASSUME CoreInv, NEW r \in Redeem, RedeemRevoke(r)
    PROVE  CoreInv'
<1>0. TypeOK /\ RedInv /\ SignInInv /\ IssuedInv /\ OldPasswordsAreOut
  BY DEF CoreInv
<1>a. PICK u \in User : u = red[r].row.user
  BY <1>0 DEF RedeemRevoke, RedInv, Row
<1>b. /\ sessions' = sessions \ {s \in sessions : s.user = u}
      /\ signin' = [b \in Browser |-> IF signin[b].user = u
                      THEN [signin[b] EXCEPT !.late = TRUE] ELSE signin[b]]
      /\ halfway' = halfway \ {u} /\ red' = [red EXCEPT ![r] = NoRed]
      /\ UNCHANGED <<now, tokens, issued, pw, sso>>
  BY <1>a DEF RedeemRevoke, Ended
<1>c. NoRed \in Red /\ NoRed.pc = "idle"
  BY DEF NoRed, Red, Password
<1>d. \A b \in Browser :
        /\ signin'[b] \in SignIn /\ signin'[b].pc = signin[b].pc
        /\ signin'[b].user = signin[b].user /\ signin'[b].proved = signin[b].proved
        /\ signin[b].user = u => signin'[b].late
        /\ signin[b].user # u => signin'[b].late = signin[b].late
  <2> TAKE b \in Browser
  <2>1. signin[b] \in SignIn
    BY <1>0 DEF TypeOK
  <2>2. CASE signin[b].user = u
    <3>1. signin'[b] = [signin[b] EXCEPT !.late = TRUE]
      BY <1>b, <2>2
    <3> QED BY <2>1, <2>2, <3>1 DEF SignIn
  <2>3. CASE signin[b].user # u
    BY <1>b, <2>1, <2>3
  <2> QED BY <2>2, <2>3
<1>e. signin' \in [Browser -> SignIn]
  <2>1. signin' = [b \in Browser |-> signin'[b]]
    BY <1>b
  <2> QED BY <1>d, <2>1
<1>1. TypeOK'
  BY <1>0, <1>b, <1>c, <1>e DEF TypeOK
<1>2. RedInv' /\ IssuedInv'
  BY <1>0, <1>b, <1>c DEF RedInv, IssuedInv, TypeOK
<1>3. \A v \in User \ {u} : Unfinished(v) => Unfinished(v)'
  BY <1>0, <1>a, <1>b DEF Unfinished, TypeOK
<1>4. SignInInv'
  BY <1>0, <1>3, <1>b, <1>d DEF SignInInv
<1>5. OldPasswordsAreOut'
  BY <1>0, <1>3, <1>b DEF OldPasswordsAreOut, TypeOK, Session
<1> QED BY <1>1, <1>2, <1>4, <1>5 DEF CoreInv

\* Abandoning a redemption after its update leaves its user halfway.
LEMMA RedeemFailCore ==
    ASSUME CoreInv, NEW r \in Redeem, RedeemFail(r)
    PROVE  CoreInv'
<1>0. TypeOK /\ RedInv /\ SignInInv /\ IssuedInv /\ OldPasswordsAreOut
  BY DEF CoreInv
<1>a. NoRed \in Red /\ NoRed.pc = "idle"
  BY DEF NoRed, Red, Password
<1>b. /\ red' = [red EXCEPT ![r] = NoRed] /\ halfway \subseteq halfway'
      /\ red[r].pc = "updated" => red[r].row.user \in halfway'
      /\ UNCHANGED <<now, tokens, issued, pw, sso, signin, sessions>>
  BY DEF RedeemFail
<1>c. halfway' \subseteq User
  BY <1>0 DEF RedeemFail, TypeOK, RedInv, Row
<1>1. TypeOK'
  BY <1>0, <1>a, <1>b, <1>c DEF TypeOK
<1>2. RedInv' /\ IssuedInv'
  BY <1>0, <1>a, <1>b DEF RedInv, IssuedInv, TypeOK
<1>3. \A v \in User : Unfinished(v) => Unfinished(v)'
  BY <1>0, <1>b DEF Unfinished, TypeOK
<1>4. SignInInv'
  BY <1>0, <1>3, <1>b DEF SignInInv
<1>5. OldPasswordsAreOut'
  BY <1>0, <1>3, <1>b DEF OldPasswordsAreOut, TypeOK, Session
<1> QED BY <1>1, <1>2, <1>4, <1>5 DEF CoreInv

\* A sign-in moves to y without opening a session.
LEMMA SignInMoveCore ==
    ASSUME CoreInv, NEW b \in Browser, NEW y \in SignIn,
           signin' = [signin EXCEPT ![b] = y],
           y.pc # "idle" => y.user \in User,
           y.pc \in {"read", "proved"} =>
             \/ y.proved = pw[y.user]
             \/ /\ signin[b].pc \in {"read", "proved"}
                /\ y.user = signin[b].user /\ y.proved = signin[b].proved
                /\ y.late = signin[b].late,
           UNCHANGED <<now, tokens, issued, pw, red, sso, sessions, halfway>>
    PROVE  CoreInv'
<1>0. TypeOK /\ RedInv /\ SignInInv /\ IssuedInv /\ OldPasswordsAreOut
  BY DEF CoreInv
<1>1. TypeOK'
  BY <1>0 DEF TypeOK
<1>2. RedInv' /\ IssuedInv' /\ OldPasswordsAreOut'
  BY <1>0 DEF RedInv, IssuedInv, OldPasswordsAreOut, Unfinished
<1>3. SignInInv'
  BY <1>0 DEF SignInInv, Unfinished, TypeOK
<1> QED BY <1>1, <1>2, <1>3 DEF CoreInv

\* A sign-in opens its session; the session inherits what is known of it.
LEMMA OpenCore ==
    ASSUME CoreInv, NEW b \in Browser, LoginOpens(b) \/ SsoOpens(b)
    PROVE  CoreInv'
<1>0. TypeOK /\ RedInv /\ SignInInv /\ IssuedInv /\ OldPasswordsAreOut
  BY DEF CoreInv
<1>a. NoSignIn \in SignIn /\ NoSignIn.pc = "idle"
  BY DEF NoSignIn, SignIn, Password
<1>b. signin[b] \in SignIn /\ signin[b].user \in User
  BY <1>0 DEF LoginOpens, SsoOpens, TypeOK, SignInInv
<1>c. PICK s \in Session : /\ sessions' = sessions \cup {s}
                           /\ s.user = signin[b].user /\ s.proved = signin[b].proved
                           /\ s.late = signin[b].late
                           /\ s.via = "password" => signin[b].pc = "proved"
  <2>1. CASE LoginOpens(b)
    <3>1. Opened(b, "password") \in Session
      BY <1>b DEF Opened, Session, SignIn
    <3> QED BY <2>1, <3>1 DEF LoginOpens, Opened
  <2>2. CASE SsoOpens(b)
    <3>1. Opened(b, "sso") \in Session
      BY <1>b DEF Opened, Session, SignIn
    <3> QED BY <2>2, <3>1 DEF SsoOpens, Opened
  <2> QED BY <2>1, <2>2
<1>d. /\ signin' = [signin EXCEPT ![b] = NoSignIn]
      /\ UNCHANGED <<now, tokens, issued, pw, red, halfway>>
  BY DEF LoginOpens, SsoOpens
<1>e. sso' \in [Browser -> [user : User, pw : Password] \cup {Null}]
  <2>1. CASE LoginOpens(b)
    <3>1. [user |-> signin[b].user, pw |-> signin[b].proved] \in [user : User, pw : Password]
      BY <1>b DEF SignIn
    <3> QED BY <1>0, <2>1, <3>1 DEF LoginOpens, TypeOK
  <2>2. CASE SsoOpens(b)
    BY <1>0, <2>2 DEF SsoOpens, TypeOK
  <2> QED BY <2>1, <2>2
<1>1. TypeOK'
  BY <1>0, <1>a, <1>c, <1>d, <1>e DEF TypeOK
<1>2. RedInv' /\ IssuedInv'
  BY <1>0, <1>d DEF RedInv, IssuedInv
<1>3. SignInInv'
  BY <1>0, <1>a, <1>d DEF SignInInv, Unfinished, TypeOK
<1>4. OldPasswordsAreOut'
  BY <1>0, <1>b, <1>c, <1>d DEF OldPasswordsAreOut, SignInInv, Unfinished
<1> QED BY <1>1, <1>2, <1>3, <1>4 DEF CoreInv

\* The invariant is inductive.
LEMMA NextCore == CoreInv /\ [Next]_vars => CoreInv'
<1> SUFFICES ASSUME CoreInv, [Next]_vars PROVE CoreInv'
  OBVIOUS
<1>0. TypeOK /\ RedInv /\ SignInInv /\ IssuedInv /\ OldPasswordsAreOut
  BY DEF CoreInv
<1>a. NoRed \in Red /\ NoRed.pc = "idle" /\ NoSignIn \in SignIn /\ NoSignIn.pc = "idle"
  BY DEF NoRed, Red, NoSignIn, SignIn, Password
<1>1. CASE \E t \in Token, u \in User : CreateResetToken(t, u)
  <2> PICK t \in Token, u \in User : CreateResetToken(t, u)
    BY <1>1
  <2>1. [user |-> u, expiresAt |-> now + Ttl] \in Row
    BY <1>0, TimesAssumption DEF Row, TypeOK
  <2>2. TypeOK' /\ IssuedInv'
    BY <1>0, <2>1 DEF CreateResetToken, TypeOK, IssuedInv
  <2>3. RedInv' /\ SignInInv' /\ OldPasswordsAreOut'
    BY <1>0 DEF CreateResetToken, RedInv, SignInInv, OldPasswordsAreOut, Unfinished
  <2> QED BY <2>2, <2>3 DEF CoreInv
<1>2. CASE \E r \in Redeem, t \in Token : RedeemBegin(r, t)
  <2> PICK r \in Redeem, t \in Token : RedeemBegin(r, t)
    BY <1>2
  <2>1. PICK y \in Red : y = [pc |-> "begun", token |-> t, row |-> Null]
    BY DEF Red, Password
  <2>2. y.pc = "begun" /\ y.token = t
    BY <2>1
  <2>3. red' = [red EXCEPT ![r] = y] /\ red[r].pc = "idle"
        /\ UNCHANGED <<now, tokens, issued, pw, sso, signin, sessions, halfway>>
    BY <2>1 DEF RedeemBegin
  <2>4. tokens' \in [Token -> Row \cup {Null}]
    BY <1>0, <2>3 DEF TypeOK
  <2> QED BY <2>2, <2>3, <2>4, RedeemMoveCore
<1>3. CASE \E r \in Redeem : RedeemStep(r)
  <2> PICK r \in Redeem : RedeemStep(r)
    BY <1>3
  <2>0. red[r] \in Red /\ tokens \in [Token -> Row \cup {Null}]
    BY <1>0 DEF TypeOK
  <2>1. CASE RedeemLookup(r)
    <3>1. red[r].pc = "begun" /\ red[r].token \in Token
      BY <1>0, <2>1 DEF RedeemLookup, RedInv
    <3>2. CASE tokens[red[r].token] = Null
      <4>1. red' = [red EXCEPT ![r] = NoRed]
        BY <2>1, <3>2 DEF RedeemLookup
      <4> QED BY <1>a, <2>0, <2>1, <3>1, <4>1, RedeemMoveCore DEF RedeemLookup
    <3>3. CASE tokens[red[r].token] # Null
      <4>1. tokens[red[r].token] \in Row /\ red[r].token \in issued
        BY <1>0, <2>0, <3>1, <3>3 DEF IssuedInv
      <4>2. PICK y \in Red : y = [red[r] EXCEPT !.pc = "found", !.row = tokens[red[r].token]]
        BY <2>0, <4>1 DEF Red
      <4>3. y.pc = "found" /\ y.token = red[r].token /\ y.row = tokens[red[r].token]
        BY <2>0, <4>2 DEF Red
      <4>4. red' = [red EXCEPT ![r] = y]
            /\ UNCHANGED <<now, tokens, issued, pw, sso, signin, sessions, halfway>>
        BY <2>1, <3>3, <4>2 DEF RedeemLookup
      <4> QED BY <2>0, <3>1, <4>1, <4>3, <4>4, RedeemMoveCore
    <3> QED BY <3>2, <3>3
  <2>2. CASE RedeemCheck(r)
    <3>1. red[r].pc = "found" /\ red[r].token \in Token /\ red[r].row \in Row
          /\ red[r].token \in issued
      BY <1>0, <2>2 DEF RedeemCheck, RedInv
    <3>2. PICK y \in Red : y = [red[r] EXCEPT !.pc =
                                  IF Lapsed(red[r].row) THEN "expired" ELSE "valid"]
      BY <2>0 DEF Red
    <3>3. y.pc \in {"expired", "valid"} /\ y.token = red[r].token /\ y.row = red[r].row
      BY <2>0, <3>2 DEF Red
    <3>4. red' = [red EXCEPT ![r] = y]
          /\ UNCHANGED <<now, tokens, issued, pw, sso, signin, sessions, halfway>>
      BY <2>2, <3>2 DEF RedeemCheck
    <3> QED BY <2>0, <3>1, <3>3, <3>4, RedeemMoveCore
  <2>3. CASE RedeemDropExpired(r)
    <3>1. red[r].pc = "expired" /\ red[r].token \in Token
      BY <1>0, <2>3 DEF RedeemDropExpired, RedInv
    <3>2. /\ tokens' \in [Token -> Row \cup {Null}]
          /\ \A t \in Token : tokens'[t] # Null => tokens[t] # Null
      BY <2>0, <2>3, <3>1 DEF RedeemDropExpired
    <3> QED BY <1>a, <2>3, <3>1, <3>2, RedeemMoveCore DEF RedeemDropExpired
  <2>4. CASE RedeemConsume(r)
    <3>1. red[r].pc = "valid" /\ red[r].token \in Token /\ red[r].row \in Row
          /\ red[r].token \in issued
      BY <1>0, <2>4 DEF RedeemConsume, RedInv
    <3>2. /\ tokens' \in [Token -> Row \cup {Null}]
          /\ \A t \in Token : tokens'[t] # Null => tokens[t] # Null
      BY <2>0, <2>4, <3>1 DEF RedeemConsume
    <3>3. PICK y \in Red : y = IF Won(r) THEN [red[r] EXCEPT !.pc = "consumed"] ELSE NoRed
      BY <1>a, <2>0 DEF Red
    <3>4. \/ y.pc = "idle"
          \/ y.pc = "consumed" /\ y.token = red[r].token /\ y.row = red[r].row
      <4>1. CASE Won(r)
        BY <2>0, <3>3, <4>1 DEF Red
      <4>2. CASE ~Won(r)
        BY <1>a, <2>0, <3>3, <4>2 DEF Red, NoRed
      <4> QED BY <4>1, <4>2
    <3>5. red' = [red EXCEPT ![r] = y]
          /\ UNCHANGED <<now, issued, pw, sso, signin, sessions, halfway>>
      BY <2>4, <3>3 DEF RedeemConsume
    <3> QED BY <3>1, <3>2, <3>4, <3>5, RedeemMoveCore
  <2>5. CASE RedeemUpdate(r)
    BY <2>5, RedeemUpdateCore
  <2>6. CASE RedeemRevoke(r)
    BY <2>6, RedeemRevokeCore
  <2> QED BY <2>1, <2>2, <2>3, <2>4, <2>5, <2>6 DEF RedeemStep
<1>4. CASE \E r \in Redeem : RedeemFail(r)
  BY <1>4, RedeemFailCore
<1>5. CASE \E b \in Browser, u \in User : LoginRead(b, u)
  <2> PICK b \in Browser, u \in User : LoginRead(b, u)
    BY <1>5
  <2>1. pw[u] \in Password
    BY <1>0 DEF TypeOK
  <2>2. PICK y \in SignIn : y = [pc |-> "read", user |-> u, proved |-> pw[u], late |-> FALSE]
    BY <2>1 DEF SignIn
  <2>3. y.user = u /\ y.proved = pw[u]
    BY <2>2
  <2>4. signin' = [signin EXCEPT ![b] = y]
        /\ UNCHANGED <<now, tokens, issued, pw, red, sso, sessions, halfway>>
    BY <2>2 DEF LoginRead
  <2> QED BY <2>3, <2>4, SignInMoveCore
<1>6. CASE \E b \in Browser : SignInStep(b)
  <2> PICK b \in Browser : SignInStep(b)
    BY <1>6
  <2>1. CASE LoginVerify(b)
    <3>0. signin[b] \in SignIn /\ signin[b].pc = "read" /\ signin[b].user \in User
      BY <1>0, <2>1 DEF TypeOK, LoginVerify, SignInInv
    <3>1. PICK y \in SignIn : y = [signin[b] EXCEPT !.pc = "proved"]
      BY <3>0 DEF SignIn
    <3>2. /\ y.user = signin[b].user /\ y.proved = signin[b].proved /\ y.late = signin[b].late
          /\ y.pc = "proved"
      BY <3>0, <3>1 DEF SignIn
    <3>3. signin' = [signin EXCEPT ![b] = y]
          /\ UNCHANGED <<now, tokens, issued, pw, red, sso, sessions, halfway>>
      BY <2>1, <3>1 DEF LoginVerify
    <3> QED BY <3>0, <3>2, <3>3, SignInMoveCore
  <2> QED BY <2>1, OpenCore DEF SignInStep
<1>7. CASE \E b \in Browser : SignInFails(b)
  BY <1>7, <1>a, SignInMoveCore DEF SignInFails
<1>8. CASE \E b \in Browser : SsoRead(b)
  <2> PICK b \in Browser : SsoRead(b)
    BY <1>8
  <2>1. sso[b] \in [user : User, pw : Password]
    BY <1>0 DEF SsoRead, TypeOK
  <2>2. PICK y \in SignIn : y = [pc |-> "sso", user |-> sso[b].user, proved |-> sso[b].pw,
                                late |-> FALSE]
    BY <2>1 DEF SignIn
  <2>3. y.pc = "sso" /\ y.user \in User
    BY <2>1, <2>2
  <2>4. signin' = [signin EXCEPT ![b] = y]
        /\ UNCHANGED <<now, tokens, issued, pw, red, sso, sessions, halfway>>
    BY <2>2 DEF SsoRead
  <2> QED BY <2>3, <2>4, SignInMoveCore
<1>9. CASE \/ \E b \in Browser : SsoExpires(b)
           \/ \E s \in sessions : SessionEnds(s)
           \/ Tick
           \/ PurgeTokens
           \/ UNCHANGED vars
  <2>1. /\ sessions' \subseteq sessions /\ UNCHANGED <<issued, pw, red, signin, halfway>>
        /\ now' \in Int
        /\ sso' \in [Browser -> [user : User, pw : Password] \cup {Null}]
        /\ tokens' \in [Token -> Row \cup {Null}]
        /\ \A t \in Token : tokens'[t] # Null => tokens[t] # Null
    BY <1>0, <1>9 DEF SsoExpires, SessionEnds, Tick, PurgeTokens, vars, TypeOK
  <2>2. TypeOK'
    BY <1>0, <2>1 DEF TypeOK
  <2>3. RedInv' /\ IssuedInv'
    BY <1>0, <2>1 DEF RedInv, IssuedInv
  <2>4. SignInInv' /\ OldPasswordsAreOut'
    BY <1>0, <2>1 DEF SignInInv, OldPasswordsAreOut, Unfinished
  <2> QED BY <2>2, <2>3, <2>4 DEF CoreInv
<1> QED BY <1>1, <1>2, <1>3, <1>4, <1>5, <1>6, <1>7, <1>8, <1>9 DEF Next

\* These parts hold in every reachable state of resets and sign-ins.
LEMMA CoreInvariance == Spec => []CoreInv
BY InitCore, NextCore, PTL DEF Spec

\* Once a reset is through, no session opened by an older password is left but
\* those of the logins it overtook.
THEOREM ResetEndsOldPasswords == Spec => []OldPasswordsAreOut
<1>1. CoreInv => OldPasswordsAreOut
  BY DEF CoreInv
<1> QED BY <1>1, CoreInvariance, PTL

-----------------------------------------------------------------------------
(* The refinement of OneShot. *)

\* A step that neither changes what the table offers nor what is held is
\* invisible to OneShot.
LEMMA TakeStutter ==
    ASSUME UNCHANGED <<tokens, issued>>, \A r \in Redeem : Held(r)' = Held(r)
    PROVE  UNCHANGED Take!vars
BY DEF Take!vars, Held

\* Rows that leave the table while nothing else happens have lapsed.
LEMMA TakeLapse ==
    ASSUME TypeOK, IssuedInv, NEW S \in SUBSET Token,
           tokens' = [t \in Token |-> IF t \in S THEN Null ELSE tokens[t]],
           UNCHANGED issued, \A r \in Redeem : Held(r)' = Held(r)
    PROVE  Take!Next
<1> DEFINE off == {t \in Token : tokens[t] # Null}
           out == {t \in issued : tokens[t] = Null}
<1>0. PICK lapsing \in SUBSET off : lapsing = off \cap S
  OBVIOUS
<1>1. off' = off \ lapsing
  BY <1>0
<1>2. out' = out \cup lapsing
  BY <1>0 DEF TypeOK, IssuedInv
<1>3. [r \in Redeem |-> Held(r)]' = [r \in Redeem |-> Held(r)]
  OBVIOUS
<1>4. Take!Lapse(lapsing)
  BY <1>1, <1>2, <1>3 DEF Take!Lapse, Held
<1> QED BY <1>4 DEF Take!Next

\* A redemption that stops holding its token, having used it or failed.
LEMMA TakeFinish ==
    ASSUME TypeOK, NEW r \in Redeem, NEW y \in Red, red' = [red EXCEPT ![r] = y],
           y.pc # "consumed", UNCHANGED <<tokens, issued>>
    PROVE  Take!Next \/ UNCHANGED Take!vars
<1> DEFINE hd == [q \in Redeem |-> Held(q)]
<1>1. Held(r)' = Null /\ \A q \in Redeem : q # r => Held(q)' = Held(q)
  BY DEF Held, TypeOK
<1>2. CASE Held(r) = Null
  BY <1>1, <1>2, TakeStutter
<1>3. CASE Held(r) # Null
  <2>1. hd' = [hd EXCEPT ![r] = Null] /\ hd[r] # Null
    BY <1>1, <1>3
  <2>2. Take!Finish(r)
    BY <2>1 DEF Take!Finish, Held
  <2> QED BY <2>2 DEF Take!Next
<1> QED BY <1>2, <1>3

\* The DELETE whose row count is one takes the token.
LEMMA TakeTake ==
    ASSUME TypeOK, RedInv, IssuedInv, NEW r \in Redeem, RedeemConsume(r), Won(r)
    PROVE  Take!Next
<1> DEFINE off == {t \in Token : tokens[t] # Null}
           out == {t \in issued : tokens[t] = Null}
           hd == [q \in Redeem |-> Held(q)]
<1>0. red[r].token \in Token /\ red[r].token \in issued /\ red[r].pc = "valid"
      /\ tokens[red[r].token] # Null
  BY DEF RedInv, RedeemConsume, Won
<1>1. PICK t \in Token : t = red[r].token
  BY <1>0
<1>2. tokens' = [tokens EXCEPT ![t] = Null] /\ issued' = issued /\ t \in off
  BY <1>0, <1>1 DEF RedeemConsume
<1>3. off' = off \ {t} /\ out' = out \cup {t}
  BY <1>0, <1>1, <1>2 DEF TypeOK
<1>4. Held(r)' = t /\ Held(r) = Null /\ \A q \in Redeem : q # r => Held(q)' = Held(q)
  BY <1>0, <1>1 DEF RedeemConsume, Won, Held, TypeOK, Red
<1>5. hd' = [hd EXCEPT ![r] = t] /\ hd[r] = Null
  BY <1>4
<1>6. Take!Take(r, t)
  BY <1>2, <1>3, <1>5 DEF Take!Take, Held
<1> QED BY <1>6 DEF Take!Next

\* createResetToken offers a new token.
LEMMA TakeOffer ==
    ASSUME TypeOK, IssuedInv, NEW t \in Token, NEW u \in User, CreateResetToken(t, u)
    PROVE  Take!Next
<1> DEFINE off == {s \in Token : tokens[s] # Null}
           out == {s \in issued : tokens[s] = Null}
<1>1. tokens'[t] # Null
  <2>1. [user |-> u, expiresAt |-> now + Ttl] \in [user : User, expiresAt : Int]
    BY TimesAssumption DEF TypeOK
  <2> QED BY <2>1, NullAssumption DEF CreateResetToken, TypeOK
<1>2. \A s \in Token \ {t} : tokens'[s] = tokens[s]
  BY DEF CreateResetToken, TypeOK
<1>3. t \notin issued /\ issued' = issued \cup {t} /\ UNCHANGED red
  BY DEF CreateResetToken
<1>4. off' = off \cup {t} /\ out' = out
  BY <1>1, <1>2, <1>3 DEF IssuedInv, TypeOK
<1>5. t \notin off \cup out
  BY <1>3 DEF IssuedInv
<1>6. Take!Offer(t)
  BY <1>3, <1>4, <1>5 DEF Take!Offer
<1> QED BY <1>6 DEF Take!Next

\* Every step of PasswordReset is a step of OneShot or leaves it alone.
LEMMA TakeStep == CoreInv /\ [Next]_vars => [Take!Next]_(Take!vars)
<1> SUFFICES ASSUME CoreInv, [Next]_vars PROVE Take!Next \/ UNCHANGED Take!vars
  OBVIOUS
<1>0. TypeOK /\ RedInv /\ IssuedInv
  BY DEF CoreInv
<1>a. NoRed \in Red /\ NoRed.pc = "idle"
  BY DEF NoRed, Red, Password
<1>1. CASE \E t \in Token, u \in User : CreateResetToken(t, u)
  BY <1>0, <1>1, TakeOffer
<1>2. CASE \E r \in Redeem, t \in Token : RedeemBegin(r, t)
  <2> PICK r \in Redeem, t \in Token : RedeemBegin(r, t)
    BY <1>2
  <2>1. \A q \in Redeem : Held(q)' = Held(q)
    BY <1>0 DEF RedeemBegin, Held, TypeOK
  <2> QED BY <2>1, TakeStutter DEF RedeemBegin
<1>3. CASE \E r \in Redeem : RedeemStep(r) \/ RedeemFail(r)
  <2> PICK r \in Redeem : RedeemStep(r) \/ RedeemFail(r)
    BY <1>3
  <2>0. red[r] \in Red
    BY <1>0 DEF TypeOK
  <2>1. CASE RedeemLookup(r)
    <3>1. \A q \in Redeem : Held(q)' = Held(q)
      BY <1>0, <2>0, <2>1 DEF RedeemLookup, Held, TypeOK, Red, NoRed
    <3> QED BY <2>1, <3>1, TakeStutter DEF RedeemLookup
  <2>2. CASE RedeemCheck(r)
    <3>1. \A q \in Redeem : Held(q)' = Held(q)
      BY <1>0, <2>0, <2>2 DEF RedeemCheck, Held, TypeOK, Red
    <3> QED BY <2>2, <3>1, TakeStutter DEF RedeemCheck
  <2>3. CASE RedeemDropExpired(r)
    <3>1. PICK t \in Token : t = red[r].token
      BY <1>0, <2>3 DEF RedeemDropExpired, RedInv
    <3>2. tokens' = [s \in Token |-> IF s \in {t} THEN Null ELSE tokens[s]]
      BY <1>0, <2>3, <3>1 DEF RedeemDropExpired, TypeOK
    <3>3. \A q \in Redeem : Held(q)' = Held(q)
      BY <1>0, <2>3 DEF RedeemDropExpired, Held, TypeOK, NoRed
    <3>4. {t} \in SUBSET Token
      OBVIOUS
    <3> QED BY <1>0, <2>3, <3>2, <3>3, <3>4, TakeLapse DEF RedeemDropExpired
  <2>4. CASE RedeemConsume(r) /\ Won(r)
    BY <1>0, <2>4, TakeTake
  <2>5. CASE RedeemConsume(r) /\ ~Won(r)
    <3>1. tokens' = tokens /\ red' = [red EXCEPT ![r] = NoRed] /\ issued' = issued
      BY <1>0, <2>5 DEF RedeemConsume, Won, RedInv, TypeOK
    <3> QED BY <1>0, <1>a, <3>1, TakeFinish
  <2>6. CASE RedeemUpdate(r)
    <3>1. PICK y \in Red : y = [red[r] EXCEPT !.pc = "updated"]
      BY <2>0 DEF Red
    <3>2. y.pc # "consumed"
      BY <2>0, <3>1 DEF Red
    <3> QED BY <1>0, <2>6, <3>1, <3>2, TakeFinish DEF RedeemUpdate
  <2>7. CASE RedeemRevoke(r) \/ RedeemFail(r)
    BY <1>0, <1>a, <2>7, TakeFinish DEF RedeemRevoke, RedeemFail
  <2> QED BY <2>1, <2>2, <2>3, <2>4, <2>5, <2>6, <2>7 DEF RedeemStep
<1>4. CASE PurgeTokens
  <2>1. PICK S \in SUBSET Token : S = {t \in Token : tokens[t] # Null /\ Overdue(tokens[t])}
    OBVIOUS
  <2>2. tokens' = [t \in Token |-> IF t \in S THEN Null ELSE tokens[t]]
    BY <1>4, <2>1 DEF PurgeTokens
  <2> QED BY <1>0, <1>4, <2>2, TakeLapse DEF PurgeTokens, Held
<1>5. CASE \/ \E b \in Browser, u \in User : LoginRead(b, u)
           \/ \E b \in Browser : \/ SignInStep(b) \/ SignInFails(b) \/ SsoRead(b)
                                \/ SsoExpires(b)
           \/ \E s \in sessions : SessionEnds(s)
           \/ Tick
           \/ UNCHANGED vars
  <2>1. UNCHANGED <<tokens, issued, red>>
    BY <1>5 DEF LoginRead, SignInStep, LoginVerify, LoginOpens, SsoOpens, SignInFails, SsoRead,
                SsoExpires, SessionEnds, Tick, vars
  <2> QED BY <2>1, TakeStutter DEF Held
<1> QED BY <1>1, <1>2, <1>3, <1>4, <1>5 DEF Next

\* The empty table offers nothing.
LEMMA TakeInit == Init => Take!Init
BY DEF Init, Take!Init, NoRed

\* The table of reset tokens with its DELETE-and-count implements a one-shot
\* token.
THEOREM OneShotResets == Spec => ImplementsOneShot
BY TakeInit, TakeStep, CoreInvariance, PTL DEF Spec, ImplementsOneShot, Take!Spec

-----------------------------------------------------------------------------
(* What follows from the one-shot token. *)

\* Tokens that can be redeemed, and tokens that are gone for good.
Offered == {t \in Token : tokens[t] # Null}
Gone == {t \in issued : tokens[t] = Null}

\* A one-shot token that is gone stays gone, and what a redemption begins to hold
\* was on offer.
LEMMA TakeKeeps ==
    ASSUME [Take!Next]_(Take!vars)
    PROVE  /\ Gone \subseteq Gone'
           /\ \A r \in Redeem :
                \/ Held(r)' \in {Held(r), Null}
                \/ /\ Held(r)' \in Offered /\ Held(r)' \in Gone'
                   /\ \A q \in Redeem \ {r} : Held(q)' = Held(q)
<1>1. CASE UNCHANGED Take!vars
  BY <1>1 DEF Take!vars, Held, Gone
<1>2. CASE \E t \in Token : Take!Offer(t)
  BY <1>2 DEF Take!Offer, Held, Gone
<1>3. CASE \E r \in Redeem, t \in Token : Take!Take(r, t)
  <2> PICK r \in Redeem, t \in Token : Take!Take(r, t)
    BY <1>3
  <2>1. t \in Offered /\ Gone' = Gone \cup {t}
    BY DEF Take!Take, Offered, Gone
  <2>2. [q \in Redeem |-> Held(q)]' = [[q \in Redeem |-> Held(q)] EXCEPT ![r] = t]
    BY DEF Take!Take, Held
  <2>3. Held(r)' = t /\ \A q \in Redeem \ {r} : Held(q)' = Held(q)
    BY <2>2
  <2> QED BY <2>1, <2>3
<1>4. CASE \E r \in Redeem : Take!Finish(r)
  <2> PICK r \in Redeem : Take!Finish(r)
    BY <1>4
  <2>1. Gone' = Gone
    BY DEF Take!Finish, Gone
  <2>2. [q \in Redeem |-> Held(q)]' = [[q \in Redeem |-> Held(q)] EXCEPT ![r] = Null]
    BY DEF Take!Finish, Held
  <2>3. Held(r)' = Null /\ \A q \in Redeem \ {r} : Held(q)' = Held(q)
    BY <2>2
  <2> QED BY <2>1, <2>3
<1>5. CASE \E S \in SUBSET Offered : Take!Lapse(S)
  BY <1>5 DEF Take!Lapse, Held, Gone
<1> QED BY <1>1, <1>2, <1>3, <1>4, <1>5 DEF Take!Next, Offered

\* What a redemption holds is gone.
LEMMA HeldIsGone ==
    ASSUME CoreInv, HolderInv, NEW r \in Redeem, Held(r) # Null
    PROVE  Held(r) \in Gone /\ Held(r) \in Token
BY DEF CoreInv, HolderInv, RedInv, TypeOK, Held, Gone

\* A held token is held by one redemption.
LEMMA HolderStep == CoreInv /\ HolderInv /\ [Next]_vars => HolderInv'
<1> SUFFICES ASSUME CoreInv, HolderInv, [Next]_vars,
                    NEW r \in Redeem, Held(r)' # Null
             PROVE  /\ Held(r)' \in Gone'
                    /\ \A q \in Redeem : Held(q)' = Held(r)' => q = r
  BY DEF HolderInv, Gone
<1>1. [Take!Next]_(Take!vars)
  BY TakeStep
<1>2. Offered \cap Gone = {}
  BY DEF Offered, Gone
<1>3. \A q \in Redeem : Held(q) # Null => Held(q) \in Gone
  BY HeldIsGone
<1>4. \A q \in Redeem : Held(r) # Null /\ Held(q) = Held(r) => q = r
  BY DEF HolderInv
<1> QED BY <1>1, <1>2, <1>3, <1>4, TakeKeeps

\* A dead token stays dead.
LEMMA DeadStays ==
    ASSUME CoreInv, [Next]_vars, NEW t \in Token, Dead(t)
    PROVE  Dead(t)'
<1>1. [Take!Next]_(Take!vars)
  BY TakeStep
<1>2. t \in Gone /\ t \notin Offered /\ t # Null
  BY NullAssumption DEF Dead, Gone, Offered
<1>3. \A r \in Redeem : Held(r) # t
  BY DEF Dead
<1>4. t \in Gone' /\ \A r \in Redeem : Held(r)' # t
  BY <1>1, <1>2, <1>3, TakeKeeps
<1> QED BY <1>4 DEF Dead, Gone

\* A password changes only to a token that a redemption held and gives up.
LEMMA PasswordStep ==
    ASSUME CoreInv, HolderInv, [Next]_vars, NEW u \in User, pw'[u] # pw[u]
    PROVE  /\ pw'[u] \in Token
           /\ \E r \in Redeem : Held(r) = pw'[u]
           /\ pw'[u] \in Gone' /\ \A r \in Redeem : Held(r)' # pw'[u]
<1>1. PICK r \in Redeem : RedeemUpdate(r)
  BY DEF Next, CreateResetToken, RedeemBegin, RedeemStep, RedeemLookup, RedeemCheck,
         RedeemDropExpired, RedeemConsume, RedeemRevoke, RedeemFail, LoginRead, SignInStep,
         LoginVerify, LoginOpens, SsoOpens, SignInFails, SsoRead, SsoExpires, SessionEnds,
         PurgeTokens, Tick, vars
<1>2. /\ pw' = [pw EXCEPT ![red[r].row.user] = red[r].token]
      /\ red' = [red EXCEPT ![r].pc = "updated"]
      /\ red[r].pc = "consumed" /\ UNCHANGED <<tokens, issued>>
  BY <1>1 DEF RedeemUpdate
<1>3. TypeOK /\ red[r] \in Red /\ red[r].token \in Token
  BY <1>2 DEF CoreInv, TypeOK, RedInv
<1>4. pw'[u] = red[r].token /\ Held(r) = red[r].token
  BY <1>2, <1>3 DEF TypeOK, Held
<1>5. Held(r) # Null /\ Held(r) \in Gone
  BY <1>3, <1>4, NullAssumption, HeldIsGone
<1>6. Held(r)' = Null /\ \A q \in Redeem \ {r} : Held(q)' = Held(q)
  BY <1>2, <1>3 DEF Held, TypeOK
<1>7. \A q \in Redeem : Held(q) = Held(r) => q = r
  BY <1>5 DEF HolderInv
<1> QED BY <1>2, <1>3, <1>4, <1>5, <1>6, <1>7 DEF Gone

\* The passwords in use were set by tokens that are dead.
LEMMA UsedStep == CoreInv /\ HolderInv /\ UsedInv /\ [Next]_vars => UsedInv'
<1> SUFFICES ASSUME CoreInv, HolderInv, UsedInv, [Next]_vars, NEW u \in User
             PROVE  pw'[u] = Null \/ (pw'[u] \in Gone' /\ \A r \in Redeem : Held(r)' # pw'[u])
  BY DEF UsedInv, Dead, Gone
<1>1. CASE pw'[u] # pw[u]
  BY <1>1, PasswordStep
<1>2. CASE pw'[u] = pw[u] /\ pw[u] # Null
  <2>1. PICK t \in Token : t = pw[u]
    BY <1>2 DEF CoreInv, TypeOK, Password
  <2>2. Dead(t)
    BY <1>2, <2>1 DEF UsedInv
  <2>3. Dead(t)'
    BY <2>2, DeadStays
  <2> QED BY <1>2, <2>1, <2>3 DEF Dead, Gone
<1> QED BY <1>1, <1>2

\* The invariant holds in every reachable state of resets and sign-ins.
THEOREM Invariance == Spec => []IInv
<1>1. Init => HolderInv /\ UsedInv
  BY DEF Init, HolderInv, UsedInv, Held, NoRed
<1> QED BY <1>1, CoreInvariance, HolderStep, UsedStep, PTL DEF Spec, IInv

\* A password that was replaced never comes back, whatever redemptions do.
THEOREM ReplacedForGood == Spec => NoPasswordReturns
<1> SUFFICES ASSUME NEW u \in User, NEW t \in Password
             PROVE  Spec => [](pw[u] = t => [](pw[u] # t => [](pw[u] # t)))
  BY DEF NoPasswordReturns
<1> DEFINE Spent == t = Null \/ Dead(t)
<1>1. IInv /\ pw[u] = t => Spent
  BY DEF IInv, UsedInv
<1>2. IInv /\ [Next]_vars /\ Spent => Spent'
  <2>1. CASE t = Null
    BY <2>1
  <2>2. CASE t \in Token
    BY <2>2, DeadStays, NullAssumption DEF IInv
  <2> QED BY <2>1, <2>2 DEF Password
<1>3. IInv /\ [Next]_vars /\ Spent /\ pw[u] # t => (pw[u] # t)'
  <2> SUFFICES ASSUME IInv, [Next]_vars, Spent, pw[u] # t, pw'[u] = t
               PROVE  FALSE
    OBVIOUS
  <2>1. pw'[u] \in Token /\ \E r \in Redeem : Held(r) = pw'[u]
    BY PasswordStep DEF IInv
  <2> QED BY <2>1, NullAssumption DEF Dead
<1> HIDE DEF Spent
<1> QED BY <1>1, <1>2, <1>3, Invariance, PTL DEF Spec

\* Only logins that a reset overtook get an SSO cookie for an old password once the
\* reset is through.
THEOREM CookiesAreCurrent == Spec => NewCookiesAreCurrent
<1>1. IInv /\ [Next]_vars =>
        [\A b \in Browser :
           sso[b] = Null /\ sso'[b] # Null /\ sso'[b].pw # pw[sso'[b].user] =>
             signin[b].late \/ Unfinished(sso'[b].user)]_vars
  <2> SUFFICES ASSUME IInv, Next, NEW b \in Browser,
                      sso[b] = Null, sso'[b] # Null, sso'[b].pw # pw[sso'[b].user]
               PROVE  signin[b].late \/ Unfinished(sso'[b].user)
    OBVIOUS
  <2>1. LoginOpens(b)
    BY DEF Next, CreateResetToken, RedeemBegin, RedeemStep, RedeemLookup, RedeemCheck,
           RedeemDropExpired, RedeemConsume, RedeemUpdate, RedeemRevoke, RedeemFail, LoginRead,
           SignInStep, LoginVerify, LoginOpens, SsoOpens, SignInFails, SsoRead, SsoExpires,
           SessionEnds, PurgeTokens, Tick, IInv, CoreInv, TypeOK
  <2>2. /\ signin[b].pc = "proved"
        /\ sso'[b] = [user |-> signin[b].user, pw |-> signin[b].proved]
    BY <2>1 DEF LoginOpens, IInv, CoreInv, TypeOK
  <2> QED BY <2>2 DEF IInv, CoreInv, SignInInv
<1> QED BY <1>1, Invariance, PTL DEF Spec, NewCookiesAreCurrent

=============================================================================
