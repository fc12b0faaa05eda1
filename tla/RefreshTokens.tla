--------------------------- MODULE RefreshTokens ---------------------------
(***************************************************************************)
(* What the session module promises its callers about refresh tokens,      *)
(* without tables, rows, locks, stamps or a cleanup job.                   *)
(*                                                                         *)
(* A token is good until a deadline.  A request holding a good token is    *)
(* admitted, and each admitted request is answered at most once, with a    *)
(* successor of its own for the same user and client.  The first answer    *)
(* shortens the life of the presented token to a window; nothing ever      *)
(* lengthens it.  Apart from the deadline, only a revocation (a logout or  *)
(* a password reset) ends a token.                                         *)
(***************************************************************************)
EXTENDS Integers

CONSTANTS
    Token,      \* refresh tokens that can be drawn
    Request,    \* refresh requests that can be in flight
    User, Client,
    Ttl,        \* life of a new token
    Window,     \* at most this much of a token's life is left once it is used
    Null

VARIABLES
    now,        \* the clock
    good,       \* [Token -> what the token stands for, or Null]
    held,       \* [Request -> the admitted token and its owner, or Null]
    issued,     \* tokens ever handed out
    revoked     \* tokens ended by a logout or a reset

vars == <<now, good, held, issued, revoked>>

Good == [user : User, client : Client, until : Int, used : BOOLEAN]
Held == [token : Token, user : User, client : Client]

Init ==
    /\ now = 0
    /\ good = [t \in Token |-> Null]
    /\ held = [r \in Request |-> Null]
    /\ issued = {}
    /\ revoked = {}

\* The clock moves, and exactly the tokens whose deadline it passes end.
Tick ==
    /\ now' = now + 1
    /\ good' = [t \in Token |->
                  IF good[t] # Null /\ good[t].until >= now + 1 THEN good[t] ELSE Null]
    /\ UNCHANGED <<held, issued, revoked>>

\* A login hands out a token that was never handed out before.
Issue(t, u, c) ==
    /\ t \notin issued
    /\ good' = [good EXCEPT ![t] =
                  [user |-> u, client |-> c, until |-> now + Ttl, used |-> FALSE]]
    /\ issued' = issued \cup {t}
    /\ UNCHANGED <<now, held, revoked>>

\* A refresh is admitted only while its token is good.
Admit(r, t) ==
    /\ held[r] = Null
    /\ good[t] # Null
    /\ held' = [held EXCEPT ![r] =
                  [token |-> t, user |-> good[t].user, client |-> good[t].client]]
    /\ UNCHANGED <<now, good, issued, revoked>>

\* g is a fresh token for the owner of the admitted request h.
SuccessorOf(h, g) ==
    /\ g.user = h.user /\ g.client = h.client
    /\ g.until <= now + Ttl
    /\ ~g.used

\* h is what is left of the presented token g once it has been used.
UsedUp(g, h) ==
    /\ h.user = g.user /\ h.client = g.client
    /\ h.used
    /\ h.until <= g.until /\ h.until <= now + Window

\* Successor s is handed out for the request h.  The presented token loses all
\* but the window on its first use and nothing on a later one.
HandOut(h, s) ==
    /\ s \notin issued
    /\ issued' = issued \cup {s}
    /\ LET t == h.token IN
       /\ \A o \in Token \ {s, t} : good'[o] = good[o]
       /\ good'[s] = Null \/ SuccessorOf(h, good'[s])
       /\ \/ good'[t] = good[t] /\ (good[t] = Null \/ good[t].used)
          \/ good[t] # Null /\ ~good[t].used
             /\ (good'[t] = Null \/ UsedUp(good[t], good'[t]))
    /\ UNCHANGED <<now, revoked>>

\* An admitted refresh is answered.
Answer(r, s) ==
    /\ held[r] # Null
    /\ held' = [held EXCEPT ![r] = Null]
    /\ HandOut(held[r], s)

\* A refresh that is admitted and answered in one moment.
Serve(t, s) ==
    /\ good[t] # Null
    /\ HandOut([token |-> t, user |-> good[t].user, client |-> good[t].client], s)
    /\ UNCHANGED held

\* An admitted refresh fails: nothing was handed out, nothing was used.
Drop(r) ==
    /\ held[r] # Null
    /\ held' = [held EXCEPT ![r] = Null]
    /\ UNCHANGED <<now, good, issued, revoked>>

\* A logout ends one token, a reset ends several tokens of one user.
Revoke(u, S) ==
    /\ \A t \in S : good[t] # Null => good[t].user = u
    /\ good' = [t \in Token |-> IF t \in S THEN Null ELSE good[t]]
    /\ revoked' = revoked \cup S
    /\ UNCHANGED <<now, held, issued>>

Next ==
    \/ Tick
    \/ \E t \in Token, u \in User, c \in Client : Issue(t, u, c)
    \/ \E r \in Request, t \in Token : Admit(r, t)
    \/ \E r \in Request, s \in Token : Answer(r, s)
    \/ \E t, s \in Token : Serve(t, s)
    \/ \E r \in Request : Drop(r)
    \/ \E u \in User, S \in SUBSET issued : Revoke(u, S)

Spec == Init /\ [][Next]_vars
=============================================================================
