------------------------------ MODULE Activity -------------------------------
(***************************************************************************)
(* The activity log behind the admin statistics: the table                 *)
(* activity_events, the recorders of modules/activity, and the DELETE of   *)
(* runCleanup on the table.                                                *)
(*                                                                         *)
(* A refresh is recorded by one INSERT ... SELECT ... WHERE NOT EXISTS,    *)
(* which looks at the rows that are committed when it starts and becomes   *)
(* visible when it commits: two steps.  occurred_at is NOW(), the time at  *)
(* which it started.  All times are the database's.                        *)
(***************************************************************************)
EXTENDS Integers, FiniteSets

CONSTANTS
    Event,          \* rows the log can hold
    User, Client,
    Recorder,       \* concurrent recordRefresh calls
    Window,         \* REFRESH_COALESCE_WINDOW
    Day,            \* one day, in the same unit
    DefaultDays,    \* DEFAULT_RETENTION_DAYS
    Raw,            \* ACTIVITY_RETENTION_DAYS: what parseInt makes of it
    NaN,            \* parseInt's answer to text that is not a number, or no text
    MaxTime,        \* bound on the clock
    Null

\* The coalesce window fits into the shortest retention there can be.
ASSUME WindowAssumption ==
    /\ Window \in Nat \ {0} /\ Day \in Nat /\ Window <= Day
    /\ DefaultDays \in Nat \ {0} /\ MaxTime \in Nat

ASSUME RawAssumption == NaN \in Raw /\ NaN \notin Int /\ Raw \subseteq Int \cup {NaN}

ASSUME NullAssumption ==
    /\ Null \notin [user : User, client : Client, refresh : BOOLEAN, at : Int,
                    saw : SUBSET Event, by : Recorder \cup {Null}]
    /\ Null \notin Recorder

\* The server runs finitely many statements at once.
ASSUME RecorderAssumption == IsFiniteSet(Recorder)

VARIABLES
    now,
    raw,            \* the environment variable of the running server
    events,         \* [Event -> row, or Null]
    written,        \* history: the rows ever inserted
    rec,            \* [Recorder -> the running INSERT ... SELECT]
    recorded        \* history: the refreshes whose recorder returned well

vars == <<now, raw, events, written, rec, recorded>>

-----------------------------------------------------------------------------

\* getActivityRetentionDays.
RetentionDays_AnyNumber(r) == IF r \in Int THEN r ELSE DefaultDays
RetentionDays(r) == IF r \in Int /\ r >= 1 THEN r ELSE DefaultDays

Retention == RetentionDays(raw) * Day

\* saw: the rows this row's statement had in its snapshot, by: the call that ran
\* the statement (both history).
Row == [user : User, client : Client, refresh : BOOLEAN, at : Int,
        saw : SUBSET Event, by : Recorder \cup {Null}]

Rec == [pc : {"idle", "covered", "fresh"}, user : User \cup {Null},
        client : Client \cup {Null}, at : Int, saw : SUBSET Event]

NoRec == [pc |-> "idle", user |-> Null, client |-> Null, at |-> 0, saw |-> {}]

\* Types of the log and of the running recorders.
TypeOK ==
    /\ now \in Int
    /\ raw \in Raw
    /\ events \in [Event -> Row \cup {Null}]
    /\ written \subseteq Event
    /\ rec \in [Recorder -> Rec]
    /\ recorded \subseteq [user : User, client : Client, at : Int]

Init ==
    /\ now = 0
    /\ raw \in Raw
    /\ events = [e \in Event |-> Null]
    /\ written = {}
    /\ rec = [p \in Recorder |-> NoRec]
    /\ recorded = {}

\* The committed rows.
Stored == {e \in Event : events[e] # Null}

\* Row e is a refresh of user u at client c.
IsRefreshOf(e, u, c) ==
    /\ events[e] # Null
    /\ events[e].user = u /\ events[e].client = c /\ events[e].refresh

\* A refresh at time a is covered by a stored row.
Covered_ShortWindow(u, c, a) ==
    \E e \in Event : IsRefreshOf(e, u, c) /\ events[e].at > a - 1
Covered(u, c, a) == \E e \in Event : IsRefreshOf(e, u, c) /\ events[e].at > a - Window

\* recordLogin: one INSERT.  Its failure is swallowed and changes nothing.
RecordLogin(e, u, c) ==
    /\ e \notin written
    /\ events' = [events EXCEPT ![e] = [user |-> u, client |-> c, refresh |-> FALSE,
                                        at |-> now, saw |-> {}, by |-> Null]]
    /\ written' = written \cup {e}
    /\ UNCHANGED <<now, raw, rec, recorded>>

\* recordRefresh: the statement starts, with NOW() and its snapshot ...
RefreshStart(p, u, c) ==
    /\ rec[p].pc = "idle"
    /\ rec' = [rec EXCEPT ![p] =
                 [pc |-> IF Covered(u, c, now) THEN "covered" ELSE "fresh",
                  user |-> u, client |-> c, at |-> now, saw |-> Stored]]
    /\ UNCHANGED <<now, raw, events, written, recorded>>

Recorded(p) == [user |-> rec[p].user, client |-> rec[p].client, at |-> rec[p].at]

\* ... and ends, inserting nothing ...
RefreshCoalesced(p) ==
    /\ rec[p].pc = "covered"
    /\ recorded' = recorded \cup {Recorded(p)}
    /\ rec' = [rec EXCEPT ![p] = NoRec]
    /\ UNCHANGED <<now, raw, events, written>>

\* ... or a row.
RefreshInserted(p, e) ==
    /\ rec[p].pc = "fresh"
    /\ e \notin written
    /\ events' = [events EXCEPT ![e] =
                    [user |-> rec[p].user, client |-> rec[p].client, refresh |-> TRUE,
                     at |-> rec[p].at, saw |-> rec[p].saw, by |-> p]]
    /\ written' = written \cup {e}
    /\ recorded' = recorded \cup {Recorded(p)}
    /\ rec' = [rec EXCEPT ![p] = NoRec]
    /\ UNCHANGED <<now, raw>>

\* The statement fails; recordRefresh logs the error and returns.
RefreshFails(p) ==
    /\ rec[p].pc # "idle"
    /\ rec' = [rec EXCEPT ![p] = NoRec]
    /\ UNCHANGED <<now, raw, events, written, recorded>>

\* deleteEventsOlderThanDays(getActivityRetentionDays()).
Outdated(e) == events[e] # Null /\ events[e].at < now - Retention

PruneEvents ==
    /\ \E e \in Event : Outdated(e)
    /\ events' = [e \in Event |-> IF Outdated(e) THEN Null ELSE events[e]]
    /\ UNCHANGED <<now, raw, written, rec, recorded>>

Tick ==
    /\ now < MaxTime
    /\ now' = now + 1
    /\ UNCHANGED <<raw, events, written, rec, recorded>>

Next ==
    \/ \E e \in Event, u \in User, c \in Client : RecordLogin(e, u, c)
    \/ \E p \in Recorder, u \in User, c \in Client : RefreshStart(p, u, c)
    \/ \E p \in Recorder : RefreshCoalesced(p)
    \/ \E p \in Recorder, e \in Event : RefreshInserted(p, e)
    \/ \E p \in Recorder : RefreshFails(p)
    \/ PruneEvents
    \/ Tick

Spec == Init /\ [][Next]_vars

-----------------------------------------------------------------------------
(* Properties. *)

\* A refresh not older than that shows, by a row of its own or by one that was there
\* before.
ShowsFor(age) ==
    \A r \in recorded : r.at >= now - age => Covered(r.user, r.client, r.at)

\* Coalescing and pruning together never hide an active user: a refresh that was
\* recorded shows in the statistics of its app for as long as the retention lasts,
\* less the window, and whatever the operator wrote into ACTIVITY_RETENTION_DAYS, for
\* a day less the window (getActivityRetentionDays, insertRefreshEventCoalesced,
\* deleteEventsOlderThanDays).
ActiveUsersShow == ShowsFor(Retention - Window) /\ ShowsFor(Day - Window)

\* activity.service.ts:50, activity.repository.ts:6, README.md:103 and migration 011
\* say that a user has at most one refresh row per app and hour, the window.
OneRowPerWindow ==
    \A e, f \in Stored :
        /\ e # f /\ events[e].refresh /\ events[f].refresh
        /\ events[e].user = events[f].user /\ events[e].client = events[f].client
        => events[e].at <= events[f].at - Window \/ events[f].at <= events[e].at - Window

\* What does hold of it: two refresh rows of one user and app within the window are
\* there only if neither statement saw the other's row, because the INSERTs ran
\* concurrently.
ApartUnlessConcurrent ==
    \A e, f \in Event :
        /\ events[e] # Null /\ IsRefreshOf(f, events[e].user, events[e].client)
        /\ events[e].refresh /\ e \in events[f].saw
        => events[e].at <= events[f].at - Window

\* The refreshes of one user and app that have a row of their own within a window
\* from time a on.
Burst(u, c, a) ==
    {e \in Event : /\ IsRefreshOf(e, u, c)
                   /\ events[e].at >= a /\ events[e].at < a + Window}

\* However many refreshes of a user and app there are, and whatever is pruned in
\* between, within a window they make no more rows than calls can run at once: the
\* bound that the code keeps where OneRowPerWindow fails (insertRefreshEventCoalesced).
AtMostOnePerCall ==
    \A e \in Stored :
        Cardinality(Burst(events[e].user, events[e].client, events[e].at))
          <= Cardinality(Recorder)

-----------------------------------------------------------------------------
(* The inductive invariant of the proofs. *)

\* A running statement that found itself covered is covered, until the row it
\* found is old enough to go; and what it saw had its distance.
RecInv ==
    \A p \in Recorder :
        /\ rec[p].pc # "idle" => rec[p].user \in User /\ rec[p].client \in Client
        /\ rec[p].pc = "covered" /\ rec[p].at >= now - Retention + Window
             => Covered(rec[p].user, rec[p].client, rec[p].at)
        /\ rec[p].pc = "fresh" =>
             \A e \in rec[p].saw :
                IsRefreshOf(e, rec[p].user, rec[p].client) => events[e].at <= rec[p].at - Window

\* Rows, and the rows they saw, were written; a row is written once.
WrittenInv ==
    /\ Stored \subseteq written
    /\ \A p \in Recorder : rec[p].saw \subseteq written
    /\ \A e \in Stored : events[e].saw \subseteq written

\* What was recorded is covered for the retention.
KeptInv ==
    \A r \in recorded : r.at >= now - Retention + Window => Covered(r.user, r.client, r.at)

\* The parts are preserved by every step of the recorders and the cleanup, and
\* they imply the first two properties above.
CoreInv == TypeOK /\ RecInv /\ WrittenInv /\ KeptInv /\ ApartUnlessConcurrent

\* A statement sees every row that its call has written before ...
OwnInv ==
    \A p \in Recorder, e \in Stored :
        rec[p].pc # "idle" /\ events[e].by = p => e \in rec[p].saw

\* ... so that the rows of one call are a window apart, of two calls that ran at
\* once perhaps not.
OwnRowsApart ==
    \A e, f \in Stored :
        /\ e # f /\ events[e].refresh /\ events[f].refresh
        /\ events[e].user = events[f].user /\ events[e].client = events[f].client
        /\ events[e].by = events[f].by
        => events[e].at <= events[f].at - Window \/ events[f].at <= events[e].at - Window

\* Refreshes are written by calls.
ByInv == \A e \in Stored : events[e].refresh => events[e].by \in Recorder

IInv == CoreInv /\ ByInv /\ OwnInv /\ OwnRowsApart
=============================================================================
