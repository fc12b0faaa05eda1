--------------------------- MODULE Activity_proofs ---------------------------
(***************************************************************************)
(* Proofs that Activity keeps its invariant: whatever the number of rows,  *)
(* recorders, users and apps, coalescing and pruning together never hide   *)
(* an active user, and only concurrent INSERTs put two rows in a window.   *)
(***************************************************************************)
EXTENDS Activity, FiniteSetTheorems, TLAPS

\* Null is the user, the app or the row of nothing.
LEMMA NullIsNoRow == Null \notin Row
  BY NullAssumption DEF Row

\* The retention is a whole number of time units.
LEMMA RetentionIsInt ==
    ASSUME TypeOK PROVE Retention \in Int
  <1>1. RetentionDays(raw) \in Int
    BY WindowAssumption DEF RetentionDays
  <1>2. QED
    BY <1>1, WindowAssumption DEF Retention

\* A step that leaves the setting alone leaves the retention alone.
LEMMA RetentionStays ==
    ASSUME raw' = raw PROVE Retention' = Retention
  BY DEF Retention

\* What is covered stays covered while no stored row goes or changes.
LEMMA CoveredStays ==
    ASSUME NEW u, NEW c, NEW a,
           \A e \in Event : events[e] # Null => events'[e] = events[e],
           Covered(u, c, a)
    PROVE  Covered(u, c, a)'
  BY DEF Covered, IsRefreshOf

\* The log is empty, nothing runs and nothing was recorded.
LEMMA InitCore == ASSUME Init PROVE CoreInv
  <1>1. TypeOK
    BY DEF Init, TypeOK, NoRec, Rec
  <1>2. RecInv /\ WrittenInv
    BY DEF Init, RecInv, WrittenInv, NoRec, Stored
  <1>3. KeptInv /\ ApartUnlessConcurrent
    BY DEF Init, KeptInv, ApartUnlessConcurrent
  <1>4. QED
    BY <1>1, <1>2, <1>3 DEF CoreInv

\* A login adds a row that is no refresh, in a place that was never used.
LEMMA RecordLoginKeeps ==
    ASSUME CoreInv, NEW e \in Event, NEW u \in User, NEW c \in Client, RecordLogin(e, u, c)
    PROVE  CoreInv'
  <1>0. TypeOK /\ RecInv /\ WrittenInv /\ KeptInv /\ ApartUnlessConcurrent
    BY DEF CoreInv
  <1>1. /\ e \notin written /\ events[e] = Null
        /\ events' = [events EXCEPT ![e] = [user |-> u, client |-> c, refresh |-> FALSE,
                                            at |-> now, saw |-> {}, by |-> Null]]
        /\ written' = written \cup {e}
        /\ UNCHANGED <<now, raw, rec, recorded>>
    BY <1>0 DEF RecordLogin, WrittenInv, Stored
  <1>2. [user |-> u, client |-> c, refresh |-> FALSE, at |-> now, saw |-> {}, by |-> Null] \in Row
    BY <1>0 DEF TypeOK, Row
  <1>3. TypeOK'
    BY <1>0, <1>1, <1>2 DEF TypeOK
  <1>4. \A f \in Event : events[f] # Null => events'[f] = events[f]
    BY <1>0, <1>1 DEF TypeOK
  <1>5. \A f \in Event : f # e => events'[f] = events[f]
    BY <1>0, <1>1 DEF TypeOK
  <1>6. events'[e].refresh = FALSE /\ events'[e].saw = {} /\ events'[e] # Null
    BY <1>0, <1>1, <1>2, NullIsNoRow DEF TypeOK
  <1>7. RecInv'
    <2> SUFFICES ASSUME NEW p \in Recorder
                 PROVE  /\ rec[p].pc # "idle" => rec[p].user \in User /\ rec[p].client \in Client
                        /\ rec[p].pc = "covered" /\ rec[p].at >= now - Retention + Window
                             => Covered(rec[p].user, rec[p].client, rec[p].at)'
                        /\ rec[p].pc = "fresh" =>
                             \A f \in rec[p].saw :
                                IsRefreshOf(f, rec[p].user, rec[p].client)'
                                  => events'[f].at <= rec[p].at - Window
      BY <1>1, RetentionStays DEF RecInv
    <2>1. \A f \in rec[p].saw : f \in Event /\ f # e
      BY <1>0, <1>1 DEF TypeOK, Rec, WrittenInv
    <2>2. QED
      BY <1>0, <1>1, <1>4, <1>5, <2>1, CoveredStays DEF RecInv, IsRefreshOf
  <1>8. WrittenInv'
    BY <1>0, <1>1, <1>5, <1>6 DEF WrittenInv, Stored
  <1>9. KeptInv'
    BY <1>0, <1>1, <1>4, CoveredStays, RetentionStays DEF KeptInv
  <1>10. ApartUnlessConcurrent'
    BY <1>0, <1>5, <1>6 DEF ApartUnlessConcurrent, IsRefreshOf
  <1>11. QED
    BY <1>3, <1>7, <1>8, <1>9, <1>10 DEF CoreInv

\* The statement starts: what is covered at its NOW() is covered, and what it
\* sees and is no cover is a window old.
LEMMA RefreshStartKeeps ==
    ASSUME CoreInv, NEW p \in Recorder, NEW u \in User, NEW c \in Client, RefreshStart(p, u, c)
    PROVE  CoreInv'
  <1>0. TypeOK /\ RecInv /\ WrittenInv /\ KeptInv /\ ApartUnlessConcurrent
    BY DEF CoreInv
  <1>1. PICK r \in Rec :
            /\ r = [pc |-> IF Covered(u, c, now) THEN "covered" ELSE "fresh",
                    user |-> u, client |-> c, at |-> now, saw |-> Stored]
            /\ rec' = [rec EXCEPT ![p] = r]
            /\ UNCHANGED <<now, raw, events, written, recorded>>
    BY <1>0 DEF RefreshStart, Rec, TypeOK, Stored
  <1>2. TypeOK'
    BY <1>0, <1>1 DEF TypeOK
  <1>3. rec'[p] = r /\ \A q \in Recorder : q # p => rec'[q] = rec[q]
    BY <1>0, <1>1 DEF TypeOK
  <1>4. /\ r.user = u /\ r.client = c /\ r.at = now /\ r.saw = Stored
        /\ r.pc = "covered" => Covered(u, c, now)
        /\ r.pc = "fresh" => ~ Covered(u, c, now)
    BY <1>1
  <1>5. r.pc = "fresh" => \A e \in r.saw : IsRefreshOf(e, u, c) => events[e].at <= r.at - Window
    <2> SUFFICES ASSUME r.pc = "fresh", NEW e \in Stored, IsRefreshOf(e, u, c)
                 PROVE  events[e].at <= now - Window
      BY <1>4
    <2>1. ~ (events[e].at > now - Window)
      BY <1>4 DEF Covered, Stored
    <2>2. events[e].at \in Int /\ now \in Int /\ Window \in Int
      BY <1>0, WindowAssumption DEF Stored, TypeOK, Row
    <2>3. QED
      BY <2>1, <2>2
  <1>6. RecInv'
    <2> SUFFICES ASSUME NEW q \in Recorder
                 PROVE  /\ rec'[q].pc # "idle" => rec'[q].user \in User /\ rec'[q].client \in Client
                        /\ rec'[q].pc = "covered" /\ rec'[q].at >= now - Retention + Window
                             => Covered(rec'[q].user, rec'[q].client, rec'[q].at)
                        /\ rec'[q].pc = "fresh" =>
                             \A f \in rec'[q].saw :
                                IsRefreshOf(f, rec'[q].user, rec'[q].client)
                                  => events[f].at <= rec'[q].at - Window
      BY <1>1, RetentionStays DEF RecInv, Covered, IsRefreshOf
    <2>1. CASE q = p
      BY <2>1, <1>3, <1>4, <1>5
    <2>2. CASE q # p
      BY <2>2, <1>0, <1>3 DEF RecInv
    <2>3. QED
      BY <2>1, <2>2
  <1>7. WrittenInv'
    BY <1>0, <1>1, <1>3, <1>4 DEF WrittenInv, Stored
  <1>8. KeptInv' /\ ApartUnlessConcurrent'
    BY <1>0, <1>1, RetentionStays
       DEF KeptInv, ApartUnlessConcurrent, Covered, IsRefreshOf
  <1>9. QED
    BY <1>2, <1>6, <1>7, <1>8 DEF CoreInv

\* A recorder that goes back to rest leaves the parts about recorders alone.
LEMMA RestKeeps ==
    ASSUME TypeOK, RecInv, WrittenInv, NEW p \in Recorder,
           rec' = [rec EXCEPT ![p] = NoRec], UNCHANGED <<now, raw, events, written>>
    PROVE  RecInv' /\ WrittenInv' /\ rec' \in [Recorder -> Rec]
  <1>1. NoRec \in Rec /\ NoRec.pc = "idle" /\ NoRec.saw = {}
    BY DEF NoRec, Rec
  <1>2. rec'[p] = NoRec /\ \A q \in Recorder : q # p => rec'[q] = rec[q]
    BY DEF TypeOK
  <1>3. RecInv'
    <2> SUFFICES ASSUME NEW q \in Recorder
                 PROVE  /\ rec'[q].pc # "idle" => rec'[q].user \in User /\ rec'[q].client \in Client
                        /\ rec'[q].pc = "covered" /\ rec'[q].at >= now - Retention + Window
                             => Covered(rec'[q].user, rec'[q].client, rec'[q].at)
                        /\ rec'[q].pc = "fresh" =>
                             \A f \in rec'[q].saw :
                                IsRefreshOf(f, rec'[q].user, rec'[q].client)
                                  => events[f].at <= rec'[q].at - Window
      BY RetentionStays DEF RecInv, Covered, IsRefreshOf
    <2>1. CASE q = p
      BY <2>1, <1>1, <1>2
    <2>2. CASE q # p
      BY <2>2, <1>2 DEF RecInv
    <2>3. QED
      BY <2>1, <2>2
  <1>4. WrittenInv'
    BY <1>1, <1>2 DEF WrittenInv, Stored
  <1>5. rec' \in [Recorder -> Rec]
    BY <1>1 DEF TypeOK
  <1>6. QED
    BY <1>3, <1>4, <1>5

\* What a recorder that is not at rest records is a refresh of a user at an app.
LEMMA RecordedIsTyped ==
    ASSUME TypeOK, RecInv, NEW p \in Recorder, rec[p].pc # "idle"
    PROVE  /\ Recorded(p) \in [user : User, client : Client, at : Int]
           /\ Recorded(p).user = rec[p].user /\ Recorded(p).client = rec[p].client
           /\ Recorded(p).at = rec[p].at
  BY DEF TypeOK, RecInv, Recorded, Rec

\* The covered refresh is covered by what its statement found.
LEMMA RefreshCoalescedKeeps ==
    ASSUME CoreInv, NEW p \in Recorder, RefreshCoalesced(p)
    PROVE  CoreInv'
  <1>0. TypeOK /\ RecInv /\ WrittenInv /\ KeptInv /\ ApartUnlessConcurrent
    BY DEF CoreInv
  <1>1. /\ rec[p].pc = "covered" /\ recorded' = recorded \cup {Recorded(p)}
        /\ rec' = [rec EXCEPT ![p] = NoRec] /\ UNCHANGED <<now, raw, events, written>>
    BY DEF RefreshCoalesced
  <1>2. RecInv' /\ WrittenInv' /\ rec' \in [Recorder -> Rec]
    BY <1>0, <1>1, RestKeeps
  <1>3. TypeOK'
    BY <1>0, <1>1, <1>2, RecordedIsTyped DEF TypeOK
  <1>4. KeptInv'
    <2> SUFFICES ASSUME NEW r \in recorded', r.at >= now - Retention + Window
                 PROVE  Covered(r.user, r.client, r.at)
      BY <1>1, RetentionStays DEF KeptInv, Covered, IsRefreshOf
    <2>1. CASE r \in recorded
      BY <2>1, <1>0 DEF KeptInv
    <2>2. CASE r = Recorded(p)
      BY <2>2, <1>0, <1>1, RecordedIsTyped DEF RecInv
    <2>3. QED
      BY <2>1, <2>2, <1>1
  <1>5. ApartUnlessConcurrent'
    BY <1>0, <1>1 DEF ApartUnlessConcurrent, IsRefreshOf
  <1>6. QED
    BY <1>2, <1>3, <1>4, <1>5 DEF CoreInv

\* The refresh that inserts its row is covered by it, and every row its
\* statement saw is a window older.
LEMMA RefreshInsertedKeeps ==
    ASSUME CoreInv, NEW p \in Recorder, NEW e \in Event, RefreshInserted(p, e)
    PROVE  CoreInv'
  <1>0. TypeOK /\ RecInv /\ WrittenInv /\ KeptInv /\ ApartUnlessConcurrent
    BY DEF CoreInv
  <1>1. PICK x \in Row :
            /\ x = [user |-> rec[p].user, client |-> rec[p].client, refresh |-> TRUE,
                    at |-> rec[p].at, saw |-> rec[p].saw, by |-> p]
            /\ events' = [events EXCEPT ![e] = x]
    BY <1>0 DEF RefreshInserted, RecInv, TypeOK, Row, Rec
  <1>2. /\ rec[p].pc = "fresh" /\ e \notin written /\ events[e] = Null
        /\ written' = written \cup {e} /\ recorded' = recorded \cup {Recorded(p)}
        /\ rec' = [rec EXCEPT ![p] = NoRec] /\ UNCHANGED <<now, raw>>
    BY <1>0 DEF RefreshInserted, WrittenInv, Stored
  <1>3. events'[e] = x /\ x # Null /\ \A f \in Event : f # e => events'[f] = events[f]
    BY <1>0, <1>1, NullIsNoRow DEF TypeOK
  <1>4. \A f \in Event : events[f] # Null => events'[f] = events[f]
    BY <1>2, <1>3
  <1>5. NoRec \in Rec /\ NoRec.pc = "idle" /\ NoRec.saw = {}
    BY DEF NoRec, Rec
  <1>6. rec'[p] = NoRec /\ \A q \in Recorder : q # p => rec'[q] = rec[q]
    BY <1>0, <1>2 DEF TypeOK
  <1>7. TypeOK'
    BY <1>0, <1>1, <1>2, <1>5, RecordedIsTyped DEF TypeOK
  <1>8. RecInv'
    <2> SUFFICES ASSUME NEW q \in Recorder
                 PROVE  /\ rec'[q].pc # "idle" => rec'[q].user \in User /\ rec'[q].client \in Client
                        /\ rec'[q].pc = "covered" /\ rec'[q].at >= now - Retention + Window
                             => Covered(rec[q].user, rec[q].client, rec[q].at)'
                        /\ rec'[q].pc = "fresh" =>
                             \A f \in rec'[q].saw :
                                IsRefreshOf(f, rec[q].user, rec[q].client)'
                                  => events'[f].at <= rec'[q].at - Window
      BY <1>2, RetentionStays DEF RecInv
    <2>1. CASE q = p
      BY <2>1, <1>5, <1>6
    <2>2. CASE q # p
      <3>1. \A f \in rec[q].saw : f \in Event /\ f # e
        BY <1>0, <1>2 DEF TypeOK, Rec, WrittenInv
      <3>2. rec[q].pc = "covered" /\ rec[q].at >= now - Retention + Window
              => Covered(rec[q].user, rec[q].client, rec[q].at)'
        BY <2>2, <1>0, <1>4, <1>6 DEF RecInv, Covered, IsRefreshOf
      <3>3. QED
        BY <2>2, <1>0, <1>3, <1>6, <3>1, <3>2 DEF RecInv, IsRefreshOf, Covered
    <2>3. QED
      BY <2>1, <2>2
  <1>9. WrittenInv'
    BY <1>0, <1>1, <1>2, <1>3, <1>5, <1>6 DEF WrittenInv, Stored
  <1>10. KeptInv'
    <2> SUFFICES ASSUME NEW r \in recorded', r.at >= now - Retention + Window
                 PROVE  Covered(r.user, r.client, r.at)'
      BY <1>2, RetentionStays DEF KeptInv
    <2>1. CASE r \in recorded
      BY <2>1, <1>0, <1>4, CoveredStays DEF KeptInv
    <2>2. CASE r = Recorded(p)
      <3>1. r.user = x.user /\ r.client = x.client /\ r.at = x.at /\ x.refresh
        BY <2>2, <1>0, <1>1, <1>2, RecordedIsTyped
      <3>2. x.at > x.at - Window
        BY WindowAssumption DEF Row
      <3>3. QED
        BY <3>1, <3>2, <1>3 DEF Covered, IsRefreshOf
    <2>3. QED
      BY <2>1, <2>2, <1>2
  <1>11. ApartUnlessConcurrent'
    <2> SUFFICES ASSUME NEW g \in Event, NEW f \in Event, events'[g] # Null,
                        IsRefreshOf(f, events[g].user, events[g].client)',
                        events'[g].refresh, g \in events'[f].saw
                 PROVE  events'[g].at <= events'[f].at - Window
      BY DEF ApartUnlessConcurrent, IsRefreshOf
    <2>1. g # e
      BY <1>0, <1>1, <1>2, <1>3 DEF WrittenInv, Stored, IsRefreshOf
    <2>2. CASE f = e
      <3>1. g \in rec[p].saw /\ IsRefreshOf(g, rec[p].user, rec[p].client)
        BY <2>1, <2>2, <1>1, <1>3 DEF IsRefreshOf
      <3>2. QED
        BY <2>1, <2>2, <3>1, <1>0, <1>1, <1>2, <1>3 DEF RecInv
    <2>3. CASE f # e
      BY <2>1, <2>3, <1>0, <1>3 DEF ApartUnlessConcurrent, IsRefreshOf
    <2>4. QED
      BY <2>2, <2>3
  <1>12. QED
    BY <1>7, <1>8, <1>9, <1>10, <1>11 DEF CoreInv

\* A failed statement leaves the log and what was recorded alone.
LEMMA RefreshFailsKeeps ==
    ASSUME CoreInv, NEW p \in Recorder, RefreshFails(p)
    PROVE  CoreInv'
  <1>0. TypeOK /\ RecInv /\ WrittenInv /\ KeptInv /\ ApartUnlessConcurrent
    BY DEF CoreInv
  <1>1. /\ rec' = [rec EXCEPT ![p] = NoRec]
        /\ UNCHANGED <<now, raw, events, written, recorded>>
    BY DEF RefreshFails
  <1>2. RecInv' /\ WrittenInv' /\ rec' \in [Recorder -> Rec]
    BY <1>0, <1>1, RestKeeps
  <1>3. TypeOK' /\ KeptInv' /\ ApartUnlessConcurrent'
    BY <1>0, <1>1, <1>2, RetentionStays
       DEF TypeOK, KeptInv, ApartUnlessConcurrent, Covered, IsRefreshOf
  <1>4. QED
    BY <1>2, <1>3 DEF CoreInv

\* A row that covers a refresh not older than the retention less the window is
\* itself not older than the retention.
LEMMA CoverIsKept ==
    ASSUME TypeOK, NEW u, NEW c, NEW a \in Int, Covered(u, c, a),
           a >= now - Retention + Window,
           events' = [e \in Event |-> IF Outdated(e) THEN Null ELSE events[e]]
    PROVE  Covered(u, c, a)'
  <1>1. PICK e \in Event : IsRefreshOf(e, u, c) /\ events[e].at > a - Window
    BY DEF Covered
  <1>2. events[e].at \in Int /\ now \in Int /\ Window \in Int /\ Retention \in Int
    BY <1>1, WindowAssumption, RetentionIsInt DEF IsRefreshOf, TypeOK, Row
  <1>3. ~ (events[e].at < now - Retention)
    BY <1>1, <1>2
  <1>4. events'[e] = events[e]
    BY <1>3 DEF Outdated
  <1>5. QED
    BY <1>1, <1>4 DEF Covered, IsRefreshOf

\* The pruned rows are older than every row a recorded refresh still needs.
LEMMA PruneEventsKeeps ==
    ASSUME CoreInv, PruneEvents PROVE CoreInv'
  <1>0. TypeOK /\ RecInv /\ WrittenInv /\ KeptInv /\ ApartUnlessConcurrent
    BY DEF CoreInv
  <1>1. /\ events' = [e \in Event |-> IF Outdated(e) THEN Null ELSE events[e]]
        /\ UNCHANGED <<now, raw, written, rec, recorded>>
    BY DEF PruneEvents
  <1>2. \A e \in Event : events'[e] # Null => events'[e] = events[e]
    BY <1>1
  <1>3. TypeOK'
    BY <1>0, <1>1 DEF TypeOK
  <1>4. RecInv'
    <2> SUFFICES ASSUME NEW p \in Recorder
                 PROVE  /\ rec[p].pc # "idle" => rec[p].user \in User /\ rec[p].client \in Client
                        /\ rec[p].pc = "covered" /\ rec[p].at >= now - Retention + Window
                             => Covered(rec[p].user, rec[p].client, rec[p].at)'
                        /\ rec[p].pc = "fresh" =>
                             \A f \in rec[p].saw :
                                IsRefreshOf(f, rec[p].user, rec[p].client)'
                                  => events'[f].at <= rec[p].at - Window
      BY <1>1, RetentionStays DEF RecInv
    <2>1. rec[p].at \in Int /\ rec[p].saw \subseteq Event
      BY <1>0 DEF TypeOK, Rec
    <2>2. rec[p].pc = "covered" /\ rec[p].at >= now - Retention + Window
            => Covered(rec[p].user, rec[p].client, rec[p].at)'
      <3> SUFFICES ASSUME rec[p].pc = "covered", rec[p].at >= now - Retention + Window
                   PROVE  Covered(rec[p].user, rec[p].client, rec[p].at)'
        OBVIOUS
      <3>1. PICK u, c, a : u = rec[p].user /\ c = rec[p].client /\ a = rec[p].at
        OBVIOUS
      <3>2. Covered(u, c, a)'
        BY <3>1, <2>1, <1>0, <1>1, CoverIsKept DEF RecInv
      <3>3. QED
        BY <3>1, <3>2, <1>1 DEF Covered, IsRefreshOf
    <2>3. QED
      BY <2>1, <2>2, <1>0, <1>1, <1>2 DEF RecInv, IsRefreshOf
  <1>5. WrittenInv'
    BY <1>0, <1>1, <1>2 DEF WrittenInv, Stored
  <1>6. KeptInv'
    <2> SUFFICES ASSUME NEW r \in recorded, r.at >= now - Retention + Window
                 PROVE  Covered(r.user, r.client, r.at)'
      BY <1>1, RetentionStays DEF KeptInv
    <2>1. r.at \in Int /\ Covered(r.user, r.client, r.at)
      BY <1>0 DEF TypeOK, KeptInv
    <2>2. QED
      BY <2>1, <1>0, <1>1, CoverIsKept
  <1>7. ApartUnlessConcurrent'
    BY <1>0, <1>2 DEF ApartUnlessConcurrent, IsRefreshOf
  <1>8. QED
    BY <1>3, <1>4, <1>5, <1>6, <1>7 DEF CoreInv

\* As time passes, fewer refreshes have to show.
LEMMA TickKeeps == ASSUME CoreInv, Tick PROVE CoreInv'
  <1>0. TypeOK /\ RecInv /\ WrittenInv /\ KeptInv /\ ApartUnlessConcurrent
    BY DEF CoreInv
  <1>1. now' = now + 1 /\ UNCHANGED <<raw, events, written, rec, recorded>>
    BY DEF Tick
  <1>2. now \in Int /\ Retention \in Int /\ Window \in Int /\ Retention' = Retention
    BY <1>0, <1>1, WindowAssumption, RetentionIsInt, RetentionStays DEF TypeOK
  <1>3. \A a \in Int : a >= now' - Retention' + Window => a >= now - Retention + Window
    BY <1>1, <1>2
  <1>4. TypeOK' /\ WrittenInv' /\ ApartUnlessConcurrent'
    BY <1>0, <1>1, <1>2 DEF TypeOK, WrittenInv, ApartUnlessConcurrent, IsRefreshOf, Stored
  <1>5. \A u, c, a : Covered(u, c, a)' <=> Covered(u, c, a)
    BY <1>1 DEF Covered, IsRefreshOf
  <1>6. RecInv'
    <2>1. \A p \in Recorder : rec[p].at \in Int
      BY <1>0 DEF TypeOK, Rec
    <2>2. QED
      BY <1>0, <1>1, <1>3, <2>1 DEF RecInv, Covered, IsRefreshOf
  <1>7. KeptInv'
    <2>1. \A r \in recorded : r.at \in Int
      BY <1>0 DEF TypeOK
    <2>2. QED
      BY <1>0, <1>1, <1>3, <2>1 DEF KeptInv, Covered, IsRefreshOf
  <1>8. QED
    BY <1>4, <1>6, <1>7 DEF CoreInv

-----------------------------------------------------------------------------

\* The invariant holds in every reachable state of Activity.
LEMMA CoreInvariance == Spec => []CoreInv
  <1>1. Init => CoreInv
    BY InitCore
  <1>2. CoreInv /\ [Next]_vars => CoreInv'
    <2> SUFFICES ASSUME CoreInv, [Next]_vars PROVE CoreInv'
      OBVIOUS
    <2>1. CASE Next
      BY <2>1, RecordLoginKeeps, RefreshStartKeeps, RefreshCoalescedKeeps,
         RefreshInsertedKeeps, RefreshFailsKeeps, PruneEventsKeeps, TickKeeps DEF Next
    <2>2. CASE UNCHANGED vars
      <3>0. TypeOK /\ RecInv /\ WrittenInv /\ KeptInv /\ ApartUnlessConcurrent
        BY DEF CoreInv
      <3>1. /\ now' = now /\ raw' = raw /\ events' = events
            /\ written' = written /\ rec' = rec /\ recorded' = recorded
        BY <2>2 DEF vars
      <3>2. TypeOK' /\ WrittenInv' /\ ApartUnlessConcurrent'
        BY <3>0, <3>1 DEF TypeOK, WrittenInv, ApartUnlessConcurrent, IsRefreshOf, Stored
      <3>3. RecInv' /\ KeptInv'
        BY <3>0, <3>1, RetentionStays DEF RecInv, KeptInv, Covered, IsRefreshOf
      <3>4. QED
        BY <3>2, <3>3 DEF CoreInv
    <2>3. QED
      BY <2>1, <2>2
  <1>3. QED
    BY <1>1, <1>2, PTL DEF Spec

\* No setting makes the retention shorter than a day.
LEMMA RetentionIsADay ==
    ASSUME TypeOK PROVE Retention >= Day
  <1>1. PICK n \in Int : n = RetentionDays(raw) /\ n >= 1
    BY WindowAssumption DEF RetentionDays
  <1>2. n * Day >= Day
    BY <1>1, WindowAssumption
  <1>3. QED
    BY <1>1, <1>2 DEF Retention

\* A recorded refresh shows in the statistics of its app until it is older than the
\* retention less the window, and for a day less the window whatever the setting of the
\* retention, for every coalesce window and retention.
THEOREM ActivityIsKept == Spec => []ActiveUsersShow
  <1>1. ASSUME CoreInv PROVE ActiveUsersShow
    <2>1. now \in Int /\ Retention \in Int /\ Day \in Int /\ Window \in Int /\ Retention >= Day
      BY <1>1, RetentionIsInt, RetentionIsADay, WindowAssumption DEF CoreInv, TypeOK
    <2>2. \A r \in recorded : r.at \in Int
      BY <1>1 DEF CoreInv, TypeOK
    <2>3. \A a \in Int : a >= now - (Retention - Window) \/ a >= now - (Day - Window)
                           => a >= now - Retention + Window
      BY <2>1
    <2>4. QED
      BY <1>1, <2>2, <2>3 DEF CoreInv, KeptInv, ActiveUsersShow, ShowsFor
  <1>2. QED
    BY <1>1, CoreInvariance, PTL

\* Only concurrent INSERTs put two refresh rows of a user at an app closer
\* together than the window.
THEOREM OnlyRacesDuplicate == Spec => []ApartUnlessConcurrent
  <1>1. CoreInv => ApartUnlessConcurrent
    BY DEF CoreInv
  <1>2. QED
    BY <1>1, CoreInvariance, PTL

-----------------------------------------------------------------------------
(* Which call wrote a row. *)

\* Steps that add no row, and that start no statement, keep what the rows say of
\* the calls that wrote them.
LEMMA FewerRowsOwn ==
    ASSUME ByInv, OwnInv, OwnRowsApart,
           \A e \in Event : events'[e] # Null => events'[e] = events[e],
           \A p \in Recorder : rec'[p] = rec[p] \/ rec'[p].pc = "idle"
    PROVE  (ByInv /\ OwnInv /\ OwnRowsApart)'
  <1>1. \A e \in Event : e \in Stored' => e \in Stored /\ events'[e] = events[e]
    BY DEF Stored
  <1>2. Stored' \subseteq Event
    BY DEF Stored
  <1>3. ByInv' /\ OwnInv'
    BY <1>1, <1>2 DEF ByInv, OwnInv
  <1>4. OwnRowsApart'
    BY <1>1, <1>2 DEF OwnRowsApart
  <1>5. QED
    BY <1>3, <1>4

\* The snapshot of a statement that starts holds all rows of its call.
LEMMA RefreshStartOwn ==
    ASSUME CoreInv, ByInv, OwnInv, OwnRowsApart,
           NEW p \in Recorder, NEW u \in User, NEW c \in Client, RefreshStart(p, u, c)
    PROVE  (ByInv /\ OwnInv /\ OwnRowsApart)'
  <1>0. TypeOK
    BY DEF CoreInv
  <1>1. events' = events /\ Stored' = Stored
    BY DEF RefreshStart, Stored
  <1>2. rec'[p].saw = Stored /\ \A q \in Recorder : q # p => rec'[q] = rec[q]
    BY <1>0 DEF RefreshStart, TypeOK
  <1>3. ByInv' /\ OwnRowsApart'
    BY <1>1 DEF ByInv, OwnRowsApart
  <1>4. OwnInv'
    BY <1>1, <1>2 DEF OwnInv
  <1>5. QED
    BY <1>3, <1>4

\* The row of a login is no refresh, and of no call.
LEMMA RecordLoginOwn ==
    ASSUME CoreInv, ByInv, OwnInv, OwnRowsApart,
           NEW e \in Event, NEW u \in User, NEW c \in Client, RecordLogin(e, u, c)
    PROVE  (ByInv /\ OwnInv /\ OwnRowsApart)'
  <1>0. TypeOK /\ WrittenInv
    BY DEF CoreInv
  <1>1. /\ events' = [events EXCEPT ![e] = [user |-> u, client |-> c, refresh |-> FALSE,
                                            at |-> now, saw |-> {}, by |-> Null]]
        /\ rec' = rec
    BY DEF RecordLogin
  <1>2. events'[e].refresh = FALSE /\ events'[e].by = Null
        /\ \A f \in Event : f # e => events'[f] = events[f]
    BY <1>0, <1>1 DEF TypeOK
  <1>3. \A f \in Stored' : f \in Event /\ (f = e \/ (f \in Stored /\ events'[f] = events[f]))
    BY <1>2 DEF Stored
  <1>4. ByInv'
    BY <1>2, <1>3 DEF ByInv
  <1>5. OwnInv'
    BY <1>1, <1>2, <1>3, NullAssumption DEF OwnInv
  <1>6. OwnRowsApart'
    BY <1>2, <1>3 DEF OwnRowsApart
  <1>7. QED
    BY <1>4, <1>5, <1>6

\* A new row is a window later than every stored row of its call, all of which its
\* statement has seen.
LEMMA RefreshInsertedOwn ==
    ASSUME CoreInv, ByInv, OwnInv, OwnRowsApart,
           NEW p \in Recorder, NEW e \in Event, RefreshInserted(p, e)
    PROVE  (ByInv /\ OwnInv /\ OwnRowsApart)'
  <1>0. TypeOK /\ RecInv
    BY DEF CoreInv
  <1>1. /\ events'[e] = [user |-> rec[p].user, client |-> rec[p].client, refresh |-> TRUE,
                         at |-> rec[p].at, saw |-> rec[p].saw, by |-> p]
        /\ rec[p].pc = "fresh"
        /\ rec'[p].pc = "idle"
        /\ \A f \in Event : f # e => events'[f] = events[f]
        /\ \A q \in Recorder : q # p => rec'[q] = rec[q]
    BY <1>0 DEF RefreshInserted, TypeOK, NoRec
  <1>2. /\ events'[e].user = rec[p].user /\ events'[e].client = rec[p].client
        /\ events'[e].at = rec[p].at /\ events'[e].by = p
    BY <1>1
  <1>3. \A f \in Stored' : f \in Event /\ (f = e \/ (f \in Stored /\ events'[f] = events[f]))
    BY <1>1 DEF Stored
  <1>4. ByInv'
    BY <1>2, <1>3 DEF ByInv
  <1>5. OwnInv'
    BY <1>1, <1>2, <1>3 DEF OwnInv
  <1>6. \A f \in Stored : events[f].by = p /\ events[f].refresh
                            /\ events[f].user = rec[p].user /\ events[f].client = rec[p].client
          => events[f].at <= rec[p].at - Window
    <2> SUFFICES ASSUME NEW f \in Stored, events[f].by = p, events[f].refresh,
                        events[f].user = rec[p].user, events[f].client = rec[p].client
                 PROVE  events[f].at <= rec[p].at - Window
      OBVIOUS
    <2>1. f \in rec[p].saw
      BY <1>1 DEF OwnInv
    <2>2. IsRefreshOf(f, rec[p].user, rec[p].client)
      BY DEF IsRefreshOf, Stored
    <2>3. QED
      BY <2>1, <2>2, <1>0, <1>1 DEF RecInv
  <1>7. OwnRowsApart'
    <2> SUFFICES ASSUME NEW g \in Stored', NEW f \in Stored', g # f,
                        events'[g].refresh, events'[f].refresh,
                        events'[g].user = events'[f].user,
                        events'[g].client = events'[f].client,
                        events'[g].by = events'[f].by
                 PROVE  \/ events'[g].at <= events'[f].at - Window
                        \/ events'[f].at <= events'[g].at - Window
      BY DEF OwnRowsApart
    <2>1. CASE g = e
      BY <2>1, <1>2, <1>3, <1>6
    <2>2. CASE f = e
      BY <2>2, <1>2, <1>3, <1>6
    <2>3. CASE g # e /\ f # e
      BY <2>3, <1>3 DEF OwnRowsApart
    <2>4. QED
      BY <2>1, <2>2, <2>3
  <1>8. QED
    BY <1>4, <1>5, <1>7

\* The invariant, with the calls that the rows come from, holds throughout.
THEOREM Invariance == Spec => []IInv
  <1>1. Init => ByInv /\ OwnInv /\ OwnRowsApart
    BY DEF Init, ByInv, OwnInv, OwnRowsApart, Stored
  <1>2. CoreInv /\ CoreInv' /\ (ByInv /\ OwnInv /\ OwnRowsApart) /\ [Next]_vars
          => (ByInv /\ OwnInv /\ OwnRowsApart)'
    <2> SUFFICES ASSUME CoreInv, ByInv, OwnInv, OwnRowsApart, [Next]_vars
                 PROVE  (ByInv /\ OwnInv /\ OwnRowsApart)'
      OBVIOUS
    <2>0. TypeOK
      BY DEF CoreInv
    <2>1. ASSUME NEW p \in Recorder, RefreshCoalesced(p) \/ RefreshFails(p)
          PROVE  (ByInv /\ OwnInv /\ OwnRowsApart)'
      <3>1. /\ events' = events
            /\ \A q \in Recorder : rec'[q] = rec[q] \/ rec'[q].pc = "idle"
        BY <2>0, <2>1 DEF RefreshCoalesced, RefreshFails, TypeOK, NoRec
      <3>2. QED
        BY <3>1, FewerRowsOwn
    <2>2. CASE PruneEvents
      <3>1. /\ \A e \in Event : events'[e] # Null => events'[e] = events[e]
            /\ rec' = rec
        BY <2>2 DEF PruneEvents
      <3>2. QED
        BY <3>1, FewerRowsOwn
    <2>3. CASE Tick \/ UNCHANGED vars
      <3>1. events' = events /\ rec' = rec
        BY <2>3 DEF Tick, vars
      <3>2. QED
        BY <3>1, FewerRowsOwn
    <2>4. QED
      BY <2>1, <2>2, <2>3, RecordLoginOwn, RefreshStartOwn, RefreshInsertedOwn DEF Next
  <1>3. QED
    BY <1>1, <1>2, CoreInvariance, PTL DEF Spec, IInv

\* A burst maps into the calls, one row each, so that the refreshes of a user and
\* app write no more rows within a window than calls can run at once.
THEOREM BurstsAreBounded == Spec => []AtMostOnePerCall
  <1>1. IInv => AtMostOnePerCall
    <2> SUFFICES ASSUME IInv, NEW e \in Stored
                 PROVE  Cardinality(Burst(events[e].user, events[e].client, events[e].at))
                          <= Cardinality(Recorder)
      BY DEF AtMostOnePerCall
    <2> DEFINE rows == Burst(events[e].user, events[e].client, events[e].at)
               by == [f \in rows |-> events[f].by]
    <2>1. ASSUME NEW f \in rows
          PROVE  /\ f \in Stored /\ events[f].refresh
                 /\ events[f].user = events[e].user /\ events[f].client = events[e].client
                 /\ events[f].at >= events[e].at /\ events[f].at < events[e].at + Window
                 /\ events[f].at \in Int
      <3>1. f \in Event /\ IsRefreshOf(f, events[e].user, events[e].client)
            /\ events[f].at >= events[e].at /\ events[f].at < events[e].at + Window
        BY <2>1 DEF Burst
      <3>2. f \in Stored /\ events[f] \in Row
        BY <3>1 DEF IsRefreshOf, Stored, IInv, CoreInv, TypeOK
      <3>3. QED
        BY <3>1, <3>2 DEF IsRefreshOf, Row
    <2>2. \A f \in rows : by[f] \in Recorder
      BY <2>1 DEF IInv, ByInv
    <2>3. events[e].at \in Int /\ Window \in Int
      BY WindowAssumption DEF IInv, CoreInv, TypeOK, Stored, Row
    <2>4. \A f, g \in rows : by[f] = by[g] => f = g
      <3> SUFFICES ASSUME NEW f \in rows, NEW g \in rows, by[f] = by[g], f # g PROVE FALSE
        OBVIOUS
      <3>1. \/ events[f].at <= events[g].at - Window
            \/ events[g].at <= events[f].at - Window
        BY <2>1 DEF IInv, OwnRowsApart
      <3>2. QED
        BY <3>1, <2>1, <2>3
    <2>5. by \in Injection(rows, Recorder)
      BY <2>2, <2>4 DEF Injection, IsInjective
    <2> HIDE DEF rows, by
    <2>6. Cardinality(rows) <= Cardinality(Recorder)
      BY <2>5, RecorderAssumption, FS_Injection
    <2>7. QED
      BY <2>6 DEF rows
  <1>2. QED
    BY <1>1, Invariance, PTL
=============================================================================
