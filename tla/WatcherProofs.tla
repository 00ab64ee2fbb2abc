---------------------------- MODULE WatcherProofs ----------------------------
(***************************************************************************)
(* Theorems about the event log and the watcher together.                  *)
(***************************************************************************)
EXTENDS Watcher, ResetEventsProofs

(* The watcher and the desktop only read the log. *)
LEMMA WatcherReadsLog ==
  ASSUME [Next]_vars PROVE [LogNext]_logVars
  <1>1. CASE UNCHANGED vars BY <1>1 DEF vars
  <1>2. CASE StartWatcher \/ Ticker BY <1>2 DEF StartWatcher, Ticker
  <1>3. CASE Poll
    BY <1>3 DEF Poll, Fetch, FetchFails, SwitchStream, NothingNew, Skip, SkipFails, Show,
                ShowUnanswered, ShowFails
  <1>4. CASE Handle
    BY <1>4 DEF Handle, HandleRestarted, HandleClosed, IgnoreAction, Acknowledge, AcknowledgeFails
  <1>5. CASE CloseRead \/ Quit \/ Killed BY <1>5 DEF CloseRead, Quit, Killed
  <1>6. CASE Desktop BY <1>6 DEF Desktop, RestartShell, MarkRead, Drop
  <1> QED BY <1>1, <1>2, <1>3, <1>4, <1>5, <1>6 DEF Next

LEMMA LogInvAlways == Spec => []LogInv
  <1>1. Init => LogInv BY LogInitInv DEF Init
  <1>2. LogInv /\ [Next]_vars => LogInv' BY WatcherReadsLog, LogStep
  <1> QED BY <1>1, <1>2, PTL DEF Spec

(* A replenishment is never reported twice. *)
THEOREM ReportedAtMostOnce == Spec => []ReportedOnce
  <1>1. LogInv => ReportedOnce BY LogInvImplies
  <1> QED BY <1>1, LogInvAlways, PTL

(* A failed write of the log loses no replenishment. *)
THEOREM NoneSwallowed == Spec => []NoRiseSwallowed
  <1>1. LogInv => NoRiseSwallowed BY LogInvImplies
  <1> QED BY <1>1, LogInvAlways, PTL

-----------------------------------------------------------------------------
(* Facts about sequences and numbers. *)
LEMMA MaxExists ==
  ASSUME NEW S, NEW last \in Nat, S # {}, \A x \in S : x \in Nat /\ x <= last
  PROVE  \E x \in S : \A y \in S : y <= x
  <1> DEFINE Above(x) == {y \in S : y > x}
             T == {Above(x) : x \in S}
  <1>1. \A x \in S : Above(x) \in SUBSET (0 .. last)
    OBVIOUS
  <1>2. IsFiniteSet(0 .. last) BY FS_Interval
  <1>3. T \subseteq FiniteSubsetsOf(0 .. last) /\ T # {}
    <2>1. ASSUME NEW t \in SUBSET (0 .. last) PROVE IsFiniteSet(t) BY <1>2, FS_Subset
    <2> QED BY <1>1, <2>1 DEF FiniteSubsetsOf
  <1>4. PICK m \in T : \A t \in T : ~ (<<t, m>> \in StrictSubsetOrdering(0 .. last))
    <2> HIDE DEF T
    <2> QED BY <1>3, FS_StrictSubsetOrderingWellFounded, WFMin
  <1>5. PICK x \in S : m = Above(x) OBVIOUS
  <1>6. ASSUME NEW y \in S, y > x PROVE FALSE
    <2>1. Above(y) \in T /\ Above(y) \in SUBSET (0 .. last) /\ m \in SUBSET (0 .. last)
      BY <1>1, <1>5
    <2>2. Above(y) \subseteq m /\ Above(y) # m BY <1>5, <1>6
    <2>3. <<Above(y), m>> \in StrictSubsetOrdering(0 .. last)
      <3> HIDE DEF Above
      <3> QED BY <2>1, <2>2 DEF StrictSubsetOrdering
    <2> QED BY <1>4, <2>1, <2>3
  <1>7. \A y \in S : y <= x BY <1>6
  <1> QED BY <1>7

(* The signals of a queue, in any order. *)
Signals(q) == {q[k] : k \in 1 .. Len(q)}
LEMMA SignalsTail ==
  ASSUME NEW S, NEW q \in Seq(S), q # <<>>
  PROVE  /\ Head(q) \in Signals(q) /\ Tail(q) \in Seq(S) /\ Head(q) \in S
         /\ Signals(Tail(q)) \subseteq Signals(q)
  <1>1. Len(q) \in Nat \ {0} BY EmptySeq
  <1>2. Head(q) = q[1] /\ Head(q) \in S OBVIOUS
  <1>3. /\ Tail(q) \in Seq(S)
        /\ Len(Tail(q)) = Len(q) - 1
        /\ \A i \in 1 .. Len(Tail(q)) : Tail(q)[i] = q[i + 1]
    BY HeadTailProperties
  <1>4. ASSUME NEW i \in 1 .. Len(Tail(q)) PROVE Tail(q)[i] \in Signals(q)
    <2>1. i + 1 \in 1 .. Len(q) BY <1>1, <1>3
    <2> QED BY <1>3, <2>1 DEF Signals
  <1> QED BY <1>1, <1>2, <1>3, <1>4 DEF Signals

LEMMA SignalsConcat ==
  ASSUME NEW S, NEW q \in Seq(S), NEW r \in Seq(S)
  PROVE  /\ q \o r \in Seq(S)
         /\ \A s \in Signals(q \o r) : s \in Signals(q) \/ s \in Signals(r)
  <1>1. Len(q) \in Nat /\ Len(r) \in Nat OBVIOUS
  <1>2. /\ q \o r \in Seq(S)
        /\ Len(q \o r) = Len(q) + Len(r)
        /\ \A i \in 1 .. Len(q) + Len(r) : (q \o r)[i] = IF i <= Len(q) THEN q[i] ELSE r[i - Len(q)]
    BY ConcatProperties
  <1>3. ASSUME NEW i \in 1 .. Len(q) + Len(r)
        PROVE  (q \o r)[i] \in Signals(q) \/ (q \o r)[i] \in Signals(r)
    <2>1. CASE i <= Len(q) BY <1>1, <1>2, <2>1 DEF Signals
    <2>2. CASE ~(i <= Len(q))
      <3>1. i - Len(q) \in 1 .. Len(r) BY <1>1, <2>2
      <3> QED BY <1>2, <2>2, <3>1 DEF Signals
    <2> QED BY <2>1, <2>2
  <1> QED BY <1>2, <1>3 DEF Signals

LEMMA SignalsAppend ==
  ASSUME NEW S, NEW q \in Seq(S), NEW x \in S
  PROVE  /\ Append(q, x) \in Seq(S)
         /\ \A s \in Signals(Append(q, x)) : s \in Signals(q) \/ s = x
  <1>1. Append(q, x) = q \o <<x>> /\ <<x>> \in Seq(S) BY AppendIsConcat
  <1>2. Len(<<x>>) = 1 OBVIOUS
  <1>3. \A s \in Signals(<<x>>) : s = x BY <1>2 DEF Signals
  <1>4. /\ q \o <<x>> \in Seq(S)
        /\ \A s \in Signals(q \o <<x>>) : s \in Signals(q) \/ s \in Signals(<<x>>)
    <2> DEFINE r == <<x>>
    <2>1. r \in Seq(S) BY <1>1
    <2> HIDE DEF r
    <2>2. q \o r \in Seq(S) /\ \A s \in Signals(q \o r) : s \in Signals(q) \/ s \in Signals(r)
      BY <2>1, SignalsConcat
    <2> QED BY <2>2 DEF r
  <1>5. q \o <<x>> = Append(q, x) BY <1>1
  <1> QED BY <1>3, <1>4, <1>5

LEMMA SignalsOfTwo ==
  ASSUME NEW S,  NEW x \in S, NEW y \in S
  PROVE  /\ <<x,y>> \in Seq(S)
         /\ \A s \in Signals(<<x,y>>) : s \in {x, y}
  <1>1. Len(<<x, y>>) = 2 /\ <<x, y>>[1] = x /\ <<x, y>>[2] = y OBVIOUS
  <1>2. \A i \in 1 .. 2 : i = 1 \/ i = 2 OBVIOUS
  <1>3. <<x, y>> \in Seq(S) OBVIOUS
  <1>4. ASSUME NEW i \in 1 .. 2 PROVE <<x, y>>[i] \in {x, y} BY <1>1, <1>2
  <1> HIDE DEF Signals
  <1>5. Signals(<<x, y>>) = {<<x, y>>[i] : i \in 1 .. 2} BY <1>1 DEF Signals
  <1> QED BY <1>3, <1>4, <1>5

-----------------------------------------------------------------------------
(* The invariant.  Cursors, tokens and pages were taken from the log in memory, *)
(* so they are judged by it, or by the file that the next daemon will load.  The *)
(* file may be ahead of the memory, after a write that failed past its rename, *)
(* but it never disagrees with it.  l is that log and s the number of streams. *)
Extends(new, old) ==
    /\ new.stream = old.stream
    /\ Len(old.events) <= Len(new.events)
    /\ \A n \in 1 .. Len(old.events) : new.events[n] = old.events[n]

FileExtendsLog ==
    /\ log # NoLog => file # NoLog /\ Extends(file, log)
    /\ file # NoLog => file.stream <= streams

(* Every wanted event up to a cursor is among some alerts. *)
Passed(l, s, c, alerts) ==
    /\ c.stream <= s
    /\ l # NoLog => c.stream <= l.stream
    /\ l # NoLog /\ l.stream = c.stream =>
          /\ c.after <= Len(l.events)
          /\ WantedIn(AlertsIn(l, 1, c.after)) \subseteq alerts

CursorInv == Passed(Current, streams, cursor, read) /\ Passed(Current, streams, saved, read)

(* A click acknowledges only what the user saw, wherever the click is: on the *)
(* screen or among the signals. *)
ClickInv ==
    /\ \A n \in notes : Passed(Current, streams, n.token, read \cup n.alerts)
    /\ \A k \in Signals(queue) : k.kind = "action" => Passed(Current, streams, k.token, read)

(* A page continues the cursor it was fetched with. *)
Behind(c, p) == IF p.stream = c.stream THEN c.after ELSE 0
Continues(l, s, c, p) ==
    /\ c.stream <= p.stream /\ p.stream <= s /\ Behind(c, p) <= p.last
    /\ \A a \in p.alerts : a.stream = p.stream /\ Behind(c, p) < a.id /\ a.id <= p.last
    /\ l # NoLog => p.stream <= l.stream
    /\ l # NoLog /\ l.stream = p.stream =>
          /\ p.last <= Len(l.events)
          /\ AlertsIn(l, Behind(c, p) + 1, p.last) \subseteq p.alerts

PageInv == pc \in {"got", "switched"} => Continues(Current, streams, cursor, page)

(* What was acknowledged is behind the cursors, which do not go back. *)
Before(a, c) == a.stream < c.stream \/ (a.stream = c.stream /\ a.id <= c.after)
DoneInv == \A a \in done : Before(a, saved) /\ (pc # "off" => Before(a, cursor))

WatcherInv == TypeOK /\ FileExtendsLog /\ CursorInv /\ ClickInv /\ PageInv /\ DoneInv

-----------------------------------------------------------------------------
(* How the log that counts may change: more events, or a stream never seen. *)
Moves(old, s, new, t) ==
    /\ s <= t
    /\ new # NoLog =>
          \/ old # NoLog /\ Extends(new, old)
          \/ s < new.stream /\ new.stream <= t

LEMMA LogMoves ==
  ASSUME LogTypeOK, FileExtendsLog, [LogNext]_logVars
  PROVE  FileExtendsLog' /\ Moves(Current, streams, Current', streams')
  <1> USE DEF LogTypeOK, FileExtendsLog, Current, Moves
  <1>1. ASSUME NEW l \in Log PROVE Extends(l, l)
    <2>1. l.events \in Seq(Event) BY DEF Log
    <2>2. Len(l.events) \in Nat BY <2>1, LenProperties
    <2> QED BY <2>2 DEF Extends
  <1>2. NewLog \in Log /\ NewLog # NoLog /\ NewLog.stream = streams + 1
    <2>1. NewLog \in Log BY NewLogIsEmpty
    <2>2. NewLog.stream = streams + 1 BY DEF NewLog
    <2> QED BY <2>1, <2>2, LogAssumption
  <1>3. CASE LoadFile BY <1>1, <1>3 DEF LoadFile
  <1>4. CASE LoadNew BY <1>1, <1>2, <1>4 DEF LoadNew
  <1>5. CASE LoadNewFails BY <1>2, <1>5 DEF LoadNewFails
  <1>6. CASE Stop BY <1>6 DEF Stop
  <1>7. CASE RemoveLog BY <1>7 DEF RemoveLog
  <1>8. ASSUME NEW p \in Provider, log # NoLog, NEW new \in Recordings(p)
        PROVE  new # NoLog /\ new \in Log /\ Extends(new, log)
    <2>1. PICK order \in Orders(Risen(p)) : new = Compared(log, p, order)
      BY <1>8 DEF Recordings
    <2>2. /\ new \in Log /\ new # NoLog /\ new.stream = log.stream
          /\ Len(log.events) \in Nat /\ Cardinality(Risen(p)) \in Nat
          /\ DOMAIN new.events = 1 .. Len(log.events) + Cardinality(Risen(p))
          /\ \A n \in 1 .. Len(log.events) : new.events[n] = log.events[n]
      BY <1>8, <2>1, ComparedLog
    <2>3. new.events \in Seq(Event) BY <2>2 DEF Log
    <2>4. Len(new.events) \in Nat /\ DOMAIN new.events = 1 .. Len(new.events)
      BY <2>3, LenProperties
    <2>5. Len(new.events) = Len(log.events) + Cardinality(Risen(p))
      <3> DEFINE a == Len(new.events)
                 b == Len(log.events) + Cardinality(Risen(p))
      <3>1. a \in Nat /\ b \in Nat /\ 1 .. a = 1 .. b BY <2>2, <2>4
      <3> HIDE DEF a, b
      <3>2. \A x \in 1 .. a : x \in 1 .. b BY <3>1
      <3>3. \A x \in 1 .. b : x \in 1 .. a BY <3>1
      <3>4. a <= b BY <3>1, <3>2
      <3>5. b <= a BY <3>1, <3>3
      <3>6. a = b BY <3>1, <3>4, <3>5
      <3> QED BY <3>6 DEF a, b
    <2> QED BY <2>2, <2>5 DEF Extends
  <1>9. ASSUME NEW p \in Provider, Record(p)
        PROVE  FileExtendsLog' /\ Moves(Current, streams, Current', streams')
    <2>1. PICK new \in Recordings(p) : log' = new /\ file' = new BY <1>9 DEF Record
    <2>2. new # NoLog /\ Extends(new, log) /\ Extends(new, new) BY <1>1, <1>8, <1>9 DEF Record
    <2>3. new.stream = log.stream /\ log.stream = file.stream /\ file # NoLog
      BY <1>9, <2>2 DEF Record, Extends
    <2> QED BY <1>9, <2>1, <2>2, <2>3 DEF Record
  <1>10. ASSUME NEW p \in Provider, RecordFails(p)
        PROVE  FileExtendsLog' /\ Moves(Current, streams, Current', streams')
    <2>1. log # NoLog /\ log' = log /\ streams' = streams BY <1>10 DEF RecordFails
    <2>2. Extends(log, log) /\ Moves(Current, streams, Current', streams')
      BY <1>1, <2>1
    <2>3. CASE file' = file BY <2>1, <2>2, <2>3
    <2>4. CASE file' \in Recordings(p)
      <3>1. file' # NoLog /\ Extends(file', log) BY <1>8, <2>1, <2>4
      <3>2. file'.stream = log.stream /\ log.stream = file.stream BY <2>1, <3>1 DEF Extends
      <3> QED BY <2>1, <2>2, <3>1, <3>2
    <2> QED BY <1>10, <2>3, <2>4 DEF RecordFails
  <1>11. ASSUME UNCHANGED <<log, file, streams>>
         PROVE  FileExtendsLog' /\ Moves(Current, streams, Current', streams')
    <2>1. FileExtendsLog' BY <1>11 DEF Extends
    <2>2. Current \in Log \cup {NoLog} OBVIOUS
    <2>3. Current # NoLog => Extends(Current, Current)
      <3> HIDE DEF Current
      <3> QED BY <1>1, <2>2
    <2>4. Current' = Current BY <1>11
    <2> QED BY <1>11, <2>1, <2>3, <2>4
  <1>12. ASSUME NEW i \in Item, QuotaChanges(i) PROVE UNCHANGED <<log, file, streams>>
    BY <1>12 DEF QuotaChanges
  <1> QED BY <1>3, <1>4, <1>5, <1>6, <1>7, <1>9, <1>10, <1>11, <1>12 DEF LogNext, logVars

LEMMA MovedAlerts ==
  ASSUME NEW old \in Log, NEW new \in Log, Extends(new, old), NEW m \in Nat, NEW n \in Nat,
         n <= Len(old.events)
  PROVE  /\ n <= Len(new.events)
         /\ AlertsIn(new, m + 1, n) = AlertsIn(old, m + 1, n)
  <1>1. Len(old.events) \in Nat /\ Len(new.events) \in Nat
    <2>1. old.events \in Seq(Event) /\ new.events \in Seq(Event) BY DEF Log
    <2> QED BY <2>1, LenProperties
  <1>2. new.stream = old.stream BY DEF Extends
  <1>3. \A x \in m + 1 .. n : new.events[x] = old.events[x]
    <2>1. ASSUME NEW x \in m + 1 .. n PROVE x \in 1 .. Len(old.events) BY <1>1
    <2> QED BY <2>1 DEF Extends
  <1> QED BY <1>1, <1>2, <1>3 DEF Extends, AlertsIn

(* A cursor that was passed stays passed, while alerts are only added. *)
LEMMA StillPassed ==
  ASSUME NEW old \in Log \cup {NoLog}, NEW new \in Log \cup {NoLog}, NEW s \in Nat, NEW t \in Nat,
         NEW c \in Cursor, NEW A, NEW B, A \subseteq B,
         Passed(old, s, c, A), Moves(old, s, new, t)
  PROVE  Passed(new, t, c, B)
  <1>1. c.stream \in Nat /\ c.after \in Nat BY DEF Cursor
  <1>2. c.stream <= t BY <1>1 DEF Passed, Moves
  <1>3. CASE new = NoLog BY <1>2, <1>3 DEF Passed
  <1>4. CASE new # NoLog /\ old # NoLog /\ Extends(new, old)
    <2>1. new.stream = old.stream BY <1>4 DEF Extends
    <2>2. ASSUME new.stream = c.stream
          PROVE  c.after <= Len(new.events) /\ AlertsIn(new, 1, c.after) = AlertsIn(old, 1, c.after)
      <3>1. c.after <= Len(old.events) BY <1>4, <2>1, <2>2 DEF Passed
      <3>2. c.after <= Len(new.events) /\ AlertsIn(new, 0 + 1, c.after) = AlertsIn(old, 0 + 1, c.after)
        BY <1>1, <1>4, <3>1, MovedAlerts
      <3> QED BY <3>2
    <2> QED BY <1>2, <1>4, <2>1, <2>2 DEF Passed
  <1>5. CASE new # NoLog /\ s < new.stream
    <2>1. new.stream \in Nat BY <1>5 DEF Log
    <2>2. c.stream < new.stream BY <1>1, <1>5, <2>1 DEF Passed
    <2> QED BY <1>1, <1>2, <2>1, <2>2 DEF Passed
  <1> QED BY <1>3, <1>4, <1>5 DEF Moves

LEMMA NothingPassed ==
  ASSUME NEW l \in Log \cup {NoLog}, NEW s, NEW c, NEW A, c.after = 0, c.stream <= s,
         l # NoLog => c.stream <= l.stream
  PROVE  Passed(l, s, c, A)
  <1>1. ASSUME l # NoLog PROVE 0 <= Len(l.events)
    <2>1. l.events \in Seq(Event) BY <1>1 DEF Log
    <2> QED BY <2>1, LenProperties
  <1>2. WantedIn(AlertsIn(l, 1, 0)) = {} BY DEF WantedIn, AlertsIn
  <1> QED BY <1>1, <1>2 DEF Passed

LEMMA PassedMore ==
  ASSUME NEW l, NEW s, NEW c, NEW A, NEW B, A \subseteq B, Passed(l, s, c, A)
  PROVE  Passed(l, s, c, B)
  BY DEF Passed

(* A page goes on continuing its cursor. *)
LEMMA StillContinues ==
  ASSUME NEW old \in Log \cup {NoLog}, NEW new \in Log \cup {NoLog}, NEW s \in Nat, NEW t \in Nat,
         NEW c \in Cursor, NEW p, p.stream \in Nat, p.last \in Nat,
         Continues(old, s, c, p), Moves(old, s, new, t)
  PROVE  Continues(new, t, c, p)
  <1>1. c.stream \in Nat /\ c.after \in Nat /\ Behind(c, p) \in Nat BY DEF Cursor, Behind
  <1>2. p.stream <= t BY DEF Continues, Moves
  <1>3. CASE new = NoLog BY <1>2, <1>3 DEF Continues
  <1>4. CASE new # NoLog /\ old # NoLog /\ Extends(new, old)
    <2>1. new.stream = old.stream BY <1>4 DEF Extends
    <2>2. ASSUME new.stream = p.stream
          PROVE  /\ p.last <= Len(new.events)
                 /\ AlertsIn(new, Behind(c, p) + 1, p.last) = AlertsIn(old, Behind(c, p) + 1, p.last)
      <3>1. p.last <= Len(old.events) BY <1>4, <2>1, <2>2 DEF Continues
      <3> QED BY <1>1, <1>4, <3>1, MovedAlerts
    <2> QED BY <1>2, <1>4, <2>1, <2>2 DEF Continues
  <1>5. CASE new # NoLog /\ s < new.stream
    <2>1. new.stream \in Nat BY <1>5 DEF Log
    <2>2. p.stream < new.stream BY <1>5, <2>1 DEF Continues
    <2> QED BY <1>2, <2>1, <2>2 DEF Continues
  <1> QED BY <1>3, <1>4, <1>5 DEF Moves

(* Passing a page, or its first part, passes what it lists. *)
LEMMA PagePassed ==
  ASSUME NEW l \in Log \cup {NoLog}, NEW s \in Nat, NEW c \in Cursor, NEW p, NEW A, NEW n \in Nat,
         p.stream \in Nat, p.last \in Nat, p.stream = c.stream,
         Passed(l, s, c, A), Continues(l, s, c, p), c.after <= n, n <= p.last
  PROVE  Passed(l, s, [stream |-> p.stream, after |-> n], A \cup WantedIn(p.alerts))
  <1> DEFINE d == [stream |-> p.stream, after |-> n]
  <1>1. c.after \in Nat /\ Behind(c, p) = c.after BY DEF Cursor, Behind
  <1>2. ASSUME l # NoLog, l.stream = p.stream
        PROVE  n <= Len(l.events) /\ WantedIn(AlertsIn(l, 1, n)) \subseteq A \cup WantedIn(p.alerts)
    <2>1. Len(l.events) \in Nat
      <3>1. l.events \in Seq(Event) BY <1>2 DEF Log
      <3> QED BY <3>1, LenProperties
    <2>2. n <= Len(l.events) BY <1>2, <2>1 DEF Continues
    <2>3. ASSUME NEW x \in 1 .. n, Wanted(l.events[x])
          PROVE  [stream |-> l.stream, id |-> x, event |-> l.events[x]] \in A \cup WantedIn(p.alerts)
      <3> DEFINE a == [stream |-> l.stream, id |-> x, event |-> l.events[x]]
      <3>1. CASE x <= c.after
        <4>1. a \in AlertsIn(l, 1, c.after) BY <1>1, <3>1 DEF AlertsIn
        <4>2. a \in WantedIn(AlertsIn(l, 1, c.after)) BY <2>3, <4>1 DEF WantedIn
        <4> QED BY <1>2, <4>2 DEF Passed
      <3>2. CASE ~(x <= c.after)
        <4>1. x \in Behind(c, p) + 1 .. p.last BY <1>1, <3>2
        <4>2. a \in AlertsIn(l, Behind(c, p) + 1, p.last) BY <4>1 DEF AlertsIn
        <4>3. a \in p.alerts BY <1>2, <4>2 DEF Continues
        <4> QED BY <2>3, <4>3 DEF WantedIn
      <3> QED BY <3>1, <3>2
    <2> QED BY <2>2, <2>3 DEF WantedIn, AlertsIn
  <1>3. p.stream <= s /\ (l # NoLog => p.stream <= l.stream) BY DEF Continues
  <1> QED BY <1>2, <1>3 DEF Passed

(* The page that the daemon serves. *)
LEMMA PageServed ==
  ASSUME TypeOK, FileExtendsLog, CursorInv, log # NoLog
  PROVE  /\ Page \in [stream : Nat, alerts : SUBSET Alert, last : Nat]
         /\ Continues(Current, streams, cursor, Page)
  <1>1. log \in Log /\ cursor \in Cursor /\ streams \in Nat /\ Current = log
    BY DEF TypeOK, LogTypeOK, Current
  <1> DEFINE k == Len(log.events)
             after == Behind(cursor, [stream |-> log.stream])
             last == IF k <= after + PageSize THEN k ELSE after + PageSize
  <1>2. log.events \in Seq(Event) /\ log.stream \in Nat BY <1>1 DEF Log
  <1>3. k \in Nat /\ DOMAIN log.events = 1 .. k BY <1>2, LenProperties
  <1>4. cursor.stream \in Nat /\ cursor.after \in Nat BY <1>1 DEF Cursor
  <1>5. after = IF cursor.stream = log.stream THEN cursor.after ELSE 0 BY DEF Behind
  <1>6. cursor.stream <= log.stream /\ (cursor.stream = log.stream => cursor.after <= k)
    BY <1>1 DEF CursorInv, Passed
  <1>7. after \in Nat /\ after <= k BY <1>3, <1>4, <1>5, <1>6
  <1>8. last \in Nat /\ after <= last /\ last <= k BY <1>3, <1>7, PageAssumption
  <1>9. Page = [stream |-> log.stream, alerts |-> AlertsIn(log, after + 1, last), last |-> last]
    BY <1>5 DEF Page
  <1>10. log.stream <= streams
    BY <1>1 DEF FileExtendsLog, Extends
  <1> HIDE DEF k, after, last
  <1>11. ASSUME NEW x \in after + 1 .. last
         PROVE  /\ [stream |-> log.stream, id |-> x, event |-> log.events[x]] \in Alert
                /\ after < x /\ x <= last
    <2>1. x \in 1 .. k /\ x \in Nat /\ after < x /\ x <= last BY <1>3, <1>7, <1>8
    <2>2. log.events[x] \in Event BY <1>2, <2>1, ElementOfSeq DEF k
    <2> QED BY <1>2, <2>1, <2>2 DEF Alert
  <1>12. Page \in [stream : Nat, alerts : SUBSET Alert, last : Nat]
    BY <1>2, <1>8, <1>9, <1>11 DEF AlertsIn
  <1>13. Behind(cursor, Page) = after BY <1>9 DEF Behind, after
  <1>14. \A a \in Page.alerts : a.stream = Page.stream /\ after < a.id /\ a.id <= Page.last
    BY <1>9, <1>11 DEF AlertsIn
  <1>15. Page.last <= Len(log.events) BY <1>8, <1>9 DEF k
  <1> QED BY <1>1, <1>2, <1>6, <1>8, <1>9, <1>10, <1>12, <1>13, <1>14, <1>15 DEF Continues

(* The last wanted alert of a page. *)
LEMMA LatestAlert ==
  ASSUME TypeOK, PageInv, pc \in {"got", "switched"}, Alerts # {}
  PROVE  /\ Latest \in Nat /\ Behind(cursor, page) < Latest /\ Latest <= page.last
         /\ \A a \in Alerts : a.id <= Latest
  <1> DEFINE S == {a.id : a \in Alerts}
  <1>1. page.last \in Nat /\ page.alerts \subseteq Alert BY DEF TypeOK
  <1>2. \A a \in page.alerts : Behind(cursor, page) < a.id /\ a.id <= page.last /\ a.id \in Nat
    BY <1>1 DEF PageInv, Continues, Alert
  <1>3. Alerts \subseteq page.alerts BY DEF Alerts, WantedIn
  <1>4. S # {} /\ \A x \in S : x \in Nat /\ x <= page.last BY <1>2, <1>3
  <1>5. \E x \in S : \A y \in S : y <= x
    <2> HIDE DEF S
    <2> QED BY <1>1, <1>4, MaxExists
  <1>6. \E n \in S : \A a \in Alerts : a.id <= n BY <1>5
  <1>7. Latest \in S /\ \A a \in Alerts : a.id <= Latest BY <1>6 DEF Latest
  <1> QED BY <1>2, <1>3, <1>7

(* The token of a notification says what it lists. *)
LEMMA TokenPassed ==
  ASSUME TypeOK, CursorInv, PageInv, Presenting, Alerts # {}
  PROVE  /\ Token \in Cursor
         /\ Passed(Current, streams, Token, read \cup Alerts)
  <1>1. /\ page.stream = cursor.stream /\ pc \in {"got", "switched"} BY DEF Presenting
  <1>2. /\ Latest \in Nat /\ Behind(cursor, page) < Latest /\ Latest <= page.last
    BY <1>1, LatestAlert
  <1>3. /\ page.stream \in Nat /\ page.last \in Nat /\ cursor \in Cursor /\ streams \in Nat
        /\ Current \in Log \cup {NoLog}
    BY DEF TypeOK, LogTypeOK, Current
  <1>4. cursor.after \in Nat /\ cursor.after <= Latest BY <1>1, <1>2, <1>3 DEF Behind, Cursor
  <1>5. Passed(Current, streams, cursor, read) /\ Continues(Current, streams, cursor, page)
    BY <1>1 DEF CursorInv, PageInv
  <1>6. Passed(Current, streams, [stream |-> page.stream, after |-> Latest], read \cup WantedIn(page.alerts))
    BY <1>1, <1>2, <1>3, <1>4, <1>5, PagePassed
  <1> QED BY <1>2, <1>3, <1>6 DEF Token, Alerts, Cursor

(* A page without wanted alerts is passed by its last number. *)
LEMMA SkipPassed ==
  ASSUME TypeOK, CursorInv, PageInv, Presenting, Alerts = {}
  PROVE  /\ [cursor EXCEPT !.after = page.last] \in Cursor
         /\ cursor.after <= page.last
         /\ Passed(Current, streams, [cursor EXCEPT !.after = page.last], read)
  <1>1. /\ page.stream = cursor.stream /\ pc \in {"got", "switched"} BY DEF Presenting
  <1>2. /\ page.stream \in Nat /\ page.last \in Nat /\ cursor \in Cursor /\ streams \in Nat
        /\ Current \in Log \cup {NoLog}
    BY DEF TypeOK, LogTypeOK, Current
  <1>3. Passed(Current, streams, cursor, read) /\ Continues(Current, streams, cursor, page)
    BY <1>1 DEF CursorInv, PageInv
  <1>4. cursor.after <= page.last BY <1>1, <1>3 DEF Continues, Behind
  <1>5. Passed(Current, streams, [stream |-> page.stream, after |-> page.last], read \cup WantedIn(page.alerts))
    BY <1>1, <1>2, <1>3, <1>4, PagePassed
  <1>6. WantedIn(page.alerts) = {} BY DEF Alerts
  <1>7. /\ [cursor EXCEPT !.after = page.last] = [stream |-> page.stream, after |-> page.last]
        /\ [cursor EXCEPT !.after = page.last] \in Cursor
    BY <1>1, <1>2 DEF Cursor
  <1> QED BY <1>4, <1>5, <1>6, <1>7

-----------------------------------------------------------------------------
(* Types. *)
LEMMA CloseType ==
  ASSUME TypeOK, Close, shell' = shell, lastID' = lastID
  PROVE  /\ notes' \subseteq notes /\ queue' \in Seq(Signal) /\ lost' \in Nat
         /\ \A k \in Signals(queue') : k.kind = "action" => k \in Signals(queue)
  <1>1. Closed(id) \in Signal /\ Closed(id).kind = "closed"
    BY DEF TypeOK, Closed, Signal, Start, Cursor
  <1>2. queue \in Seq(Signal) /\ lost \in Nat BY DEF TypeOK
  <1>3. /\ Append(queue, Closed(id)) \in Seq(Signal)
        /\ \A k \in Signals(Append(queue, Closed(id))) : k \in Signals(queue) \/ k = Closed(id)
    BY <1>1, <1>2, SignalsAppend
  <1>4. queue' = queue \/ queue' = Append(queue, Closed(id)) BY DEF Close
  <1>5. notes' \subseteq notes /\ lost' \in Nat BY <1>2 DEF Close
  <1> QED BY <1>1, <1>2, <1>3, <1>4, <1>5

LEMMA HearsType ==
  ASSUME TypeOK, NEW q \in Seq(Signal), Hears(q)
  PROVE  /\ queue' \in Seq(Signal)
         /\ \A k \in Signals(queue') : k \in Signals(queue) \/ k \in Signals(q)
  <1>1. queue \in Seq(Signal) BY DEF TypeOK
  <1>2. /\ queue \o q \in Seq(Signal)
        /\ \A k \in Signals(queue \o q) : k \in Signals(queue) \/ k \in Signals(q)
    BY <1>1, SignalsConcat
  <1> QED BY <1>1, <1>2 DEF Hears

LEMMA HandledType ==
  ASSUME TypeOK, NEW kind, Handling(kind)
  PROVE  /\ Tail(queue) \in Seq(Signal) /\ Signals(Tail(queue)) \subseteq Signals(queue)
         /\ Head(queue) \in Signal /\ Head(queue) \in Signals(queue) /\ Head(queue).token \in Cursor
         /\ Head(queue).kind = kind /\ pc = "idle"
  <1>1. queue \in Seq(Signal) /\ queue # <<>> BY DEF TypeOK, Handling
  <1>2. /\ Tail(queue) \in Seq(Signal) /\ Signals(Tail(queue)) \subseteq Signals(queue)
        /\ Head(queue) \in Signal /\ Head(queue) \in Signals(queue)
    BY <1>1, SignalsTail
  <1>3. Head(queue).token \in Cursor BY <1>2 DEF Signal
  <1> QED BY <1>2, <1>3 DEF Handling

LEMMA MarkReadType ==
  ASSUME TypeOK, NEW n \in notes, MarkRead(n)
  PROVE  /\ queue' \in Seq(Signal) /\ notes' \subseteq notes /\ n \in Note
         /\ \A k \in Signals(queue') :
               k.kind = "action" => k \in Signals(queue) \/ k.token = n.token
  <1>1. n \in Note /\ Invoked(n) \in Signal /\ Closed(n.id) \in Signal
        /\ Closed(n.id).kind = "closed" /\ Invoked(n).token = n.token
    BY DEF TypeOK, Note, Invoked, Closed, Signal, Start, Cursor
  <1>2. /\ <<Invoked(n)>> \in Seq(Signal)
        /\ \A k \in Signals(<<Invoked(n)>>) : k = Invoked(n)
    <2> DEFINE x == Invoked(n)
    <2>1. x \in Signal BY <1>1
    <2> HIDE DEF x
    <2>2. <<x>> \in Seq(Signal) /\ Len(<<x>>) = 1 BY <2>1
    <2>3. \A k \in Signals(<<x>>) : k = x BY <2>2 DEF Signals
    <2> QED BY <2>2, <2>3 DEF x
  <1>3. /\ <<Invoked(n), Closed(n.id)>> \in Seq(Signal)
        /\ \A k \in Signals(<<Invoked(n), Closed(n.id)>>) : k \in {Invoked(n), Closed(n.id)}
    BY <1>1, SignalsOfTwo
  <1>4. /\ <<Closed(n.id), Invoked(n)>> \in Seq(Signal)
        /\ \A k \in Signals(<<Closed(n.id), Invoked(n)>>) : k \in {Invoked(n), Closed(n.id)}
    BY <1>1, SignalsOfTwo
  <1>5. notes' \subseteq notes BY DEF MarkRead
  <1>6. PICK q \in Seq(Signal) :
          Hears(q) /\ \A k \in Signals(q) : k \in {Invoked(n), Closed(n.id)}
    BY <1>2, <1>3, <1>4 DEF MarkRead
  <1>7. /\ queue' \in Seq(Signal)
        /\ \A k \in Signals(queue') : k \in Signals(queue) \/ k \in Signals(q)
    BY <1>6, HearsType
  <1> QED BY <1>1, <1>5, <1>6, <1>7

LEMMA NotifyType ==
  ASSUME TypeOK, CursorInv, PageInv, NEW i \in 1 .. lastID + 1, Notify(i)
  PROVE  /\ notes' \subseteq Note /\ lastID' \in Nat
         /\ \A n \in notes' : n \in notes \/ n = [id |-> i, token |-> Token, alerts |-> Alerts]
  <1>1. Token \in Cursor BY TokenPassed DEF Notify, Showing
  <1>2. Alerts \subseteq Alert BY DEF TypeOK, Alerts, WantedIn
  <1>3. lastID \in Nat /\ i \in Nat /\ notes \subseteq Note BY DEF TypeOK
  <1>4. [id |-> i, token |-> Token, alerts |-> Alerts] \in Note BY <1>1, <1>2, <1>3 DEF Note
  <1>5. notes' = {n \in notes : n.id # i} \cup {[id |-> i, token |-> Token, alerts |-> Alerts]}
    BY DEF Notify
  <1>6. lastID' \in Nat BY <1>3 DEF Notify
  <1> QED BY <1>3, <1>4, <1>5, <1>6

LEMMA TypeStep ==
  ASSUME TypeOK, FileExtendsLog, CursorInv, PageInv, [Next]_vars, LogTypeOK'
  PROVE  TypeOK'
  <1> USE DEF TypeOK
  <1>s. Start \in Cursor /\ NoPage \in [stream : Nat, alerts : SUBSET Alert, last : Nat]
    BY DEF Start, NoPage, Cursor
  <1>1. CASE UNCHANGED vars
    BY <1>1 DEF vars, watcherVars, runVars, deskVars, historyVars, countVars
  <1>2. CASE LogNext /\ UNCHANGED watcherVars
    BY <1>2 DEF watcherVars, runVars, deskVars, historyVars, countVars
  <1>3. CASE StartWatcher
    BY <1>3 DEF StartWatcher, runVars, deskVars, historyVars, countVars
  <1>4. CASE Ticker BY <1>4 DEF Ticker, runVars, deskVars, historyVars, countVars
  <1>5. CASE Fetch BY <1>5, PageServed DEF Fetch, deskVars, historyVars, countVars
  <1>6. CASE FetchFails BY <1>6 DEF FetchFails, runVars, deskVars, historyVars, countVars
  <1>7. CASE SwitchStream
    <2>1. notes' \subseteq notes /\ queue' \in Seq(Signal) /\ lost' \in Nat
      BY <1>7, CloseType DEF SwitchStream
    <2>2. cursor' \in Cursor BY <1>7 DEF SwitchStream, Cursor
    <2> QED BY <1>7, <2>1, <2>2 DEF SwitchStream, Forget, historyVars
  <1>8. CASE NothingNew
    BY <1>8, <1>s DEF NothingNew, Drain, deskVars, historyVars, countVars
  <1>9. CASE Skip
    BY <1>9, <1>s, SkipPassed DEF Skip, Drain, deskVars, historyVars, countVars
  <1>10. CASE SkipFails
    BY <1>10, <1>s, SkipPassed DEF SkipFails, Return, deskVars, historyVars, countVars
  <1>11. CASE Show
    <2>1. PICK i \in 1 .. lastID + 1 : Notify(i) /\ id' = i BY <1>11 DEF Show
    <2>2. notes' \subseteq Note /\ lastID' \in Nat /\ shell' = shell /\ Showing
      BY <2>1, NotifyType DEF Notify
    <2>3. Token \in Cursor /\ Latest \in Nat
      BY <2>2, TokenPassed, LatestAlert DEF Showing, Presenting
    <2>4. id' \in Nat BY <2>1
    <2> QED BY <1>11, <1>s, <2>2, <2>3, <2>4 DEF Show, Drain, historyVars, countVars
  <1>12. CASE ShowUnanswered
    <2>1. notes' \subseteq Note /\ lastID' \in Nat /\ shell' = shell
      BY <1>12, NotifyType DEF ShowUnanswered, Notify
    <2> QED BY <1>12, <1>s, <2>1 DEF ShowUnanswered, Return, historyVars
  <1>13. CASE ShowFails
    BY <1>13, <1>s DEF ShowFails, Return, deskVars, historyVars, countVars
  <1>14. CASE HandleRestarted
    BY <1>14, HandledType DEF HandleRestarted, Forget, deskVars, historyVars, countVars
  <1>15. CASE HandleClosed
    BY <1>15, HandledType DEF HandleClosed, deskVars, historyVars, countVars
  <1>16. CASE IgnoreAction
    BY <1>16, HandledType DEF IgnoreAction, runVars, deskVars, historyVars, countVars
  <1>17. CASE Acknowledge
    <2>1. done' \subseteq Alert BY <1>17 DEF Acknowledge, Covered
    <2> QED BY <1>17, <2>1, HandledType DEF Acknowledge, runVars, deskVars, countVars
  <1>18. CASE AcknowledgeFails
    BY <1>18, <1>s, HandledType DEF AcknowledgeFails, Gone, Forget, historyVars, countVars
  <1>19. CASE CloseRead
    <2>1. notes' \subseteq notes /\ queue' \in Seq(Signal) /\ lost' \in Nat
      BY <1>19, CloseType DEF CloseRead
    <2> QED BY <1>19, <2>1 DEF CloseRead, Forget, historyVars
  <1>20. CASE Quit BY <1>20, <1>s DEF Quit, Gone, Forget, historyVars
  <1>21. CASE Killed BY <1>21, <1>s DEF Killed, Gone, Forget, deskVars, historyVars
  <1>22. CASE RestartShell
    <2>1. Restarted \in Signal BY <1>s DEF Restarted, Signal
    <2>2. <<Restarted>> \in Seq(Signal) BY <2>1
    <2>3. queue' \in Seq(Signal) BY <1>22, <2>2, HearsType DEF RestartShell
    <2> QED BY <1>22, <2>3 DEF RestartShell, runVars, historyVars, countVars
  <1>23. ASSUME NEW n \in notes, MarkRead(n) PROVE TypeOK'
    <2>1. queue' \in Seq(Signal) /\ notes' \subseteq notes /\ n \in Note
      BY <1>23, MarkReadType
    <2>2. read' \subseteq Alert BY <1>23, <2>1 DEF MarkRead, Note
    <2> QED BY <1>23, <2>1, <2>2 DEF MarkRead, runVars
  <1>24. ASSUME NEW n \in notes, Drop(n) PROVE TypeOK'
    <2>1. Closed(n.id) \in Signal BY <1>s DEF Closed, Signal, Note
    <2>2. <<Closed(n.id)>> \in Seq(Signal) BY <2>1
    <2>3. queue' \in Seq(Signal) BY <1>24, <2>2, HearsType DEF Drop
    <2> QED BY <1>24, <2>3 DEF Drop, runVars, historyVars
  <1> QED
    BY <1>1, <1>2, <1>3, <1>4, <1>5, <1>6, <1>7, <1>8, <1>9, <1>10, <1>11, <1>12, <1>13, <1>14,
       <1>15, <1>16, <1>17, <1>18, <1>19, <1>20, <1>21, <1>22, <1>23, <1>24
    DEF Next, Poll, Handle, Desktop

-----------------------------------------------------------------------------
(* The log that counts, from one state to the next. *)
LEMMA Moved ==
  ASSUME TypeOK, FileExtendsLog, [Next]_vars, TypeOK'
  PROVE  /\ Current \in Log \cup {NoLog} /\ Current' \in Log \cup {NoLog}
         /\ streams \in Nat /\ streams' \in Nat
         /\ FileExtendsLog' /\ Moves(Current, streams, Current', streams')
  <1>1. [LogNext]_logVars BY WatcherReadsLog
  <1> QED BY <1>1, LogMoves DEF TypeOK, LogTypeOK, Current

(* What a watcher may make of its cursors in a step. *)
LEMMA CursorStep ==
  ASSUME TypeOK, FileExtendsLog, CursorInv, ClickInv, PageInv, [Next]_vars, TypeOK'
  PROVE  CursorInv'
  <1>1. /\ Current \in Log \cup {NoLog} /\ Current' \in Log \cup {NoLog}
        /\ streams \in Nat /\ streams' \in Nat
        /\ Moves(Current, streams, Current', streams')
    BY Moved
  <1>2. read \subseteq read'
    BY DEF Next, vars, watcherVars, historyVars, Poll, Handle, Desktop, StartWatcher, Ticker, Fetch,
           FetchFails, SwitchStream, NothingNew, Skip, SkipFails, Show, ShowUnanswered, ShowFails,
           HandleRestarted, HandleClosed, IgnoreAction, Acknowledge, AcknowledgeFails, CloseRead,
           Quit, Killed, RestartShell, MarkRead, Drop
  <1>3. ASSUME NEW c \in Cursor, Passed(Current, streams, c, read)
        PROVE  Passed(Current', streams', c, read')
    BY <1>1, <1>2, <1>3, StillPassed
  <1>4. Passed(Current, streams, cursor, read) /\ Passed(Current, streams, saved, read)
    BY DEF CursorInv
  <1>5. cursor \in Cursor /\ saved \in Cursor /\ cursor' \in Cursor /\ saved' \in Cursor BY DEF TypeOK
  <1>6. Passed(Current, streams, Start, read)
    <2>1. Start.stream = 0 /\ Start.after = 0 BY DEF Start
    <2>2. Current # NoLog => 0 <= Current.stream BY <1>1 DEF Log
    <2> QED BY <1>1, <2>1, <2>2, NothingPassed
  <1>7. Handling("action") => Passed(Current, streams, Head(queue).token, read)
    BY HandledType DEF ClickInv
  <1>8. CASE cursor' \in {cursor, saved, Start} /\ saved' = saved
    BY <1>3, <1>4, <1>5, <1>6, <1>8 DEF CursorInv
  <1>9. CASE SwitchStream
    <2> DEFINE c == [stream |-> page.stream, after |-> 0]
    <2>1. Continues(Current, streams, cursor, page) BY <1>9 DEF SwitchStream, PageInv
    <2>2. c.stream <= streams /\ (Current # NoLog => c.stream <= Current.stream) BY <2>1 DEF Continues
    <2>3. c.after = 0 OBVIOUS
    <2>4. cursor' = c /\ saved' = saved BY <1>9 DEF SwitchStream
    <2> HIDE DEF c
    <2>5. Passed(Current, streams, c, read) BY <1>1, <2>2, <2>3, NothingPassed
    <2>6. c \in Cursor BY <1>5, <2>4
    <2> QED BY <1>3, <1>4, <1>5, <2>4, <2>5, <2>6 DEF CursorInv
  <1>10. CASE Skip \/ SkipFails
    <2> DEFINE c == [cursor EXCEPT !.after = page.last]
    <2>1. c \in Cursor /\ Passed(Current, streams, c, read)
      BY <1>10, SkipPassed DEF Skip, SkipFails
    <2>2. cursor' \in {cursor, c} /\ saved' \in {saved, c} BY <1>10 DEF Skip, SkipFails
    <2> HIDE DEF c
    <2> QED BY <1>3, <1>4, <1>5, <2>1, <2>2 DEF CursorInv
  <1>11. CASE Acknowledge \/ AcknowledgeFails
    <2>1. /\ Handling("action") /\ Head(queue).token \in Cursor
          /\ cursor' \in {Head(queue).token, Start} /\ saved' \in {saved, Head(queue).token}
      BY <1>11, HandledType DEF Acknowledge, AcknowledgeFails, Gone
    <2>2. Start \in Cursor BY DEF Start, Cursor
    <2> DEFINE c == Head(queue).token
    <2>3. c \in Cursor /\ Passed(Current, streams, c, read) /\ cursor' \in {c, Start} /\ saved' \in {saved, c}
      BY <1>7, <2>1
    <2> HIDE DEF c
    <2> QED BY <1>3, <1>4, <1>5, <1>6, <2>2, <2>3 DEF CursorInv
  <1>12. CASE UNCHANGED vars \/ (LogNext /\ UNCHANGED watcherVars)
    BY <1>8, <1>12 DEF vars, watcherVars
  <1>13. CASE StartWatcher \/ Ticker \/ CloseRead \/ Quit \/ Killed
    BY <1>8, <1>13 DEF StartWatcher, Ticker, CloseRead, Quit, Killed, Gone
  <1>14. CASE Fetch \/ FetchFails \/ NothingNew \/ Show \/ ShowUnanswered \/ ShowFails
    BY <1>8, <1>14 DEF Fetch, FetchFails, NothingNew, Show, ShowUnanswered, ShowFails
  <1>15. CASE HandleRestarted \/ HandleClosed \/ IgnoreAction
    BY <1>8, <1>15 DEF HandleRestarted, HandleClosed, IgnoreAction
  <1>16. CASE Desktop BY <1>8, <1>16 DEF Desktop, RestartShell, MarkRead, Drop
  <1> QED BY <1>9, <1>10, <1>11, <1>12, <1>13, <1>14, <1>15, <1>16 DEF Next, Poll, Handle

(* What is on the screen, and what was clicked. *)
LEMMA ClickStep ==
  ASSUME TypeOK, FileExtendsLog, CursorInv, ClickInv, PageInv, [Next]_vars, TypeOK'
  PROVE  ClickInv'
  <1>1. /\ Current \in Log \cup {NoLog} /\ Current' \in Log \cup {NoLog}
        /\ streams \in Nat /\ streams' \in Nat
        /\ Moves(Current, streams, Current', streams')
    BY Moved
  <1>2. \A n \in notes : n.token \in Cursor BY DEF TypeOK, Note
  <1>3. \A k \in Signals(queue) : k.token \in Cursor
    <2>1. queue \in Seq(Signal) BY DEF TypeOK
    <2>2. ASSUME NEW i \in 1 .. Len(queue) PROVE queue[i].token \in Cursor
      <3>1. queue[i] \in Signal BY <2>1, <2>2, ElementOfSeq
      <3> QED BY <3>1 DEF Signal
    <2> QED BY <2>2 DEF Signals
  <1>4. ASSUME NEW c \in Cursor, NEW A, NEW B, A \subseteq B, Passed(Current, streams, c, A)
        PROVE  Passed(Current', streams', c, B)
    BY <1>1, <1>4, StillPassed
  <1>5. ASSUME read \subseteq read', NEW n \in notes
        PROVE  Passed(Current', streams', n.token, read' \cup n.alerts)
    <2>1. Passed(Current, streams, n.token, read \cup n.alerts) BY DEF ClickInv
    <2>2. read \cup n.alerts \subseteq read' \cup n.alerts BY <1>5
    <2> QED BY <1>2, <1>4, <2>1, <2>2
  <1>6. ASSUME read \subseteq read', NEW k \in Signals(queue), k.kind = "action"
        PROVE  Passed(Current', streams', k.token, read')
    <2>1. Passed(Current, streams, k.token, read) BY <1>6 DEF ClickInv
    <2> QED BY <1>3, <1>4, <1>6, <2>1
  <1>7. ASSUME read \subseteq read', notes' \subseteq notes,
               \A k \in Signals(queue') : k.kind = "action" => k \in Signals(queue)
        PROVE  ClickInv'
    BY <1>5, <1>6, <1>7 DEF ClickInv
  <1>8. CASE UNCHANGED vars \/ (LogNext /\ UNCHANGED watcherVars)
    BY <1>7, <1>8 DEF vars, watcherVars, historyVars, deskVars
  <1>9. CASE StartWatcher \/ Ticker
    BY <1>7, <1>9 DEF StartWatcher, Ticker, historyVars, deskVars
  <1>10. CASE Fetch \/ FetchFails \/ NothingNew \/ Skip \/ SkipFails \/ ShowFails
    BY <1>7, <1>10 DEF Fetch, FetchFails, NothingNew, Skip, SkipFails, ShowFails, historyVars, deskVars
  <1>11. CASE SwitchStream \/ CloseRead
    <2>1. Close /\ shell' = shell /\ lastID' = lastID /\ read' = read
      BY <1>11 DEF SwitchStream, CloseRead, historyVars
    <2> QED BY <1>7, <2>1, CloseType
  <1>12. ASSUME NEW i \in 1 .. lastID + 1, Notify(i), read' = read, queue' = queue
         PROVE  ClickInv'
    <2>1. \A n \in notes' : n \in notes \/ n = [id |-> i, token |-> Token, alerts |-> Alerts]
      BY <1>12, NotifyType
    <2>2. Token \in Cursor /\ Passed(Current, streams, Token, read \cup Alerts)
      BY <1>12, TokenPassed DEF Notify, Showing
    <2>3. Passed(Current', streams', Token, read' \cup Alerts)
      BY <1>4, <1>12, <2>2
    <2>4. \A n \in notes' : Passed(Current', streams', n.token, read' \cup n.alerts)
      BY <1>5, <1>12, <2>1, <2>3
    <2> QED BY <1>6, <1>12, <2>4 DEF ClickInv
  <1>13. CASE Show
    BY <1>12, <1>13 DEF Show, historyVars
  <1>14. CASE ShowUnanswered
    BY <1>12, <1>14 DEF ShowUnanswered, historyVars
  <1>15. CASE HandleRestarted \/ HandleClosed \/ IgnoreAction \/ Acknowledge
    <2>1. /\ notes' = notes /\ read' = read /\ queue' = Tail(queue)
          /\ \E kind \in {"restarted", "closed", "action"} : Handling(kind)
      BY <1>15 DEF HandleRestarted, HandleClosed, IgnoreAction, Acknowledge, historyVars, deskVars
    <2>2. Signals(Tail(queue)) \subseteq Signals(queue) BY <2>1, HandledType
    <2> QED BY <1>7, <2>1, <2>2
  <1>16. CASE AcknowledgeFails \/ Quit \/ Killed
    <2>1. notes' \subseteq notes /\ read' = read /\ queue' = <<>>
      BY <1>16 DEF AcknowledgeFails, Quit, Killed, Gone, historyVars, deskVars
    <2>2. Signals(<<>>) = {} BY DEF Signals
    <2> QED BY <1>7, <2>1, <2>2
  <1>17. ASSUME NEW n \in notes, MarkRead(n) PROVE ClickInv'
    <2>1. /\ notes' \subseteq notes
          /\ \A k \in Signals(queue') : k.kind = "action" => k \in Signals(queue) \/ k.token = n.token
      BY <1>17, MarkReadType
    <2>2. read' = read \cup n.alerts BY <1>17 DEF MarkRead
    <2>3. Passed(Current', streams', n.token, read') BY <1>2, <1>4, <2>2 DEF ClickInv
    <2> QED BY <1>5, <1>6, <2>1, <2>2, <2>3 DEF ClickInv
  <1>18. ASSUME NEW q \in Seq(Signal), Hears(q), \A k \in Signals(q) : k.kind # "action",
                notes' \subseteq notes, read' = read
         PROVE  ClickInv'
    <2>1. \A k \in Signals(queue') : k \in Signals(queue) \/ k \in Signals(q) BY <1>18, HearsType
    <2> QED BY <1>7, <1>18, <2>1
  <1>19. ASSUME NEW x \in Signal, x.kind # "action", Hears(<<x>>), notes' \subseteq notes, read' = read
         PROVE  ClickInv'
    <2>1. <<x>> \in Seq(Signal) /\ Len(<<x>>) = 1 OBVIOUS
    <2>2. \A k \in Signals(<<x>>) : k = x BY <2>1 DEF Signals
    <2>3. \A k \in Signals(<<x>>) : k.kind # "action" BY <1>19, <2>2
    <2> QED BY <1>18, <1>19, <2>1, <2>3
  <1>20. ASSUME NEW n \in notes, Drop(n) PROVE ClickInv'
    <2>1. Closed(n.id) \in Signal /\ Closed(n.id).kind # "action"
      BY DEF TypeOK, Note, Closed, Signal, Start, Cursor
    <2>2. Hears(<<Closed(n.id)>>) /\ notes' \subseteq notes /\ read' = read
      BY <1>20 DEF Drop, historyVars
    <2> QED BY <1>19, <2>1, <2>2
  <1>21. CASE RestartShell
    <2>1. Restarted \in Signal /\ Restarted.kind # "action"
      BY DEF Restarted, Signal, Start, Cursor
    <2>2. Hears(<<Restarted>>) /\ notes' \subseteq notes /\ read' = read
      BY <1>21 DEF RestartShell, historyVars
    <2> QED BY <1>19, <2>1, <2>2
  <1> QED
    BY <1>8, <1>9, <1>10, <1>11, <1>13, <1>14, <1>15, <1>16, <1>17, <1>20, <1>21
    DEF Next, Poll, Handle, Desktop

(* Only a fetch puts a page into the watcher's hands. *)
LEMMA PageStep ==
  ASSUME TypeOK, FileExtendsLog, CursorInv, PageInv, [Next]_vars, TypeOK'
  PROVE  PageInv'
  <1>1. /\ Current \in Log \cup {NoLog} /\ Current' \in Log \cup {NoLog}
        /\ streams \in Nat /\ streams' \in Nat
        /\ Moves(Current, streams, Current', streams')
    BY Moved
  <1>2. ASSUME UNCHANGED <<pc, cursor, page>> PROVE PageInv'
    <2> SUFFICES ASSUME pc \in {"got", "switched"} PROVE Continues(Current', streams', cursor, page)
      BY <1>2 DEF PageInv
    <2>1. Continues(Current, streams, cursor, page) BY DEF PageInv
    <2>2. cursor \in Cursor /\ page.stream \in Nat /\ page.last \in Nat BY DEF TypeOK
    <2> QED BY <1>1, <2>1, <2>2, StillContinues
  <1>3. CASE UNCHANGED vars \/ (LogNext /\ UNCHANGED watcherVars)
    BY <1>2, <1>3 DEF vars, watcherVars, runVars
  <1>4. CASE Fetch
    <2>1. Continues(Current, streams, cursor, Page) BY <1>4, PageServed DEF Fetch
    <2>2. Current' = Current /\ streams' = streams /\ cursor' = cursor /\ page' = Page
      BY <1>4 DEF Fetch, logVars, Current
    <2> QED BY <2>1, <2>2 DEF PageInv
  <1>5. CASE SwitchStream
    <2>1. /\ Continues(Current, streams, cursor, page) /\ page.stream # cursor.stream
          /\ Current' = Current /\ streams' = streams /\ page' = page
          /\ cursor' = [stream |-> page.stream, after |-> 0]
      BY <1>5 DEF SwitchStream, PageInv, logVars, Current
    <2>2. Behind(cursor, page) = 0 /\ Behind(cursor', page) = 0 BY <2>1 DEF Behind
    <2>3. page.stream <= page.stream BY DEF TypeOK
    <2>4. Continues(Current, streams, cursor', page)
      BY <2>1, <2>2, <2>3 DEF Continues
    <2> QED BY <2>1, <2>4 DEF PageInv
  <1>6. CASE StartWatcher \/ Ticker \/ FetchFails \/ CloseRead
    BY <1>6 DEF StartWatcher, Ticker, FetchFails, CloseRead, PageInv
  <1>7. CASE NothingNew \/ Skip \/ SkipFails \/ Show \/ ShowUnanswered \/ ShowFails
    BY <1>7 DEF NothingNew, Skip, SkipFails, Show, ShowUnanswered, ShowFails, Drain, Return, PageInv
  <1>8. CASE HandleRestarted \/ HandleClosed \/ IgnoreAction
    BY <1>8 DEF HandleRestarted, HandleClosed, IgnoreAction, Handling, PageInv
  <1>9. CASE Acknowledge \/ AcknowledgeFails \/ Quit \/ Killed
    BY <1>9 DEF Acknowledge, AcknowledgeFails, Quit, Killed, Gone, PageInv
  <1>10. CASE Desktop BY <1>2, <1>10 DEF Desktop, RestartShell, MarkRead, Drop, runVars
  <1> QED BY <1>3, <1>4, <1>5, <1>6, <1>7, <1>8, <1>9, <1>10 DEF Next, Poll, Handle

(* The cursors never go back behind what was acknowledged. *)
LEMMA DoneStep ==
  ASSUME TypeOK, CursorInv, PageInv, DoneInv, [Next]_vars, TypeOK'
  PROVE  DoneInv'
  <1>1. \A a \in done : a.stream \in Nat /\ a.id \in Nat BY DEF TypeOK, Alert
  <1>2. /\ cursor.stream \in Nat /\ cursor.after \in Nat /\ saved.stream \in Nat /\ saved.after \in Nat
        /\ page.stream \in Nat /\ page.last \in Nat
    BY DEF TypeOK, Cursor
  <1>3. ASSUME done' = done, saved' = saved, pc' = "off" \/ (pc # "off" /\ cursor' = cursor)
        PROVE  DoneInv'
    BY <1>3 DEF DoneInv
  <1>4. CASE UNCHANGED vars \/ (LogNext /\ UNCHANGED watcherVars)
    <2>1. done' = done /\ saved' = saved /\ pc' = pc /\ cursor' = cursor
      BY <1>4 DEF vars, watcherVars, historyVars
    <2> QED BY <2>1 DEF DoneInv
  <1>5. CASE StartWatcher BY <1>5 DEF StartWatcher, DoneInv, historyVars
  <1>6. CASE Ticker \/ Fetch \/ FetchFails \/ CloseRead
    BY <1>3, <1>6 DEF Ticker, Fetch, FetchFails, CloseRead, historyVars
  <1>7. CASE NothingNew \/ Show \/ ShowUnanswered \/ ShowFails
    <2>1. pc # "off"
      BY <1>7, NotifyType DEF NothingNew, Show, ShowUnanswered, ShowFails, Notify, Showing, Presenting
    <2>2. done' = done /\ saved' = saved /\ cursor' = cursor
      BY <1>7 DEF NothingNew, Show, ShowUnanswered, ShowFails, historyVars
    <2> QED BY <1>3, <2>1, <2>2
  <1>8. CASE SwitchStream
    <2>1. cursor.stream < page.stream BY <1>2, <1>8 DEF SwitchStream, PageInv, Continues
    <2>2. /\ done' = done /\ saved' = saved /\ pc = "got"
          /\ cursor' = [stream |-> page.stream, after |-> 0]
      BY <1>8 DEF SwitchStream, historyVars
    <2>3. \A a \in done : a.stream < page.stream BY <1>1, <1>2, <2>1, <2>2 DEF DoneInv, Before
    <2> QED BY <2>2, <2>3 DEF DoneInv, Before
  <1>9. CASE Skip \/ SkipFails
    <2> DEFINE c == [cursor EXCEPT !.after = page.last]
    <2>1. c.stream = cursor.stream /\ c.after = page.last BY DEF TypeOK, Cursor
    <2>2. cursor.after <= page.last /\ pc # "off" BY <1>9, SkipPassed DEF Skip, SkipFails, Presenting
    <2>3. done' = done /\ cursor' \in {cursor, c} /\ saved' \in {saved, c}
      BY <1>9 DEF Skip, SkipFails, historyVars
    <2> HIDE DEF c
    <2>4. \A a \in done : Before(a, cursor) /\ Before(a, saved) BY <2>2 DEF DoneInv
    <2>5. \A a \in done : Before(a, c) BY <1>1, <1>2, <2>1, <2>2, <2>4 DEF Before
    <2> QED BY <2>3, <2>4, <2>5 DEF DoneInv
  <1>10. CASE HandleRestarted \/ HandleClosed \/ IgnoreAction
    BY <1>3, <1>10 DEF HandleRestarted, HandleClosed, IgnoreAction, Handling, historyVars
  <1>11. CASE Acknowledge \/ AcknowledgeFails
    <2> DEFINE c == Head(queue).token
    <2>1. c \in Cursor /\ c.stream = cursor.stream /\ c.after > cursor.after /\ pc # "off"
      BY <1>11, HandledType DEF Acknowledge, AcknowledgeFails, Acknowledges
    <2>2. /\ saved' \in {saved, c} /\ (pc' # "off" => cursor' = c)
          /\ done' = done \/ (saved' = c /\ done' = done \cup Covered(c))
      BY <1>11 DEF Acknowledge, AcknowledgeFails, Gone, historyVars
    <2> HIDE DEF c
    <2>3. \A a \in done : Before(a, cursor) /\ Before(a, saved) BY <2>1 DEF DoneInv
    <2>4. c.after \in Nat BY <2>1 DEF Cursor
    <2>5. \A a \in done : Before(a, c) BY <1>1, <1>2, <2>1, <2>3, <2>4 DEF Before
    <2>6. \A a \in Covered(c) : Before(a, c) BY DEF Covered, Before
    <2> QED BY <2>2, <2>3, <2>5, <2>6 DEF DoneInv
  <1>12. CASE Quit \/ Killed BY <1>3, <1>12 DEF Quit, Killed, Gone, historyVars
  <1>13. CASE Desktop
    <2>1. done' = done /\ saved' = saved /\ pc' = pc /\ cursor' = cursor
      BY <1>13 DEF Desktop, RestartShell, MarkRead, Drop, historyVars
    <2> QED BY <2>1 DEF DoneInv
  <1> QED
    BY <1>4, <1>5, <1>6, <1>7, <1>8, <1>9, <1>10, <1>11, <1>12, <1>13 DEF Next, Poll, Handle

-----------------------------------------------------------------------------
LEMMA WatcherInitInv == Init => WatcherInv
  <1> SUFFICES ASSUME Init PROVE WatcherInv OBVIOUS
  <1>1. /\ log = NoLog /\ file = NoLog /\ streams = 0 /\ Current = NoLog
        /\ cursor = Start /\ saved = Start /\ notes = {} /\ queue = <<>> /\ done = {} /\ pc = "off"
    BY DEF Init, LogInit, Current
  <1>2. TypeOK
    <2>1. LogTypeOK BY LogInitInv DEF Init, LogInv
    <2>2. Start \in Cursor /\ NoPage \in [stream : Nat, alerts : SUBSET Alert, last : Nat]
      BY DEF Start, NoPage, Cursor
    <2> QED BY <2>1, <2>2 DEF Init, TypeOK
  <1>3. CursorInv BY <1>1, NothingPassed DEF CursorInv, Start
  <1>4. ClickInv BY <1>1 DEF ClickInv, Signals
  <1> QED BY <1>1, <1>2, <1>3, <1>4 DEF WatcherInv, FileExtendsLog, PageInv, DoneInv

LEMMA WatcherStep ==
  ASSUME WatcherInv, LogInv, [Next]_vars PROVE WatcherInv'
  <1> USE DEF WatcherInv
  <1>1. LogTypeOK' BY WatcherReadsLog, LogStep DEF LogInv
  <1>2. TypeOK' BY <1>1, TypeStep
  <1>3. FileExtendsLog' BY <1>2, Moved
  <1> QED BY <1>2, <1>3, CursorStep, ClickStep, PageStep, DoneStep

LEMMA WatcherInvAlways == Spec => []WatcherInv
  <1>1. Init => WatcherInv BY WatcherInitInv
  <1>2. WatcherInv /\ LogInv /\ [Next]_vars => WatcherInv' BY WatcherStep
  <1> QED BY <1>1, <1>2, LogInvAlways, PTL DEF Spec

(* Log, watcher, notifications and signals keep their types. *)
THEOREM WatcherTypeCorrect == Spec => []TypeOK
  <1>1. WatcherInv => TypeOK BY DEF WatcherInv
  <1> QED BY <1>1, WatcherInvAlways, PTL

(* An event that a user has not marked read stays behind no cursor, over any *)
(* order of clicks, polls, crashes, restarts and replaced event logs. *)
THEOREM UnreadIsKept == Spec => []UnreadStaysUnread
  <1>1. ASSUME WatcherInv PROVE UnreadStaysUnread
    <2> SUFFICES ASSUME NEW c \in Cursor, Passed(Current, streams, c, read),
                        file # NoLog, file.stream = c.stream
                 PROVE  /\ c.after <= Len(file.events)
                        /\ WantedIn(AlertsIn(file, 1, c.after)) \subseteq read
      BY <1>1 DEF WatcherInv, CursorInv, TypeOK, UnreadStaysUnread
    <2>1. CASE log = NoLog BY <2>1 DEF Current, Passed
    <2>2. CASE log # NoLog
      <3>1. Extends(file, log) /\ log \in Log /\ file \in Log /\ c.after \in Nat
        BY <1>1, <2>2 DEF WatcherInv, FileExtendsLog, TypeOK, LogTypeOK, Cursor
      <3>2. log.stream = c.stream /\ Current = log BY <2>2, <3>1 DEF Extends, Current
      <3>3. c.after <= Len(log.events) /\ WantedIn(AlertsIn(log, 1, c.after)) \subseteq read
        BY <2>2, <3>2 DEF Passed
      <3>4. c.after <= Len(file.events) /\ AlertsIn(file, 0 + 1, c.after) = AlertsIn(log, 0 + 1, c.after)
        BY <3>1, <3>3, MovedAlerts
      <3> QED BY <3>3, <3>4
    <2> QED BY <2>1, <2>2
  <1> QED BY <1>1, WatcherInvAlways, PTL

(* An alert whose acknowledgement was saved is in no later notification. *)
THEOREM AcknowledgedForGood == Spec => ReadStaysRead
  <1>1. ASSUME WatcherInv, [Next]_vars
        PROVE  [\A n \in notes' \ notes : n.alerts \cap done = {}]_vars
    <2>1. ASSUME NEW i \in 1 .. lastID + 1, Notify(i)
          PROVE  \A n \in notes' \ notes : n.alerts \cap done = {}
      <3>1. \A n \in notes' \ notes : n.alerts = Alerts
        BY <1>1, <2>1, NotifyType DEF WatcherInv
      <3>2. pc \in {"got", "switched"} /\ page.stream = cursor.stream
        BY <2>1 DEF Notify, Showing, Presenting
      <3>3. \A a \in page.alerts : a.stream = cursor.stream /\ cursor.after < a.id
        BY <1>1, <3>2 DEF WatcherInv, PageInv, Continues, Behind
      <3>4. \A a \in done : Before(a, cursor) BY <1>1, <3>2 DEF WatcherInv, DoneInv
      <3>5. /\ cursor.stream \in Nat /\ cursor.after \in Nat
            /\ \A a \in done : a.id \in Nat /\ a.stream \in Nat
        BY <1>1 DEF WatcherInv, TypeOK, Cursor, Alert
      <3>6. Alerts \subseteq page.alerts BY DEF Alerts, WantedIn
      <3>7. \A a \in page.alerts : a \notin done BY <3>3, <3>4, <3>5 DEF Before
      <3> QED BY <3>1, <3>6, <3>7
    <2>2. CASE Show \/ ShowUnanswered BY <2>1, <2>2 DEF Show, ShowUnanswered
    <2>3. ASSUME notes' \subseteq notes PROVE \A n \in notes' \ notes : n.alerts \cap done = {}
      BY <2>3
    <2>4. CASE UNCHANGED vars BY <2>4
    <2>5. CASE LogNext /\ UNCHANGED watcherVars BY <2>3, <2>5 DEF watcherVars, deskVars
    <2>6. CASE StartWatcher \/ Ticker BY <2>3, <2>6 DEF StartWatcher, Ticker, deskVars
    <2>7. CASE Fetch \/ FetchFails \/ NothingNew \/ Skip \/ SkipFails \/ ShowFails
      BY <2>3, <2>7 DEF Fetch, FetchFails, NothingNew, Skip, SkipFails, ShowFails, deskVars
    <2>8. CASE SwitchStream \/ CloseRead BY <2>3, <2>8 DEF SwitchStream, CloseRead, Close
    <2>9. CASE Handle
      BY <2>3, <2>9 DEF Handle, HandleRestarted, HandleClosed, IgnoreAction, Acknowledge,
                        AcknowledgeFails, deskVars
    <2>10. CASE Quit \/ Killed BY <2>3, <2>10 DEF Quit, Killed, deskVars
    <2>11. CASE Desktop BY <2>3, <2>11 DEF Desktop, RestartShell, MarkRead, Drop
    <2> QED BY <1>1, <2>2, <2>4, <2>5, <2>6, <2>7, <2>8, <2>9, <2>10, <2>11 DEF Next, Poll
  <1> QED BY <1>1, WatcherInvAlways, PTL DEF Spec, ReadStaysRead
=============================================================================
