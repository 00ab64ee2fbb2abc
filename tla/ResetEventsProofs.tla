-------------------------- MODULE ResetEventsProofs --------------------------
(***************************************************************************)
(* Theorems about the event log: over failed writes, deaths of the daemon  *)
(* and removed files, for any number of items, providers, levels and       *)
(* changes, a replenishment is reported at most once and none is swallowed *)
(* by a failed write.                                                      *)
(***************************************************************************)
EXTENDS ResetEvents, FiniteSetTheorems, SequenceTheorems, TLAPS

USE ItemAssumption, LevelAssumption, ReadingAssumption, LogAssumption

-----------------------------------------------------------------------------
(* What one comparison appends. *)
NewEvents(old, order) ==
    [n \in DOMAIN order |-> [item |-> order[n], before |-> old.baseline[order[n]].level,
                             after |-> quota[order[n]].level]]

LEMMA RisenIsFinite ==
  ASSUME NEW p PROVE IsFiniteSet(Risen(p)) /\ Cardinality(Risen(p)) \in Nat
  <1>1. Risen(p) \in SUBSET Item BY DEF Risen
  <1>2. IsFiniteSet(Risen(p)) BY <1>1, FS_Subset
  <1> QED BY <1>2, FS_CardinalityType

(* An order of a finite set meets each of its members, once. *)
LEMMA OrderIsBijective ==
  ASSUME NEW S, IsFiniteSet(S), NEW order \in Orders(S)
  PROVE  /\ Cardinality(S) \in Nat
         /\ order \in [1 .. Cardinality(S) -> S]
         /\ \A m, n \in 1 .. Cardinality(S) : order[m] = order[n] => m = n
         /\ \A x \in S : \E n \in 1 .. Cardinality(S) : order[n] = x
  <1>1. Cardinality(S) \in Nat BY FS_CardinalityType
  <1>2. order \in [1 .. Cardinality(S) -> S] BY DEF Orders
  <1>3. \A m, n \in 1 .. Cardinality(S) : order[m] = order[n] => m = n
    BY <1>2 DEF Orders
  <1>4. order \in Injection(1 .. Cardinality(S), S)
    BY <1>2, <1>3 DEF Injection, IsInjective
  <1>5. Cardinality(1 .. Cardinality(S)) = Cardinality(S)
    BY <1>1, FS_Interval
  <1>6. order \in Surjection(1 .. Cardinality(S), S)
    BY <1>4, <1>5, FS_Injection
  <1> QED BY <1>1, <1>2, <1>3, <1>6 DEF Surjection

(* The new log: its type, its baseline and its events, old and new. *)
LEMMA ComparedLog ==
  ASSUME LogTypeOK, NEW p \in Provider, log # NoLog, NEW order \in Orders(Risen(p)),
         NEW new, new = Compared(log, p, order)
  PROVE  /\ new \in Log /\ new # NoLog /\ new.stream = log.stream
         /\ \A i \in Item : new.baseline[i] = IF Of[i] = p THEN quota[i] ELSE log.baseline[i]
         /\ Len(log.events) \in Nat /\ DOMAIN log.events = 1 .. Len(log.events)
         /\ Cardinality(Risen(p)) \in Nat
         /\ DOMAIN new.events = 1 .. Len(log.events) + Cardinality(Risen(p))
         /\ \A n \in 1 .. Len(log.events) : new.events[n] = log.events[n]
         /\ \A n \in 1 .. Cardinality(Risen(p)) :
               new.events[Len(log.events) + n] =
                 [item |-> order[n], before |-> log.baseline[order[n]].level,
                  after |-> quota[order[n]].level]
  <1> DEFINE k == Cardinality(Risen(p))
             added == NewEvents(log, order)
             m == Len(log.events)
  <1>1. IsFiniteSet(Risen(p)) /\ k \in Nat BY RisenIsFinite
  <1>2. order \in [1 .. k -> Risen(p)] BY <1>1, OrderIsBijective
  <1>3. log \in Log /\ quota \in [Item -> Readings] BY DEF LogTypeOK
  <1>4. \A n \in 1 .. k :
          [item |-> order[n], before |-> log.baseline[order[n]].level,
           after |-> quota[order[n]].level] \in Event
    <2> SUFFICES ASSUME NEW n \in 1 .. k
                 PROVE  [item |-> order[n], before |-> log.baseline[order[n]].level,
                         after |-> quota[order[n]].level] \in Event
      OBVIOUS
    <2>1. order[n] \in Item /\ Rose(log.baseline[order[n]], quota[order[n]])
      BY <1>2 DEF Risen
    <2>2. log.baseline[order[n]] \in Readings /\ quota[order[n]] \in Readings
      BY <1>3, <2>1 DEF Log
    <2>3. log.baseline[order[n]] \in Reading /\ quota[order[n]] \in Reading
      BY <2>1, <2>2 DEF Rose, Readings
    <2> QED BY <2>1, <2>3 DEF Event, Reading
  <1>5. added \in [1 .. k -> Event] BY <1>2, <1>4 DEF NewEvents
  <1>6. added \in Seq(Event) /\ Len(added) = k BY <1>1, <1>5
  <1>7. log.events \in Seq(Event) /\ m \in Nat /\ DOMAIN log.events = 1 .. m
    <2>1. log.events \in Seq(Event) BY <1>3 DEF Log
    <2> QED BY <2>1, LenProperties
  <1>8. new = [stream |-> log.stream,
               baseline |-> [i \in Item |-> IF Of[i] = p THEN quota[i] ELSE log.baseline[i]],
               events |-> log.events \o added]
    BY DEF Compared, NewEvents
  <1>9. new.events = log.events \o added
    BY <1>8
  <1>10. /\ new.events \in Seq(Event)
         /\ Len(new.events) = m + k
         /\ \A n \in 1 .. m + k :
               new.events[n] = IF n <= m THEN log.events[n] ELSE added[n - m]
    <2>1. /\ log.events \o added \in Seq(Event)
          /\ Len(log.events \o added) = Len(log.events) + Len(added)
          /\ \A n \in 1 .. Len(log.events) + Len(added) : (log.events \o added)[n] =
               IF n <= Len(log.events) THEN log.events[n] ELSE added[n - Len(log.events)]
      <3> HIDE DEF added
      <3> QED BY <1>6, <1>7, ConcatProperties, Zenon
    <2> HIDE DEF k, added
    <2> QED BY <1>6, <1>9, <2>1, Zenon
  <1>11. new.baseline = [i \in Item |-> IF Of[i] = p THEN quota[i] ELSE log.baseline[i]]
    BY <1>3, <1>8 DEF Log
  <1>12. new.baseline \in [Item -> Readings] BY <1>3, <1>11 DEF Log
  <1>13. new.stream = log.stream /\ new.stream \in Nat BY <1>3, <1>8 DEF Log
  <1>14. new \in Log BY <1>3, <1>8, <1>10, <1>12, <1>13 DEF Log
  <1>15. DOMAIN new.events = 1 .. m + k BY <1>10, LenProperties
  <1>16. \A n \in 1 .. m : new.events[n] = log.events[n] BY <1>1, <1>7, <1>10
  <1>17. ASSUME NEW n \in 1 .. k PROVE new.events[m + n] = added[n]
    <2>1. m + n \in 1 .. m + k /\ ~(m + n <= m) /\ (m + n) - m = n BY <1>1, <1>7
    <2> QED BY <1>10, <2>1
  <1>18. \A n \in 1 .. k : added[n] = [item |-> order[n], before |-> log.baseline[order[n]].level,
                                       after |-> quota[order[n]].level]
    BY <1>2 DEF NewEvents
  <1> QED BY <1>1, <1>7, <1>11, <1>13, <1>14, <1>15, <1>16, <1>17, <1>18

(* A recording reports each risen item, and keeps what was reported. *)
LEMMA RecordingReports ==
  ASSUME LogTypeOK, NEW p \in Provider, log # NoLog, NEW new \in Recordings(p)
  PROVE  /\ new \in Log /\ new # NoLog
         /\ \A i \in Item : new.baseline[i] = IF Of[i] = p THEN quota[i] ELSE log.baseline[i]
         /\ \A i \in Item : \A n \in EventsOf(log, i) :
               n \in EventsOf(new, i) /\ new.events[n] = log.events[n]
         /\ \A i \in Risen(p) : \E n \in EventsOf(new, i) : new.events[n].after = quota[i].level
  <1>1. PICK order \in Orders(Risen(p)) : new = Compared(log, p, order) BY DEF Recordings
  <1> DEFINE k == Cardinality(Risen(p))
             m == Len(log.events)
  <1>2. \A x \in Risen(p) : \E n \in 1 .. k : order[n] = x
    BY RisenIsFinite, OrderIsBijective
  <1>3. /\ new \in Log /\ new # NoLog
        /\ \A i \in Item : new.baseline[i] = IF Of[i] = p THEN quota[i] ELSE log.baseline[i]
        /\ m \in Nat /\ DOMAIN log.events = 1 .. m
        /\ k \in Nat /\ DOMAIN new.events = 1 .. m + k
        /\ \A n \in 1 .. m : new.events[n] = log.events[n]
        /\ \A n \in 1 .. k : new.events[m + n] =
              [item |-> order[n], before |-> log.baseline[order[n]].level,
               after |-> quota[order[n]].level]
    BY <1>1, ComparedLog
  <1>4. \A i \in Item : \A n \in EventsOf(log, i) :
           n \in EventsOf(new, i) /\ new.events[n] = log.events[n]
    BY <1>3 DEF EventsOf
  <1>5. ASSUME NEW i \in Risen(p)
        PROVE  \E n \in EventsOf(new, i) : new.events[n].after = quota[i].level
    <2>1. PICK n \in 1 .. k : order[n] = i BY <1>2
    <2>2. new.events[m + n] = [item |-> order[n], before |-> log.baseline[order[n]].level,
                               after |-> quota[order[n]].level]
      BY <1>3
    <2>4. new.events[m + n].item = i /\ new.events[m + n].after = quota[i].level
      BY <2>1, <2>2
    <2>3. m + n \in DOMAIN new.events BY <1>3
    <2> QED BY <2>3, <2>4 DEF EventsOf
  <1> QED BY <1>3, <1>4, <1>5

(* It adds one event of each risen item and none of another. *)
LEMMA RecordingCounts ==
  ASSUME LogTypeOK, NEW p \in Provider, log # NoLog, NEW new \in Recordings(p), NEW i \in Item
  PROVE  /\ Cardinality(EventsOf(log, i)) \in Nat
         /\ Cardinality(EventsOf(new, i)) =
              Cardinality(EventsOf(log, i)) + IF i \in Risen(p) THEN 1 ELSE 0
  <1>1. PICK order \in Orders(Risen(p)) : new = Compared(log, p, order) BY DEF Recordings
  <1> DEFINE k == Cardinality(Risen(p))
             m == Len(log.events)
  <1>2. /\ \A a, b \in 1 .. k : order[a] = order[b] => a = b
        /\ \A x \in Risen(p) : \E n \in 1 .. k : order[n] = x
        /\ order \in [1 .. k -> Risen(p)]
    BY RisenIsFinite, OrderIsBijective
  <1>3. /\ m \in Nat /\ DOMAIN log.events = 1 .. m
        /\ k \in Nat /\ DOMAIN new.events = 1 .. m + k
        /\ \A n \in 1 .. m : new.events[n] = log.events[n]
        /\ \A n \in 1 .. k : new.events[m + n] =
              [item |-> order[n], before |-> log.baseline[order[n]].level,
               after |-> quota[order[n]].level]
    BY <1>1, ComparedLog
  <1>4. IsFiniteSet(EventsOf(log, i)) /\ Cardinality(EventsOf(log, i)) \in Nat
    <2>1. EventsOf(log, i) \in SUBSET (1 .. m) BY <1>3 DEF EventsOf
    <2>2. IsFiniteSet(1 .. m) BY <1>3, FS_Interval
    <2> QED BY <2>1, <2>2, FS_Subset, FS_CardinalityType
  <1>5. EventsOf(log, i) \subseteq EventsOf(new, i) BY <1>3 DEF EventsOf
  <1>6. ASSUME NEW n \in EventsOf(new, i), n \notin EventsOf(log, i)
        PROVE  \E a \in 1 .. k : n = m + a /\ order[a] = i
    <2>1. n \in 1 .. m + k /\ new.events[n].item = i BY <1>3 DEF EventsOf
    <2>2. n \notin 1 .. m BY <1>3, <1>6, <2>1 DEF EventsOf
    <2>3. n - m \in 1 .. k /\ m + (n - m) = n BY <1>3, <2>1, <2>2
    <2>4. PICK a \in 1 .. k : n = m + a BY <2>3
    <2>5. new.events[m + a] = [item |-> order[a], before |-> log.baseline[order[a]].level,
                               after |-> quota[order[a]].level]
      BY <1>3
    <2>6. order[a] = i BY <2>1, <2>4, <2>5
    <2> QED BY <2>4, <2>6
  <1>7. CASE i \notin Risen(p)
    <2>1. \A a \in 1 .. k : order[a] # i BY <1>2, <1>7
    <2>2. EventsOf(new, i) = EventsOf(log, i) BY <1>5, <1>6, <2>1
    <2> QED BY <1>4, <1>7, <2>2
  <1>8. CASE i \in Risen(p)
    <2>1. PICK a \in 1 .. k : order[a] = i BY <1>2, <1>8
    <2>2. m + a \in DOMAIN new.events /\ m + a \notin DOMAIN log.events BY <1>3
    <2>3. new.events[m + a] = [item |-> order[a], before |-> log.baseline[order[a]].level,
                               after |-> quota[order[a]].level]
      BY <1>3
    <2>4. new.events[m + a].item = order[a] BY <2>3
    <2>5. m + a \in EventsOf(new, i) /\ m + a \notin EventsOf(log, i)
      BY <2>1, <2>2, <2>4 DEF EventsOf
    <2>6. \A n \in EventsOf(new, i) : n \in EventsOf(log, i) \/ n = m + a
      BY <1>2, <1>6, <2>1
    <2>7. EventsOf(new, i) = EventsOf(log, i) \cup {m + a} BY <1>5, <2>5, <2>6
    <2> QED BY <1>4, <1>8, <2>5, <2>7, FS_AddElement
  <1> QED BY <1>7, <1>8

-----------------------------------------------------------------------------
(* The invariant.  What a log has reported of an item never exceeds its rises, *)
(* and stays below them while the present quota is a rise yet to be seen. *)
Ahead(l, i) ==
    /\ l.baseline[i] # NoReading /\ quota[i] # NoReading
    /\ quota[i].level > l.baseline[i].level

Counted(l, i) ==
    /\ Cardinality(EventsOf(l, i)) <= rises[i]
    /\ Ahead(l, i) => Cardinality(EventsOf(l, i)) < rises[i]

CountInv == \A l \in {log, file} \ {NoLog} : \A i \in Item : Counted(l, i)

Reports(l, i, r) == \E n \in EventsOf(l, i) : l.events[n].after = r.level

(* Where the file is ahead of the memory, after a write that failed past its *)
(* rename, it holds the event together with the baseline. *)
FileInv ==
    log # NoLog =>
        /\ file # NoLog
        /\ \A i \in Item :
              Rose(log.baseline[i], file.baseline[i]) => Reports(file, i, file.baseline[i])

OwedInv ==
    \A l \in {log, file} \ {NoLog} : \A i \in Item :
        owed[i] # NoReading /\ l.baseline[i] = owed[i] => Reports(l, i, owed[i])

LogInv == LogTypeOK /\ CountInv /\ FileInv /\ OwedInv

LEMMA NotRoseTwice ==
  ASSUME NEW r \in Readings PROVE ~Rose(r, r)
  BY DEF Rose, Readings, Reading

LEMMA NewLogIsEmpty ==
  ASSUME LogTypeOK
  PROVE  /\ NewLog \in Log
         /\ \A i \in Item : NewLog.baseline[i] = NoReading /\ EventsOf(NewLog, i) = {}
  <1>1. NewLog = [stream |-> streams + 1, baseline |-> [i \in Item |-> NoReading], events |-> <<>>]
    BY DEF NewLog
  <1>2. NewLog \in Log BY <1>1, EmptySeq DEF Log, LogTypeOK, Readings
  <1>3. DOMAIN NewLog.events = {} BY <1>1
  <1> QED BY <1>1, <1>2, <1>3 DEF EventsOf

LEMMA LogInitInv == LogInit => LogInv
  <1> SUFFICES ASSUME LogInit PROVE LogInv OBVIOUS
  <1>1. LogTypeOK BY DEF LogInit, LogTypeOK, Readings
  <1> QED BY <1>1 DEF LogInit, LogInv, CountInv, FileInv, OwedInv

(* Types. *)
LEMMA LogTypeStep ==
  ASSUME LogTypeOK, LogNext PROVE LogTypeOK'
  <1> USE DEF LogTypeOK
  <1>1. CASE LoadFile BY <1>1 DEF LoadFile
  <1>2. CASE LoadNew BY <1>2, NewLogIsEmpty DEF LoadNew
  <1>3. CASE LoadNewFails BY <1>3, NewLogIsEmpty DEF LoadNewFails
  <1>4. CASE Stop BY <1>4 DEF Stop
  <1>5. CASE RemoveLog BY <1>5 DEF RemoveLog, Readings
  <1>6. ASSUME NEW p \in Provider, Record(p) PROVE LogTypeOK'
    <2>1. PICK next \in Recordings(p) : log' = next /\ file' = next BY <1>6 DEF Record
    <2>2. next \in Log BY <1>6, RecordingReports DEF Record
    <2>3. owed' \in [Item -> Readings] BY <1>6 DEF Record, Owe, Readings
    <2> QED BY <1>6, <2>1, <2>2, <2>3 DEF Record
  <1>7. ASSUME NEW p \in Provider, RecordFails(p) PROVE LogTypeOK'
    <2>1. file' \in Log \cup {NoLog} BY <1>7, RecordingReports DEF RecordFails
    <2>2. owed' \in [Item -> Readings] BY <1>7 DEF RecordFails, Owe, Readings
    <2> QED BY <1>7, <2>1, <2>2 DEF RecordFails
  <1>8. ASSUME NEW i \in Item, QuotaChanges(i) PROVE LogTypeOK'
    BY <1>8 DEF QuotaChanges
  <1> QED BY <1>1, <1>2, <1>3, <1>4, <1>5, <1>6, <1>7, <1>8 DEF LogNext

-----------------------------------------------------------------------------
(* Counting: an event is added only when the quota was ahead of the baseline, *)
(* and the baseline catches up with it. *)
LEMMA RecordingCounted ==
  ASSUME LogInv, NEW p \in Provider, log # NoLog, NEW l \in Recordings(p), NEW i \in Item,
         UNCHANGED <<quota, rises>>
  PROVE  Counted(l, i)'
  <1>1. LogTypeOK BY DEF LogInv
  <1>2. /\ Cardinality(EventsOf(log, i)) \in Nat
        /\ Cardinality(EventsOf(l, i)) =
             Cardinality(EventsOf(log, i)) + IF i \in Risen(p) THEN 1 ELSE 0
    BY <1>1, RecordingCounts
  <1>3. l.baseline[i] = IF Of[i] = p THEN quota[i] ELSE log.baseline[i]
    BY <1>1, RecordingReports
  <1>4. Counted(log, i) BY DEF LogInv, CountInv
  <1>5. quota[i] \in Readings /\ log.baseline[i] \in Readings /\ rises[i] \in Nat
    BY <1>1 DEF LogTypeOK, Log
  <1>6. quota[i] # NoReading => ~(quota[i].level > quota[i].level)
    BY <1>5 DEF Readings, Reading
  <1>7. CASE i \in Risen(p)
    <2>1. Ahead(log, i)
      BY <1>5, <1>7 DEF Ahead, Risen, Rose, Readings, Reading
    <2>2. ~Ahead(l, i) BY <1>3, <1>6, <1>7 DEF Ahead, Risen
    <2>3. Cardinality(EventsOf(l, i)) <= rises[i]
      BY <1>2, <1>4, <1>5, <1>7, <2>1 DEF Counted
    <2> QED BY <2>2, <2>3 DEF Counted, Ahead
  <1>8. CASE i \notin Risen(p)
    <2>1. Cardinality(EventsOf(l, i)) = Cardinality(EventsOf(log, i)) BY <1>2, <1>8
    <2>2. Ahead(l, i) => Ahead(log, i) BY <1>3, <1>6 DEF Ahead
    <2>3. Counted(l, i) BY <1>4, <2>1, <2>2 DEF Counted
    <2> QED BY <2>3 DEF Counted, Ahead
  <1> QED BY <1>7, <1>8

LEMMA CountStep ==
  ASSUME LogInv, LogNext, LogTypeOK' PROVE CountInv'
  <1> SUFFICES ASSUME NEW l \in {log', file'}, l # NoLog, NEW i \in Item
               PROVE  Counted(l, i)'
    BY DEF CountInv
  <1>1. LogTypeOK /\ rises[i] \in Nat BY DEF LogInv, LogTypeOK
  <1>2. l \in {log, file} => Counted(l, i) BY DEF LogInv, CountInv
  <1>3. l \in {log, file} /\ UNCHANGED <<quota, rises>> => Counted(l, i)'
    BY <1>2 DEF Counted, Ahead
  <1>4. l = NewLog /\ UNCHANGED <<quota, rises>> => Counted(l, i)'
    <2>1. ASSUME l = NewLog PROVE EventsOf(l, i) = {} /\ l.baseline[i] = NoReading
      BY <1>1, <2>1, NewLogIsEmpty
    <2>2. Cardinality({}) = 0 BY FS_EmptySet
    <2> QED BY <1>1, <2>1, <2>2 DEF Counted, Ahead
  <1>5. CASE LoadFile BY <1>3, <1>5 DEF LoadFile
  <1>6. CASE LoadNew BY <1>4, <1>6 DEF LoadNew
  <1>7. CASE LoadNewFails BY <1>3, <1>4, <1>7 DEF LoadNewFails
  <1>8. CASE Stop BY <1>3, <1>8 DEF Stop
  <1>9. CASE RemoveLog BY <1>3, <1>9 DEF RemoveLog
  <1>10. ASSUME NEW p \in Provider, Record(p) PROVE Counted(l, i)'
    BY <1>10, RecordingCounted DEF Record
  <1>11. ASSUME NEW p \in Provider, RecordFails(p) PROVE Counted(l, i)'
    BY <1>3, <1>11, RecordingCounted DEF RecordFails
  <1>12. ASSUME NEW j \in Item, QuotaChanges(j) PROVE Counted(l, i)'
    <2>1. l \in {log, file} BY <1>12 DEF QuotaChanges
    <2>2. Counted(l, i) BY <1>2, <2>1
    <2>3. Cardinality(EventsOf(l, i)) \in Nat
      <3>1. l \in Log BY <2>1 DEF LogInv, LogTypeOK
      <3>2. l.events \in Seq(Event) BY <3>1 DEF Log
      <3>3. Len(l.events) \in Nat /\ DOMAIN l.events = 1 .. Len(l.events)
        BY <3>2, LenProperties
      <3>4. EventsOf(l, i) \in SUBSET (1 .. Len(l.events)) BY <3>3 DEF EventsOf
      <3>5. IsFiniteSet(1 .. Len(l.events)) BY <3>3, FS_Interval
      <3> QED BY <3>4, <3>5, FS_Subset, FS_CardinalityType
    <2>4. PICK r \in Readings \ {quota[j]} :
            /\ quota' = [quota EXCEPT ![j] = r]
            /\ rises' = [rises EXCEPT ![j] = IF Higher(quota[j], r) THEN @ + 1 ELSE @]
      BY <1>12 DEF QuotaChanges
    <2>5. CASE i # j
      <3>1. quota'[i] = quota[i] /\ rises'[i] = rises[i]
        BY <1>1, <2>4, <2>5 DEF LogTypeOK
      <3> QED BY <2>2, <3>1 DEF Counted, Ahead
    <2>6. CASE i = j
      <3>1. /\ quota'[i] = r
            /\ rises'[i] = IF Higher(quota[i], r) THEN rises[i] + 1 ELSE rises[i]
        BY <1>1, <2>4, <2>6 DEF LogTypeOK
      <3>2. quota[i] \in Readings /\ l.baseline[i] \in Readings
        BY <1>1, <2>1 DEF LogTypeOK, Log, LogInv
      <3>3. Ahead(l, i)' => Ahead(l, i) \/ Higher(quota[i], r)
        BY <3>1, <3>2, <2>4 DEF Ahead, Higher, Readings, Reading
      <3> QED BY <1>1, <2>2, <2>3, <3>1, <3>3 DEF Counted
    <2> QED BY <2>5, <2>6
  <1> QED BY <1>5, <1>6, <1>7, <1>8, <1>9, <1>10, <1>11, <1>12 DEF LogNext

-----------------------------------------------------------------------------
(* The file is ahead of the memory only by whole recordings. *)
LEMMA FileStep ==
  ASSUME LogInv, LogNext, LogTypeOK' PROVE FileInv'
  <1> SUFFICES ASSUME log' # NoLog
               PROVE  /\ file' # NoLog
                      /\ \A i \in Item :
                            Rose(log'.baseline[i], file'.baseline[i])
                              => Reports(file', i, file'.baseline[i])
    BY DEF FileInv, Reports, EventsOf, Rose
  <1>1. LogTypeOK /\ FileInv BY DEF LogInv
  <1>2. ASSUME log' = file' PROVE file' # NoLog /\ \A i \in Item : ~Rose(log'.baseline[i], file'.baseline[i])
    <2>1. \A i \in Item : file'.baseline[i] \in Readings BY <1>2 DEF LogTypeOK, Log
    <2> QED BY <1>2, <2>1, NotRoseTwice
  <1>3. CASE LoadFile BY <1>2, <1>3 DEF LoadFile
  <1>4. CASE LoadNew BY <1>2, <1>4 DEF LoadNew
  <1>5. CASE LoadNewFails BY <1>5 DEF LoadNewFails
  <1>6. CASE Stop BY <1>6 DEF Stop
  <1>7. CASE RemoveLog BY <1>7 DEF RemoveLog
  <1>8. ASSUME NEW p \in Provider, Record(p) PROVE log' = file' BY <1>8 DEF Record
  <1>9. ASSUME NEW p \in Provider, RecordFails(p), NEW i \in Item
        PROVE  /\ file' # NoLog
               /\ Rose(log'.baseline[i], file'.baseline[i])
                     => Reports(file', i, file'.baseline[i])
    <2>1. log' = log /\ log # NoLog BY <1>9 DEF RecordFails
    <2>2. CASE file' = file BY <1>1, <2>1, <2>2 DEF FileInv
    <2>3. CASE file' \in Recordings(p)
      <3>1. /\ file' # NoLog
            /\ file'.baseline[i] = IF Of[i] = p THEN quota[i] ELSE log.baseline[i]
            /\ i \in Risen(p) => Reports(file', i, quota[i])
        BY <1>1, <2>1, <2>3, RecordingReports DEF Reports
      <3>2. CASE Of[i] = p BY <2>1, <3>1, <3>2 DEF Risen
      <3>3. CASE Of[i] # p
        <4>1. log.baseline[i] \in Readings BY <1>1, <2>1 DEF LogTypeOK, Log
        <4> QED BY <2>1, <3>1, <3>3, <4>1, NotRoseTwice
      <3> QED BY <3>2, <3>3
    <2> QED BY <1>9, <2>2, <2>3 DEF RecordFails
  <1>10. ASSUME NEW i \in Item, QuotaChanges(i)
         PROVE  log' = log /\ file' = file
    BY <1>10 DEF QuotaChanges
  <1>11. log' = log /\ file' = file =>
           /\ file' # NoLog
           /\ \A i \in Item :
                 Rose(log'.baseline[i], file'.baseline[i])
                   => Reports(file', i, file'.baseline[i])
    BY <1>1 DEF FileInv
  <1>12. (\E p \in Provider : RecordFails(p)) => file' # NoLog
    <2> SUFFICES ASSUME NEW p \in Provider, RecordFails(p) PROVE file' # NoLog
      OBVIOUS
    <2> QED BY <1>1, RecordingReports DEF RecordFails, FileInv
  <1> QED BY <1>2, <1>3, <1>4, <1>5, <1>6, <1>7, <1>8, <1>9, <1>10, <1>11, <1>12 DEF LogNext

(* What a refresh owed after its failed write is in the log with its event, or *)
(* not in the log at all. *)
LEMMA OwedStep ==
  ASSUME LogInv, LogNext, LogTypeOK' PROVE OwedInv'
  <1> SUFFICES ASSUME NEW l \in {log', file'}, l # NoLog, NEW i \in Item,
                      owed'[i] # NoReading, l.baseline[i] = owed'[i]
               PROVE  Reports(l, i, owed'[i])
    BY DEF OwedInv, Reports, EventsOf
  <1>1. LogTypeOK /\ FileInv BY DEF LogInv
  <1>2. l \in {log, file} /\ owed'[i] = owed[i] => Reports(l, i, owed'[i])
    BY DEF LogInv, OwedInv
  <1>3. l # NewLog BY <1>1, NewLogIsEmpty
  <1>4. CASE LoadFile BY <1>2, <1>4 DEF LoadFile
  <1>5. CASE LoadNew BY <1>3, <1>5 DEF LoadNew
  <1>6. CASE LoadNewFails BY <1>2, <1>3, <1>6 DEF LoadNewFails
  <1>7. CASE Stop BY <1>2, <1>7 DEF Stop
  <1>8. CASE RemoveLog BY <1>8 DEF RemoveLog
  <1>9. ASSUME NEW p \in Provider, log # NoLog, l \in Recordings(p), Of[i] # p, owed'[i] = owed[i]
        PROVE  Reports(l, i, owed'[i])
    <2>1. l.baseline[i] = log.baseline[i] BY <1>1, <1>9, RecordingReports
    <2>2. Reports(log, i, owed[i]) BY <1>9, <2>1 DEF LogInv, OwedInv
    <2>3. PICK n \in EventsOf(log, i) : log.events[n].after = owed[i].level
      BY <2>2 DEF Reports
    <2>4. n \in EventsOf(l, i) /\ l.events[n] = log.events[n]
      BY <1>1, <1>9, <2>3, RecordingReports
    <2> QED BY <1>9, <2>3, <2>4 DEF Reports
  <1>10. ASSUME NEW p \in Provider, Record(p) PROVE Reports(l, i, owed'[i])
    <2>1. log # NoLog /\ l \in Recordings(p) BY <1>10 DEF Record
    <2>2. owed'[i] = IF Of[i] # p THEN owed[i] ELSE NoReading BY <1>10 DEF Record, Owe
    <2> QED BY <1>9, <2>1, <2>2
  <1>11. ASSUME NEW p \in Provider, RecordFails(p) PROVE Reports(l, i, owed'[i])
    <2>1. log # NoLog /\ log' = log /\ (file' = file \/ file' \in Recordings(p))
      BY <1>11 DEF RecordFails
    <2>2. owed'[i] = IF Of[i] # p THEN owed[i]
                     ELSE IF i \in Risen(p) THEN quota[i] ELSE NoReading
      BY <1>11 DEF RecordFails, Owe
    <2>3. CASE Of[i] # p BY <1>2, <1>9, <2>1, <2>2, <2>3
    <2>4. CASE i \in Risen(p)
      <3>1. Rose(log.baseline[i], quota[i]) /\ Of[i] = p BY <2>4 DEF Risen
      <3>2. owed'[i] = quota[i] BY <2>2, <2>4, <3>1
      <3>3. log.baseline[i] # quota[i]
        <4>1. quota[i] \in Readings BY <1>1 DEF LogTypeOK
        <4> QED BY <3>1, <4>1, NotRoseTwice
      <3>4. l = file' BY <2>1, <3>2, <3>3
      <3>5. CASE file' = file BY <1>1, <2>1, <3>1, <3>2, <3>4, <3>5 DEF FileInv
      <3>6. CASE file' \in Recordings(p)
        BY <1>1, <2>1, <2>4, <3>2, <3>4, <3>6, RecordingReports DEF Reports
      <3> QED BY <2>1, <3>5, <3>6
    <2> QED BY <2>2, <2>3, <2>4
  <1>12. ASSUME NEW j \in Item, QuotaChanges(j) PROVE Reports(l, i, owed'[i])
    BY <1>2, <1>12 DEF QuotaChanges
  <1> QED BY <1>4, <1>5, <1>6, <1>7, <1>8, <1>10, <1>11, <1>12 DEF LogNext

-----------------------------------------------------------------------------
LEMMA LogStep ==
  ASSUME LogInv, [LogNext]_logVars PROVE LogInv'
  <1>1. CASE LogNext
    <2>1. LogTypeOK' BY <1>1, LogTypeStep DEF LogInv
    <2> QED BY <1>1, <2>1, CountStep, FileStep, OwedStep DEF LogInv
  <1>2. CASE UNCHANGED logVars
    BY <1>2 DEF logVars, LogInv, LogTypeOK, CountInv, Counted, Ahead, FileInv, OwedInv, Reports
  <1> QED BY <1>1, <1>2

LEMMA LogInvImplies == LogInv => ReportedOnce /\ NoRiseSwallowed
  BY DEF LogInv, CountInv, Counted, OwedInv, Reports, ReportedOnce, NoRiseSwallowed, Current

(* The log by itself: it keeps its types, reports a replenishment at most once, *)
(* in memory and in the file, over failed writes and deaths of the daemon, and *)
(* makes no risen reading its baseline without the event. *)
THEOREM LogIsSound == LogSpec => [](LogTypeOK /\ ReportedOnce /\ NoRiseSwallowed)
  <1>1. LogInit => LogInv BY LogInitInv
  <1>2. LogInv /\ [LogNext]_logVars => LogInv' BY LogStep
  <1>3. LogInv => LogTypeOK /\ ReportedOnce /\ NoRiseSwallowed BY LogInvImplies DEF LogInv
  <1> QED BY <1>1, <1>2, <1>3, PTL DEF LogSpec
=============================================================================
