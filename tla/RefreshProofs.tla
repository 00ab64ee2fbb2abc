---------------------------- MODULE RefreshProofs ----------------------------
(* Proofs about Refresh: the inductive invariant IInv, and what follows from it *)
(* for any daemons, clients, providers, intervals and bounds. *)
EXTENDS Refresh, TLAPS

LEMMA Constants ==
    /\ Server \cap Client = {} /\ NoOne \notin Client
    /\ Server \subseteq Process /\ Client \subseteq Process
    /\ RefreshMs \in [Provider -> Nat \ {0}] /\ StaleMs \in [Provider -> Nat \ {0}]
    /\ CapMs \in Nat \ {0}
    /\ MaxRetryAfter \in Nat /\ MaxFailures \in Nat /\ MaxDelay \in Nat /\ MaxCrashes \in Nat
BY ProcessAssumption, ProviderAssumption, BoundAssumption DEF Process

LEMMA Arithmetic ==
    ASSUME NEW a \in Nat, NEW b \in Nat
    PROVE  Least(a, b) \in Nat /\ Larger(a, b) \in Nat /\ Monus(a, b) \in Nat
BY DEF Least, Larger, Monus

-----------------------------------------------------------------------------
(* failureRefreshMs: a failure never asks for the next poll before the shorter of *)
(* the configured interval and an hour, and never for one later than an hour. *)
LEMMA FactorRange ==
    ASSUME NEW n \in Nat
    PROVE  Factor[Least(Larger(n, 1), 7)] \in {1, 2, 4, 8, 16, 32, 64}
<1>1. Least(Larger(n, 1), 7) \in 1 .. 7
  BY DEF Least, Larger
<1>2. QED
  BY <1>1 DEF Factor

THEOREM BackoffBounds ==
    ASSUME NEW r \in Nat \ {0}, NEW n \in Nat
    PROVE  /\ FailureRefreshMs(r, n) \in Nat
           /\ FailureRefreshMs(r, n) >= Least(r, CapMs)
           /\ FailureRefreshMs(r, n) <= CapMs
<1> DEFINE f == Factor[Least(Larger(n, 1), 7)]
<1>1. f \in {1, 2, 4, 8, 16, 32, 64}
  BY FactorRange
<1>2. r * f \in Nat /\ r * f >= r
  <2>1. \A k \in {1, 2, 4, 8, 16, 32, 64} : r * k \in Nat /\ r * k >= r
    OBVIOUS
  <2>2. QED
    BY <1>1, <2>1
<1>3. FailureRefreshMs(r, n) = Least(r * f, CapMs)
  BY DEF FailureRefreshMs
<1> HIDE DEF f
<1>4. QED
  BY <1>2, <1>3, Constants DEF Least

(* More failures in a row never shorten the wait. *)
THEOREM BackoffGrows ==
    ASSUME NEW r \in Nat \ {0}, NEW n \in Nat
    PROVE  FailureRefreshMs(r, n) <= FailureRefreshMs(r, n + 1)
<1> DEFINE i == Least(Larger(n, 1), 7)
           j == Least(Larger(n + 1, 1), 7)
<1>1. i \in 1 .. 7 /\ j \in 1 .. 7 /\ i <= j /\ j <= i + 1
  BY DEF Least, Larger
<1>2. Factor[i] \in Nat /\ Factor[j] \in Nat /\ Factor[i] <= Factor[j]
  BY <1>1 DEF Factor
<1>3. r * Factor[i] \in Nat /\ r * Factor[j] \in Nat /\ r * Factor[i] <= r * Factor[j]
  <2> HIDE DEF i, j
  <2>1. \A a, b \in Nat : a <= b => r * a \in Nat /\ r * b \in Nat /\ r * a <= r * b
    OBVIOUS
  <2>2. QED
    BY <1>2, <2>1
<1>4. QED
  BY <1>3, Constants DEF FailureRefreshMs, Least

-----------------------------------------------------------------------------
(* Types. *)

LEMMA EmptyType == Empty \in [Provider -> Record]
BY Constants DEF Empty, Never, Record

LEMMA UpsertType ==
    ASSUME NEW p \in Provider, NEW age \in Nat
    PROVE  UpsertSuccess(p, age) \in Record
BY Constants, Arithmetic DEF UpsertSuccess, Record

LEMMA MarkType ==
    ASSUME NEW p \in Provider, NEW ps \in Record, NEW age \in Nat, NEW retryAfter \in Nat
    PROVE  MarkFailure(p, ps, age, retryAfter) \in Record
<1> DEFINE n == Least(ps.failures + 1, MaxFailures)
           wait == Monus(Larger(FailureRefreshMs(RefreshMs[p], n), retryAfter), age)
           items == IF ps.items = "none" THEN "none" ELSE "stale"
<1>1. ps.failures + 1 \in Nat
  BY DEF Record
<1>2. n \in Nat
  BY <1>1, Constants, Arithmetic
<1>3. FailureRefreshMs(RefreshMs[p], n) \in Nat
  <2> HIDE DEF n
  <2> QED BY <1>2, Constants, BackoffBounds
<1>4. wait \in Nat
  <2> HIDE DEF n
  <2> QED BY <1>3, Arithmetic
<1>5. items \in {"none", "fresh", "stale"}
  OBVIOUS
<1>6. MarkFailure(p, ps, age, retryAfter) =
         [ps EXCEPT !.wait = wait, !.failures = n, !.items = items]
  BY DEF MarkFailure
<1> HIDE DEF n, wait, items
<1>7. QED
  BY <1>2, <1>4, <1>5, <1>6 DEF Record

LEMMA OlderType ==
    ASSUME NEW p \in Provider, NEW ps \in Record
    PROVE  Older(p, ps) \in Record
<1>1. Monus(ps.wait, 1) \in Nat /\ Least(ps.age + 1, StaleMs[p]) \in Nat
  BY Constants DEF Record, Monus, Least
<1>2. Older(p, ps) = [ps EXCEPT !.wait = Monus(ps.wait, 1), !.age = Least(ps.age + 1, StaleMs[p])]
  BY DEF Older, Record
<1>3. QED
  BY <1>1, <1>2 DEF Record

LEMMA AllOlderType ==
    ASSUME NEW image \in [Provider -> Record]
    PROVE  AllOlder(image) \in [Provider -> Record]
BY OlderType DEF AllOlder

(* What is due stays due. *)
LEMMA DueStays ==
    ASSUME NEW p \in Provider, NEW image \in [Provider -> Record], image[p].wait = 0
    PROVE  AllOlder(image)[p].wait = 0
<1>1. Older(p, image[p]).wait = Monus(image[p].wait, 1)
  BY DEF Older, Record
<1>2. QED
  BY <1>1 DEF AllOlder, Monus

LEMMA TypeInit == Init => TypeOK
<1> SUFFICES ASSUME Init PROVE TypeOK
  OBVIOUS
<1>1. snap \in [Process -> [Provider -> Record]] /\ disk \in [Provider -> Record]
  BY EmptyType DEF Init
<1>2. ticked \in [Server -> BOOLEAN]
  BY DEF Init
<1>3. crashes \in Nat
  BY DEF Init
<1>4. QED
  BY <1>1, <1>2, <1>3 DEF Init, TypeOK

LEMMA RecordedType ==
    ASSUME TypeOK, NEW x \in Process, NEW t \in flight[x], NEW ps \in Record, Recorded(x, t, ps)
    PROVE  TypeOK'
<1>1. t \in Flight /\ t.provider \in Provider
  BY DEF TypeOK, Flight
<1>2. [t EXCEPT !.stage = "save"] \in Flight
  BY <1>1 DEF Flight, Stage
<1>3. snap' \in [Process -> [Provider -> Record]]
  BY <1>1 DEF Recorded, TypeOK
<1>4. flight' \in [Process -> SUBSET Flight]
  BY <1>2 DEF Recorded, Replace, TypeOK
<1>5. done' \in [Client -> SUBSET Provider]
  BY <1>1 DEF Recorded, TypeOK
<1>6. QED
  BY <1>3, <1>4, <1>5 DEF Recorded, TypeOK

LEMMA LeaveType ==
    ASSUME TypeOK, NEW x \in Process, NEW t \in flight[x], Leave(x, t)
    PROVE  flight' \in [Process -> SUBSET Flight] /\ inFlight' \in [Process -> SUBSET Provider]
BY DEF TypeOK, Leave

LEMMA StartedType ==
    ASSUME NEW x, NEW t \in Task
    PROVE  /\ Started(x, t) \in Flight /\ Started(x, t).provider = t.provider
           /\ Started(x, t).entered
           /\ Started(x, t).stage = IF Guarded(x, t.provider) THEN "lock" ELSE "fetch"
BY EmptyType DEF Started, Task, Flight, Stage

LEMMA AgainType ==
    ASSUME NEW t \in Flight
    PROVE  LET u == [t EXCEPT !.stage = "fetch", !.age = 0, !.image = Empty]
           IN  u \in Flight /\ u.provider = t.provider /\ u.entered = t.entered /\ u.stage = "fetch"
BY EmptyType DEF Flight, Stage

LEMMA ProceedType ==
    ASSUME TypeOK, NEW x \in Process, NEW t \in flight[x], Proceed(x, t)
    PROVE  flight' \in [Process -> SUBSET Flight] /\ inFlight' \in [Process -> SUBSET Provider]
<1> DEFINE again == [t EXCEPT !.stage = "fetch", !.age = 0, !.image = Empty]
<1>1. t \in Flight
  BY DEF TypeOK
<1>2. again \in Flight
  BY <1>1, AgainType
<1>3. CASE Replace(x, t, again) /\ UNCHANGED inFlight
  <2> HIDE DEF again
  <2> QED BY <1>2, <1>3 DEF Replace, TypeOK
<1>4. QED
  BY <1>3, LeaveType DEF Proceed

LEMMA TypeStep == TypeOK /\ [Next]_vars => TypeOK'
<1> SUFFICES ASSUME TypeOK, [Next]_vars PROVE TypeOK'
  OBVIOUS
<1>1. ASSUME NEW s \in Server, RefreshDue(s) PROVE TypeOK'
  <2>1. {[provider |-> p, age |-> 0] : p \in {q \in Provider : NeedsRefresh(s, q)}} \subseteq Task
    BY DEF Task
  <2>2. spawned' \in [Process -> SUBSET Task]
    BY <1>1, <2>1 DEF RefreshDue, TypeOK
  <2>3. QED
    BY <1>1, <2>2 DEF RefreshDue, TypeOK
<1>2. ASSUME NEW s \in Server, Restart(s) PROVE TypeOK'
  <2>1. snap' \in [Process -> [Provider -> Record]]
    BY <1>2, EmptyType DEF Restart, TypeOK
  <2>2. crashes' \in Nat
    BY <1>2 DEF Restart, TypeOK
  <2>3. spawned' \in [Process -> SUBSET Task] /\ inFlight' \in [Process -> SUBSET Provider]
    BY <1>2 DEF Restart, TypeOK
  <2>4. flight' \in [Process -> SUBSET Flight]
    BY <1>2 DEF Restart, TypeOK
  <2>5. ticked' \in [Server -> BOOLEAN]
    BY <1>2 DEF Restart, TypeOK
  <2>6. QED
    BY <1>2, <2>1, <2>2, <2>3, <2>4, <2>5 DEF Restart, TypeOK
<1>3. ASSUME NEW x \in Process, NEW t \in spawned[x], Enter(x, t) PROVE TypeOK'
  <2>1. t.provider \in Provider /\ t \in Task
    BY DEF TypeOK, Task
  <2>2. Started(x, t) \in Flight
    BY <2>1, StartedType
  <2>3. flight' \in [Process -> SUBSET Flight]
    BY <1>3, <2>2 DEF Enter, TypeOK
  <2>4. inFlight' \in [Process -> SUBSET Provider]
    BY <1>3, <2>1 DEF Enter, TypeOK
  <2>5. spawned' \in [Process -> SUBSET Task]
    BY <1>3 DEF Enter, TypeOK
  <2>6. QED
    BY <1>3, <2>3, <2>4, <2>5 DEF Enter, TypeOK
<1>4. ASSUME NEW x \in Process, NEW t \in flight[x], Fetched(x, t) PROVE TypeOK'
  <2>1. t.provider \in Provider /\ t.age \in Nat /\ snap[x][t.provider] \in Record
    BY DEF TypeOK, Flight
  <2>2. CASE FetchSucceeds(x, t)
    BY <2>1, <2>2, UpsertType, RecordedType DEF FetchSucceeds
  <2>3. CASE FetchFails(x, t)
    <3>1. PICK retryAfter \in 0 .. MaxRetryAfter :
             Recorded(x, t, MarkFailure(t.provider, snap[x][t.provider], t.age, retryAfter))
      BY <2>3 DEF FetchFails
    <3>2. retryAfter \in Nat
      BY Constants
    <3>3. QED
      BY <2>1, <3>1, <3>2, MarkType, RecordedType
  <2>4. CASE RefreshSkipped(x, t)
    BY <2>4, LeaveType DEF RefreshSkipped, TypeOK
  <2>5. CASE TakeLock(x, t)
    <3>1. [t EXCEPT !.stage = "fetch"] \in Flight
      BY DEF TypeOK, Flight, Stage
    <3>2. QED
      BY <2>5, <3>1 DEF TakeLock, Replace, TypeOK
  <2>6. QED
    BY <1>4, <2>2, <2>3, <2>4, <2>5 DEF Fetched
<1>5. ASSUME NEW x \in Process, NEW t \in flight[x], Saved(x, t) PROVE TypeOK'
  <2>1. t \in Flight /\ t.image \in [Provider -> Record] /\ snap[x] \in [Provider -> Record]
    BY DEF TypeOK, Flight
  <2>2. CASE Marshal(x, t)
    <3>1. [t EXCEPT !.stage = "write", !.image = snap[x]] \in Flight
      BY <2>1 DEF Flight, Stage
    <3>2. QED
      BY <2>2, <3>1 DEF Marshal, Replace, TypeOK
  <2>3. CASE SaveSucceeds(x, t)
    BY <2>1, <2>3, ProceedType DEF SaveSucceeds, TypeOK
  <2>4. CASE SaveFails(x, t)
    BY <2>4, ProceedType DEF SaveFails, TypeOK
  <2>5. QED
    BY <1>5, <2>2, <2>3, <2>4 DEF Saved
<1>6. ASSUME NEW c \in Client, Load(c) PROVE TypeOK'
  BY <1>6, Constants DEF Load, TypeOK
<1>7. ASSUME NEW c \in Client, LockAndReload(c) PROVE TypeOK'
  <2>1. {[provider |-> p, age |-> 0] : p \in {q \in Provider : disk[q].wait = 0}} \subseteq Task
    BY DEF Task
  <2>2. spawned' \in [Process -> SUBSET Task]
    BY <1>7, <2>1 DEF LockAndReload, TypeOK
  <2>3. snap' \in [Process -> [Provider -> Record]]
    BY <1>7 DEF LockAndReload, TypeOK
  <2>4. QED
    BY <1>7, <2>2, <2>3 DEF LockAndReload, TypeOK
<1>8. ASSUME NEW c \in Client, Exit(c), UNCHANGED <<disk, ticked>>, crashes' \in Nat
      PROVE  TypeOK'
  <2>1. snap' \in [Process -> [Provider -> Record]]
    BY <1>8, EmptyType DEF Exit, TypeOK
  <2>2. spawned' \in [Process -> SUBSET Task] /\ inFlight' \in [Process -> SUBSET Provider]
    BY <1>8 DEF Exit, TypeOK
  <2>3. flight' \in [Process -> SUBSET Flight]
    BY <1>8 DEF Exit, TypeOK
  <2>4. pc' \in [Client -> {"off", "wait", "run"}] /\ flock' \in Client \cup {NoOne}
    BY <1>8 DEF Exit, TypeOK
  <2>5. done' \in [Client -> SUBSET Provider]
    BY <1>8 DEF Exit, TypeOK
  <2>6. QED
    BY <1>8, <2>1, <2>2, <2>3, <2>4, <2>5 DEF TypeOK
<1>9. CASE Tick
  <2>1. snap' \in [Process -> [Provider -> Record]]
    BY <1>9, AllOlderType DEF Tick, TypeOK
  <2>2. disk' \in [Provider -> Record]
    BY <1>9, AllOlderType DEF Tick, TypeOK
  <2>3. spawned' \in [Process -> SUBSET Task]
    <3>1. \A t \in Task : [t EXCEPT !.age = @ + 1] \in Task
      BY DEF Task
    <3>2. QED
      BY <1>9, <3>1 DEF Tick, TypeOK
  <2>4. flight' \in [Process -> SUBSET Flight]
    <3>1. ASSUME NEW t \in Flight PROVE [t EXCEPT !.age = @ + 1, !.image = AllOlder(@)] \in Flight
      <4>1. AllOlder(t.image) \in [Provider -> Record] /\ t.age + 1 \in Nat
        BY AllOlderType DEF Flight
      <4>2. [t EXCEPT !.age = @ + 1, !.image = AllOlder(@)]
              = [t EXCEPT !.age = t.age + 1, !.image = AllOlder(t.image)]
        BY DEF Flight
      <4>3. QED
        BY <4>1, <4>2 DEF Flight
    <3>2. QED
      BY <1>9, <3>1 DEF Tick, TypeOK
  <2>5. ticked' \in [Server -> BOOLEAN]
    BY <1>9 DEF Tick
  <2>6. QED
    BY <1>9, <2>1, <2>2, <2>3, <2>4, <2>5 DEF Tick, TypeOK
<1>10. CASE UNCHANGED vars
  BY <1>10 DEF vars, TypeOK
<1>11. ASSUME NEW c \in Client, Finish(c) \/ Killed(c) PROVE TypeOK'
  <2>1. Exit(c) /\ UNCHANGED <<disk, ticked>>
    BY <1>11 DEF Finish, Killed
  <2>2. crashes' \in Nat
    BY <1>11 DEF Finish, Killed, TypeOK
  <2>3. QED
    BY <1>8, <2>1, <2>2
<1>12. ASSUME NEW s \in Server, NEW p \in Provider, Request(s, p) PROVE TypeOK'
  <2> DEFINE t == [provider |-> p, age |-> 0, entered |-> FALSE, image |-> Empty, stage |-> "fetch"]
  <2>1. t \in Flight
    BY EmptyType DEF Flight, Stage
  <2>2. flight' = [flight EXCEPT ![s] = @ \cup {t}]
    BY <1>12 DEF Request
  <2> HIDE DEF t
  <2>3. flight' \in [Process -> SUBSET Flight]
    BY <2>1, <2>2 DEF TypeOK
  <2>4. QED
    BY <1>12, <2>3 DEF Request, TypeOK
<1>13. QED
  BY <1>1, <1>2, <1>3, <1>4, <1>5, <1>6, <1>7, <1>9, <1>10, <1>11, <1>12 DEF Next

-----------------------------------------------------------------------------
(* Every step of a running refresh moves it on, with its locks, or takes it out, *)
(* and touches no other refresh and no client's lock. *)

MovedOn(x, t) ==
    \E u \in Flight :
        /\ Replace(x, t, u) /\ UNCHANGED inFlight
        /\ u.provider = t.provider /\ u.entered = t.entered /\ u.stage # "lock"
        /\ t.stage = "lock" => LockFree(x, t.provider)

LEMMA ProceedShape ==
    ASSUME NEW x, NEW t \in Flight, t.stage # "lock", Proceed(x, t)
    PROVE  MovedOn(x, t) \/ Leave(x, t)
<1> DEFINE u == [t EXCEPT !.stage = "fetch", !.age = 0, !.image = Empty]
<1>1. u \in Flight /\ u.provider = t.provider /\ u.entered = t.entered /\ u.stage # "lock"
  BY AgainType
<1>2. (Replace(x, t, u) /\ UNCHANGED inFlight) \/ Leave(x, t)
  BY DEF Proceed
<1> HIDE DEF u
<1>3. QED
  BY <1>1, <1>2 DEF MovedOn

LEMMA RefreshShape ==
    ASSUME TypeOK, NEW x \in Process, NEW t \in flight[x], Fetched(x, t) \/ Saved(x, t)
    PROVE  /\ MovedOn(x, t) \/ Leave(x, t)
           /\ UNCHANGED <<spawned, pc, flock>>
           /\ \A c \in Client : c # x => done'[c] = done[c]
<1> DEFINE locked == [t EXCEPT !.stage = "fetch"]
           saving == [t EXCEPT !.stage = "save"]
           writing == [t EXCEPT !.stage = "write", !.image = snap[x]]
<1>1. t \in Flight /\ snap[x] \in [Provider -> Record]
  BY DEF TypeOK
<1>2. /\ saving \in Flight /\ saving.provider = t.provider /\ saving.entered = t.entered
      /\ saving.stage # "lock"
  BY <1>1 DEF Flight, Stage
<1>3. /\ writing \in Flight /\ writing.provider = t.provider /\ writing.entered = t.entered
      /\ writing.stage # "lock"
  BY <1>1 DEF Flight, Stage
<1>4. /\ locked \in Flight /\ locked.provider = t.provider /\ locked.entered = t.entered
      /\ locked.stage # "lock"
  BY <1>1 DEF Flight, Stage
<1>5. CASE FetchSucceeds(x, t) \/ FetchFails(x, t)
  <2>1. PICK ps : Recorded(x, t, ps)
    BY <1>5 DEF FetchSucceeds, FetchFails
  <2>2. Replace(x, t, saving) /\ UNCHANGED inFlight /\ t.stage = "fetch"
    BY <2>1 DEF Recorded
  <2> HIDE DEF saving
  <2>3. MovedOn(x, t)
    BY <1>2, <2>2 DEF MovedOn
  <2>4. QED
    BY <2>1, <2>3 DEF Recorded
<1>6. CASE Marshal(x, t)
  <2>1. Replace(x, t, writing) /\ UNCHANGED inFlight /\ t.stage = "save"
    BY <1>6 DEF Marshal
  <2> HIDE DEF writing
  <2>2. MovedOn(x, t)
    BY <1>3, <2>1 DEF MovedOn
  <2>3. QED
    BY <1>6, <2>2 DEF Marshal
<1>7. CASE TakeLock(x, t)
  <2>1. Replace(x, t, locked) /\ UNCHANGED inFlight /\ LockFree(x, t.provider)
    BY <1>7 DEF TakeLock
  <2> HIDE DEF locked
  <2>2. MovedOn(x, t)
    BY <1>4, <2>1 DEF MovedOn
  <2>3. QED
    BY <1>7, <2>2 DEF TakeLock
<1>8. CASE SaveSucceeds(x, t) \/ SaveFails(x, t)
  <2>1. t.stage # "lock" /\ Proceed(x, t)
    BY <1>8 DEF SaveSucceeds, SaveFails
  <2>2. QED
    BY <1>1, <1>8, <2>1, ProceedShape DEF SaveSucceeds, SaveFails
<1>9. CASE RefreshSkipped(x, t)
  BY <1>9 DEF RefreshSkipped
<1>10. QED
  BY <1>5, <1>6, <1>7, <1>8, <1>9 DEF Fetched, Saved

-----------------------------------------------------------------------------
(* A daemon's inFlight map and its reset lock guard its providers. *)

OneFlight(x) ==
    \A t \in flight[x] :
        /\ t.entered => t.provider \in inFlight[x]
        /\ ~t.entered => t.stage # "lock" /\ Guarded(x, t.provider)
        /\ t.stage = "lock" => Guarded(x, t.provider)
        /\ \A u \in flight[x] :
              /\ t.provider = u.provider /\ t.entered /\ u.entered => t = u
              /\ t.provider = u.provider /\ t.stage # "lock" /\ u.stage # "lock" => t = u

LEMMA OneFlightEach == FlightInv <=> \A x \in Process : OneFlight(x)
BY DEF FlightInv, OneFlight

(* A step inside process x leaves the others' refreshes alone. *)
LEMMA OnlyOneMoves ==
    ASSUME TypeOK, FlightInv, NEW x \in Process, NEW f, NEW g,
           flight' = [flight EXCEPT ![x] = f], inFlight' = [inFlight EXCEPT ![x] = g],
           OneFlight(x)'
    PROVE  FlightInv'
<1>1. ASSUME NEW y \in Process, y # x PROVE OneFlight(y)'
  <2>1. flight'[y] = flight[y] /\ inFlight'[y] = inFlight[y] /\ OneFlight(y)
    BY <1>1, OneFlightEach DEF TypeOK
  <2>2. QED
    BY <2>1 DEF OneFlight
<1>2. QED
  BY <1>1 DEF FlightInv, OneFlight

LEMMA FlightStep == TypeOK /\ FlightInv /\ [Next]_vars => FlightInv'
<1> SUFFICES ASSUME TypeOK, FlightInv, [Next]_vars PROVE FlightInv'
  OBVIOUS
<1>1. ASSUME NEW x \in Process, NEW t \in spawned[x], Enter(x, t) PROVE FlightInv'
  <2> DEFINE u == Started(x, t)
  <2>1. t \in Task /\ OneFlight(x)
    BY OneFlightEach DEF TypeOK
  <2>2. /\ u.provider = t.provider /\ u.entered
        /\ u.stage = IF Guarded(x, t.provider) THEN "lock" ELSE "fetch"
    BY <2>1, StartedType
  <2>3. CASE t.provider \in inFlight[x]
    BY <1>1, <2>3 DEF Enter, FlightInv
  <2>4. CASE t.provider \notin inFlight[x]
    <3>1. /\ flight' = [flight EXCEPT ![x] = flight[x] \cup {u}]
          /\ inFlight' = [inFlight EXCEPT ![x] = inFlight[x] \cup {t.provider}]
      BY <1>1, <2>4 DEF Enter
    <3> HIDE DEF u
    <3>2. flight'[x] = flight[x] \cup {u} /\ inFlight'[x] = inFlight[x] \cup {t.provider}
      BY <3>1 DEF TypeOK
    <3>3. \A v \in flight[x] : v.provider = u.provider => ~v.entered /\ u.stage = "lock"
      BY <2>1, <2>2, <2>4 DEF OneFlight
    <3>4. OneFlight(x)'
      BY <2>1, <2>2, <3>2, <3>3 DEF OneFlight
    <3>5. QED
      BY <3>1, <3>4, OnlyOneMoves
  <2>5. QED
    BY <2>3, <2>4
<1>2. ASSUME NEW x \in Process, NEW t \in flight[x], MovedOn(x, t) PROVE FlightInv'
  <2>1. PICK u \in Flight :
          /\ Replace(x, t, u) /\ UNCHANGED inFlight
          /\ u.provider = t.provider /\ u.entered = t.entered /\ u.stage # "lock"
          /\ t.stage = "lock" => LockFree(x, t.provider)
    BY <1>2 DEF MovedOn
  <2>2. flight'[x] = (flight[x] \ {t}) \cup {u} /\ inFlight'[x] = inFlight[x]
    BY <2>1 DEF Replace, TypeOK
  <2>3. OneFlight(x)
    BY OneFlightEach
  <2>4. \A v \in flight[x] \ {t} :
           v.provider = t.provider => v.stage = "lock" /\ ~(v.entered /\ u.entered)
    BY <2>1, <2>3 DEF OneFlight, LockFree, Holds
  <2>5. OneFlight(x)'
    BY <2>1, <2>2, <2>3, <2>4 DEF OneFlight
  <2>6. inFlight' = [inFlight EXCEPT ![x] = inFlight[x]]
    BY <2>1 DEF TypeOK
  <2>7. QED
    BY <2>1, <2>5, <2>6, OnlyOneMoves DEF Replace
<1>3. ASSUME NEW x \in Process, NEW t \in flight[x], Leave(x, t) PROVE FlightInv'
  <2>1. /\ flight'[x] = flight[x] \ {t}
        /\ inFlight'[x] = IF t.entered THEN inFlight[x] \ {t.provider} ELSE inFlight[x]
    BY <1>3 DEF Leave, TypeOK
  <2>2. OneFlight(x)'
    BY <2>1, OneFlightEach DEF OneFlight
  <2>3. QED
    BY <1>3, <2>2, OnlyOneMoves DEF Leave
<1>4. ASSUME NEW x \in Process, NEW t \in flight[x], Fetched(x, t) \/ Saved(x, t) PROVE FlightInv'
  BY <1>2, <1>3, <1>4, RefreshShape
<1>5. ASSUME NEW x \in Process, flight' = [flight EXCEPT ![x] = {}],
             inFlight' = [inFlight EXCEPT ![x] = {}]
      PROVE  FlightInv'
  <2>1. OneFlight(x)'
    BY <1>5 DEF OneFlight, TypeOK
  <2>2. QED
    BY <1>5, <2>1, OnlyOneMoves
<1>6. CASE Tick
  <2> DEFINE aged(t) == [t EXCEPT !.age = @ + 1, !.image = AllOlder(@)]
  <2>1. flight' = [x \in Process |-> {aged(t) : t \in flight[x]}] /\ UNCHANGED inFlight
    BY <1>6 DEF Tick
  <2>2. ASSUME NEW x \in Process, NEW t \in flight[x]
        PROVE  aged(t).provider = t.provider /\ aged(t).entered = t.entered /\ aged(t).stage = t.stage
    BY DEF TypeOK, Flight
  <2> HIDE DEF aged
  <2>3. ASSUME NEW x \in Process PROVE OneFlight(x)'
    <3>1. \A v \in flight'[x] : \E t \in flight[x] :
             v = aged(t) /\ v.provider = t.provider /\ v.entered = t.entered /\ v.stage = t.stage
      BY <2>1, <2>2
    <3>2. QED
      BY <2>1, <3>1, OneFlightEach DEF OneFlight
  <2>4. QED
    BY <2>3 DEF FlightInv, OneFlight
<1>7. ASSUME NEW s \in Server, RefreshDue(s) \/ Restart(s) PROVE FlightInv'
  BY <1>5, <1>7, Constants DEF RefreshDue, Restart, FlightInv
<1>8. ASSUME NEW c \in Client, Load(c) \/ LockAndReload(c) \/ Finish(c) \/ Killed(c)
      PROVE  FlightInv'
  BY <1>5, <1>8, Constants DEF Load, LockAndReload, Finish, Killed, Exit, FlightInv
<1>9. ASSUME NEW s \in Server, NEW p \in Provider, Request(s, p) PROVE FlightInv'
  <2> DEFINE u == [provider |-> p, age |-> 0, entered |-> FALSE, image |-> Empty, stage |-> "fetch"]
  <2>1. s \in Process /\ Guarded(s, p) /\ LockFree(s, p) /\ UNCHANGED inFlight
    BY <1>9, Constants DEF Request, Guarded
  <2>2. u.provider = p /\ ~u.entered /\ u.stage = "fetch"
    OBVIOUS
  <2>3. flight' = [flight EXCEPT ![s] = flight[s] \cup {u}]
    BY <1>9 DEF Request
  <2> HIDE DEF u
  <2>4. flight'[s] = flight[s] \cup {u} /\ inFlight' = [inFlight EXCEPT ![s] = inFlight[s]]
    BY <2>1, <2>3 DEF TypeOK
  <2>5. \A v \in flight[s] : v.provider = p => v.stage = "lock"
    BY <2>1 DEF LockFree, Holds
  <2>6. OneFlight(s)'
    BY <2>1, <2>2, <2>4, <2>5, OneFlightEach DEF OneFlight
  <2>7. QED
    BY <2>1, <2>3, <2>4, <2>6, OnlyOneMoves
<1>10. CASE UNCHANGED vars
  BY <1>10 DEF vars, FlightInv
<1>11. QED
  BY <1>1, <1>4, <1>6, <1>7, <1>8, <1>9, <1>10 DEF Next

-----------------------------------------------------------------------------
(* The refresh lock guards the clients. *)

LEMMA ClientStep == TypeOK /\ ClientInv /\ [Next]_vars => ClientInv'
<1> SUFFICES ASSUME TypeOK, ClientInv, [Next]_vars PROVE ClientInv'
  OBVIOUS
<1>1. ASSUME NEW x \in Process, NEW t \in spawned[x], Enter(x, t) PROVE ClientInv'
  <2> SUFFICES ASSUME NEW c \in Client
               PROVE  /\ pc'[c] = "run" => flock' = c
                      /\ pc'[c] # "run" => spawned'[c] = {} /\ flight'[c] = {} /\ done'[c] = {}
                      /\ \A v, w \in flight'[c] : v = w
    BY DEF ClientInv
  <2>1. UNCHANGED <<pc, flock, done>>
    BY <1>1 DEF Enter
  <2>2. CASE c # x
    <3>1. spawned'[c] = spawned[c] /\ flight'[c] = flight[c]
      BY <1>1, <2>2, Constants DEF Enter, TypeOK
    <3>2. QED
      BY <2>1, <3>1 DEF ClientInv
  <2>3. CASE c = x
    <3>1. pc[c] = "run" /\ flight[c] = {}
      BY <1>1, <2>3 DEF Enter, ClientInv
    <3>2. \A v, w \in flight'[c] : v = w
      <4>1. \E u : flight'[c] \subseteq {u}
        <5>1. CASE t.provider \in inFlight[x]
          BY <1>1, <2>3, <3>1, <5>1 DEF Enter
        <5>2. CASE t.provider \notin inFlight[x]
          <6> DEFINE u == Started(x, t)
          <6>1. flight' = [flight EXCEPT ![x] = flight[x] \cup {u}]
            BY <1>1, <5>2 DEF Enter
          <6> HIDE DEF u
          <6>2. flight'[c] = {u}
            BY <2>3, <3>1, <6>1 DEF TypeOK
          <6>3. QED
            BY <6>2
        <5>3. QED
          BY <5>1, <5>2
      <4>2. QED
        BY <4>1
    <3>3. QED
      BY <2>1, <3>1, <3>2 DEF ClientInv
  <2>4. QED
    BY <2>2, <2>3
<1>2. ASSUME NEW x \in Process, NEW t \in flight[x], Fetched(x, t) \/ Saved(x, t) PROVE ClientInv'
  <2> SUFFICES ASSUME NEW c \in Client
               PROVE  /\ pc'[c] = "run" => flock' = c
                      /\ pc'[c] # "run" => spawned'[c] = {} /\ flight'[c] = {} /\ done'[c] = {}
                      /\ \A v, w \in flight'[c] : v = w
    BY DEF ClientInv
  <2>1. /\ (\E u : Replace(x, t, u)) \/ Leave(x, t)
        /\ UNCHANGED <<spawned, pc, flock>>
        /\ \A d \in Client : d # x => done'[d] = done[d]
    BY <1>2, RefreshShape DEF MovedOn
  <2>2. CASE c # x
    <3>1. flight'[c] = flight[c]
      BY <2>1, <2>2, Constants DEF Replace, Leave, TypeOK
    <3>2. QED
      BY <2>1, <2>2, <3>1 DEF ClientInv
  <2>3. CASE c = x
    <3>1. pc[c] = "run" /\ flight[c] = {t}
      BY <1>2, <2>3 DEF ClientInv
    <3>2. \A v, w \in flight'[c] : v = w
      BY <2>1, <2>3, <3>1 DEF Replace, Leave, TypeOK
    <3>3. QED
      BY <2>1, <3>1, <3>2 DEF ClientInv
  <2>4. QED
    BY <2>2, <2>3
<1>3. ASSUME NEW s \in Server, RefreshDue(s) \/ Restart(s) PROVE ClientInv'
  <2>1. \A c \in Client : c # s
    BY Constants
  <2>2. QED
    BY <1>3, <2>1, Constants DEF RefreshDue, Restart, ClientInv, TypeOK
<1>4. ASSUME NEW c \in Client, Load(c) PROVE ClientInv'
  BY <1>4 DEF Load, ClientInv, TypeOK
<1>5. ASSUME NEW c \in Client, LockAndReload(c) PROVE ClientInv'
  <2>1. \A d \in Client : d # c => pc[d] # "run"
    BY <1>5, Constants DEF LockAndReload, ClientInv
  <2>2. QED
    BY <1>5, <2>1, Constants DEF LockAndReload, ClientInv, TypeOK
<1>6. ASSUME NEW c \in Client, Finish(c) \/ Killed(c) PROVE ClientInv'
  <2> SUFFICES ASSUME NEW d \in Client
               PROVE  /\ pc'[d] = "run" => flock' = d
                      /\ pc'[d] # "run" => spawned'[d] = {} /\ flight'[d] = {} /\ done'[d] = {}
                      /\ \A v, w \in flight'[d] : v = w
    BY DEF ClientInv
  <2>1. Exit(c)
    BY <1>6 DEF Finish, Killed
  <2>2. CASE d = c
    BY <2>1, <2>2, Constants DEF Exit, TypeOK
  <2>3. CASE d # c
    <3>1. /\ pc'[d] = pc[d] /\ spawned'[d] = spawned[d] /\ flight'[d] = flight[d]
          /\ done'[d] = done[d] /\ (flock = d => flock' = d)
      BY <2>1, <2>3, Constants DEF Exit, TypeOK
    <3>2. QED
      BY <3>1 DEF ClientInv
  <2>4. QED
    BY <2>2, <2>3
<1>7. CASE Tick
  <2> SUFFICES ASSUME NEW c \in Client
               PROVE  /\ pc'[c] = "run" => flock' = c
                      /\ pc'[c] # "run" => spawned'[c] = {} /\ flight'[c] = {} /\ done'[c] = {}
                      /\ \A v, w \in flight'[c] : v = w
    BY DEF ClientInv
  <2>1. UNCHANGED <<pc, flock, done>> /\ c \in Process
    BY <1>7, Constants DEF Tick
  <2>2. spawned[c] = {} => spawned'[c] = {}
    BY <1>7, <2>1 DEF Tick
  <2>3. flight[c] = {} => flight'[c] = {}
    BY <1>7, <2>1 DEF Tick
  <2>4. \A v, w \in flight'[c] : v = w
    <3>1. \A v \in flight'[c] :
             \E t \in flight[c] : v = [t EXCEPT !.age = @ + 1, !.image = AllOlder(@)]
      BY <1>7, <2>1 DEF Tick
    <3>2. QED
      BY <3>1 DEF ClientInv
  <2>5. QED
    BY <2>1, <2>2, <2>3, <2>4 DEF ClientInv
<1>8. ASSUME NEW s \in Server, NEW p \in Provider, Request(s, p) PROVE ClientInv'
  <2>1. \A c \in Client : flight'[c] = flight[c]
    BY <1>8, Constants DEF Request, TypeOK
  <2>2. QED
    BY <1>8, <2>1 DEF Request, ClientInv
<1>9. CASE UNCHANGED vars
  BY <1>9 DEF vars, ClientInv
<1>10. QED
  BY <1>1, <1>2, <1>3, <1>4, <1>5, <1>6, <1>7, <1>8, <1>9 DEF Next

-----------------------------------------------------------------------------
(* Without a daemon the file changes only under the lock. *)

LEMMA FileStep == TypeOK /\ ClientInv /\ FlightInv /\ FileInv /\ [Next]_vars => FileInv'
<1> SUFFICES ASSUME TypeOK, ClientInv, FlightInv, FileInv, [Next]_vars, Server = {},
                    NEW c \in Client, pc'[c] = "run"
             PROVE  HoldsFile(c)'
  BY DEF FileInv
<1>1. c \in Process /\ Process = Client
  BY DEF Process
<1>2. ASSUME NEW d \in Client, pc[d] = "run", pc[c] = "run" PROVE c = d
  BY <1>2 DEF ClientInv
<1>3. pc[c] = "run" => HoldsFile(c)
  BY DEF FileInv
<1>4. ASSUME NEW t \in spawned[c], Enter(c, t) PROVE HoldsFile(c)'
  <2>1. UNCHANGED <<snap, disk, done>> /\ pc[c] = "run" /\ flight[c] = {}
    BY <1>4 DEF Enter, ClientInv
  <2>2. HoldsFile(c)
    BY <1>3, <2>1
  <2>3. spawned'[c] = spawned[c] \ {t}
    BY <1>1, <1>4 DEF Enter, TypeOK
  <2>4. \A u \in flight'[c] : u.provider = t.provider /\ u.stage = "fetch"
    <3>1. CASE t.provider \in inFlight[c]
      BY <1>4, <2>1, <3>1 DEF Enter
    <3>2. CASE t.provider \notin inFlight[c]
      <4> DEFINE u == Started(c, t)
      <4>1. u.provider = t.provider /\ u.stage = "fetch"
        BY <1>1, StartedType DEF TypeOK, Guarded
      <4>2. flight' = [flight EXCEPT ![c] = flight[c] \cup {u}]
        BY <1>4, <3>2 DEF Enter
      <4> HIDE DEF u
      <4>3. QED
        BY <1>1, <2>1, <4>1, <4>2 DEF TypeOK
    <3>3. QED
      BY <3>1, <3>2
  <2>5. QED
    BY <2>1, <2>2, <2>3, <2>4 DEF HoldsFile
<1>5. ASSUME NEW t \in flight[c], NEW ps, Recorded(c, t, ps), HoldsFile(c) PROVE HoldsFile(c)'
  <2>1. flight[c] = {t} /\ t \in Flight /\ t.provider \in Provider
    BY <1>1 DEF ClientInv, TypeOK, Flight
  <2>2. done'[c] = done[c] \cup {t.provider} /\ UNCHANGED <<disk, spawned>>
    BY <1>5 DEF Recorded
  <2>3. \A p \in Provider \ done'[c] : snap'[c][p] = snap[c][p]
    BY <1>1, <1>5, <2>1, <2>2 DEF Recorded, TypeOK
  <2>4. \A u \in flight'[c] : u.provider = t.provider /\ u.stage = "save"
    BY <1>1, <1>5, <2>1 DEF Recorded, Replace, TypeOK, Flight
  <2>5. QED
    BY <1>5, <2>1, <2>2, <2>3, <2>4 DEF HoldsFile
<1>6. ASSUME NEW t \in flight[c], Marshal(c, t), HoldsFile(c) PROVE HoldsFile(c)'
  <2>1. flight[c] = {t} /\ t \in Flight /\ t.stage = "save"
    BY <1>1, <1>6 DEF ClientInv, TypeOK, Marshal
  <2>2. UNCHANGED <<snap, disk, spawned, done>>
    BY <1>6 DEF Marshal
  <2>3. \A u \in flight'[c] : u.provider = t.provider /\ u.stage = "write" /\ u.image = snap[c]
    BY <1>1, <1>6, <2>1 DEF Marshal, Replace, TypeOK, Flight
  <2>4. QED
    BY <1>6, <2>1, <2>2, <2>3 DEF HoldsFile
<1>7. ASSUME NEW t \in flight[c], SaveSucceeds(c, t), HoldsFile(c) PROVE HoldsFile(c)'
  <2>1. flight'[c] = {}
    BY <1>1, <1>7 DEF SaveSucceeds, Proceed, Guarded, Leave, ClientInv, TypeOK
  <2>2. UNCHANGED <<snap, spawned, done>> /\ disk' = t.image
    BY <1>7 DEF SaveSucceeds
  <2>3. \A p \in Provider \ done[c] : disk'[p] = disk[p]
    BY <1>7, <2>2 DEF SaveSucceeds, HoldsFile
  <2>4. \A u \in spawned[c] : u.provider \in Provider
    BY <1>1 DEF TypeOK, Task
  <2>5. QED
    BY <1>7, <2>1, <2>2, <2>3, <2>4 DEF HoldsFile
<1>8. ASSUME NEW t \in flight[c], SaveFails(c, t), HoldsFile(c) PROVE HoldsFile(c)'
  <2>1. flight'[c] = {}
    BY <1>1, <1>8 DEF SaveFails, Proceed, Guarded, Leave, ClientInv, TypeOK
  <2>2. QED
    BY <1>8, <2>1 DEF SaveFails, HoldsFile
<1>9. ASSUME NEW x \in Process, NEW t \in flight[x], Fetched(x, t) \/ Saved(x, t)
      PROVE  HoldsFile(c)'
  <2>1. UNCHANGED pc /\ pc[x] = "run" /\ x = c
    <3>1. UNCHANGED pc
      BY <1>9, RefreshShape
    <3>2. pc[x] = "run"
      BY <1>1 DEF ClientInv
    <3>3. QED
      BY <1>1, <1>2, <3>1, <3>2
  <2>2. HoldsFile(c)
    BY <1>3, <2>1
  <2>3. ~RefreshSkipped(x, t) /\ ~TakeLock(x, t)
    BY DEF RefreshSkipped, TakeLock, FlightInv, Guarded
  <2>4. CASE FetchSucceeds(x, t) \/ FetchFails(x, t)
    BY <1>5, <2>1, <2>2, <2>4 DEF FetchSucceeds, FetchFails
  <2>5. QED
    BY <1>6, <1>7, <1>8, <1>9, <2>1, <2>2, <2>3, <2>4 DEF Fetched, Saved
<1>10. ASSUME NEW x \in Process, NEW t \in spawned[x], Enter(x, t) PROVE HoldsFile(c)'
  <2>1. UNCHANGED pc /\ pc[x] = "run"
    BY <1>1, <1>10 DEF Enter, ClientInv
  <2>2. QED
    BY <1>1, <1>2, <1>4, <1>10, <2>1
<1>11. ASSUME NEW d \in Client, Load(d) PROVE HoldsFile(c)'
  <2>1. d # c /\ pc[c] = "run"
    BY <1>11 DEF Load, TypeOK
  <2>2. snap'[c] = snap[c] /\ UNCHANGED <<disk, spawned, flight, done>>
    BY <1>1, <1>11, <2>1 DEF Load, TypeOK
  <2>3. QED
    BY <1>3, <2>1, <2>2 DEF HoldsFile
<1>12. ASSUME NEW d \in Client, LockAndReload(d) PROVE HoldsFile(c)'
  <2>1. pc[c] # "run"
    BY <1>12, Constants DEF LockAndReload, ClientInv
  <2>2. d = c
    BY <1>12, <2>1 DEF LockAndReload, TypeOK
  <2>3. flight[c] = {} /\ done[c] = {} /\ UNCHANGED <<flight, done, disk>>
    BY <1>12, <2>1 DEF LockAndReload, ClientInv
  <2>4. snap'[c] = disk
    BY <1>1, <1>12, <2>2 DEF LockAndReload, TypeOK
  <2>5. spawned'[c] = {[provider |-> p, age |-> 0] : p \in {q \in Provider : disk[q].wait = 0}}
    BY <1>1, <1>12, <2>2 DEF LockAndReload, TypeOK
  <2>6. QED
    BY <2>3, <2>4, <2>5 DEF HoldsFile
<1>13. ASSUME NEW d \in Client, Finish(d) \/ Killed(d) PROVE HoldsFile(c)'
  <2>1. Exit(d) /\ UNCHANGED disk
    BY <1>13 DEF Finish, Killed
  <2>2. d # c /\ pc[c] = "run"
    BY <2>1 DEF Exit, TypeOK
  <2>3. /\ snap'[c] = snap[c] /\ spawned'[c] = spawned[c] /\ flight'[c] = flight[c]
        /\ done'[c] = done[c]
    BY <1>1, <2>1, <2>2 DEF Exit, TypeOK
  <2>4. QED
    BY <1>3, <2>1, <2>2, <2>3 DEF HoldsFile
<1>14. CASE Tick
  <2>1. UNCHANGED <<pc, done>> /\ HoldsFile(c)
    BY <1>3, <1>14 DEF Tick
  <2>2. snap'[c] = AllOlder(snap[c]) /\ disk' = AllOlder(disk)
    BY <1>1, <1>14 DEF Tick
  <2>3. \A p \in Provider : disk[p].wait = 0 => disk'[p].wait = 0
    BY <2>2, DueStays DEF TypeOK
  <2>4. \A v \in spawned'[c] : \E u \in spawned[c] :
           v = [u EXCEPT !.age = @ + 1] /\ v.provider = u.provider /\ u.provider \in Provider
    <3>1. \A u \in spawned[c] : u \in Task
      BY <1>1 DEF TypeOK
    <3>2. \A u \in Task : [u EXCEPT !.age = @ + 1].provider = u.provider /\ u.provider \in Provider
      BY DEF Task
    <3>3. QED
      BY <1>1, <1>14, <3>1, <3>2 DEF Tick
  <2>5. \A v \in flight'[c] : \E t \in flight[c] :
           /\ v.provider = t.provider /\ v.stage = t.stage /\ v.image = AllOlder(t.image)
           /\ t.provider \in Provider
    <3>1. \A t \in flight[c] : t \in Flight
      BY <1>1 DEF TypeOK
    <3>2. \A t \in Flight :
             LET v == [t EXCEPT !.age = @ + 1, !.image = AllOlder(@)]
             IN  /\ v.provider = t.provider /\ v.stage = t.stage /\ v.image = AllOlder(t.image)
                 /\ t.provider \in Provider
      BY DEF Flight
    <3>3. QED
      BY <1>1, <1>14, <3>1, <3>2 DEF Tick
  <2>6. ASSUME NEW a, NEW b, NEW p \in Provider, a[p] = b[p]
        PROVE  AllOlder(a)[p] = AllOlder(b)[p]
    BY <2>6 DEF AllOlder
  <2>7. \A p \in Provider \ done'[c] : snap'[c][p] = disk'[p]
    BY <2>1, <2>2, <2>6 DEF HoldsFile
  <2>8. /\ \A v \in spawned'[c] : disk'[v.provider].wait = 0 /\ v.provider \notin done'[c]
        /\ \A v, w \in spawned'[c] : v.provider = w.provider => v = w
    BY <2>1, <2>3, <2>4 DEF HoldsFile
  <2>9. ASSUME NEW v \in flight'[c]
        PROVE  /\ \A u \in spawned'[c] : u.provider # v.provider
               /\ v.stage = "fetch" => disk'[v.provider].wait = 0 /\ v.provider \notin done'[c]
               /\ v.stage # "fetch" => v.provider \in done'[c]
               /\ v.stage = "write" => \A p \in Provider \ done'[c] : v.image[p] = disk'[p]
    <3>1. PICK t \in flight[c] :
             /\ v.provider = t.provider /\ v.stage = t.stage /\ v.image = AllOlder(t.image)
             /\ t.provider \in Provider
      BY <2>5
    <3>2. \A u \in spawned'[c] : u.provider # v.provider
      BY <2>1, <2>4, <3>1 DEF HoldsFile
    <3>3. ASSUME v.stage = "write", NEW p \in Provider \ done'[c] PROVE v.image[p] = disk'[p]
      <4>1. t.image[p] = disk[p]
        BY <2>1, <3>1, <3>3 DEF HoldsFile
      <4>2. AllOlder(t.image)[p] = AllOlder(disk)[p]
        BY <2>6, <4>1
      <4>3. QED
        BY <2>2, <3>1, <4>2
    <3>4. QED
      BY <2>1, <2>3, <3>1, <3>2, <3>3 DEF HoldsFile
  <2>10. QED
    BY <2>7, <2>8, <2>9 DEF HoldsFile
<1>15. CASE UNCHANGED vars
  BY <1>3, <1>15 DEF vars, HoldsFile
<1>16. QED
  BY <1>9, <1>10, <1>11, <1>12, <1>13, <1>14, <1>15 DEF Next

-----------------------------------------------------------------------------
LEMMA IInvInit == Init => IInv
<1> SUFFICES ASSUME Init PROVE IInv
  OBVIOUS
<1>1. TypeOK
  BY TypeInit
<1>2. FlightInv
  BY DEF Init, FlightInv
<1>3. ClientInv
  BY Constants DEF Init, ClientInv
<1>4. FileInv
  BY DEF Init, FileInv
<1>5. QED
  BY <1>1, <1>2, <1>3, <1>4 DEF IInv

LEMMA IInvStep == IInv /\ [Next]_vars => IInv'
BY TypeStep, FlightStep, ClientStep, FileStep DEF IInv

(* IInv, the strengthening the others follow from, holds throughout. *)
THEOREM InductiveInvariant == Spec => []IInv
<1>1. QED
  BY IInvInit, IInvStep, PTL DEF Spec

(* The daemons, the clients and the snapshot file only ever hold well-formed *)
(* snapshots and refreshes. *)
THEOREM TypeCorrect == Spec => []TypeOK
<1>1. IInv => TypeOK
  BY DEF IInv
<1>2. QED
  BY <1>1, InductiveInvariant, PTL

(* enter(), the reset lock and the refresh lock keep every provider to one refresh at a time. *)
THEOREM OneRefreshAtATime == Spec => []SingleFlight
<1>1. IInv => SingleFlight
  <2> SUFFICES ASSUME IInv PROVE SingleFlight
    OBVIOUS
  <2>1. \A s \in Server : \A t, u \in flight[s] :
           t.provider = u.provider /\ t.stage # "lock" /\ u.stage # "lock" => t = u
    BY Constants DEF IInv, FlightInv
  <2>2. ASSUME NEW c \in Client, NEW d \in Client, NEW t \in flight[c], NEW u \in flight[d]
        PROVE  c = d /\ t = u
    <3>1. pc[c] = "run" /\ pc[d] = "run"
      BY DEF IInv, ClientInv
    <3>2. c = d
      BY <3>1 DEF IInv, ClientInv
    <3>3. QED
      BY <3>2 DEF IInv, ClientInv
  <2>3. QED
    BY <2>1, <2>2 DEF SingleFlight
<1>2. QED
  BY <1>1, InductiveInvariant, PTL

(* Loading the file again under the lock means that no client refreshes what *)
(* another one refreshed while it waited. *)
THEOREM NoStampede == Spec => []ClientsDoNotStampede
<1>1. IInv => ClientsDoNotStampede
  <2> SUFFICES ASSUME IInv, Server = {}, NEW c \in Client, NEW t \in flight[c], t.stage = "fetch"
               PROVE  disk[t.provider].wait = 0
    BY DEF ClientsDoNotStampede
  <2>1. pc[c] = "run"
    BY DEF IInv, ClientInv
  <2>2. QED
    BY <2>1 DEF IInv, FileInv, HoldsFile
<1>2. QED
  BY <1>1, InductiveInvariant, PTL

(* For the same reason a client never writes an old record over a newer one. *)
THEOREM OthersRecordsKept == Spec => ClientsKeepOthersRecords
<1>1. IInv /\ [Next]_vars => [ClientSaves]_vars
  <2> SUFFICES ASSUME IInv, Server = {}, NEW c \in Client, NEW t \in flight[c],
                      SaveSucceeds(c, t), NEW p \in Provider \ done[c]
               PROVE  disk'[p] = disk[p]
    BY DEF ClientSaves
  <2>1. pc[c] = "run"
    BY DEF IInv, ClientInv
  <2>2. HoldsFile(c)
    BY <2>1 DEF IInv, FileInv
  <2>3. QED
    BY <2>2 DEF SaveSucceeds, HoldsFile
<1>2. QED
  BY <1>1, InductiveInvariant, PTL DEF Spec, ClientsKeepOthersRecords
=============================================================================
