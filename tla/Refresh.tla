------------------------------- MODULE Refresh -------------------------------
(***************************************************************************)
(* Scheduled provider refreshes: RefreshDue, RefreshOne and recordRefresh  *)
(* (internal/app/app.go), the snapshot they fill (internal/cache/          *)
(* snapshot.go) and the local refresh of the CLI (internal/cli/usage.go).  *)
(*                                                                         *)
(* A daemon (Server) ticks every second and starts a goroutine for every   *)
(* provider its snapshot calls due; a command line client (Client) that    *)
(* cannot reach a daemon loads the same snapshot file and, under a file    *)
(* lock, refreshes what is due itself.  Both record the outcome of a fetch *)
(* in their own memory and then write the whole snapshot over the file.    *)
(*                                                                         *)
(* Times are kept relative to the present: "wait" until nextRefreshAt,     *)
(* "age" since lastUpdatedAt or since a refresh read the clock.  Waits run *)
(* down to 0, ages stop at the horizon after which nothing tells them      *)
(* apart, so that a finite model lets time pass for ever.                  *)
(***************************************************************************)
EXTENDS Naturals, FiniteSets

CONSTANTS
    Server, Client,  \* daemons and command line clients sharing server.statePath
    Provider,
    ResetProvider,   \* those whose refresh is guarded by a reset-once toggle
    RefreshMs,       \* per provider: the configured refresh interval
    StaleMs,         \* and the age at which a cached value is stale
    CapMs,           \* the hour that bounds the failure backoff
    NoOne,
    \* Bounds: the longest Retry-After, the failures counted, how long a refresh
    \* that was started may run, crashes and restarts.
    MaxRetryAfter, MaxFailures, MaxDelay, MaxCrashes

Process == Server \cup Client

ASSUME ProcessAssumption  == Server \cap Client = {} /\ NoOne \notin Client
ASSUME ProviderAssumption == /\ ResetProvider \subseteq Provider
                             /\ RefreshMs \in [Provider -> Nat \ {0}]
                             /\ StaleMs \in [Provider -> Nat \ {0}]
                             /\ CapMs \in Nat \ {0}
ASSUME BoundAssumption    == {MaxRetryAfter, MaxFailures, MaxDelay, MaxCrashes} \subseteq Nat

VARIABLES
    snap,      \* per process, the snapshot in memory: a record per provider
    disk,      \* the snapshot file
    ticked,    \* per daemon, the loop's ticker has fired
    spawned,   \* refreshes started that have not passed enter()
    flight,    \* refreshes inside RefreshOne
    inFlight,  \* App.inFlight, per process
    pc,        \* where a client is
    flock,     \* the client that holds the refresh lock
    done,      \* providers a client has recorded in this run
    crashes

vars == <<snap, disk, ticked, spawned, flight, inFlight, pc, flock, done, crashes>>

-----------------------------------------------------------------------------
Least(a, b)  == IF a <= b THEN a ELSE b
Larger(a, b) == IF a >= b THEN a ELSE b
Monus(a, b)  == IF a > b THEN a - b ELSE 0

(* failureRefreshMs: the interval doubles with every consecutive failure, *)
(* sixty-fourfold at most, and never exceeds an hour. *)
Factor == <<1, 2, 4, 8, 16, 32, 64>>
FailureRefreshMs(refreshMs, failures) ==
    Least(refreshMs * Factor[Least(Larger(failures, 1), 7)], CapMs)

(* ProviderSnapshot, as far as the properties tell records apart: lastError is *)
(* set exactly while there are consecutive failures. *)
Record == [wait : Nat, failures : Nat, age : Nat, items : {"none", "fresh", "stale"}]

Never(p) == [wait |-> 0, failures |-> 0, age |-> StaleMs[p], items |-> "none"]
Empty == [p \in Provider |-> Never(p)]

(* UpsertSuccess and MarkFailure, for a refresh that read the clock t.age ago. *)
UpsertSuccess(p, age) ==
    [wait |-> Monus(RefreshMs[p], age), failures |-> 0,
     age |-> Least(age, StaleMs[p]), items |-> "fresh"]

MarkFailure(p, ps, age, retryAfter) ==
    LET n == Least(ps.failures + 1, MaxFailures)
    IN [ps EXCEPT !.wait = Monus(Larger(FailureRefreshMs(RefreshMs[p], n), retryAfter), age),
                  !.failures = n,
                  !.items = IF ps.items = "none" THEN "none" ELSE "stale"]

NeedsRefresh(x, p) == snap[x][p].wait = 0

(* The state Overview shows for a provider. *)
Shown(x, p) ==
    LET ps == snap[x][p]
    IN CASE ps.failures > 0 -> "error"
         [] ps.failures = 0 /\ ps.items = "fresh" /\ ps.age < StaleMs[p] -> "fresh"
         [] OTHER -> "stale"

(* A refresh that runs: RefreshOne, which entered App.inFlight, or an explicit *)
(* "use now" or consume request, which did not; "lock" until the former holds *)
(* its provider's reset lock. *)
Stage == {"lock", "fetch", "save", "write"}
Task == [provider : Provider, age : Nat]
Flight == [provider : Provider, age : Nat, stage : Stage, entered : BOOLEAN,
           image : [Provider -> Record]]

Guarded(x, p) == x \in Server /\ p \in ResetProvider

Started(x, t) ==
    [provider |-> t.provider, age |-> t.age, entered |-> TRUE, image |-> Empty,
     stage |-> IF Guarded(x, t.provider) THEN "lock" ELSE "fetch"]

TypeOK ==
    /\ snap \in [Process -> [Provider -> Record]] /\ disk \in [Provider -> Record]
    /\ ticked \in [Server -> BOOLEAN]
    /\ spawned \in [Process -> SUBSET Task]
    /\ flight \in [Process -> SUBSET Flight]
    /\ inFlight \in [Process -> SUBSET Provider]
    /\ pc \in [Client -> {"off", "wait", "run"}]
    /\ flock \in Client \cup {NoOne}
    /\ done \in [Client -> SUBSET Provider]
    /\ crashes \in Nat

(* A first start: no snapshot file yet. *)
Init ==
    /\ snap = [x \in Process |-> Empty] /\ disk = Empty
    /\ ticked = [s \in Server |-> TRUE]
    /\ spawned = [x \in Process |-> {}]
    /\ flight = [x \in Process |-> {}]
    /\ inFlight = [x \in Process |-> {}]
    /\ pc = [c \in Client |-> "off"] /\ flock = NoOne
    /\ done = [c \in Client |-> {}]
    /\ crashes = 0

-----------------------------------------------------------------------------
(* RefreshDue: one goroutine for every provider due at this tick. *)
RefreshDue(s) ==
    /\ ticked[s] /\ ticked' = [ticked EXCEPT ![s] = FALSE]
    /\ spawned' = [spawned EXCEPT ![s] =
                     @ \cup {[provider |-> p, age |-> 0] : p \in {q \in Provider : NeedsRefresh(s, q)}}]
    /\ UNCHANGED <<snap, disk, flight, inFlight, pc, flock, done, crashes>>

(* RefreshOne's enter().  Whether the provider is still due is not asked again. *)
(* A client goes through its providers one by one. *)
Enter(x, t) ==
    /\ t \in spawned[x]
    /\ x \in Client => flight[x] = {}
    /\ spawned' = [spawned EXCEPT ![x] = @ \ {t}]
    /\ IF t.provider \in inFlight[x]
       THEN UNCHANGED <<flight, inFlight>>
       ELSE /\ inFlight' = [inFlight EXCEPT ![x] = @ \cup {t.provider}]
            /\ flight' = [flight EXCEPT ![x] = @ \cup {Started(x, t)}]
    /\ UNCHANGED <<snap, disk, ticked, pc, flock, done, crashes>>

Replace(x, t, u) == flight' = [flight EXCEPT ![x] = (@ \ {t}) \cup {u}]

Leave(x, t) ==
    /\ flight' = [flight EXCEPT ![x] = @ \ {t}]
    /\ inFlight' = [inFlight EXCEPT ![x] = IF t.entered THEN @ \ {t.provider} ELSE @]

(* lockResetOnce, tried without waiting. *)
Holds(t, p) == t.provider = p /\ t.stage # "lock"
LockFree(s, p) == \A t \in flight[s] : ~Holds(t, p)

TakeLockAnyway(s, t) ==  \* mutant: the reset lock is not consulted
    /\ t \in flight[s] /\ t.stage = "lock"
    /\ Replace(s, t, [t EXCEPT !.stage = "fetch"])
    /\ UNCHANGED <<snap, disk, ticked, spawned, inFlight, pc, flock, done, crashes>>

TakeLock(s, t) ==
    /\ t \in flight[s] /\ t.stage = "lock" /\ LockFree(s, t.provider)
    /\ Replace(s, t, [t EXCEPT !.stage = "fetch"])
    /\ UNCHANGED <<snap, disk, ticked, spawned, inFlight, pc, flock, done, crashes>>

(* An explicit request fetches and records under the reset lock, but does not *)
(* go through enter(). *)
Request(s, p) ==
    /\ p \in ResetProvider /\ LockFree(s, p)
    /\ flight' = [flight EXCEPT ![s] = @ \cup
         {[provider |-> p, age |-> 0, entered |-> FALSE, image |-> Empty, stage |-> "fetch"]}]
    /\ UNCHANGED <<snap, disk, ticked, spawned, inFlight, pc, flock, done, crashes>>

(* recordRefresh up to ApplyFetch. *)
Recorded(x, t, ps) ==
    /\ t \in flight[x] /\ t.stage = "fetch"
    /\ snap' = [snap EXCEPT ![x][t.provider] = ps]
    /\ done' = [c \in Client |-> IF c = x THEN done[c] \cup {t.provider} ELSE done[c]]
    /\ Replace(x, t, [t EXCEPT !.stage = "save"])
    /\ UNCHANGED <<disk, ticked, spawned, inFlight, pc, flock, crashes>>

FetchKeepsError(x, t) ==  \* mutant: a success does not clear lastError
    Recorded(x, t, [UpsertSuccess(t.provider, t.age) EXCEPT !.failures = snap[x][t.provider].failures])

FetchSucceeds(x, t) == Recorded(x, t, UpsertSuccess(t.provider, t.age))

FetchFails(x, t) ==
    \E retryAfter \in 0 .. MaxRetryAfter :
        Recorded(x, t, MarkFailure(t.provider, snap[x][t.provider], t.age, retryAfter))

SkippedStaysInFlight(x, t) ==  \* mutant: an early return without leave()
    /\ t \in flight[x] /\ t.stage \in {"lock", "fetch"} /\ Guarded(x, t.provider)
    /\ flight' = [flight EXCEPT ![x] = @ \ {t}]
    /\ UNCHANGED <<snap, disk, ticked, spawned, inFlight, pc, flock, done, crashes>>

(* A reset-once refresh that finds the lock taken, in this daemon or another *)
(* one, records nothing, and neither does one that disarms its toggle first. *)
RefreshSkipped(x, t) ==
    /\ t \in flight[x] /\ t.stage \in {"lock", "fetch"} /\ Guarded(x, t.provider)
    /\ Leave(x, t)
    /\ UNCHANGED <<snap, disk, ticked, spawned, pc, flock, done, crashes>>

(* Store.Save: the snapshot is marshalled under the lock, *)
Marshal(x, t) ==
    /\ t \in flight[x] /\ t.stage = "save"
    /\ Replace(x, t, [t EXCEPT !.stage = "write", !.image = snap[x]])
    /\ UNCHANGED <<snap, disk, ticked, spawned, inFlight, pc, flock, done, crashes>>

(* and renamed over the file without it.  A guarded refresh may fetch again and *)
(* record that too: its second check, the usage after a redemption. *)
Proceed(x, t) ==
    \/ Leave(x, t)
    \/ /\ Guarded(x, t.provider)
       /\ Replace(x, t, [t EXCEPT !.stage = "fetch", !.age = 0, !.image = Empty])
       /\ UNCHANGED inFlight

SaveSucceeds(x, t) ==
    /\ t \in flight[x] /\ t.stage = "write"
    /\ disk' = t.image
    /\ Proceed(x, t)
    /\ UNCHANGED <<snap, ticked, spawned, pc, flock, done, crashes>>

SaveFails(x, t) ==
    /\ t \in flight[x] /\ t.stage \in {"save", "write"}
    /\ Proceed(x, t)
    /\ UNCHANGED <<snap, disk, ticked, spawned, pc, flock, done, crashes>>

-----------------------------------------------------------------------------
(* LocalUsage: load the file and return it unless something is due, *)
Load(c) ==
    /\ pc[c] = "off"
    /\ snap' = [snap EXCEPT ![c] = disk]
    /\ \E p \in Provider : disk[p].wait = 0
    /\ pc' = [pc EXCEPT ![c] = "wait"]
    /\ UNCHANGED <<disk, ticked, spawned, flight, inFlight, flock, done, crashes>>

LockWithoutReload(c) ==  \* mutant: the file is not read again under the lock
    /\ pc[c] = "wait" /\ flock = NoOne /\ flock' = c
    /\ spawned' = [spawned EXCEPT ![c] =
                     {[provider |-> p, age |-> 0] : p \in {q \in Provider : NeedsRefresh(c, q)}}]
    /\ pc' = [pc EXCEPT ![c] = "run"]
    /\ UNCHANGED <<snap, disk, ticked, flight, inFlight, done, crashes>>

(* take the lock and load the file again, to see what is still due, *)
LockAndReload(c) ==
    /\ pc[c] = "wait" /\ flock = NoOne /\ flock' = c
    /\ snap' = [snap EXCEPT ![c] = disk]
    /\ spawned' = [spawned EXCEPT ![c] =
                     {[provider |-> p, age |-> 0] : p \in {q \in Provider : disk[q].wait = 0}}]
    /\ pc' = [pc EXCEPT ![c] = "run"]
    /\ UNCHANGED <<disk, ticked, flight, inFlight, done, crashes>>

Exit(c) ==
    /\ snap' = [snap EXCEPT ![c] = Empty]
    /\ spawned' = [spawned EXCEPT ![c] = {}]
    /\ flight' = [flight EXCEPT ![c] = {}]
    /\ inFlight' = [inFlight EXCEPT ![c] = {}]
    /\ pc' = [pc EXCEPT ![c] = "off"]
    /\ flock' = IF flock = c THEN NoOne ELSE flock
    /\ done' = [done EXCEPT ![c] = {}]

(* and return when every due provider was refreshed, or between two of them *)
(* when the client's timeout has passed; a client that never gets the lock *)
(* shows what it loaded. *)
Finish(c) ==
    /\ pc[c] \in {"wait", "run"} /\ flight[c] = {}
    /\ Exit(c)
    /\ UNCHANGED <<disk, ticked, crashes>>

-----------------------------------------------------------------------------
(* A daemon that dies is started again and loads the file; if that fails it *)
(* starts from nothing. *)
Restart(s) ==
    /\ crashes < MaxCrashes /\ crashes' = crashes + 1
    /\ \E loaded \in {disk, Empty} : snap' = [snap EXCEPT ![s] = loaded]
    /\ ticked' = [ticked EXCEPT ![s] = TRUE]
    /\ spawned' = [spawned EXCEPT ![s] = {}]
    /\ flight' = [flight EXCEPT ![s] = {}]
    /\ inFlight' = [inFlight EXCEPT ![s] = {}]
    /\ UNCHANGED <<disk, pc, flock, done>>

Killed(c) ==
    /\ crashes < MaxCrashes /\ crashes' = crashes + 1
    /\ pc[c] # "off" /\ Exit(c)
    /\ UNCHANGED <<disk, ticked>>

Older(p, ps) == [ps EXCEPT !.wait = Monus(@, 1), !.age = Least(@ + 1, StaleMs[p])]
AllOlder(image) == [p \in Provider |-> Older(p, image[p])]

(* Time passes, and with it every daemon's loop ticks. *)
Tick ==
    /\ \A s \in Server : ~ticked[s]
    /\ \A x \in Process : \A t \in spawned[x] \cup flight[x] : t.age < MaxDelay
    /\ snap' = [x \in Process |-> AllOlder(snap[x])]
    /\ disk' = AllOlder(disk)
    /\ ticked' = [s \in Server |-> TRUE]
    /\ spawned' = [x \in Process |-> {[t EXCEPT !.age = @ + 1] : t \in spawned[x]}]
    /\ flight' = [x \in Process |->
                    {[t EXCEPT !.age = @ + 1, !.image = AllOlder(@)] : t \in flight[x]}]
    /\ UNCHANGED <<inFlight, pc, flock, done, crashes>>

-----------------------------------------------------------------------------
Fetched(x, t) == TakeLock(x, t) \/ FetchSucceeds(x, t) \/ FetchFails(x, t) \/ RefreshSkipped(x, t)
Saved(x, t) == Marshal(x, t) \/ SaveSucceeds(x, t) \/ SaveFails(x, t)

Next ==
    \/ \E s \in Server : RefreshDue(s) \/ Restart(s) \/ \E p \in Provider : Request(s, p)
    \/ \E x \in Process : \E t \in spawned[x] : Enter(x, t)
    \/ \E x \in Process : \E t \in flight[x] : Fetched(x, t) \/ Saved(x, t)
    \/ \E c \in Client : Load(c) \/ LockAndReload(c) \/ Finish(c) \/ Killed(c)
    \/ Tick

Spec == Init /\ [][Next]_vars

(* Goroutines are scheduled, fetches and file writes end (every provider's HTTP *)
(* client has a timeout), and the clock moves. *)
FairSpec ==
    /\ Spec
    /\ WF_vars(Tick)
    /\ \A s \in Server : WF_vars(RefreshDue(s))
    /\ \A x \in Process, p \in Provider :
          /\ WF_vars(\E t \in spawned[x] : t.provider = p /\ Enter(x, t))
          /\ \A e \in BOOLEAN :
                WF_vars(\E t \in flight[x] :
                           t.provider = p /\ t.entered = e /\ (Fetched(x, t) \/ Saved(x, t)))
    /\ \A c \in Client : WF_vars(Finish(c))

Failed(x, t) == \/ FetchFails(x, t)
                \/ RefreshSkipped(x, t) /\ (t.stage = "lock" => LockFree(x, t.provider))

(* The upstream APIs recover and stay well, and no other daemon or disarmed *)
(* toggle keeps refreshes from recording; a request of this daemon still may. *)
Recovered == <>[][\A x \in Process : \A t \in flight[x] : ~Failed(x, t)]_vars

-----------------------------------------------------------------------------
(* docs/RATE_LIMITING.md: "At most one in-flight refresh per provider is allowed" *)
(* in a daemon, though explicit requests bypass enter(); and one altogether among *)
(* clients that refresh locally. *)
SingleFlight ==
    /\ \A s \in Server : \A t, u \in flight[s] :
          t.provider = u.provider /\ t.stage # "lock" /\ u.stage # "lock" => t = u
    /\ \A c, d \in Client : \A t \in flight[c], u \in flight[d] : c = d /\ t = u

(* "concurrent CLI invocations do not stampede upstream APIs when the daemon is *)
(* unavailable": a client calls a provider only while the file every other *)
(* client reads says that it is due. *)
ClientsDoNotStampede ==
    Server = {} =>
        \A c \in Client : \A t \in flight[c] : t.stage = "fetch" => disk[t.provider].wait = 0

(* Without a daemon, a client's whole-file save changes only the records of the *)
(* providers it refreshed itself: it never puts back what another one replaced. *)
ClientSaves ==
    Server = {} =>
        \A c \in Client : \A t \in flight[c] :
            SaveSucceeds(c, t) => \A p \in Provider \ done[c] : disk'[p] = disk[p]
ClientsKeepOthersRecords == [][ClientSaves]_vars

(* Why these three hold: App.inFlight lists the providers RefreshOne is at, and the *)
(* reset lock keeps an explicit request apart from it, *)
FlightInv ==
    \A x \in Process : \A t \in flight[x] :
        /\ t.entered => t.provider \in inFlight[x]
        /\ ~t.entered => t.stage # "lock" /\ Guarded(x, t.provider)
        /\ t.stage = "lock" => Guarded(x, t.provider)
        /\ \A u \in flight[x] :
              /\ t.provider = u.provider /\ t.entered /\ u.entered => t = u
              /\ t.provider = u.provider /\ t.stage # "lock" /\ u.stage # "lock" => t = u

(* only the client that holds the lock refreshes, one provider at a time, *)
ClientInv ==
    \A c \in Client :
        /\ pc[c] = "run" => flock = c
        /\ pc[c] # "run" => spawned[c] = {} /\ flight[c] = {} /\ done[c] = {}
        /\ \A t, u \in flight[c] : t = u

(* and what it has not recorded itself it holds as it is in the file. *)
HoldsFile(c) ==
    /\ \A p \in Provider \ done[c] : snap[c][p] = disk[p]
    /\ \A t \in spawned[c] : disk[t.provider].wait = 0 /\ t.provider \notin done[c]
    /\ \A t, u \in spawned[c] : t.provider = u.provider => t = u
    /\ \A t \in flight[c] :
          /\ \A u \in spawned[c] : u.provider # t.provider
          /\ t.stage = "fetch" => disk[t.provider].wait = 0 /\ t.provider \notin done[c]
          /\ t.stage # "fetch" => t.provider \in done[c]
          /\ t.stage = "write" => \A p \in Provider \ done[c] : t.image[p] = disk[p]
FileInv == Server = {} => \A c \in Client : pc[c] = "run" => HoldsFile(c)

IInv == TypeOK /\ FlightInv /\ ClientInv /\ FileInv

(* Every provider of a daemon is polled again and again, whatever fails. *)
PolledForever ==
    \A s \in Server, p \in Provider : []<>(\E t \in flight[s] : t.provider = p)

(* Once the upstream APIs work again, no provider keeps showing an error. *)
OutageEnds == Recovered => \A s \in Server, p \in Provider : <>[](Shown(s, p) # "error")

=============================================================================
