----------------------------- MODULE ResetEvents -----------------------------
(***************************************************************************)
(* The daemon's log of observed quota replenishments: Store in             *)
(* internal/resetevents/store.go, as recordRefresh (internal/app/app.go)   *)
(* and the daemon's start use it.                                          *)
(*                                                                         *)
(* Every successful answer of a provider is compared, item by item, with   *)
(* the provider's baseline, the last answer recorded.  An item that gained *)
(* at least MinimumIncrease becomes an event; events and new baseline are  *)
(* written as one file, and replace the state in memory only when that     *)
(* write succeeded.  The daemon may die at any time and loads the file     *)
(* when it starts again; the user may remove the file in between, which    *)
(* begins a new stream.                                                    *)
(*                                                                         *)
(* An answer that is recorded late, with a clock reading not after the     *)
(* baseline's, is dropped: it changes nothing and has no action here.      *)
(***************************************************************************)
EXTENDS Naturals, Sequences, FiniteSets

CONSTANTS
    Provider, Item, Of,   \* quota items and the provider each belongs to
    MaxLevel,             \* remaining quota, in steps of some percentage points
    MinimumIncrease,
    Shape,                \* limit, unit and window of an item
    NoReading, NoLog,
    \* Bounds: changes of upstream quota, deaths of the daemon, event streams.
    MaxChanges, MaxStops, MaxStreams

ASSUME ItemAssumption  == Of \in [Item -> Provider] /\ IsFiniteSet(Item)
ASSUME LevelAssumption == MaxLevel \in Nat /\ MinimumIncrease \in Nat \ {0}
ASSUME LogBoundAssumption == {MaxChanges, MaxStops, MaxStreams} \subseteq Nat

VARIABLES
    log,      \* Store.state of the running daemon; NoLog when it does not run
    file,     \* reset-events.json; NoLog when it does not exist
    quota,    \* what the providers answer, for the items that are eligible
    rises,    \* history: how often each item's quota rose
    owed,     \* history: the risen reading of a refresh whose write failed
    streams,  \* stream identifiers drawn
    changes, stops

logVars == <<log, file, quota, rises, owed, streams, changes, stops>>

-----------------------------------------------------------------------------
Reading == [level : 0 .. MaxLevel, shape : Shape]
ASSUME ReadingAssumption == NoReading \notin Reading

Readings == Reading \cup {NoReading}
Event == [item : Item, before : 0 .. MaxLevel, after : 0 .. MaxLevel]

(* diskState; the identifier of an event is its place in the sequence. *)
Log == [stream : Nat, baseline : [Item -> Readings], events : Seq(Event)]
ASSUME LogAssumption == NoLog \notin Log

LogTypeOK ==
    /\ log \in Log \cup {NoLog} /\ file \in Log \cup {NoLog}
    /\ quota \in [Item -> Readings]
    /\ rises \in [Item -> Nat] /\ owed \in [Item -> Readings]
    /\ streams \in Nat /\ changes \in Nat /\ stops \in Nat

LogInit ==
    /\ log = NoLog /\ file = NoLog
    /\ quota \in [Item -> Reading]
    /\ rises = [i \in Item |-> 0] /\ owed = [i \in Item |-> NoReading]
    /\ streams = 0 /\ changes = 0 /\ stops = 0

-----------------------------------------------------------------------------
(* Load: a file is taken as it is; without one, a new stream is written first, *)
(* and the daemon does not start unless that succeeds. *)
NewLog == [stream |-> streams + 1, baseline |-> [i \in Item |-> NoReading], events |-> <<>>]

LoadFile ==
    /\ log = NoLog /\ file # NoLog
    /\ log' = file
    /\ UNCHANGED <<file, quota, rises, owed, streams, changes, stops>>

LoadNew ==
    /\ log = NoLog /\ file = NoLog /\ streams < MaxStreams
    /\ file' = NewLog /\ log' = NewLog
    /\ streams' = streams + 1
    /\ UNCHANGED <<quota, rises, owed, changes, stops>>

(* WriteJSON may fail before its rename, which leaves everything as it was, or *)
(* after it, at the directory sync. *)
LoadNewFails ==
    /\ log = NoLog /\ file = NoLog /\ streams < MaxStreams
    /\ file' = NewLog
    /\ streams' = streams + 1
    /\ UNCHANGED <<log, quota, rises, owed, changes, stops>>

(* A reported rise: both readings present, of one shape, and far enough apart. *)
Rose(old, new) ==
    /\ old # NoReading /\ new # NoReading /\ old.shape = new.shape
    /\ new.level >= old.level + MinimumIncrease

(* The items of one provider are compared in the order of its answer. *)
Orders(S) == {q \in [1 .. Cardinality(S) -> S] : \A m, n \in DOMAIN q : q[m] = q[n] => m = n}

Compared(old, p, order) ==
    [stream   |-> old.stream,
     baseline |-> [i \in Item |-> IF Of[i] = p THEN quota[i] ELSE old.baseline[i]],
     events   |-> old.events \o [n \in DOMAIN order |->
                    [item |-> order[n], before |-> old.baseline[order[n]].level,
                     after |-> quota[order[n]].level]]]

Risen(p) == {i \in Item : Of[i] = p /\ Rose(log.baseline[i], quota[i])}
Recordings(p) == {Compared(log, p, order) : order \in Orders(Risen(p))}

Owe(p, owing) ==
    owed' = [i \in Item |-> IF Of[i] # p THEN owed[i]
                            ELSE IF i \in owing THEN quota[i] ELSE NoReading]

Record(p) ==
    /\ log # NoLog
    /\ \E next \in Recordings(p) : log' = next /\ file' = next
    /\ Owe(p, {})
    /\ UNCHANGED <<quota, rises, streams, changes, stops>>

BaselineAdvances(p) ==  \* mutant: a failed write keeps the new baseline
    /\ log # NoLog
    /\ log' = [log EXCEPT !.baseline = [i \in Item |-> IF Of[i] = p THEN quota[i] ELSE @[i]]]
    /\ Owe(p, Risen(p))
    /\ UNCHANGED <<file, quota, rises, streams, changes, stops>>

EventsFirst(p) ==  \* mutant: events are written without the baseline
    /\ log # NoLog
    /\ \E next \in Recordings(p) : file' = [next EXCEPT !.baseline = log.baseline]
    /\ Owe(p, Risen(p))
    /\ UNCHANGED <<log, quota, rises, streams, changes, stops>>

(* The write fails, before or after its rename: the state in memory stays. *)
RecordFails(p) ==
    /\ log # NoLog
    /\ file' = file \/ file' \in Recordings(p)
    /\ Owe(p, Risen(p))
    /\ UNCHANGED <<log, quota, rises, streams, changes, stops>>

-----------------------------------------------------------------------------
Stop ==
    /\ log # NoLog /\ stops < MaxStops /\ stops' = stops + 1
    /\ log' = NoLog
    /\ UNCHANGED <<file, quota, rises, owed, streams, changes>>

(* "Removing it intentionally starts a new event stream." *)
RemoveLog ==
    /\ log = NoLog /\ file # NoLog /\ streams < MaxStreams
    /\ file' = NoLog
    /\ owed' = [i \in Item |-> NoReading]
    /\ UNCHANGED <<log, quota, rises, streams, changes, stops>>

Higher(old, new) == new # NoReading /\ (old # NoReading => new.level > old.level)

(* Quota is consumed or replenished, an item disappears or comes back, its *)
(* limit or window changes. *)
QuotaChanges(i) ==
    /\ changes < MaxChanges /\ changes' = changes + 1
    /\ \E r \in Readings \ {quota[i]} :
          /\ quota' = [quota EXCEPT ![i] = r]
          /\ rises' = [rises EXCEPT ![i] = IF Higher(quota[i], r) THEN @ + 1 ELSE @]
    /\ UNCHANGED <<log, file, owed, streams, stops>>

LogNext ==
    \/ LoadFile \/ LoadNew \/ LoadNewFails \/ Stop \/ RemoveLog
    \/ \E p \in Provider : Record(p) \/ RecordFails(p)
    \/ \E i \in Item : QuotaChanges(i)

LogSpec == LogInit /\ [][LogNext]_logVars

-----------------------------------------------------------------------------
EventsOf(l, i) == {n \in DOMAIN l.events : l.events[n].item = i}

(* Baseline and events commit together, in memory, in the file and from one to *)
(* the other over failed writes and deaths of the daemon: a replenishment is *)
(* never reported twice. *)
ReportedOnce ==
    \A l \in {log, file} \ {NoLog} : \A i \in Item : Cardinality(EventsOf(l, i)) <= rises[i]

(* Record: "Failed writes leave both unchanged so a subsequent refresh can retry *)
(* without losing alerts."  A risen reading becomes the baseline, of this daemon *)
(* or of one that is started after it died, only together with its event. *)
Current == IF log = NoLog THEN file ELSE log
NoRiseSwallowed ==
    Current # NoLog =>
        \A i \in Item :
            owed[i] # NoReading /\ Current.baseline[i] = owed[i] =>
                \E n \in EventsOf(Current, i) : Current.events[n].after = owed[i].level
=============================================================================
