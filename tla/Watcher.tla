------------------------------- MODULE Watcher -------------------------------
(***************************************************************************)
(* The desktop watcher, `usagent notify': Watcher in                       *)
(* internal/desktop/watcher.go with its file handling (internal/cli/       *)
(* notify.go) and its D-Bus connection (internal/desktop/dbus.go), beside  *)
(* the daemon whose event log it reads (ResetEvents).                      *)
(*                                                                         *)
(* One goroutine polls the log, groups the wanted events of a page into    *)
(* one notification and waits.  Only the notification's "Mark read" action *)
(* advances the cursor past a wanted event.  The desktop shell shows,      *)
(* drops and replaces notifications, queues signals about them, and may      *)
(* be restarted; its notification identifiers then start over.             *)
(***************************************************************************)
EXTENDS ResetEvents

CONSTANTS
    Kind,        \* the kind of window an item has
    Weekly, Monthly, SessionBelow,  \* the notification policy
    PageSize,
    \* Bounds: notifications marked read or dropped; deaths of the watcher, new
    \* starts of the shell and of the daemon, and calls to the shell whose answer or
    \* effect is lost, taken together.
    MaxTouches, MaxMishaps

ASSUME PolicyAssumption ==
    /\ Kind \in [Item -> {"weekly", "monthly", "session", "other"}]
    /\ {Weekly, Monthly} \subseteq BOOLEAN /\ SessionBelow \in Nat
ASSUME PageAssumption == PageSize \in Nat \ {0}
ASSUME WatcherBoundAssumption ==
    {MaxTouches, MaxMishaps} \subseteq Nat

VARIABLES
    pc,         \* where the watcher is; "off" when it does not run
    cursor,     \* Watcher.Cursor
    saved,      \* the cursor file
    page,       \* the page in its hands
    id,         \* Watcher.id, 0 without a notification
    shownLast,
    actions,    \* Watcher.actions
    known,      \* Desktop.owner, the shell that took the last notification
    queue,      \* Desktop.signals
    shell,      \* the shell that runs
    notes,      \* the notifications it shows
    lastID,     \* the last identifier it gave out
    read,       \* history: the alerts a user has marked read
    done,       \* history: those whose acknowledgement was saved
    deaths, touches, lost

deskVars == <<shell, notes, lastID>>
runVars == <<page, id, shownLast, actions, known>>
countVars == <<deaths, touches, lost>>
historyVars == <<read, done>>
watcherVars == <<pc, cursor, saved, runVars, queue, deskVars, historyVars, countVars>>
vars == <<logVars, watcherVars>>

-----------------------------------------------------------------------------
Cursor == [stream : Nat, after : Nat]
Start == [stream |-> 0, after |-> 0]

(* An event as the log serves it. *)
Alert == [stream : Nat, id : Nat, event : Event]
NoPage == [stream |-> 0, alerts |-> {}, last |-> 0]

(* A notification and the token of its action, which names the last alert. *)
Note == [id : Nat, token : Cursor, alerts : SUBSET Alert]
Signal == [kind : {"closed", "action", "restarted"}, id : Nat, token : Cursor]

TypeOK ==
    /\ LogTypeOK
    /\ pc \in {"off", "idle", "poll", "got", "switched", "acked"}
    /\ cursor \in Cursor /\ saved \in Cursor
    /\ page \in [stream : Nat, alerts : SUBSET Alert, last : Nat]
    /\ id \in Nat /\ shownLast \in Nat /\ actions \subseteq Cursor /\ known \in Nat
    /\ queue \in Seq(Signal)
    /\ shell \in Nat /\ notes \subseteq Note /\ lastID \in Nat
    /\ read \subseteq Alert /\ done \subseteq Alert
    /\ deaths \in Nat /\ touches \in Nat /\ lost \in Nat

Init ==
    /\ LogInit
    /\ pc = "off" /\ cursor = Start /\ saved = Start /\ page = NoPage
    /\ id = 0 /\ shownLast = 0 /\ actions = {} /\ known = 0 /\ queue = <<>>
    /\ shell = 1 /\ notes = {} /\ lastID = 0 /\ read = {} /\ done = {}
    /\ deaths = 0 /\ touches = 0 /\ lost = 0

Mishap == deaths + lost + (shell - 1) + stops < MaxMishaps

-----------------------------------------------------------------------------
(* shouldNotify. *)
Wanted(e) ==
    \/ Kind[e.item] = "weekly" /\ Weekly
    \/ Kind[e.item] = "monthly" /\ Monthly
    \/ Kind[e.item] = "session" /\ e.before < SessionBelow

AlertsIn(l, first, last) ==
    {[stream |-> l.stream, id |-> n, event |-> l.events[n]] : n \in first .. last}
WantedIn(alerts) == {a \in alerts : Wanted(a.event)}

(* Store.Page: a cursor of another stream starts at the beginning. *)
Page ==
    LET after == IF cursor.stream = log.stream THEN cursor.after ELSE 0
        last  == IF Len(log.events) <= after + PageSize THEN Len(log.events) ELSE after + PageSize
    IN [stream |-> log.stream, alerts |-> AlertsIn(log, after + 1, last), last |-> last]

Closed(i) == [kind |-> "closed", id |-> i, token |-> Start]
Invoked(n) == [kind |-> "action", id |-> n.id, token |-> n.token]
Restarted == [kind |-> "restarted", id |-> 0, token |-> Start]

-----------------------------------------------------------------------------
(* RunNotify loads the cursor and connects; Run polls at once. *)
StartWatcher ==
    /\ pc = "off" /\ pc' = "poll"
    /\ cursor' = saved
    /\ UNCHANGED <<logVars, saved, runVars, queue, deskVars, historyVars, countVars>>

Ticker ==
    /\ pc = "idle" /\ pc' = "poll"
    /\ UNCHANGED <<logVars, cursor, saved, runVars, queue, deskVars, historyVars, countVars>>

Fetch ==
    /\ pc = "poll" /\ pc' = "got"
    /\ log # NoLog
    /\ page' = Page
    /\ UNCHANGED <<logVars, cursor, saved, id, shownLast, actions, known, queue, deskVars,
                   historyVars, countVars>>

FetchFails ==
    /\ pc = "poll" /\ pc' = "idle"
    /\ UNCHANGED <<logVars, cursor, saved, runVars, queue, deskVars, historyVars, countVars>>

(* Notifier.Close goes to the shell that took the notification, and is not *)
(* checked for success; the shell answers with a signal. *)
Close ==
    LET here == {n \in notes : n.id = id /\ known = shell}
    IN \/ /\ notes' = notes \ here
          /\ queue' = IF here = {} THEN queue ELSE Append(queue, Closed(id))
          /\ UNCHANGED lost
       \/ /\ here # {} /\ Mishap /\ lost' = lost + 1
          /\ UNCHANGED <<notes, queue>>

Forget == id' = 0 /\ shownLast' = 0 /\ actions' = {}

(* present: the daemon's state was replaced, start over with its new stream, *)
SwitchStream ==
    /\ pc = "got" /\ page.stream # cursor.stream
    /\ Close /\ Forget
    /\ cursor' = [stream |-> page.stream, after |-> 0]
    /\ pc' = "switched"
    /\ UNCHANGED <<logVars, saved, page, known, shell, lastID, historyVars, deaths, touches>>

Presenting == pc \in {"got", "switched"} /\ page.stream = cursor.stream
Alerts == WantedIn(page.alerts)
Latest == CHOOSE n \in {a.id : a \in Alerts} : \A a \in Alerts : a.id <= n
AlreadyShown == id # 0 /\ Latest = shownLast
Return == pc' = "idle" /\ page' = NoPage

(* poll: a full page that moved the cursor is followed by the next one. *)
Drain(moved) ==
    /\ pc' = IF moved /\ Cardinality(page.alerts) = PageSize THEN "poll" ELSE "idle"
    /\ page' = NoPage

(* no events, or a notification that already shows these, *)
NothingNew ==
    /\ Presenting
    /\ page.alerts = {} \/ (Alerts # {} /\ AlreadyShown)
    /\ Drain(pc = "switched")
    /\ UNCHANGED <<logVars, cursor, saved, id, shownLast, actions, known, queue, deskVars,
                   historyVars, countVars>>

(* only unwanted events: skip them, and after a full page poll again, *)
Skip ==
    /\ Presenting /\ page.alerts # {} /\ Alerts = {}
    /\ cursor' = [cursor EXCEPT !.after = page.last] /\ saved' = cursor'
    /\ Drain(TRUE)
    /\ UNCHANGED <<logVars, id, shownLast, actions, known, queue, deskVars, historyVars, countVars>>

SkipFails ==
    /\ Presenting /\ page.alerts # {} /\ Alerts = {}
    /\ saved' \in {saved, [cursor EXCEPT !.after = page.last]}
    /\ Return
    /\ UNCHANGED <<logVars, cursor, id, shownLast, actions, known, queue, deskVars,
                   historyVars, countVars>>

(* or show the wanted ones, in place of the notification that is on screen.  The *)
(* shell that took it is asked to replace it, any other shell is not; one that is *)
(* asked to replace what it does not show any more may give its identifier again. *)
TokenTypo == [stream |-> page.stream, last |-> Latest]  \* mutant: a misnamed field
Token == [stream |-> page.stream, after |-> Latest]
Showing == Presenting /\ Alerts # {} /\ ~AlreadyShown
OnScreen == known = shell /\ id \in {n.id : n \in notes}

Notify(i) ==
    /\ Showing
    /\ IF OnScreen THEN i = id ELSE i = lastID + 1 \/ (known = shell /\ i = id)
    /\ notes' = {n \in notes : n.id # i} \cup {[id |-> i, token |-> Token, alerts |-> Alerts]}
    /\ lastID' = IF i > lastID THEN i ELSE lastID
    /\ UNCHANGED shell

Show ==
    /\ \E i \in 1 .. lastID + 1 : Notify(i) /\ id' = i
    /\ shownLast' = Latest /\ actions' = actions \cup {Token} /\ known' = shell
    /\ Drain(pc = "switched")
    /\ UNCHANGED <<logVars, cursor, saved, queue, historyVars, countVars>>

(* The shell shows it, but its answer is lost. *)
ShowUnanswered ==
    /\ Mishap /\ lost' = lost + 1
    /\ \E i \in 1 .. lastID + 1 : Notify(i)
    /\ Return
    /\ UNCHANGED <<logVars, cursor, saved, id, shownLast, actions, known, queue, historyVars,
                   deaths, touches>>

ShowFails ==
    /\ Showing
    /\ Return
    /\ UNCHANGED <<logVars, cursor, saved, id, shownLast, actions, known, queue, deskVars,
                   historyVars, countVars>>

-----------------------------------------------------------------------------
(* handle, for the first signal waiting. *)
Handling(kind) == pc = "idle" /\ queue # <<>> /\ Head(queue).kind = kind

HandleRestarted ==
    /\ Handling("restarted") /\ queue' = Tail(queue)
    /\ Forget
    /\ UNCHANGED <<logVars, pc, cursor, saved, page, known, deskVars, historyVars, countVars>>

ClosedKeepsShown ==  \* mutant: a popup that was closed counts as shown
    /\ Handling("closed") /\ queue' = Tail(queue)
    /\ UNCHANGED <<logVars, pc, cursor, saved, runVars, deskVars, historyVars, countVars>>

HandleClosed ==
    /\ Handling("closed") /\ queue' = Tail(queue)
    /\ id' = IF Head(queue).id = id THEN 0 ELSE id
    /\ UNCHANGED <<logVars, pc, cursor, saved, page, shownLast, actions, known, deskVars,
                   historyVars, countVars>>

Acknowledges(t) == t \in actions /\ t.stream = cursor.stream /\ t.after > cursor.after

IgnoreAction ==
    /\ Handling("action") /\ queue' = Tail(queue)
    /\ ~Acknowledges(Head(queue).token)
    /\ UNCHANGED <<logVars, pc, cursor, saved, runVars, deskVars, historyVars, countVars>>

(* "Persist first": save the acknowledgement, *)
Covered(t) == {a \in read : a.stream = t.stream /\ a.id <= t.after}

AcknowledgeShown ==  \* mutant: acknowledges what is on screen, not what was clicked
    /\ Handling("action") /\ queue' = Tail(queue)
    /\ Acknowledges(Head(queue).token)
    /\ cursor' = [cursor EXCEPT !.after = shownLast] /\ saved' = cursor'
    /\ done' = done \cup Covered(cursor')
    /\ pc' = "acked"
    /\ UNCHANGED <<logVars, runVars, deskVars, read, countVars>>

AcknowledgeUnsaved ==  \* mutant: the acknowledgement stays in memory
    /\ Handling("action") /\ queue' = Tail(queue)
    /\ Acknowledges(Head(queue).token)
    /\ cursor' = Head(queue).token
    /\ done' = done \cup Covered(cursor')
    /\ pc' = "acked"
    /\ UNCHANGED <<logVars, saved, runVars, deskVars, read, countVars>>

Acknowledge ==
    /\ Handling("action") /\ queue' = Tail(queue)
    /\ Acknowledges(Head(queue).token)
    /\ cursor' = Head(queue).token /\ saved' = cursor'
    /\ done' = done \cup Covered(cursor')
    /\ pc' = "acked"
    /\ UNCHANGED <<logVars, runVars, deskVars, read, countVars>>

(* then close the notification and poll. *)
CloseRead ==
    /\ pc = "acked" /\ pc' = "poll"
    /\ Close /\ Forget
    /\ UNCHANGED <<logVars, cursor, saved, page, known, shell, lastID, historyVars, deaths, touches>>

-----------------------------------------------------------------------------
Gone ==
    /\ pc' = "off" /\ cursor' = Start /\ page' = NoPage /\ Forget /\ known' = 0 /\ queue' = <<>>

(* A failed save of an acknowledgement ends Run, and the process; on its way out *)
(* it tries to close the notification. *)
AcknowledgeFails ==
    /\ Handling("action")
    /\ Acknowledges(Head(queue).token)
    /\ saved' \in {saved, Head(queue).token}
    /\ notes' \in {notes, {n \in notes : ~(n.id = id /\ known = shell)}}
    /\ Gone
    /\ UNCHANGED <<logVars, shell, lastID, historyVars, countVars>>

(* Logging out closes the notification, a kill leaves it on screen. *)
Quit ==
    /\ pc \notin {"off", "acked"} /\ Mishap /\ deaths' = deaths + 1
    /\ notes' = {n \in notes : ~(n.id = id /\ known = shell)}
    /\ Gone
    /\ UNCHANGED <<logVars, saved, shell, lastID, historyVars, touches, lost>>

Killed ==
    /\ pc # "off" /\ Mishap /\ deaths' = deaths + 1
    /\ Gone
    /\ UNCHANGED <<logVars, saved, deskVars, historyVars, touches, lost>>

-----------------------------------------------------------------------------
(* The desktop.  Signals reach a watcher that runs; nobody else listens. *)
Hears(signals) == queue' = IF pc = "off" THEN queue ELSE queue \o signals

(* The user invokes Mark read.  The shell keeps the notification, which is *)
(* resident, or closes it, and some emit the closing first. *)
MarkRead(n) ==
    /\ touches < MaxTouches /\ touches' = touches + 1
    /\ read' = read \cup n.alerts
    /\ \/ UNCHANGED notes /\ Hears(<<Invoked(n)>>)
       \/ notes' = notes \ {n} /\ Hears(<<Invoked(n), Closed(n.id)>>)
       \/ notes' = notes \ {n} /\ Hears(<<Closed(n.id), Invoked(n)>>)
    /\ UNCHANGED <<logVars, pc, cursor, saved, runVars, shell, lastID, done, deaths, lost>>

(* Expiry, overflow, "do not disturb", or its close button. *)
Drop(n) ==
    /\ touches < MaxTouches /\ touches' = touches + 1
    /\ notes' = notes \ {n} /\ Hears(<<Closed(n.id)>>)
    /\ UNCHANGED <<logVars, pc, cursor, saved, runVars, shell, lastID, historyVars, deaths, lost>>

RestartShell ==
    /\ Mishap /\ shell' = shell + 1
    /\ notes' = {} /\ lastID' = 0 /\ Hears(<<Restarted>>)
    /\ UNCHANGED <<logVars, pc, cursor, saved, runVars, historyVars, countVars>>

-----------------------------------------------------------------------------
Poll ==
    \/ Fetch \/ FetchFails \/ SwitchStream \/ NothingNew
    \/ Skip \/ SkipFails \/ Show \/ ShowUnanswered \/ ShowFails
Handle ==
    HandleRestarted \/ HandleClosed \/ IgnoreAction \/ Acknowledge \/ AcknowledgeFails
Desktop == RestartShell \/ \E n \in notes : MarkRead(n) \/ Drop(n)

Next ==
    \/ LogNext /\ (stops' > stops => Mishap) /\ UNCHANGED watcherVars
    \/ StartWatcher \/ Ticker \/ Poll \/ Handle \/ CloseRead \/ Quit \/ Killed
    \/ Desktop

Spec == Init /\ [][Next]_vars

-----------------------------------------------------------------------------
(* Matching events are retained until the user marks them read: whatever the order *)
(* of clicks, polls, crashes and restarts, a cursor, in memory or saved, passes a *)
(* wanted event only if a notification that listed it was marked read ("a late *)
(* click on an older notification cannot mark newer events read", docs/DESIGN.md), *)
(* and none is ahead of the log, whose identifiers are never given out again. *)
UnreadStaysUnread ==
    \A c \in {cursor, saved} :
        file # NoLog /\ file.stream = c.stream =>
            /\ c.after <= Len(file.events)
            /\ WantedIn(AlertsIn(file, 1, c.after)) \subseteq read

(* Once an acknowledgement was saved, the alerts it covers are never shown again. *)
ReadStaysRead == [][\A n \in notes' \ notes : n.alerts \cap done = {}]_vars

-----------------------------------------------------------------------------
(* The daemon and the watcher are started again, by systemd or at a login; calls *)
(* end, and select chooses at random among what is ready. *)
FairSpec ==
    /\ Spec
    /\ WF_vars((LoadFile \/ LoadNew) /\ UNCHANGED watcherVars)
    /\ WF_vars(StartWatcher) /\ WF_vars(Poll) /\ WF_vars(CloseRead)
    /\ SF_vars(Ticker) /\ SF_vars(Handle)

Failure == (FetchFails /\ log # NoLog) \/ SkipFails \/ ShowFails \/ AcknowledgeFails
Calm == <>[][~Failure]_vars

(* "Unread popups return on the next desktop poll or login": once such failures *)
(* stop, alerts that are not acknowledged do not stay off the screen. *)
Pending ==
    IF log = NoLog THEN {}
    ELSE {a \in WantedIn(AlertsIn(log, 1, Len(log.events))) :
             ~(saved.stream = a.stream /\ a.id <= saved.after)}
UnreadIsShown ==
    Calm => ~<>[](Pending # {} /\ \A n \in notes : n.alerts \cap Pending = {})
=============================================================================
