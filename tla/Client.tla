------------------------------- MODULE Client -------------------------------
(***************************************************************************)
(* The client commands of usagent: usage and expiring-usage (cli/usage.go, *)
(* cli/expiring_usage.go, cli/daemon_client.go), the MCP server that runs  *)
(* them for an agent (mcp/mcp.go), reset-once (cli/reset_once.go) with the *)
(* handlers that answer it (httpapi/reset_once.go), and notify's choice of *)
(* a daemon and of a state file (cli/notify.go).                           *)
(*                                                                         *)
(* Each process runs one command line.  The files it reads may be edited   *)
(* at any time: the configuration is chosen when the command loads it, the *)
(* user's alternate one when the command falls back on it.  A daemon may   *)
(* be down, old, foreign or slow; an answer may come after the client gave *)
(* up, and a reset request may be carried out after that.  What a guarded  *)
(* refresh does to a toggle is ResetOnce's matter: here a toggle is off,   *)
(* armed or of unknown outcome, and `spends` counts the resets redeemed.   *)
(***************************************************************************)
EXTENDS Policy, FiniteSets

CONSTANTS Process,      \* the processes; each runs one command
          Commands,     \* by process, the command lines it may be given
          Files,        \* what the primary configuration file may hold
          UserFiles,    \* what the user's own configuration file may hold
          Cursors,      \* what the state files of notify may hold at first
          MaxCalls      \* tool calls one MCP server is asked for

ASSUME ClientAssumption  == MaxCalls \in Nat /\ IsFiniteSet(Process)
\* What a reset-once command may ask for, and a state file's one content.
ASSUME CommandAssumption == \A p \in Process : \A c \in Commands[p] : c.action \in {"", "status", "arm", "cancel"}
ASSUME CursorAssumption  == \A known \in Cursors : \A k, l \in known : k.file = l.file => k.daemon = l.daemon

VARIABLES pc, cmd,      \* where a process is, and its command line
          input,        \* the configuration it loaded and the flags in force
          res,          \* what Resolve made of them
          asked,        \* the origins the command, or tool call, asked
          touched,      \* the local things it touched
          calls,        \* tool calls a server took
          wire,         \* the reset request a process has under way
          toggle,       \* by provider, the toggle of this host's daemon
          spends,       \* by provider, the resets redeemed
          badForm,      \* a reset request was refused for its form or origin
          cursor        \* the state files, each with the daemon it belongs to

resets == << wire, toggle, spends, badForm >>
vars   == << pc, cmd, input, res, asked, touched, calls, resets, cursor >>

Queries   == {"usage", "expiring-usage"}
Providers == {"chatgpt", "claude-code"}
Local     == {"state", "history", "lock", "providers"}
Nowhere   == Origin("", "", 0)
NoRes     == [mode |-> "local-only", local |-> TRUE, origin |-> Nowhere, source |-> "none"]
NoFile    == [loads |-> FALSE, mode |-> "", url |-> NoURL, host |-> "", port |-> 0]
NoInput   == [file |-> NoFile, user |-> NoFile, flags |-> NoFlags]
Silent    == [state |-> "none", action |-> "", answer |-> ""]
NoCommand == [kind |-> "none", flags |-> NoFlags, action |-> "", provider |-> "",
              now |-> FALSE, tty |-> FALSE, ack |-> FALSE, state |-> ""]

Init ==
  /\ pc = [p \in Process |-> "idle"]
  /\ cmd = [p \in Process |-> NoCommand]
  /\ input = [p \in Process |-> NoInput]
  /\ res = [p \in Process |-> NoRes]
  /\ asked = [p \in Process |-> {}]
  /\ touched = [p \in Process |-> {}]
  /\ calls = [p \in Process |-> 0]
  /\ wire = [p \in Process |-> Silent]
  /\ toggle = [r \in Providers |-> "off"]
  /\ spends = [r \in Providers |-> 0]
  /\ badForm = FALSE
  /\ cursor \in Cursors

At(p, l)   == pc[p] = l
Goto(p, l) == pc' = [pc EXCEPT ![p] = l]
Asks(p, o) == asked' = [asked EXCEPT ![p] = @ \cup {o}]
Touches(p, things) == touched' = [touched EXCEPT ![p] = @ \cup things]

Resolutions(file, flags) == UNION {Resolve(c, flags) : c \in Load(file)}

\* Load the configuration, resolve, and go on at place[resolution] - or fail.
Begin(p, file, flags, place) ==
  LET rs == Resolutions(file, flags) IN
  /\ input' = [input EXCEPT ![p] = [file |-> file, user |-> NoFile, flags |-> flags]]
  /\ IF rs = {} THEN Goto(p, "failed") /\ res' = [res EXCEPT ![p] = NoRes]
     ELSE \E r \in rs : Goto(p, place[r]) /\ res' = [res EXCEPT ![p] = r]

(***************************************************************************)
(* usage and expiring-usage, and the tool calls of the MCP server.         *)
(***************************************************************************)
QueryAt(rs) == [r \in rs |-> IF r.local THEN "local" ELSE "primary"]

StartQuery(p) ==
  /\ At(p, "idle")
  /\ \E c \in Commands[p], f \in Files :
       /\ c.kind \in Queries
       /\ cmd' = [cmd EXCEPT ![p] = c]
       /\ Begin(p, f, c.flags, QueryAt(Resolutions(f, c.flags)))
  /\ UNCHANGED << asked, touched, calls, resets, cursor >>

\* A conflict that can be seen at start ends the server; a file that does not
\* load does not.
StartMCP(p) ==
  /\ At(p, "idle")
  /\ \E c \in Commands[p], f \in Files :
       /\ c.kind = "mcp"
       /\ cmd' = [cmd EXCEPT ![p] = c]
       /\ Goto(p, IF Load(f) = {} \/ Resolutions(f, c.flags) # {} THEN "serving" ELSE "stopped")
  /\ UNCHANGED << input, res, asked, touched, calls, resets, cursor >>

\* Each tool call reads the configuration again and runs the command.
CallTool(p) ==
  /\ At(p, "serving") /\ calls[p] < MaxCalls
  /\ calls' = [calls EXCEPT ![p] = @ + 1]
  /\ asked' = [asked EXCEPT ![p] = {}]
  /\ touched' = [touched EXCEPT ![p] = {}]
  /\ \E f \in Files, offline \in BOOLEAN :
       LET flags == BaseCLIArgs(cmd[p].flags, offline) IN
       Begin(p, f, flags, QueryAt(Resolutions(f, flags)))
  /\ UNCHANGED << cmd, resets, cursor >>

ToolResult(p) ==
  /\ cmd[p].kind = "mcp" /\ pc[p] \in {"failed", "served"}
  /\ Goto(p, "serving")
  /\ UNCHANGED << cmd, input, res, asked, touched, calls, resets, cursor >>

EndMCP(p) ==
  /\ At(p, "serving")
  /\ Goto(p, "stopped")
  /\ UNCHANGED << cmd, input, res, asked, touched, calls, resets, cursor >>

PrimaryAnswers(p) ==
  /\ At(p, "primary")
  /\ Asks(p, res[p].origin)
  /\ Goto(p, "served")
  /\ UNCHANGED << cmd, input, res, touched, calls, resets, cursor >>

\* Mutant: the mode is not consulted once the daemon failed.
PrimaryFailsOpen(p) ==
  /\ At(p, "primary")
  /\ Asks(p, res[p].origin)
  /\ Goto(p, IF res[p].source = "daemon-url" THEN "local" ELSE "alternate")
  /\ UNCHANGED << cmd, input, res, touched, calls, resets, cursor >>

\* No connection, no answer in time, an HTTP error, or an answer that is not
\* usagent's.
PrimaryFails(p) ==
  /\ At(p, "primary")
  /\ Asks(p, res[p].origin)
  /\ Goto(p, IF res[p].mode = "require-daemon" THEN "failed"
             ELSE IF res[p].source = "daemon-url" THEN "local" ELSE "alternate")
  /\ UNCHANGED << cmd, input, res, touched, calls, resets, cursor >>

\* The user's own configuration, as if no flag were given, in the invocation's
\* mode.
AlternateResolution(file, mode) ==
  UNION {Resolve([c EXCEPT !.mode = mode], NoFlags) : c \in Load(file)}

AskAlternate(p) ==
  /\ At(p, "alternate")
  /\ \E u \in UserFiles :
       LET rs == {r \in AlternateResolution(u, res[p].mode) : ~r.local} IN
       /\ input' = [input EXCEPT ![p].user = u]
       /\ \/ rs = {} /\ Goto(p, "local") /\ UNCHANGED asked
          \/ \E r \in rs : /\ Asks(p, r.origin)
                           /\ \E l \in {"served", "local"} : Goto(p, l)
  /\ UNCHANGED << cmd, res, touched, calls, resets, cursor >>

\* A snapshot that cannot be read fails the command; one with nothing due is
\* the answer.
LoadLocal(p) ==
  /\ At(p, "local")
  /\ Touches(p, {"state", "history"})
  /\ \E l \in {"failed", "served", "lock"} : Goto(p, l)
  /\ UNCHANGED << cmd, input, res, asked, calls, resets, cursor >>

\* A lock that stays busy until the timeout leaves the snapshot as it is.
LockLocal(p) ==
  /\ At(p, "lock")
  /\ Touches(p, {"lock"})
  /\ \E l \in {"failed", "served", "poll"} : Goto(p, l)
  /\ UNCHANGED << cmd, input, res, asked, calls, resets, cursor >>

RefreshLocal(p) ==
  /\ At(p, "poll")
  /\ Touches(p, {"providers"})
  /\ \E l \in {"failed", "served"} : Goto(p, l)
  /\ UNCHANGED << cmd, input, res, asked, calls, resets, cursor >>

(***************************************************************************)
(* reset-once.                                                             *)
(***************************************************************************)

\* The destination and the options a spending request may have.
Controls(c, r) ==
  /\ ~r.local
  /\ LoopbackHost(r.origin.host)
  /\ c.provider \in Providers
  /\ c.now => c.provider = "chatgpt"

StartReset(p) ==
  /\ At(p, "idle")
  /\ \E c \in Commands[p], f \in Files :
       LET place == [r \in Resolutions(f, c.flags) |->
                       IF Controls(c, r) THEN "send" ELSE "failed"] IN
       /\ c.kind = "reset-once"
       /\ c.ack => c.action = "cancel"
       /\ c.now => c.action = "arm"
       /\ cmd' = [cmd EXCEPT ![p] = c]
       /\ wire' = [wire EXCEPT ![p].action = c.action]
       /\ Begin(p, f, c.flags, place)
  /\ UNCHANGED << asked, touched, calls, toggle, spends, badForm, cursor >>

Confirm(action, provider) ==
  << action, IF provider = "chatgpt" THEN "chatgpt-reset-once" ELSE "claude-code-reset-once" >>

\* Mutant: the second request repeats the confirmation of the first.
RequestRepeats(p) ==
  [peer |-> res[p].origin.host, host |-> res[p].origin.host,
   action |-> wire[p].action, type |-> "application/json",
   header |-> Confirm(cmd[p].action, cmd[p].provider),
   confirm |-> Confirm(cmd[p].action, cmd[p].provider), ack |-> cmd[p].ack]

\* What the daemon sees: the peer is a loopback address when the destination is.
Request(p) ==
  LET confirm == Confirm(wire[p].action, cmd[p].provider) IN
  [peer |-> res[p].origin.host, host |-> res[p].origin.host,
   action |-> wire[p].action, type |-> "application/json",
   header |-> confirm, confirm |-> confirm, ack |-> cmd[p].ack]

Send(p) ==
  /\ At(p, "send")
  /\ Goto(p, "wait")
  /\ Asks(p, res[p].origin)
  /\ wire' = [wire EXCEPT ![p].state = "sent"]
  /\ UNCHANGED << cmd, input, res, touched, calls, toggle, spends, badForm, cursor >>

LocalResetControl(req) == LoopbackHost(req.peer) /\ LoopbackHost(req.host)

AcceptsForm(req, provider) ==
  \/ req.action = "status"
  \/ /\ req.type = "application/json"
     /\ req.header = Confirm(req.action, provider)
     /\ req.confirm = Confirm(req.action, provider)
     /\ req.ack => req.action = "cancel"

\* What an armed toggle may become when a guarded refresh runs: it found quota
\* left, or it redeemed, or it does not know.
Redeemed == {<< "armed", 0 >>, << "off", 0 >>, << "off", 1 >>, << "unknown", 0 >>, << "unknown", 1 >>}

\* The toggle after a request and the resets it redeemed; none when the request
\* is refused because the outcome is unknown.
Outcomes(action, ack, t) ==
  CASE action = "arm"     -> IF t = "unknown" THEN {} ELSE {<< "armed", 0 >>}
    [] action = "use-now" -> IF t = "armed" THEN Redeemed ELSE {<< t, 0 >>}
    [] action = "cancel"  -> IF t = "unknown" /\ ~ack THEN {} ELSE {<< "off", 0 >>}
    [] OTHER              -> {<< t, 0 >>}

\* The daemon of this host takes the request, perhaps after its sender left.
\* A toggle that is busy or cannot be saved answers with an error.
Handle(p) ==
  /\ wire[p].state = "sent"
  /\ LET req == Request(p)
         r   == cmd[p].provider
     IN  IF ~LocalResetControl(req) \/ ~AcceptsForm(req, r)
         THEN /\ badForm' = TRUE
              /\ wire' = [wire EXCEPT ![p].state = "answered", ![p].answer = "error"]
              /\ UNCHANGED << toggle, spends >>
         ELSE \/ \E o \in Outcomes(req.action, req.ack, toggle[r]) :
                   /\ toggle' = [toggle EXCEPT ![r] = o[1]]
                   /\ spends' = [spends EXCEPT ![r] = @ + o[2]]
                   /\ wire' = [wire EXCEPT ![p].state = "answered", ![p].answer = o[1]]
                   /\ UNCHANGED badForm
              \/ /\ wire' = [wire EXCEPT ![p].state = "answered", ![p].answer = "error"]
                 /\ UNCHANGED << toggle, spends, badForm >>
  /\ UNCHANGED << pc, cmd, input, res, asked, touched, calls, cursor >>

\* Nothing listens, something else does, or it redirects: nothing is followed.
NotReached(p) ==
  /\ wire[p].state = "sent"
  /\ wire' = [wire EXCEPT ![p].state = "answered", ![p].answer = "error"]
  /\ UNCHANGED << pc, cmd, input, res, asked, touched, calls, toggle, spends, badForm, cursor >>

\* Mutant: a request that got no answer is sent again.
GiveUpRetries(p) ==
  /\ At(p, "wait")
  /\ Goto(p, "send")
  /\ UNCHANGED << cmd, input, res, asked, touched, calls, resets, cursor >>

\* The timeout passes, or the connection ends without an answer.
GiveUp(p) ==
  /\ At(p, "wait")
  /\ Goto(p, "failed")
  /\ UNCHANGED << cmd, input, res, asked, touched, calls, resets, cursor >>

Receive(p) ==
  /\ At(p, "wait") /\ wire[p].state = "answered"
  /\ LET armed == wire[p].action = "arm" /\ wire[p].answer = "armed" IN
     \/ /\ armed /\ cmd[p].now
        /\ Goto(p, "send")
        /\ wire' = [wire EXCEPT ![p] = [Silent EXCEPT !.action = "use-now"]]
     \/ /\ armed /\ ~cmd[p].now /\ cmd[p].tty /\ cmd[p].provider = "chatgpt"
        /\ Goto(p, "offer") /\ UNCHANGED wire
     \/ /\ ~(armed /\ (cmd[p].now \/ (cmd[p].tty /\ cmd[p].provider = "chatgpt")))
        /\ Goto(p, IF wire[p].answer = "error" THEN "failed" ELSE "served")
        /\ UNCHANGED wire
  /\ UNCHANGED << cmd, input, res, asked, touched, calls, toggle, spends, badForm, cursor >>

\* The same daemon's cached usage shows an empty week and the user says yes; or not.
Offer(p) ==
  /\ At(p, "offer")
  /\ \/ Goto(p, "served") /\ UNCHANGED wire
     \/ /\ Goto(p, "send")
        /\ wire' = [wire EXCEPT ![p] = [Silent EXCEPT !.action = "use-now"]]
  /\ UNCHANGED << cmd, input, res, asked, touched, calls, toggle, spends, badForm, cursor >>

\* The daemon's own refresh finds the week exhausted.
GuardedRefresh(r) ==
  /\ toggle[r] = "armed"
  /\ \E o \in Redeemed : /\ toggle' = [toggle EXCEPT ![r] = o[1]]
                         /\ spends' = [spends EXCEPT ![r] = @ + o[2]]
  /\ UNCHANGED << pc, cmd, input, res, asked, touched, calls, wire, badForm, cursor >>

(***************************************************************************)
(* notify.                                                                 *)
(***************************************************************************)
\* A state file of its own for each daemon, unless --state names one.
StateFile(c, r) == [name |-> c.state, daemon |-> IF c.state = "" THEN r.origin ELSE Nowhere]

Watches(q, file) == At(q, "watching") /\ StateFile(cmd[q], res[q]) = file

\* Mutant: a state file is taken over whatever daemon it belongs to.
MayWatchAny(c, r) == ~r.local /\ \A q \in Process : ~Watches(q, StateFile(c, r))

MayWatch(c, r) ==
  /\ ~r.local
  /\ \A q \in Process : ~Watches(q, StateFile(c, r))
  /\ \A k \in cursor : k.file = StateFile(c, r) => k.daemon = r.origin

\* The bus may refuse the connection: then the command fails.
StartNotify(p) ==
  /\ At(p, "idle")
  /\ \E c \in Commands[p], f \in Files, bus \in BOOLEAN :
       LET place == [r \in Resolutions(f, c.flags) |->
                       IF MayWatch(c, r) /\ bus THEN "watching" ELSE "failed"] IN
       /\ c.kind = "notify"
       /\ cmd' = [cmd EXCEPT ![p] = c]
       /\ Begin(p, f, c.flags, place)
  /\ UNCHANGED << asked, touched, calls, resets, cursor >>

\* One poll: the cursor is saved when the daemon answered.
PollEvents(p) ==
  /\ At(p, "watching")
  /\ Asks(p, res[p].origin)
  /\ \/ UNCHANGED cursor
     \/ cursor' = {k \in cursor : k.file # StateFile(cmd[p], res[p])}
                    \cup {[file |-> StateFile(cmd[p], res[p]), daemon |-> res[p].origin]}
  /\ UNCHANGED << pc, cmd, input, res, touched, calls, resets >>

StopNotify(p) ==
  /\ At(p, "watching")
  /\ Goto(p, "stopped")
  /\ UNCHANGED << cmd, input, res, asked, touched, calls, resets, cursor >>

(***************************************************************************)
(* The specification.                                                      *)
(***************************************************************************)
\* The steps of a command that is under way.
Work(p) ==
  \/ PrimaryAnswers(p) \/ PrimaryFails(p) \/ AskAlternate(p)
  \/ LoadLocal(p) \/ LockLocal(p) \/ RefreshLocal(p) \/ ToolResult(p)
  \/ Send(p) \/ GiveUp(p) \/ Receive(p) \/ Offer(p)

Next ==
  \/ \E p \in Process :
       \/ StartQuery(p) \/ StartMCP(p) \/ CallTool(p) \/ EndMCP(p) \/ Work(p)
       \/ StartReset(p) \/ Handle(p) \/ NotReached(p)
       \/ StartNotify(p) \/ PollEvents(p) \/ StopNotify(p)
  \/ \E r \in Providers : GuardedRefresh(r)

Spec == Init /\ [][Next]_vars

(***************************************************************************)
(* Properties.                                                             *)
(***************************************************************************)
Rest    == {"idle", "failed", "served", "stopped", "serving", "watching"}
Places  == Rest \cup {"primary", "alternate", "local", "lock", "poll", "send", "wait", "offer"}

\* Every variable keeps its kind, and a process that asks has somewhere to ask.
TypeOK ==
  /\ pc \in [Process -> Places]
  /\ \A p \in Process :
       /\ cmd[p] \in Commands[p] \cup {NoCommand}
       /\ input[p].file \in Files \cup {NoFile} /\ input[p].user \in UserFiles \cup {NoFile}
       /\ res[p].mode \in Modes
       /\ pc[p] \in {"primary", "alternate", "send", "wait", "offer", "watching"} =>
            res[p].origin.scheme \in {"http", "https"}
       /\ touched[p] \subseteq Local
       /\ calls[p] \in 0..MaxCalls
       /\ wire[p].state \in {"none", "sent", "answered"}
  /\ toggle \in [Providers -> {"off", "armed", "unknown"}]
  /\ spends \in [Providers -> Nat]
  /\ badForm \in BOOLEAN

\* README.md:95: under require-daemon no command, and no tool call whatever
\* its options, touches the local snapshot, history, lock or a provider, or
\* asks a second daemon when the first one failed.
FailsClosed ==
  \A p \in Process :
    (input[p].file.loads /\ input[p].file.mode = "require-daemon") =>
      /\ touched[p] = {}
      /\ \A o1, o2 \in asked[p] : o1 = o2

\* The daemons a configuration file names, and those a command is told of.
Named(file) == UNION {IF c.url # {} THEN c.url ELSE ServerOrigin(c.host, c.port) : c \in Load(file)}
Told(i) ==
  LET f    == i.flags
      file == i.file
  IN  IF f.url # {} THEN NormalizeClientURL(ValueOr(f.url, NoURL))
      ELSE Named(i.user) \cup
           (IF f.host # {} \/ f.port # {}
            THEN ServerOrigin(ValueOr(f.host, file.host), ValueOr(f.port, file.port))
            ELSE IF file.url # NoURL THEN NormalizeClientURL(file.url)
                 ELSE ServerOrigin(file.host, file.port))

\* README.md:98: an explicit --daemon-url is the only daemon asked; an explicit
\* host or port takes its missing half from server.* and never from client.url;
\* an offline or local-only command asks none; and nobody else is asked but, by
\* a usage command, the destination of the user's own configuration.
AsksOnlyWhereTold ==
  \A p \in Process :
    /\ asked[p] \subseteq Told(input[p])
    /\ input[p].flags.offline \/ input[p].file.mode = "local-only" => asked[p] = {}
    /\ cmd[p].kind \in {"reset-once", "notify"} => input[p].user = NoFile

\* README.md:98: a prefer-daemon query with flags that agree is given up only
\* after the local snapshot was tried, whichever daemons failed it.
PreferFallsBack ==
  \A p \in Process :
    LET f == input[p].flags IN
    (/\ At(p, "failed") /\ cmd[p].kind \in Queries \cup {"mcp"}
     /\ \E c \in Load(input[p].file) : c.mode = "prefer-daemon"
     /\ f.host = {} /\ f.port = {}
     /\ f.url # {} => ~f.offline /\ NormalizeClientURL(ValueOr(f.url, NoURL)) # {})
      => "state" \in touched[p]

\* A command goes where flags, environment and configuration send it: never
\* further, and not less far.
PolicyIsKept == TypeOK /\ FailsClosed /\ AsksOnlyWhereTold /\ PreferFallsBack

\* cli/reset_once.go:103-104: however slow, lost or repeated the answers are,
\* and whatever the daemon does by itself meanwhile, a user's arm command
\* redeems at most one reset.
OneSpendPerArm ==
  \A r \in Providers :
    spends[r] <= Cardinality({p \in Process : /\ cmd[p].kind = "reset-once" /\ cmd[p].action = "arm"
                                              /\ cmd[p].provider = r})

\* The command and the handlers of httpapi/reset_once.go agree: no reset
\* request of the command is refused for where it came from or how it reads.
FormIsAccepted == ~badForm

\* cli/notify.go:64-65: notification history belongs to the selected daemon.
\* A state file never passes to another daemon, and has one watcher.
CursorKeepsItsDaemon ==
  [][ /\ \A k \in cursor, l \in cursor' : k.file = l.file => k.daemon = l.daemon
      /\ \A p, q \in Process :
           p # q => ~(/\ At(p, "watching")' /\ At(q, "watching")'
                      /\ StateFile(cmd'[p], res'[p]) = StateFile(cmd'[q], res'[q])) ]_vars
=============================================================================
