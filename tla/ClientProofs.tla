---------------------------- MODULE ClientProofs ----------------------------
(***************************************************************************)
(* Theorems about the client commands, for any number of processes, any    *)
(* command lines and any contents of the configuration files.              *)
(*                                                                         *)
(* What a command may ask is decided once, when it resolves its files and  *)
(* flags, and must still hold when a daemon has failed and the command is  *)
(* three fallbacks further.  The invariant ties the place a process is at  *)
(* to the resolution it works from, and the request it has on the wire to  *)
(* the command that sent it.                                               *)
(***************************************************************************)
EXTENDS Client, FiniteSetTheorems, TLAPS

-----------------------------------------------------------------------------
(* Resolutions.                                                            *)

(* A file loads to one configuration, the file's own with its defaults. *)
LEMMA LoadFacts ==
  ASSUME NEW file, NEW c \in Load(file)
  PROVE  /\ file.loads /\ file.port \in Ports /\ c.mode \in Modes /\ c = WithDefaults(file)
         /\ c.mode = (IF file.mode = "" THEN "prefer-daemon" ELSE file.mode)
         /\ c.url = NormalizeClientURL(file.url)
         /\ c.host = (IF file.host = "" THEN "127.0.0.1" ELSE file.host)
         /\ c.port = file.port
         /\ file.url = NoURL \/ c.url # {}
<1>1. file.loads /\ c \in NormalizeConfig(file)
  BY DEF Load
<1>2. /\ c = WithDefaults(file) /\ file.port \in Ports /\ c.mode \in Modes
      /\ file.url = NoURL \/ c.url # {}
  <2> DEFINE d == WithDefaults(file)
             ok == file.port \in Ports /\ d.mode \in Modes /\ (file.url = NoURL \/ d.url # {})
  <2>1. NormalizeConfig(file) = (IF ok THEN {d} ELSE {})
    BY DEF NormalizeConfig
  <2> HIDE DEF d
  <2>2. ok /\ c = d
    BY <1>1, <2>1
  <2> QED
    BY <2>2 DEF d
<1>3. /\ c.mode = (IF file.mode = "" THEN "prefer-daemon" ELSE file.mode)
      /\ c.url = NormalizeClientURL(file.url)
      /\ c.host = (IF file.host = "" THEN "127.0.0.1" ELSE file.host)
      /\ c.port = file.port
  BY <1>2 DEF WithDefaults
<1> QED
  BY <1>1, <1>2, <1>3

(* An address without a scheme is none. *)
LEMMA NoURLIsNone == NormalizeClientURL(NoURL) = {}
BY DEF NormalizeClientURL, NoURL

(* Every origin has a scheme. *)
LEMMA OriginsHaveSchemes ==
  /\ \A raw : \A o \in NormalizeClientURL(raw) : o.scheme \in {"http", "https"}
  /\ \A host, port : \A o \in ServerOrigin(host, port) : o.scheme \in {"http", "https"}
<1>1. ASSUME NEW raw, NEW o \in NormalizeClientURL(raw)
      PROVE  o.scheme \in {"http", "https"}
  <2> DEFINE scheme == CASE raw.scheme \in {"http", "HTTP"}   -> "http"
                         [] raw.scheme \in {"https", "HTTPS"} -> "https"
                         [] OTHER -> ""
  <2>1. o = Origin(scheme, raw.host, raw.port) /\ scheme # ""
    BY <1>1 DEF NormalizeClientURL
  <2>2. scheme \in {"http", "https", ""}
    OBVIOUS
  <2>3. o.scheme = scheme
    <3> HIDE DEF scheme
    <3> QED
      BY <2>1 DEF Origin
  <2> QED
    BY <2>1, <2>2, <2>3
<1>2. ASSUME NEW host, NEW port, NEW o \in ServerOrigin(host, port)
      PROVE  o.scheme \in {"http", "https"}
  BY <1>2 DEF ServerOrigin, Origin
<1> QED
  BY <1>1, <1>2

(* The listening address that a default host stands for. *)
LEMMA DefaultHost == ClientHost("127.0.0.1") = ClientHost("")
BY DEF ClientHost

(* What a resolution says of the configuration c and the flags. *)
Resolved(c, flags, r) ==
  /\ r.mode = c.mode
  /\ r.local => /\ flags.offline \/ c.mode = "local-only"
                /\ c.mode # "require-daemon" /\ flags.url = {}
  /\ ~r.local =>
       /\ ~flags.offline /\ c.mode # "local-only"
       /\ r.source = "daemon-url" <=> flags.url # {}
       /\ r.origin \in IF flags.url # {} THEN NormalizeClientURL(ValueOr(flags.url, NoURL))
                       ELSE IF flags.host # {} \/ flags.port # {}
                            THEN ServerOrigin(ValueOr(flags.host, c.host), ValueOr(flags.port, c.port))
                            ELSE IF c.url # {} THEN c.url ELSE ServerOrigin(c.host, c.port)

LEMMA ResolveFacts ==
  ASSUME NEW c, NEW flags, NEW r \in Resolve(c, flags)
  PROVE  Resolved(c, flags, r)
<1>1. CASE flags.url # {}
  BY <1>1 DEF Resolve, Ask, Resolved
<1>2. CASE flags.url = {} /\ flags.offline
  <2>1. c.mode # "require-daemon" /\ r \in StayLocal(c)
    BY <1>2 DEF Resolve
  <2>2. r = [mode |-> c.mode, local |-> TRUE, origin |-> Origin("", "", 0), source |-> "none"]
    BY <2>1 DEF StayLocal
  <2>3. r.local = TRUE /\ r.mode = c.mode
    BY <2>2
  <2> QED
    BY <1>2, <2>1, <2>3 DEF Resolved
<1>3. CASE flags.url = {} /\ ~flags.offline /\ c.mode = "local-only"
  <2>1. r \in StayLocal(c)
    BY <1>3 DEF Resolve
  <2>2. r = [mode |-> c.mode, local |-> TRUE, origin |-> Origin("", "", 0), source |-> "none"]
    BY <2>1 DEF StayLocal
  <2>3. r.local = TRUE /\ r.mode = c.mode
    BY <2>2
  <2> QED
    BY <1>3, <2>3 DEF Resolved
<1>4. CASE /\ flags.url = {} /\ ~flags.offline /\ c.mode # "local-only"
           /\ flags.host # {} \/ flags.port # {}
  BY <1>4 DEF Resolve, Ask, Resolved
<1>5. CASE /\ flags.url = {} /\ ~flags.offline /\ c.mode # "local-only"
           /\ flags.host = {} /\ flags.port = {}
  BY <1>5 DEF Resolve, Ask, Resolved
<1> QED
  BY <1>1, <1>2, <1>3, <1>4, <1>5

(* What a command's resolution says of the files it loaded and its flags. *)
Follows(i, r) ==
  /\ r.mode \in Modes
  /\ i.file.mode \in {"require-daemon", "local-only"} => r.mode = i.file.mode
  /\ (\E c \in Load(i.file) : c.mode = "prefer-daemon") => r.mode = "prefer-daemon"
  /\ r.local => r.mode # "require-daemon"
  /\ ~r.local =>
       /\ ~i.flags.offline /\ i.file.mode # "local-only"
       /\ r.source = "daemon-url" <=> i.flags.url # {}
       /\ r.origin \in Told(i)
       /\ r.origin.scheme \in {"http", "https"}

(* The user's own file only adds to what a command is told. *)
LEMMA ToldGrows ==
  ASSUME NEW file, NEW flags, NEW u
  PROVE  /\ Told([file |-> file, user |-> NoFile, flags |-> flags])
              \subseteq Told([file |-> file, user |-> u, flags |-> flags])
         /\ flags.url = {} => Named(u) \subseteq Told([file |-> file, user |-> u, flags |-> flags])
<1>1. Named(NoFile) = {}
  BY DEF Named, Load, NoFile
<1> QED
  BY <1>1 DEF Told

LEMMA ResolutionsFollow ==
  ASSUME NEW file, NEW flags, NEW r \in Resolutions(file, flags)
  PROVE  Follows([file |-> file, user |-> NoFile, flags |-> flags], r)
<1> DEFINE i == [file |-> file, user |-> NoFile, flags |-> flags]
<1>1. PICK c \in Load(file) : r \in Resolve(c, flags)
  BY DEF Resolutions
<1>2. Resolved(c, flags, r)
  BY <1>1, ResolveFacts
<1>3. /\ c.mode \in Modes /\ c.mode = (IF file.mode = "" THEN "prefer-daemon" ELSE file.mode)
      /\ c.url = NormalizeClientURL(file.url)
      /\ c.host = (IF file.host = "" THEN "127.0.0.1" ELSE file.host) /\ c.port = file.port
      /\ file.url = NoURL \/ c.url # {}
  BY <1>1, LoadFacts
<1>4. \A d \in Load(file) : d.mode = c.mode
  BY <1>3, LoadFacts
<1>5. i.file = file /\ i.flags = flags /\ i.user = NoFile
  OBVIOUS
<1>6. ~r.local => r.origin \in Told(i) /\ r.origin.scheme \in {"http", "https"}
  <2> SUFFICES ASSUME ~r.local
               PROVE  r.origin \in Told(i) /\ r.origin.scheme \in {"http", "https"}
    OBVIOUS
  <2>1. CASE flags.url # {}
    BY <1>2, <2>1, <1>5, OriginsHaveSchemes DEF Resolved, Told
  <2>2. CASE flags.url = {} /\ (flags.host # {} \/ flags.port # {})
    <3>1. r.origin \in ServerOrigin(ValueOr(flags.host, c.host), ValueOr(flags.port, c.port))
      BY <1>2, <2>2 DEF Resolved
    <3>2. ServerOrigin(ValueOr(flags.host, c.host), ValueOr(flags.port, c.port))
            = ServerOrigin(ValueOr(flags.host, file.host), ValueOr(flags.port, file.port))
      BY <1>3, DefaultHost DEF ServerOrigin, ValueOr
    <3> QED
      BY <2>2, <3>1, <3>2, <1>5, OriginsHaveSchemes DEF Told
  <2>3. CASE flags.url = {} /\ flags.host = {} /\ flags.port = {}
    <3>1. r.origin \in IF c.url # {} THEN c.url ELSE ServerOrigin(c.host, c.port)
      BY <1>2, <2>3 DEF Resolved
    <3>2. ServerOrigin(c.host, c.port) = ServerOrigin(file.host, file.port)
      BY <1>3, DefaultHost DEF ServerOrigin
    <3>3. c.url # {} <=> file.url # NoURL
      BY <1>3, NoURLIsNone
    <3>4. r.origin \in IF file.url # NoURL THEN NormalizeClientURL(file.url)
                       ELSE ServerOrigin(file.host, file.port)
      BY <1>3, <3>1, <3>2, <3>3
    <3>5. r.origin.scheme \in {"http", "https"}
      BY <3>4, OriginsHaveSchemes
    <3> QED
      BY <2>3, <3>4, <3>5, <1>5 DEF Told
  <2> QED
    BY <2>1, <2>2, <2>3
<1>7. /\ r.mode \in Modes
      /\ file.mode \in {"require-daemon", "local-only"} => r.mode = file.mode
  BY <1>2, <1>3 DEF Resolved
<1>8. (\E d \in Load(file) : d.mode = "prefer-daemon") => r.mode = "prefer-daemon"
  BY <1>2, <1>4 DEF Resolved
<1>9. r.local => r.mode # "require-daemon"
  BY <1>2 DEF Resolved
<1>10. ~r.local => ~flags.offline /\ file.mode # "local-only"
  BY <1>2, <1>3 DEF Resolved
<1>11. ~r.local => (r.source = "daemon-url" <=> flags.url # {})
  BY <1>2 DEF Resolved
<1> HIDE DEF i
<1> QED
  BY <1>5, <1>6, <1>7, <1>8, <1>9, <1>10, <1>11 DEF Follows, i

(* A query in prefer-daemon mode whose flags agree is not refused. *)
LEMMA PreferResolves ==
  ASSUME NEW file, NEW flags, NEW c \in Load(file), c.mode = "prefer-daemon",
         flags.host = {}, flags.port = {},
         flags.url # {} => ~flags.offline /\ NormalizeClientURL(ValueOr(flags.url, NoURL)) # {}
  PROVE  Resolutions(file, flags) # {}
<1>1. ASSUME NEW origins, NEW source, origins # {}
      PROVE  Ask(c, origins, source) # {}
  BY <1>1 DEF Ask
<1>2. StayLocal(c) # {}
  BY DEF StayLocal
<1>3. ServerOrigin(c.host, c.port) # {}
  BY LoadFacts DEF ServerOrigin
<1>4. Resolve(c, flags) # {}
  <2>1. CASE flags.url # {}
    BY <2>1, <1>1 DEF Resolve
  <2>2. CASE flags.url = {} /\ flags.offline
    BY <2>2, <1>2 DEF Resolve
  <2>3. CASE flags.url = {} /\ ~flags.offline
    BY <2>3, <1>1, <1>3 DEF Resolve
  <2> QED
    BY <2>1, <2>2, <2>3
<1> QED
  BY <1>4 DEF Resolutions

(* A second daemon is one the user's own file names. *)
LEMMA AlternatesAreNamed ==
  ASSUME NEW u, NEW mode, NEW r \in AlternateResolution(u, mode), ~r.local
  PROVE  r.origin \in Named(u)
<1>1. PICK c \in Load(u) : r \in Resolve([c EXCEPT !.mode = mode], NoFlags)
  BY DEF AlternateResolution
<1> DEFINE d == [c EXCEPT !.mode = mode]
<1>2. c = WithDefaults(u)
  BY <1>1, LoadFacts
<1>3. d.url = c.url /\ d.host = c.host /\ d.port = c.port
  BY <1>2 DEF WithDefaults
<1>4. Resolved(d, NoFlags, r)
  BY <1>1, ResolveFacts
<1>5. NoFlags.url = {} /\ NoFlags.host = {} /\ NoFlags.port = {}
  BY DEF NoFlags
<1> HIDE DEF d
<1>6. r.origin \in IF c.url # {} THEN c.url ELSE ServerOrigin(c.host, c.port)
  BY <1>3, <1>4, <1>5 DEF Resolved
<1> QED
  BY <1>1, <1>6 DEF Named

-----------------------------------------------------------------------------
(* The invariant.                                                          *)

QueryKinds == Queries \cup {"mcp"}
QuerySteps == {"primary", "alternate", "local", "lock", "poll"}
ResetSteps == {"send", "wait", "offer"}
Wires      == [state : {"none", "sent", "answered"}, action : {"", "status", "arm", "cancel", "use-now"},
               answer : {"", "error", "off", "armed", "unknown"}]

(* Every variable is a function of the processes, or of the providers. *)
Shapes ==
  /\ pc \in [Process -> Places]
  /\ cmd = [p \in Process |-> cmd[p]]
  /\ input = [p \in Process |-> input[p]]
  /\ res = [p \in Process |-> res[p]]
  /\ asked = [p \in Process |-> asked[p]]
  /\ touched = [p \in Process |-> touched[p]]
  /\ calls \in [Process -> 0..MaxCalls]
  /\ wire \in [Process -> Wires]
  /\ toggle \in [Providers -> {"off", "armed", "unknown"}]
  /\ spends \in [Providers -> Nat]
  /\ badForm = FALSE

(* What a process has asked and touched agrees with what it was told. *)
Obeys(p) ==
  /\ cmd[p] \in Commands[p] \cup {NoCommand}
  /\ input[p].file \in Files \cup {NoFile} /\ input[p].user \in UserFiles \cup {NoFile}
  /\ input[p] = [file |-> input[p].file, user |-> input[p].user, flags |-> input[p].flags]
  /\ res[p].mode \in Modes
  /\ touched[p] \subseteq Local
  /\ asked[p] \subseteq Told(input[p])
  /\ input[p].flags.offline \/ input[p].file.mode = "local-only" => asked[p] = {}
  /\ cmd[p].kind \in {"reset-once", "notify"} => input[p].user = NoFile
  /\ input[p].file.loads /\ input[p].file.mode = "require-daemon" =>
       touched[p] = {} /\ asked[p] \subseteq {res[p].origin}
  /\ /\ pc[p] = "failed" /\ cmd[p].kind \in QueryKinds
     /\ \E c \in Load(input[p].file) : c.mode = "prefer-daemon"
     /\ input[p].flags.host = {} /\ input[p].flags.port = {}
     /\ input[p].flags.url # {} =>
          ~input[p].flags.offline /\ NormalizeClientURL(ValueOr(input[p].flags.url, NoURL)) # {}
     => "state" \in touched[p]

(* The place a process is at, and the resolution it works from. *)
Placed(p) ==
  /\ pc[p] = "idle" => /\ cmd[p] = NoCommand /\ input[p] = NoInput
                       /\ asked[p] = {} /\ touched[p] = {} /\ wire[p] = Silent
  /\ pc[p] = "serving" => cmd[p].kind = "mcp"
  /\ pc[p] \in QuerySteps => cmd[p].kind \in QueryKinds /\ Follows(input[p], res[p])
  /\ pc[p] \in {"primary", "alternate"} => ~res[p].local /\ input[p].user = NoFile
  /\ pc[p] = "alternate" => res[p].source # "daemon-url"
  /\ pc[p] \in {"alternate", "local", "lock", "poll"} => res[p].mode # "require-daemon"
  /\ pc[p] \in {"lock", "poll"} => "state" \in touched[p]
  /\ pc[p] \in ResetSteps => /\ cmd[p].kind = "reset-once" /\ Follows(input[p], res[p])
                             /\ Controls(cmd[p], res[p])
  /\ pc[p] = "watching" => cmd[p].kind = "notify" /\ ~res[p].local /\ Follows(input[p], res[p])

(* The request a process has under way, and the command that sent it. *)
WireOK(l, c, r, w) ==
  /\ c.kind # "reset-once" => w = Silent
  /\ c.kind = "reset-once" =>
       /\ w.action = c.action \/ (w.action = "use-now" /\ c.action = "arm")
       /\ c.ack => c.action = "cancel"
       /\ c.action \in {"", "status", "arm", "cancel"}
  /\ l = "send" => w.state = "none"
  /\ l \in {"wait", "offer"} => w.state # "none"
  /\ l = "offer" => w.action = "arm" /\ w.state = "answered"
  /\ w.state # "none" => c.kind = "reset-once" /\ Controls(c, r)
Wired(p) == WireOK(pc[p], cmd[p], res[p], wire[p])

(* The arm commands, and those whose arm request is no longer on its way: a  *)
(* reset that was redeemed, or an armed toggle, belongs to one of the latter.*)
Arming(r) == {p \in Process : /\ cmd[p].kind = "reset-once" /\ cmd[p].action = "arm"
                              /\ cmd[p].provider = r}
Landed(r) == {p \in Arming(r) : ~(wire[p].action = "arm" /\ wire[p].state \in {"none", "sent"})}
Paid == \A r \in Providers :
          spends[r] + (IF toggle[r] = "armed" THEN 1 ELSE 0) <= Cardinality(Landed(r))

(* A state file is one daemon's, and its watcher's. *)
FileOf(p) == StateFile(cmd[p], res[p])
Kept ==
  /\ \A k, l \in cursor : k.file = l.file => k.daemon = l.daemon
  /\ \A p \in Process : pc[p] = "watching" =>
       \A k \in cursor : k.file = FileOf(p) => k.daemon = res[p].origin
  /\ \A p, q \in Process :
       p # q => ~(pc[p] = "watching" /\ pc[q] = "watching" /\ FileOf(p) = FileOf(q))

Locals == \A p \in Process : Obeys(p) /\ Placed(p) /\ Wired(p)
Inv == Shapes /\ Locals /\ Paid /\ Kept

LEMMA InitHolds == Init => Inv
<1> SUFFICES ASSUME Init
             PROVE  Inv
  OBVIOUS
<1> USE DEF Init
<1>1. Silent \in Wires
  BY DEF Silent, Wires
<1>2. Shapes
  BY <1>1, ClientAssumption DEF Shapes, Places, Rest
<1>3. ASSUME NEW p \in Process
      PROVE  Obeys(p) /\ Placed(p) /\ Wired(p)
  <2>1. /\ pc[p] = "idle" /\ cmd[p] = NoCommand /\ input[p] = NoInput /\ res[p] = NoRes
        /\ asked[p] = {} /\ touched[p] = {} /\ wire[p] = Silent
    OBVIOUS
  <2>2. NoCommand.kind = "none" /\ NoRes.mode = "local-only" /\ Silent.state = "none"
    BY DEF NoCommand, NoRes, Silent
  <2>3. NoInput = [file |-> NoFile, user |-> NoFile, flags |-> NoFlags]
    BY DEF NoInput
  <2>4. NoInput.file = NoFile /\ NoInput.user = NoFile /\ NoInput.flags = NoFlags
    BY <2>3
  <2> HIDE DEF Init
  <2>5. Obeys(p)
    BY <2>1, <2>2, <2>3, <2>4 DEF Obeys, Modes, Local
  <2>6. Placed(p)
    BY <2>1, <2>2 DEF Placed, QuerySteps, ResetSteps
  <2>7. Wired(p)
    BY <2>1, <2>2 DEF Wired, WireOK
  <2> QED
    BY <2>5, <2>6, <2>7
<1>4. Paid
  <2>1. \A r \in Providers : spends[r] = 0 /\ toggle[r] = "off"
    OBVIOUS
  <2>2. \A r \in Providers : Landed(r) \subseteq Process
    BY DEF Landed, Arming
  <2>3. \A r \in Providers : Cardinality(Landed(r)) \in Nat
    BY <2>2, ClientAssumption, FS_Subset, FS_CardinalityType
  <2> QED
    BY <2>1, <2>3 DEF Paid
<1>5. Kept
  BY CursorAssumption DEF Kept
<1> QED
  BY <1>2, <1>3, <1>4, <1>5 DEF Inv, Locals

-----------------------------------------------------------------------------
(* One process moves: the others stay as they are.                         *)

Stays(q) ==
  /\ pc'[q] = pc[q] /\ cmd'[q] = cmd[q] /\ input'[q] = input[q] /\ res'[q] = res[q]
  /\ asked'[q] = asked[q] /\ touched'[q] = touched[q] /\ wire'[q] = wire[q]

LEMMA Frame ==
  ASSUME NEW p \in Process, Locals,
         \A q \in Process \ {p} : Stays(q),
         Obeys(p)', Placed(p)', Wired(p)'
  PROVE  Locals'
<1>1. ASSUME NEW q \in Process \ {p}
      PROVE  (Obeys(q) /\ Placed(q) /\ Wired(q))'
  <2>1. Obeys(q) /\ Placed(q) /\ Wired(q) /\ Stays(q)
    BY <1>1 DEF Locals
  <2>2. Obeys(q)'
    BY <2>1 DEF Obeys, Stays
  <2>3. Placed(q)'
    BY <2>1 DEF Placed, Stays
  <2>4. Wired(q)'
    BY <2>1 DEF Wired, Stays
  <2> QED
    BY <2>2, <2>3, <2>4
<1> QED
  BY <1>1 DEF Locals

(* Loading the configuration and resolving it. *)
LEMMA BeginFacts ==
  ASSUME Shapes, NEW p \in Process, NEW file \in Files, NEW flags, NEW place,
         \A r \in Resolutions(file, flags) : place[r] \in Places,
         Begin(p, file, flags, place)
  PROVE  /\ pc' \in [Process -> Places]
         /\ input' = [q \in Process |-> input'[q]] /\ res' = [q \in Process |-> res'[q]]
         /\ \A q \in Process \ {p} : pc'[q] = pc[q] /\ input'[q] = input[q] /\ res'[q] = res[q]
         /\ input'[p] = [file |-> file, user |-> NoFile, flags |-> flags]
         /\ input'[p].file = file /\ input'[p].user = NoFile /\ input'[p].flags = flags
         /\ \/ Resolutions(file, flags) = {} /\ pc'[p] = "failed" /\ res'[p] = NoRes
            \/ /\ res'[p] \in Resolutions(file, flags) /\ pc'[p] = place[res'[p]]
               /\ Follows(input'[p], res'[p])
<1> DEFINE i == [file |-> file, user |-> NoFile, flags |-> flags]
<1>1. input' = [input EXCEPT ![p] = i]
  BY DEF Begin
<1>2. i.file = file /\ i.user = NoFile /\ i.flags = flags
  OBVIOUS
<1>3. input'[p] = i /\ (\A q \in Process \ {p} : input'[q] = input[q])
      /\ input' = [q \in Process |-> input'[q]]
  <2> HIDE DEF i
  <2> QED
    BY <1>1 DEF Shapes
<1>4. "failed" \in Places
  BY DEF Places, Rest
<1>5. CASE Resolutions(file, flags) = {}
  <2>1. pc' = [pc EXCEPT ![p] = "failed"] /\ res' = [res EXCEPT ![p] = NoRes]
    BY <1>5 DEF Begin, Goto
  <2> HIDE DEF i
  <2> QED
    BY <1>2, <1>3, <1>4, <1>5, <2>1 DEF Shapes, i
<1>6. CASE Resolutions(file, flags) # {}
  <2>1. PICK r \in Resolutions(file, flags) : Goto(p, place[r]) /\ res' = [res EXCEPT ![p] = r]
    BY <1>6 DEF Begin
  <2>2. pc' = [pc EXCEPT ![p] = place[r]] /\ place[r] \in Places
    BY <2>1 DEF Goto
  <2>3. Follows(i, r)
    BY ResolutionsFollow
  <2> HIDE DEF i
  <2>4. /\ pc' \in [Process -> Places] /\ pc'[p] = place[r] /\ res'[p] = r
        /\ res' = [q \in Process |-> res'[q]]
        /\ \A q \in Process \ {p} : pc'[q] = pc[q] /\ res'[q] = res[q]
    BY <2>1, <2>2 DEF Shapes
  <2> QED
    BY <1>2, <1>3, <2>3, <2>4 DEF i
<1> QED
  BY <1>5, <1>6

(* A process goes from one place to the next with the command, the resolution *)
(* and the request it had.                                                    *)
LEMMA Walk ==
  ASSUME Shapes, Locals, NEW p \in Process, NEW l \in Places \ ResetSteps, NEW i, NEW as, NEW ts,
         pc' = [pc EXCEPT ![p] = l], input' = [input EXCEPT ![p] = i],
         asked' = [asked EXCEPT ![p] = as], touched' = [touched EXCEPT ![p] = ts],
         cmd' = cmd, res' = res, wire' = wire, calls' \in [Process -> 0..MaxCalls],
         toggle' = toggle, spends' = spends, badForm' = badForm,
         (Obeys(p) /\ Placed(p))'
  PROVE  Shapes' /\ Locals'
<1>1. Shapes'
  BY DEF Shapes
<1>2. \A q \in Process \ {p} : Stays(q)
  BY DEF Shapes, Stays
<1>3. pc'[p] = l
  BY DEF Shapes
<1>4. WireOK(pc[p], cmd[p], res[p], wire[p])
  BY DEF Locals, Wired
<1>5. WireOK(l, cmd[p], res[p], wire[p])
  BY <1>4 DEF WireOK, ResetSteps
<1>6. Wired(p)'
  BY <1>3, <1>5 DEF Wired
<1> QED
  BY <1>1, <1>2, <1>6, Frame

(* What stays as it is may be said to be replaced by itself. *)
LEMMA Same ==
  ASSUME Shapes, NEW p \in Process
  PROVE  /\ input = [input EXCEPT ![p] = input[p]]
         /\ asked = [asked EXCEPT ![p] = asked[p]]
         /\ touched = [touched EXCEPT ![p] = touched[p]]
BY DEF Shapes

LEMMA PlacesAre ==
  Places = {"idle", "failed", "served", "stopped", "serving", "watching",
            "primary", "alternate", "local", "lock", "poll", "send", "wait", "offer"}
BY DEF Places, Rest

LEMMA PrimaryAnswersKeeps ==
  ASSUME Shapes, Locals, NEW p \in Process, PrimaryAnswers(p)
  PROVE  Shapes' /\ Locals'
<1>1. /\ pc[p] = "primary"
      /\ asked' = [asked EXCEPT ![p] = asked[p] \cup {res[p].origin}]
      /\ pc' = [pc EXCEPT ![p] = "served"]
      /\ cmd' = cmd /\ input' = input /\ res' = res /\ touched' = touched /\ calls' = calls
      /\ wire' = wire /\ toggle' = toggle /\ spends' = spends /\ badForm' = badForm
  BY DEF PrimaryAnswers, At, Asks, Goto, resets
<1>2. input' = [input EXCEPT ![p] = input[p]] /\ touched' = [touched EXCEPT ![p] = touched[p]]
  BY <1>1, Same
<1>3. /\ pc'[p] = "served" /\ input'[p] = input[p] /\ asked'[p] = asked[p] \cup {res[p].origin}
      /\ touched'[p] = touched[p] /\ cmd'[p] = cmd[p] /\ res'[p] = res[p] /\ wire'[p] = wire[p]
  BY <1>1, <1>2 DEF Shapes
<1>4. Obeys(p) /\ Placed(p)
  BY DEF Locals
<1>5. ~res[p].local /\ Follows(input[p], res[p])
  BY <1>1, <1>4 DEF Placed, QuerySteps
<1>6. Obeys(p)'
  BY <1>3, <1>4, <1>5 DEF Obeys, Follows
<1>7. Placed(p)'
  BY <1>3 DEF Placed, QuerySteps, ResetSteps
<1>8. "served" \in Places \ ResetSteps /\ calls' \in [Process -> 0..MaxCalls]
  BY <1>1, PlacesAre DEF ResetSteps, Shapes
<1> QED
  BY <1>1, <1>2, <1>6, <1>7, <1>8, Walk

LEMMA PrimaryFailsKeeps ==
  ASSUME Shapes, Locals, NEW p \in Process, PrimaryFails(p)
  PROVE  Shapes' /\ Locals'
<1> DEFINE l == IF res[p].mode = "require-daemon" THEN "failed"
                ELSE IF res[p].source = "daemon-url" THEN "local" ELSE "alternate"
<1>1. /\ pc[p] = "primary"
      /\ asked' = [asked EXCEPT ![p] = asked[p] \cup {res[p].origin}]
      /\ pc' = [pc EXCEPT ![p] = l]
      /\ cmd' = cmd /\ input' = input /\ res' = res /\ touched' = touched /\ calls' = calls
      /\ wire' = wire /\ toggle' = toggle /\ spends' = spends /\ badForm' = badForm
  BY DEF PrimaryFails, At, Asks, Goto, resets
<1>2. /\ l \in {"failed", "local", "alternate"}
      /\ l = "failed" => res[p].mode = "require-daemon"
      /\ l \in {"local", "alternate"} => res[p].mode # "require-daemon"
      /\ l = "alternate" => res[p].source # "daemon-url"
  OBVIOUS
<1> HIDE DEF l
<1>3. input' = [input EXCEPT ![p] = input[p]] /\ touched' = [touched EXCEPT ![p] = touched[p]]
  BY <1>1, Same
<1>4. /\ pc'[p] = l /\ input'[p] = input[p] /\ asked'[p] = asked[p] \cup {res[p].origin}
      /\ touched'[p] = touched[p] /\ cmd'[p] = cmd[p] /\ res'[p] = res[p] /\ wire'[p] = wire[p]
  BY <1>1, <1>3 DEF Shapes
<1>5. Obeys(p) /\ Placed(p)
  BY DEF Locals
<1>6. /\ ~res[p].local /\ Follows(input[p], res[p])
      /\ cmd[p].kind \in QueryKinds /\ input[p].user = NoFile
  BY <1>1, <1>5 DEF Placed, QuerySteps
<1>7. Obeys(p)'
  <2>1. l = "failed" => ~ \E c \in Load(input[p].file) : c.mode = "prefer-daemon"
    BY <1>2, <1>6 DEF Follows
  <2> QED
    BY <1>4, <1>5, <1>6, <2>1 DEF Obeys, Follows
<1>8. Placed(p)'
  BY <1>2, <1>4, <1>6 DEF Placed, QuerySteps, ResetSteps
<1>9. l \in Places \ ResetSteps /\ calls' \in [Process -> 0..MaxCalls]
  BY <1>1, <1>2, PlacesAre DEF ResetSteps, Shapes
<1> QED
  BY <1>1, <1>3, <1>7, <1>8, <1>9, Walk

LEMMA AskAlternateKeeps ==
  ASSUME Shapes, Locals, NEW p \in Process, AskAlternate(p)
  PROVE  Shapes' /\ Locals'
<1>1. PICK u \in UserFiles :
        LET rs == {r \in AlternateResolution(u, res[p].mode) : ~r.local} IN
        /\ input' = [input EXCEPT ![p].user = u]
        /\ \/ rs = {} /\ Goto(p, "local") /\ UNCHANGED asked
           \/ \E r \in rs : /\ Asks(p, r.origin)
                            /\ \E l \in {"served", "local"} : Goto(p, l)
  BY DEF AskAlternate
<1>2. /\ pc[p] = "alternate" /\ cmd' = cmd /\ res' = res /\ touched' = touched /\ calls' = calls
      /\ wire' = wire /\ toggle' = toggle /\ spends' = spends /\ badForm' = badForm
  BY DEF AskAlternate, At, resets
<1>3. PICK l \in {"served", "local"}, more \in SUBSET Named(u) :
        /\ pc' = [pc EXCEPT ![p] = l]
        /\ asked' = [asked EXCEPT ![p] = asked[p] \cup more]
  <2>1. CASE pc' = [pc EXCEPT ![p] = "local"] /\ asked' = asked
    <3>1. asked' = [asked EXCEPT ![p] = asked[p] \cup {}]
      BY <2>1, Same
    <3> QED
      BY <2>1, <3>1
  <2>2. ASSUME NEW r \in AlternateResolution(u, res[p].mode), ~r.local,
               Asks(p, r.origin), NEW l \in {"served", "local"}, Goto(p, l)
        PROVE  \E m \in {"served", "local"}, more \in SUBSET Named(u) :
                 /\ pc' = [pc EXCEPT ![p] = m]
                 /\ asked' = [asked EXCEPT ![p] = asked[p] \cup more]
    <3>1. {r.origin} \in SUBSET Named(u)
      BY <2>2, AlternatesAreNamed
    <3> QED
      BY <2>2, <3>1 DEF Asks, Goto
  <2> QED
    BY <1>1, <2>1, <2>2 DEF Goto
<1> DEFINE i == [input[p] EXCEPT !.user = u]
<1>4. Obeys(p) /\ Placed(p)
  BY DEF Locals
<1>5. /\ ~res[p].local /\ Follows(input[p], res[p]) /\ res[p].source # "daemon-url"
      /\ cmd[p].kind \in QueryKinds /\ input[p].user = NoFile /\ res[p].mode # "require-daemon"
  BY <1>2, <1>4 DEF Placed, QuerySteps
<1>6. /\ input' = [input EXCEPT ![p] = i]
      /\ i.file = input[p].file /\ i.user = u /\ i.flags = input[p].flags
      /\ i = [file |-> i.file, user |-> i.user, flags |-> i.flags]
  BY <1>1, <1>4 DEF Obeys
<1>7. Told(input[p]) \subseteq Told(i) /\ Named(u) \subseteq Told(i)
  <2>1. input[p] = [file |-> i.file, user |-> NoFile, flags |-> i.flags]
    BY <1>4, <1>5, <1>6 DEF Obeys
  <2>2. i.flags.url = {}
    BY <1>5, <1>6 DEF Follows
  <2>3. i = [file |-> i.file, user |-> u, flags |-> i.flags]
    BY <1>6
  <2> HIDE DEF i
  <2> QED
    BY <2>1, <2>2, <2>3, ToldGrows
<1> HIDE DEF i
<1>8. touched' = [touched EXCEPT ![p] = touched[p]]
  BY <1>2, Same
<1>9. /\ pc'[p] = l /\ input'[p] = i /\ asked'[p] = asked[p] \cup more
      /\ touched'[p] = touched[p] /\ cmd'[p] = cmd[p] /\ res'[p] = res[p] /\ wire'[p] = wire[p]
  BY <1>2, <1>3, <1>6, <1>8 DEF Shapes
<1>10. Follows(i, res[p])
  BY <1>5, <1>6, <1>7 DEF Follows
<1>11. /\ ~i.flags.offline /\ i.file.mode # "local-only" /\ i.file.mode # "require-daemon"
       /\ cmd[p].kind \notin {"reset-once", "notify"} /\ l # "failed"
  BY <1>3, <1>5, <1>10 DEF Follows, QueryKinds, Queries
<1>12. Obeys(p)'
  <2>1. asked[p] \cup more \subseteq Told(i)
    BY <1>3, <1>4, <1>7 DEF Obeys
  <2> QED
    BY <1>4, <1>6, <1>9, <1>11, <2>1 DEF Obeys
<1>13. Placed(p)'
  BY <1>3, <1>5, <1>9, <1>10 DEF Placed, QuerySteps, ResetSteps
<1>14. l \in Places \ ResetSteps /\ calls' \in [Process -> 0..MaxCalls]
  BY <1>2, <1>3, PlacesAre DEF ResetSteps, Shapes
<1> QED
  BY <1>2, <1>3, <1>6, <1>8, <1>12, <1>13, <1>14, Walk

LEMMA LocalStepsKeep ==
  ASSUME Shapes, Locals, NEW p \in Process, LoadLocal(p) \/ LockLocal(p) \/ RefreshLocal(p)
  PROVE  Shapes' /\ Locals'
<1>1. PICK l \in {"failed", "served", "lock", "poll"}, things \in SUBSET Local :
        /\ pc' = [pc EXCEPT ![p] = l] /\ touched' = [touched EXCEPT ![p] = touched[p] \cup things]
        /\ pc[p] \in {"local", "lock", "poll"}
        /\ pc[p] = "local" => "state" \in things
  <2>1. CASE LoadLocal(p)
    <3>1. {"state", "history"} \in SUBSET Local /\ "state" \in {"state", "history"}
      BY DEF Local
    <3> QED
      BY <2>1, <3>1 DEF LoadLocal, At, Touches, Goto
  <2>2. CASE LockLocal(p)
    <3>1. {"lock"} \in SUBSET Local
      BY DEF Local
    <3> QED
      BY <2>2, <3>1 DEF LockLocal, At, Touches, Goto
  <2>3. CASE RefreshLocal(p)
    <3>1. {"providers"} \in SUBSET Local
      BY DEF Local
    <3> QED
      BY <2>3, <3>1 DEF RefreshLocal, At, Touches, Goto
  <2> QED
    BY <2>1, <2>2, <2>3
<1>2. /\ cmd' = cmd /\ input' = input /\ res' = res /\ asked' = asked /\ calls' = calls
      /\ wire' = wire /\ toggle' = toggle /\ spends' = spends /\ badForm' = badForm
  BY DEF LoadLocal, LockLocal, RefreshLocal, resets
<1>3. input' = [input EXCEPT ![p] = input[p]] /\ asked' = [asked EXCEPT ![p] = asked[p]]
  BY <1>2, Same
<1>4. /\ pc'[p] = l /\ input'[p] = input[p] /\ asked'[p] = asked[p]
      /\ touched'[p] = touched[p] \cup things
      /\ cmd'[p] = cmd[p] /\ res'[p] = res[p] /\ wire'[p] = wire[p]
  BY <1>1, <1>2 DEF Shapes
<1>5. Obeys(p) /\ Placed(p)
  BY DEF Locals
<1>6. /\ Follows(input[p], res[p]) /\ cmd[p].kind \in QueryKinds /\ res[p].mode # "require-daemon"
      /\ "state" \in touched[p] \cup things
  BY <1>1, <1>5 DEF Placed, QuerySteps
<1>7. input[p].file.mode # "require-daemon"
  BY <1>6 DEF Follows
<1>8. Obeys(p)'
  <2>1. touched[p] \cup things \subseteq Local
    BY <1>1, <1>5 DEF Obeys
  <2> QED
    BY <1>4, <1>5, <1>6, <1>7, <2>1 DEF Obeys
<1>9. Placed(p)'
  BY <1>1, <1>4, <1>6 DEF Placed, QuerySteps, ResetSteps
<1>10. l \in Places \ ResetSteps /\ calls' \in [Process -> 0..MaxCalls]
  BY <1>1, <1>2, PlacesAre DEF ResetSteps, Shapes
<1> QED
  BY <1>1, <1>2, <1>3, <1>8, <1>9, <1>10, Walk

(* The steps that end a command, or a tool call. *)
LEMMA EndingsKeep ==
  ASSUME Shapes, Locals, NEW p \in Process,
         ToolResult(p) \/ EndMCP(p) \/ GiveUp(p) \/ StopNotify(p)
  PROVE  Shapes' /\ Locals'
<1>1. Obeys(p) /\ Placed(p)
  BY DEF Locals
<1>2. PICK l \in {"serving", "stopped", "failed"} :
        /\ pc' = [pc EXCEPT ![p] = l]
        /\ l = "serving" => cmd[p].kind = "mcp"
        /\ l = "failed" => cmd[p].kind \notin QueryKinds
  <2>1. CASE ToolResult(p)
    BY <2>1 DEF ToolResult, Goto
  <2>2. CASE EndMCP(p)
    BY <2>2 DEF EndMCP, Goto
  <2>3. CASE GiveUp(p)
    <3>1. cmd[p].kind = "reset-once"
      BY <1>1, <2>3 DEF GiveUp, At, Placed, ResetSteps
    <3> QED
      BY <2>3, <3>1 DEF GiveUp, Goto, QueryKinds, Queries
  <2>4. CASE StopNotify(p)
    BY <2>4 DEF StopNotify, Goto
  <2> QED
    BY <2>1, <2>2, <2>3, <2>4
<1>3. /\ cmd' = cmd /\ input' = input /\ res' = res /\ asked' = asked /\ calls' = calls
      /\ touched' = touched
      /\ wire' = wire /\ toggle' = toggle /\ spends' = spends /\ badForm' = badForm
  BY DEF ToolResult, EndMCP, GiveUp, StopNotify, resets
<1>4. /\ input' = [input EXCEPT ![p] = input[p]] /\ asked' = [asked EXCEPT ![p] = asked[p]]
      /\ touched' = [touched EXCEPT ![p] = touched[p]]
  BY <1>3, Same
<1>5. pc'[p] = l
  BY <1>2 DEF Shapes
<1>6. Obeys(p)'
  BY <1>1, <1>2, <1>3, <1>5 DEF Obeys
<1>7. Placed(p)'
  BY <1>2, <1>3, <1>5 DEF Placed, QuerySteps, ResetSteps
<1>8. l \in Places \ ResetSteps /\ calls' \in [Process -> 0..MaxCalls]
  BY <1>2, <1>3, PlacesAre DEF ResetSteps, Shapes
<1> QED
  BY <1>2, <1>3, <1>4, <1>6, <1>7, <1>8, Walk

LEMMA PollEventsKeeps ==
  ASSUME Shapes, Locals, NEW p \in Process, PollEvents(p)
  PROVE  Shapes' /\ Locals'
<1>1. /\ pc[p] = "watching"
      /\ asked' = [asked EXCEPT ![p] = asked[p] \cup {res[p].origin}]
      /\ pc' = pc /\ cmd' = cmd /\ input' = input /\ res' = res /\ touched' = touched /\ calls' = calls
      /\ wire' = wire /\ toggle' = toggle /\ spends' = spends /\ badForm' = badForm
  BY DEF PollEvents, At, Asks, resets
<1>2. /\ input' = [input EXCEPT ![p] = input[p]] /\ touched' = [touched EXCEPT ![p] = touched[p]]
      /\ pc' = [pc EXCEPT ![p] = "watching"]
  BY <1>1, Same DEF Shapes
<1>3. /\ pc'[p] = "watching" /\ input'[p] = input[p] /\ asked'[p] = asked[p] \cup {res[p].origin}
      /\ touched'[p] = touched[p] /\ cmd'[p] = cmd[p] /\ res'[p] = res[p] /\ wire'[p] = wire[p]
  BY <1>1, <1>2 DEF Shapes
<1>4. Obeys(p) /\ Placed(p)
  BY DEF Locals
<1>5. cmd[p].kind = "notify" /\ ~res[p].local /\ Follows(input[p], res[p])
  BY <1>1, <1>4 DEF Placed
<1>6. Obeys(p)'
  BY <1>3, <1>4, <1>5 DEF Obeys, Follows
<1>7. Placed(p)'
  BY <1>3, <1>5 DEF Placed, QuerySteps, ResetSteps
<1>8. "watching" \in Places \ ResetSteps /\ calls' \in [Process -> 0..MaxCalls]
  BY <1>1, PlacesAre DEF ResetSteps, Shapes
<1> QED
  BY <1>1, <1>2, <1>6, <1>7, <1>8, Walk

-----------------------------------------------------------------------------
(* The steps of reset-once.                                                *)

(* A step that changes no more of p than its place, whom it asked, and its  *)
(* request.                                                                 *)
LEMMA ResetWalk ==
  ASSUME Shapes, Locals, NEW p \in Process, NEW l \in Places, NEW as, NEW w \in Wires,
         pc' = [pc EXCEPT ![p] = l], asked' = [asked EXCEPT ![p] = as], wire' = [wire EXCEPT ![p] = w],
         cmd' = cmd, input' = input, res' = res, touched' = touched, calls' = calls,
         toggle' \in [Providers -> {"off", "armed", "unknown"}], spends' \in [Providers -> Nat],
         badForm' = FALSE,
         as = asked[p] \/ (Follows(input[p], res[p]) /\ ~res[p].local
                             /\ cmd[p].kind = "reset-once" /\ as = asked[p] \cup {res[p].origin}),
         l = pc[p] \/ (l \in {"served", "failed"} /\ pc[p] \in ResetSteps)
                   \/ (l \in ResetSteps /\ pc[p] \in ResetSteps),
         pc[p] # "idle", WireOK(l, cmd[p], res[p], w)
  PROVE  Shapes' /\ Locals'
<1>1. Shapes'
  BY DEF Shapes
<1>2. \A q \in Process \ {p} : Stays(q)
  BY DEF Shapes, Stays
<1>3. /\ pc'[p] = l /\ asked'[p] = as /\ wire'[p] = w
      /\ cmd'[p] = cmd[p] /\ input'[p] = input[p] /\ res'[p] = res[p] /\ touched'[p] = touched[p]
  BY DEF Shapes
<1>4. Obeys(p) /\ Placed(p)
  BY DEF Locals
<1>5. l = "failed" => pc[p] = "failed" \/ cmd[p].kind \notin QueryKinds
  BY <1>4 DEF Placed, ResetSteps, QueryKinds, Queries
<1>6. Obeys(p)'
  <2>1. CASE as = asked[p]
    BY <1>3, <1>4, <1>5, <2>1 DEF Obeys
  <2>2. CASE /\ Follows(input[p], res[p]) /\ ~res[p].local
             /\ cmd[p].kind = "reset-once" /\ as = asked[p] \cup {res[p].origin}
    BY <1>3, <1>4, <1>5, <2>2 DEF Obeys, Follows
  <2> QED
    BY <2>1, <2>2
<1>7. Placed(p)'
  <2>1. CASE l = pc[p]
    BY <1>3, <1>4, <2>1 DEF Placed
  <2>2. CASE l \in {"served", "failed"}
    BY <1>3, <2>2 DEF Placed, QuerySteps, ResetSteps
  <2>3. CASE l \in ResetSteps /\ pc[p] \in ResetSteps
    BY <1>3, <1>4, <2>3 DEF Placed, QuerySteps, ResetSteps
  <2> QED
    BY <2>1, <2>2, <2>3
<1>8. Wired(p)'
  BY <1>3 DEF Wired
<1> QED
  BY <1>1, <1>2, <1>6, <1>7, <1>8, Frame

LEMMA SendKeeps ==
  ASSUME Shapes, Locals, NEW p \in Process, Send(p)
  PROVE  Shapes' /\ Locals'
<1> DEFINE w == [wire[p] EXCEPT !.state = "sent"]
           as == asked[p] \cup {res[p].origin}
<1>1. /\ pc[p] = "send" /\ pc' = [pc EXCEPT ![p] = "wait"] /\ asked' = [asked EXCEPT ![p] = as]
      /\ wire' = [wire EXCEPT ![p] = w]
      /\ cmd' = cmd /\ input' = input /\ res' = res /\ touched' = touched /\ calls' = calls
      /\ toggle' = toggle /\ spends' = spends /\ badForm' = badForm
  BY DEF Send, At, Asks, Goto
<1>2. wire[p] \in Wires
  BY DEF Shapes
<1>3. w \in Wires /\ w.state = "sent" /\ w.action = wire[p].action
  BY <1>2 DEF Wires
<1> HIDE DEF w
<1>4. Placed(p) /\ WireOK("send", cmd[p], res[p], wire[p])
  BY <1>1 DEF Locals, Wired
<1>5. /\ Follows(input[p], res[p]) /\ ~res[p].local /\ cmd[p].kind = "reset-once"
      /\ Controls(cmd[p], res[p])
  BY <1>1, <1>4 DEF Placed, ResetSteps, Controls
<1>6. WireOK("wait", cmd[p], res[p], w)
  BY <1>3, <1>4, <1>5 DEF WireOK
<1>7. "wait" \in Places /\ "wait" \in ResetSteps /\ "send" \in ResetSteps
  BY PlacesAre DEF ResetSteps
<1> HIDE DEF as
<1>8. as = asked[p] \cup {res[p].origin}
  BY DEF as
<1>9. toggle' \in [Providers -> {"off", "armed", "unknown"}] /\ spends' \in [Providers -> Nat] /\ badForm' = FALSE
  BY <1>1 DEF Shapes
<1> QED
  BY <1>1, <1>3, <1>5, <1>6, <1>7, <1>8, <1>9, ResetWalk

(* A request of the command, when the command may control the toggle, has the *)
(* form the handlers accept.                                                  *)
LEMMA RequestsAreAccepted ==
  ASSUME NEW p \in Process, wire[p].state # "none", WireOK(pc[p], cmd[p], res[p], wire[p])
  PROVE  LocalResetControl(Request(p)) /\ AcceptsForm(Request(p), cmd[p].provider)
<1>1. /\ cmd[p].kind = "reset-once" /\ Controls(cmd[p], res[p])
      /\ wire[p].action = cmd[p].action \/ (wire[p].action = "use-now" /\ cmd[p].action = "arm")
      /\ cmd[p].ack => cmd[p].action = "cancel"
  BY DEF WireOK
<1>2. LoopbackHost(res[p].origin.host)
  BY <1>1 DEF Controls
<1>3. cmd[p].ack => wire[p].action = "cancel"
  BY <1>1
<1> DEFINE confirm == Confirm(wire[p].action, cmd[p].provider)
<1> HIDE DEF confirm
<1>4. Request(p) = [peer |-> res[p].origin.host, host |-> res[p].origin.host,
                    action |-> wire[p].action, type |-> "application/json",
                    header |-> confirm, confirm |-> confirm, ack |-> cmd[p].ack]
  BY DEF Request, confirm
<1>5. /\ Request(p).peer = res[p].origin.host /\ Request(p).host = res[p].origin.host
      /\ Request(p).action = wire[p].action /\ Request(p).type = "application/json"
      /\ Request(p).header = confirm /\ Request(p).confirm = confirm /\ Request(p).ack = cmd[p].ack
  BY <1>4
<1> QED
  BY <1>2, <1>3, <1>5 DEF LocalResetControl, AcceptsForm, confirm

LEMMA OutcomeFacts ==
  ASSUME NEW action, NEW ack, NEW t \in {"off", "armed", "unknown"}, NEW o \in Outcomes(action, ack, t)
  PROVE  /\ o[1] \in {"off", "armed", "unknown"} /\ o[2] \in {0, 1}
         /\ o[2] = 1 => t = "armed" /\ o[1] # "armed"
         /\ o[1] = "armed" => t = "armed" \/ action = "arm"
<1>1. CASE action = "arm"
  BY <1>1 DEF Outcomes
<1>2. CASE action = "use-now"
  BY <1>2 DEF Outcomes, Redeemed
<1>3. CASE action = "cancel"
  BY <1>3 DEF Outcomes
<1>4. CASE action \notin {"arm", "use-now", "cancel"}
  BY <1>4 DEF Outcomes
<1> QED
  BY <1>1, <1>2, <1>3, <1>4

(* The place, the request and the answer of p after a step of the daemon. *)
LEMMA AnsweredKeeps ==
  ASSUME Shapes, Locals, NEW p \in Process, wire[p].state = "sent",
         NEW w \in Wires, w.state = "answered", w.action = wire[p].action,
         wire' = [wire EXCEPT ![p] = w],
         pc' = pc, cmd' = cmd, input' = input, res' = res, asked' = asked, touched' = touched,
         calls' = calls, badForm' = badForm,
         toggle' \in [Providers -> {"off", "armed", "unknown"}], spends' \in [Providers -> Nat]
  PROVE  Shapes' /\ Locals'
<1>4. Placed(p) /\ WireOK(pc[p], cmd[p], res[p], wire[p])
  BY DEF Locals, Wired
<1>5. pc[p] # "idle" /\ pc[p] # "send"
  <2>1. Silent.state = "none"
    BY DEF Silent
  <2> QED
    BY <1>4, <2>1 DEF Placed, WireOK
<1>6. WireOK(pc[p], cmd[p], res[p], w)
  BY <1>4, <1>5 DEF WireOK, Silent
<1>7. pc' = [pc EXCEPT ![p] = pc[p]] /\ asked' = [asked EXCEPT ![p] = asked[p]]
      /\ pc[p] \in Places /\ badForm' = FALSE
  BY DEF Shapes
<1> QED
  BY <1>5, <1>6, <1>7, ResetWalk

LEMMA AnswerIs ==
  ASSUME Shapes, NEW p \in Process, NEW answer \in {"error", "off", "armed", "unknown"}
  PROVE  LET w == [wire[p] EXCEPT !.state = "answered", !.answer = answer]
         IN  w \in Wires /\ w.state = "answered" /\ w.action = wire[p].action
<1>1. wire[p] \in Wires
  BY DEF Shapes
<1> QED
  BY <1>1 DEF Wires

LEMMA NotReachedKeeps ==
  ASSUME Shapes, Locals, NEW p \in Process, NotReached(p)
  PROVE  Shapes' /\ Locals'
<1>1. /\ wire[p].state = "sent"
      /\ wire' = [wire EXCEPT ![p] = [wire[p] EXCEPT !.state = "answered", !.answer = "error"]]
      /\ pc' = pc /\ cmd' = cmd /\ input' = input /\ res' = res /\ asked' = asked /\ touched' = touched
      /\ calls' = calls /\ badForm' = badForm /\ toggle' = toggle /\ spends' = spends
  BY DEF NotReached
<1>2. toggle' \in [Providers -> {"off", "armed", "unknown"}] /\ spends' \in [Providers -> Nat]
  BY <1>1 DEF Shapes
<1> DEFINE w == [wire[p] EXCEPT !.state = "answered", !.answer = "error"]
<1>3. w \in Wires /\ w.state = "answered" /\ w.action = wire[p].action
  BY AnswerIs
<1>4. wire' = [wire EXCEPT ![p] = w]
  BY <1>1
<1> HIDE DEF w
<1> QED
  BY <1>1, <1>2, <1>3, <1>4, AnsweredKeeps

(* What the daemon did with a request: the toggle's next state, and what it *)
(* spent.                                                                   *)
LEMMA Handled ==
  ASSUME Shapes, Locals, NEW p \in Process, Handle(p)
  PROVE  /\ wire[p].state = "sent" /\ badForm' = badForm
         /\ UNCHANGED << pc, cmd, input, res, asked, touched, calls, cursor >>
         /\ \/ /\ wire' = [wire EXCEPT ![p] = [wire[p] EXCEPT !.state = "answered", !.answer = "error"]]
               /\ toggle' = toggle /\ spends' = spends
            \/ \E o \in Outcomes(wire[p].action, cmd[p].ack, toggle[cmd[p].provider]) :
                 /\ wire' = [wire EXCEPT ![p] = [wire[p] EXCEPT !.state = "answered", !.answer = o[1]]]
                 /\ toggle' = [toggle EXCEPT ![cmd[p].provider] = o[1]]
                 /\ spends' = [spends EXCEPT ![cmd[p].provider] = @ + o[2]]
<1>1. wire[p].state = "sent" /\ WireOK(pc[p], cmd[p], res[p], wire[p])
  BY DEF Handle, Locals, Wired
<1>2. LocalResetControl(Request(p)) /\ AcceptsForm(Request(p), cmd[p].provider)
  BY <1>1, RequestsAreAccepted
<1>3. Request(p).action = wire[p].action /\ Request(p).ack = cmd[p].ack
  BY DEF Request
<1>4. \/ /\ wire' = [wire EXCEPT ![p].state = "answered", ![p].answer = "error"]
         /\ toggle' = toggle /\ spends' = spends /\ badForm' = badForm
      \/ \E o \in Outcomes(Request(p).action, Request(p).ack, toggle[cmd[p].provider]) :
           /\ wire' = [wire EXCEPT ![p].state = "answered", ![p].answer = o[1]]
           /\ toggle' = [toggle EXCEPT ![cmd[p].provider] = o[1]]
           /\ spends' = [spends EXCEPT ![cmd[p].provider] = @ + o[2]]
           /\ badForm' = badForm
  BY <1>2 DEF Handle
<1>5. ASSUME NEW a
      PROVE  [wire EXCEPT ![p].state = "answered", ![p].answer = a]
               = [wire EXCEPT ![p] = [wire[p] EXCEPT !.state = "answered", !.answer = a]]
  BY DEF Shapes, Wires
<1>6. UNCHANGED << pc, cmd, input, res, asked, touched, calls, cursor >>
  BY DEF Handle
<1> QED
  BY <1>1, <1>3, <1>4, <1>5, <1>6

LEMMA HandleKeeps ==
  ASSUME Shapes, Locals, NEW p \in Process, Handle(p)
  PROVE  Shapes' /\ Locals'
<1>1. /\ wire[p].state = "sent" /\ badForm' = badForm
      /\ pc' = pc /\ cmd' = cmd /\ input' = input /\ res' = res /\ asked' = asked /\ touched' = touched
      /\ calls' = calls
  BY Handled
<1>2. cmd[p].provider \in Providers
  BY <1>1 DEF Locals, Wired, WireOK, Controls
<1>3. PICK answer \in {"error", "off", "armed", "unknown"} :
        /\ wire' = [wire EXCEPT ![p] = [wire[p] EXCEPT !.state = "answered", !.answer = answer]]
        /\ toggle' \in [Providers -> {"off", "armed", "unknown"}] /\ spends' \in [Providers -> Nat]
  <2>1. CASE /\ wire' = [wire EXCEPT ![p] = [wire[p] EXCEPT !.state = "answered", !.answer = "error"]]
             /\ toggle' = toggle /\ spends' = spends
    BY <2>1 DEF Shapes
  <2>2. ASSUME NEW o \in Outcomes(wire[p].action, cmd[p].ack, toggle[cmd[p].provider]),
               toggle' = [toggle EXCEPT ![cmd[p].provider] = o[1]],
               spends' = [spends EXCEPT ![cmd[p].provider] = @ + o[2]]
        PROVE  /\ o[1] \in {"off", "armed", "unknown"}
               /\ toggle' \in [Providers -> {"off", "armed", "unknown"}] /\ spends' \in [Providers -> Nat]
    <3>1. o[1] \in {"off", "armed", "unknown"} /\ o[2] \in {0, 1}
      BY <1>2, OutcomeFacts DEF Shapes
    <3> QED
      BY <1>2, <2>2, <3>1 DEF Shapes
  <2>3. ASSUME NEW o \in Outcomes(wire[p].action, cmd[p].ack, toggle[cmd[p].provider]),
               wire' = [wire EXCEPT ![p] = [wire[p] EXCEPT !.state = "answered", !.answer = o[1]]],
               toggle' = [toggle EXCEPT ![cmd[p].provider] = o[1]],
               spends' = [spends EXCEPT ![cmd[p].provider] = @ + o[2]]
        PROVE  \E answer \in {"error", "off", "armed", "unknown"} :
                 /\ wire' = [wire EXCEPT ![p] = [wire[p] EXCEPT !.state = "answered", !.answer = answer]]
                 /\ toggle' \in [Providers -> {"off", "armed", "unknown"}]
                 /\ spends' \in [Providers -> Nat]
    <3>1. /\ o[1] \in {"error", "off", "armed", "unknown"}
          /\ toggle' \in [Providers -> {"off", "armed", "unknown"}] /\ spends' \in [Providers -> Nat]
      BY <2>2, <2>3
    <3> QED
      BY <2>3, <3>1, Zenon
  <2>4. "error" \in {"error", "off", "armed", "unknown"}
    OBVIOUS
  <2> QED
    BY <2>1, <2>3, <2>4, Handled, Zenon
<1> DEFINE w == [wire[p] EXCEPT !.state = "answered", !.answer = answer]
<1>4. w \in Wires /\ w.state = "answered" /\ w.action = wire[p].action
  BY AnswerIs
<1>5. wire' = [wire EXCEPT ![p] = w]
  BY <1>3
<1> HIDE DEF w
<1> QED
  BY <1>1, <1>3, <1>4, <1>5, AnsweredKeeps

LEMMA ReceiveKeeps ==
  ASSUME Shapes, Locals, NEW p \in Process, Receive(p) \/ Offer(p)
  PROVE  Shapes' /\ Locals'
<1> DEFINE again == [Silent EXCEPT !.action = "use-now"]
<1>1. /\ UNCHANGED << cmd, input, res, touched, calls, asked, toggle, spends, badForm >>
      /\ pc[p] \in {"wait", "offer"}
  BY DEF Receive, Offer, At
<1>2. \/ /\ wire[p].action = "arm" /\ wire[p].state = "answered"
         /\ pc' = [pc EXCEPT ![p] = "send"] /\ wire' = [wire EXCEPT ![p] = again]
      \/ /\ wire[p].action = "arm" /\ wire[p].state = "answered"
         /\ pc' = [pc EXCEPT ![p] = "offer"] /\ wire' = wire
      \/ (pc' = [pc EXCEPT ![p] = "served"] \/ pc' = [pc EXCEPT ![p] = "failed"]) /\ wire' = wire
  <2>1. CASE Receive(p)
    BY <2>1 DEF Receive, Goto
  <2>2. CASE Offer(p)
    <3>1. wire[p].action = "arm" /\ wire[p].state = "answered"
      BY <2>2 DEF Offer, At, Locals, Wired, WireOK
    <3> QED
      BY <2>2, <3>1 DEF Offer, Goto
  <2> QED
    BY <2>1, <2>2
<1>3. again \in Wires /\ again.state = "none" /\ again.action = "use-now"
  BY DEF Silent, Wires
<1> HIDE DEF again
<1>4. Placed(p) /\ WireOK(pc[p], cmd[p], res[p], wire[p]) /\ wire[p] \in Wires
  BY DEF Locals, Wired, Shapes
<1>5. cmd[p].kind = "reset-once"
  BY <1>1, <1>4 DEF Placed, ResetSteps
<1>6. /\ asked' = [asked EXCEPT ![p] = asked[p]] /\ pc[p] # "idle" /\ badForm' = FALSE
      /\ toggle' \in [Providers -> {"off", "armed", "unknown"}] /\ spends' \in [Providers -> Nat]
      /\ wire = [wire EXCEPT ![p] = wire[p]]
  BY <1>1 DEF Shapes
<1>7. /\ {"send", "wait", "offer", "served", "failed"} \subseteq Places
      /\ pc[p] \in ResetSteps /\ "send" \in ResetSteps /\ "offer" \in ResetSteps
  BY <1>1, PlacesAre DEF ResetSteps
<1>8. CASE /\ wire[p].action = "arm" /\ wire[p].state = "answered"
           /\ pc' = [pc EXCEPT ![p] = "send"] /\ wire' = [wire EXCEPT ![p] = again]
  <2>1. WireOK("send", cmd[p], res[p], again)
    BY <1>3, <1>4, <1>5, <1>8 DEF WireOK
  <2> QED
    BY <1>1, <1>3, <1>6, <1>7, <1>8, <2>1, ResetWalk
<1>9. CASE /\ wire[p].action = "arm" /\ wire[p].state = "answered"
           /\ pc' = [pc EXCEPT ![p] = "offer"] /\ wire' = wire
  <2>1. WireOK("offer", cmd[p], res[p], wire[p])
    BY <1>4, <1>9 DEF WireOK
  <2> QED
    BY <1>1, <1>4, <1>6, <1>7, <1>9, <2>1, ResetWalk
<1>10. ASSUME NEW l \in {"served", "failed"}, pc' = [pc EXCEPT ![p] = l], wire' = wire
       PROVE  Shapes' /\ Locals'
  <2>1. WireOK(l, cmd[p], res[p], wire[p])
    BY <1>4, <1>10 DEF WireOK
  <2> QED
    BY <1>1, <1>4, <1>6, <1>7, <1>10, <2>1, ResetWalk
<1> QED
  BY <1>2, <1>8, <1>9, <1>10

LEMMA GuardedRefreshKeeps ==
  ASSUME Shapes, Locals, NEW r \in Providers, GuardedRefresh(r)
  PROVE  Shapes' /\ Locals'
<1>1. PICK o \in Redeemed : /\ toggle' = [toggle EXCEPT ![r] = o[1]]
                            /\ spends' = [spends EXCEPT ![r] = @ + o[2]]
  BY DEF GuardedRefresh
<1>2. o[1] \in {"off", "armed", "unknown"} /\ o[2] \in {0, 1}
  BY <1>1 DEF Redeemed
<1>3. UNCHANGED << pc, cmd, input, res, asked, touched, calls, wire, badForm >>
  BY DEF GuardedRefresh
<1>4. Shapes'
  BY <1>1, <1>2, <1>3 DEF Shapes
<1>5. ASSUME NEW p \in Process
      PROVE  (Obeys(p) /\ Placed(p) /\ Wired(p))'
  BY <1>3 DEF Locals, Obeys, Placed, Wired
<1> QED
  BY <1>4, <1>5 DEF Locals

-----------------------------------------------------------------------------
(* The steps that load the configuration.                                  *)

LEMMA BegunObeys ==
  ASSUME Shapes, NEW p \in Process, NEW file \in Files, NEW flags, NEW place,
         \A r \in Resolutions(file, flags) : place[r] \in Places,
         Begin(p, file, flags, place),
         cmd'[p] \in Commands[p] \cup {NoCommand}, asked'[p] = {}, touched'[p] = {},
         cmd'[p].kind \in QueryKinds => \A r \in Resolutions(file, flags) : place[r] # "failed"
  PROVE  Obeys(p)'
<1>1. /\ input'[p] = [file |-> file, user |-> NoFile, flags |-> flags]
      /\ input'[p].file = file /\ input'[p].user = NoFile /\ input'[p].flags = flags
      /\ \/ Resolutions(file, flags) = {} /\ pc'[p] = "failed" /\ res'[p] = NoRes
         \/ /\ res'[p] \in Resolutions(file, flags) /\ pc'[p] = place[res'[p]]
            /\ Follows(input'[p], res'[p])
  BY BeginFacts
<1>2. res'[p].mode \in Modes
  BY <1>1 DEF Follows, NoRes, Modes
<1>3. (/\ pc'[p] = "failed" /\ cmd'[p].kind \in QueryKinds
       /\ \E c \in Load(file) : c.mode = "prefer-daemon"
       /\ flags.host = {} /\ flags.port = {}
       /\ flags.url # {} => ~flags.offline /\ NormalizeClientURL(ValueOr(flags.url, NoURL)) # {}) => FALSE
  <2> SUFFICES ASSUME pc'[p] = "failed", cmd'[p].kind \in QueryKinds,
                      NEW c \in Load(file), c.mode = "prefer-daemon",
                      flags.host = {}, flags.port = {},
                      flags.url # {} =>
                        ~flags.offline /\ NormalizeClientURL(ValueOr(flags.url, NoURL)) # {}
               PROVE  FALSE
    OBVIOUS
  <2>1. Resolutions(file, flags) # {}
    BY PreferResolves
  <2> QED
    BY <1>1, <2>1
<1> QED
  BY <1>1, <1>2, <1>3 DEF Obeys

(* Only p's variables change, and they keep their kind. *)
Renewed(p) ==
  /\ cmd' = [q \in Process |-> cmd'[q]] /\ asked' = [q \in Process |-> asked'[q]]
  /\ touched' = [q \in Process |-> touched'[q]] /\ wire' \in [Process -> Wires]
  /\ calls' \in [Process -> 0..MaxCalls]
  /\ toggle' = toggle /\ spends' = spends /\ badForm' = badForm
  /\ \A q \in Process \ {p} : /\ cmd'[q] = cmd[q] /\ asked'[q] = asked[q]
                              /\ touched'[q] = touched[q] /\ wire'[q] = wire[q]

(* A step that starts a command, or a tool call, of p. *)
LEMMA BegunKeeps ==
  ASSUME Shapes, Locals, NEW p \in Process, NEW file \in Files, NEW flags, NEW place,
         \A r \in Resolutions(file, flags) : place[r] \in Places,
         Begin(p, file, flags, place), Renewed(p), (Obeys(p) /\ Placed(p) /\ Wired(p))'
  PROVE  Shapes' /\ Locals'
<1>1. /\ pc' \in [Process -> Places]
      /\ input' = [q \in Process |-> input'[q]] /\ res' = [q \in Process |-> res'[q]]
      /\ \A q \in Process \ {p} : pc'[q] = pc[q] /\ input'[q] = input[q] /\ res'[q] = res[q]
  BY BeginFacts
<1>2. Shapes'
  BY <1>1 DEF Shapes, Renewed
<1>3. \A q \in Process \ {p} : Stays(q)
  BY <1>1 DEF Renewed, Stays
<1> QED
  BY <1>2, <1>3, Frame

(* Where a command may be once it resolved its configuration. *)
LEMMA FailedIsPlaced ==
  ASSUME NEW p \in Process, pc'[p] \in {"failed", "stopped"}
  PROVE  Placed(p)'
BY DEF Placed, QuerySteps, ResetSteps

LEMMA QueryIsPlaced ==
  ASSUME NEW p \in Process, cmd'[p].kind \in QueryKinds, Follows(input'[p], res'[p]),
         \/ pc'[p] = "local" /\ res'[p].mode # "require-daemon"
         \/ pc'[p] = "primary" /\ ~res'[p].local /\ input'[p].user = NoFile
  PROVE  Placed(p)'
BY DEF Placed, QuerySteps, ResetSteps

LEMMA BegunQuery ==
  ASSUME Shapes, Locals, NEW p \in Process, NEW file \in Files, NEW flags, NEW place,
         \A r \in Resolutions(file, flags) : /\ r.local => place[r] = "local"
                                             /\ ~r.local => place[r] = "primary",
         Begin(p, file, flags, place), cmd'[p].kind \in QueryKinds, Renewed(p), wire'[p] = Silent,
         cmd'[p] \in Commands[p] \cup {NoCommand}, asked'[p] = {}, touched'[p] = {}
  PROVE  Shapes' /\ Locals'
<1>1. \A r \in Resolutions(file, flags) : place[r] \in Places /\ place[r] # "failed"
  BY PlacesAre
<1>2. /\ input'[p].user = NoFile
      /\ \/ pc'[p] = "failed"
         \/ /\ res'[p] \in Resolutions(file, flags) /\ pc'[p] = place[res'[p]]
            /\ Follows(input'[p], res'[p])
  BY <1>1, BeginFacts
<1>3. pc'[p] # "failed" => /\ Follows(input'[p], res'[p])
                           /\ \/ pc'[p] = "local" /\ res'[p].mode # "require-daemon"
                              \/ pc'[p] = "primary" /\ ~res'[p].local
  <2> SUFFICES ASSUME pc'[p] # "failed"
               PROVE  /\ Follows(input'[p], res'[p])
                      /\ \/ pc'[p] = "local" /\ res'[p].mode # "require-daemon"
                         \/ pc'[p] = "primary" /\ ~res'[p].local
    OBVIOUS
  <2>1. /\ res'[p] \in Resolutions(file, flags) /\ pc'[p] = place[res'[p]]
        /\ Follows(input'[p], res'[p])
    BY <1>2
  <2>2. res'[p].local => res'[p].mode # "require-daemon"
    BY <2>1 DEF Follows
  <2> QED
    BY <2>1, <2>2
<1>4. Placed(p)'
  BY <1>2, <1>3, FailedIsPlaced, QueryIsPlaced
<1>5. pc'[p] \in {"failed", "local", "primary"}
  BY <1>3
<1>6. Obeys(p)'
  BY <1>1, BegunObeys
<1>7. Wired(p)'
  <2>1. cmd'[p].kind # "reset-once" /\ pc'[p] \notin ResetSteps /\ Silent.state = "none"
    BY <1>5 DEF QueryKinds, Queries, ResetSteps, Silent
  <2> QED
    BY <2>1 DEF Wired, WireOK, ResetSteps
<1> QED
  BY <1>1, <1>4, <1>6, <1>7, BegunKeeps

(* An idle process has done nothing. *)
LEMMA IdleFacts ==
  ASSUME Locals, NEW p \in Process, pc[p] = "idle"
  PROVE  cmd[p] = NoCommand /\ asked[p] = {} /\ touched[p] = {} /\ wire[p] = Silent
BY DEF Locals, Placed

LEMMA StartQueryKeeps ==
  ASSUME Shapes, Locals, NEW p \in Process, StartQuery(p)
  PROVE  Shapes' /\ Locals'
<1>1. PICK c \in Commands[p], f \in Files :
        /\ c.kind \in Queries
        /\ cmd' = [cmd EXCEPT ![p] = c]
        /\ Begin(p, f, c.flags, QueryAt(Resolutions(f, c.flags)))
  BY DEF StartQuery
<1> DEFINE flags == c.flags
           place == QueryAt(Resolutions(f, flags))
<1>2. /\ Begin(p, f, flags, place)
      /\ \A r \in Resolutions(f, flags) : /\ r.local => place[r] = "local"
                                          /\ ~r.local => place[r] = "primary"
  BY <1>1 DEF QueryAt
<1> HIDE DEF flags, place
<1>3. /\ pc[p] = "idle" /\ asked' = asked /\ touched' = touched /\ calls' = calls
      /\ wire' = wire /\ toggle' = toggle /\ spends' = spends /\ badForm' = badForm
  BY DEF StartQuery, At, resets
<1>4. wire'[p] = Silent /\ asked'[p] = {} /\ touched'[p] = {}
  BY <1>3, IdleFacts
<1>5. cmd'[p] = c /\ c.kind \in QueryKinds
  BY <1>1 DEF Shapes, QueryKinds
<1>6. Renewed(p)
  BY <1>1, <1>3 DEF Renewed, Shapes
<1> QED
  BY <1>2, <1>4, <1>5, <1>6, BegunQuery

LEMMA CallToolKeeps ==
  ASSUME Shapes, Locals, NEW p \in Process, CallTool(p)
  PROVE  Shapes' /\ Locals'
<1>1. PICK f \in Files, offline \in BOOLEAN :
        LET flags == BaseCLIArgs(cmd[p].flags, offline) IN
        Begin(p, f, flags, QueryAt(Resolutions(f, flags)))
  BY DEF CallTool
<1> DEFINE flags == BaseCLIArgs(cmd[p].flags, offline)
           place == QueryAt(Resolutions(f, flags))
<1>2. /\ Begin(p, f, flags, place)
      /\ \A r \in Resolutions(f, flags) : /\ r.local => place[r] = "local"
                                          /\ ~r.local => place[r] = "primary"
  BY <1>1 DEF QueryAt
<1> HIDE DEF flags, place
<1>3. /\ pc[p] = "serving" /\ calls[p] < MaxCalls /\ calls' = [calls EXCEPT ![p] = @ + 1]
      /\ asked' = [asked EXCEPT ![p] = {}] /\ touched' = [touched EXCEPT ![p] = {}]
      /\ cmd' = cmd /\ wire' = wire /\ toggle' = toggle /\ spends' = spends /\ badForm' = badForm
  BY DEF CallTool, At, resets
<1>4. Obeys(p) /\ Placed(p) /\ WireOK(pc[p], cmd[p], res[p], wire[p])
  BY DEF Locals, Wired
<1>5. cmd[p].kind = "mcp" /\ cmd[p] \in Commands[p] \cup {NoCommand} /\ wire[p] = Silent
  BY <1>3, <1>4 DEF Placed, Obeys, WireOK
<1>6. cmd'[p] = cmd[p] /\ cmd[p].kind \in QueryKinds /\ wire'[p] = Silent
      /\ asked'[p] = {} /\ touched'[p] = {}
  BY <1>3, <1>5 DEF Shapes, QueryKinds
<1>7. Renewed(p)
  <2>1. calls' \in [Process -> 0..MaxCalls]
    BY <1>3, ClientAssumption DEF Shapes
  <2> QED
    BY <1>3, <2>1 DEF Renewed, Shapes
<1> QED
  BY <1>2, <1>5, <1>6, <1>7, BegunQuery

LEMMA StartMCPKeeps ==
  ASSUME Shapes, Locals, NEW p \in Process, StartMCP(p)
  PROVE  Shapes' /\ Locals'
<1>1. PICK c \in Commands[p], l \in {"serving", "stopped"} :
        c.kind = "mcp" /\ cmd' = [cmd EXCEPT ![p] = c] /\ pc' = [pc EXCEPT ![p] = l]
  BY DEF StartMCP, Goto
<1>2. /\ pc[p] = "idle" /\ input' = input /\ res' = res /\ asked' = asked /\ touched' = touched
      /\ calls' = calls
      /\ wire' = wire /\ toggle' = toggle /\ spends' = spends /\ badForm' = badForm
  BY DEF StartMCP, At, resets
<1>3. Obeys(p) /\ wire[p] = Silent
  BY <1>2, IdleFacts DEF Locals
<1>4. l \in Places /\ l # "failed"
  BY PlacesAre
<1>5. Shapes'
  BY <1>1, <1>2, <1>4 DEF Shapes
<1>6. \A q \in Process \ {p} : Stays(q)
  BY <1>1, <1>2 DEF Shapes, Stays
<1>7. cmd'[p] = c /\ pc'[p] = l
  BY <1>1 DEF Shapes
<1>8. Obeys(p)'
  BY <1>1, <1>2, <1>3, <1>4, <1>7 DEF Obeys
<1>9. Placed(p)'
  BY <1>1, <1>7 DEF Placed, QuerySteps, ResetSteps
<1>10. Wired(p)'
  <2>1. Silent.state = "none" /\ wire'[p] = Silent
    BY <1>2, <1>3 DEF Silent
  <2> QED
    BY <1>1, <1>7, <2>1 DEF Wired, WireOK
<1> QED
  BY <1>5, <1>6, <1>8, <1>9, <1>10, Frame

LEMMA ResetIsPlaced ==
  ASSUME NEW p \in Process, pc'[p] = "send", cmd'[p].kind = "reset-once",
         Follows(input'[p], res'[p]), Controls(cmd'[p], res'[p])
  PROVE  Placed(p)'
BY DEF Placed, QuerySteps, ResetSteps

LEMMA WatchIsPlaced ==
  ASSUME NEW p \in Process, pc'[p] = "watching", cmd'[p].kind = "notify",
         Follows(input'[p], res'[p]), ~res'[p].local
  PROVE  Placed(p)'
BY DEF Placed, QuerySteps, ResetSteps

LEMMA StartResetKeeps ==
  ASSUME Shapes, Locals, NEW p \in Process, StartReset(p)
  PROVE  Shapes' /\ Locals'
<1>1. PICK c \in Commands[p], f \in Files :
        LET place == [r \in Resolutions(f, c.flags) |->
                        IF Controls(c, r) THEN "send" ELSE "failed"] IN
        /\ c.kind = "reset-once"
        /\ c.ack => c.action = "cancel"
        /\ cmd' = [cmd EXCEPT ![p] = c]
        /\ wire' = [wire EXCEPT ![p].action = c.action]
        /\ Begin(p, f, c.flags, place)
  BY DEF StartReset
<1> DEFINE flags == c.flags
           place == [r \in Resolutions(f, flags) |-> IF Controls(c, r) THEN "send" ELSE "failed"]
<1>2. /\ Begin(p, f, flags, place)
      /\ \A r \in Resolutions(f, flags) : place[r] = (IF Controls(c, r) THEN "send" ELSE "failed")
  BY <1>1
<1> HIDE DEF flags, place
<1>3. \A r \in Resolutions(f, flags) : place[r] \in Places
  BY <1>2, PlacesAre
<1>4. /\ pc[p] = "idle" /\ asked' = asked /\ touched' = touched /\ calls' = calls
      /\ toggle' = toggle /\ spends' = spends /\ badForm' = badForm
  BY DEF StartReset, At
<1>5. wire[p] = Silent /\ asked'[p] = {} /\ touched'[p] = {}
  BY <1>4, IdleFacts
<1> DEFINE w == [Silent EXCEPT !.action = c.action]
<1>6. /\ c.action \in {"", "status", "arm", "cancel"}
      /\ w \in Wires /\ w.state = "none" /\ w.action = c.action
  <2>1. c.action \in {"", "status", "arm", "cancel"}
    BY CommandAssumption
  <2> QED
    BY <2>1 DEF Silent, Wires
<1>7. wire' = [wire EXCEPT ![p] = w]
  BY <1>1, <1>5
<1> HIDE DEF w
<1>8. cmd'[p] = c /\ wire'[p] = w
  BY <1>1, <1>7 DEF Shapes
<1>9. Renewed(p)
  <2>1. wire' \in [Process -> Wires] /\ \A q \in Process \ {p} : wire'[q] = wire[q]
    BY <1>6, <1>7 DEF Shapes
  <2>2. /\ cmd' = [q \in Process |-> cmd'[q]] /\ \A q \in Process \ {p} : cmd'[q] = cmd[q]
    BY <1>1 DEF Shapes
  <2> QED
    BY <1>4, <2>1, <2>2 DEF Renewed, Shapes
<1>10. cmd'[p] \in Commands[p] \cup {NoCommand} /\ cmd'[p].kind \notin QueryKinds
  BY <1>1, <1>8 DEF QueryKinds, Queries
<1>11. Obeys(p)'
  BY <1>2, <1>3, <1>5, <1>10, BegunObeys
<1>12. \/ pc'[p] = "failed"
       \/ /\ pc'[p] = "send" /\ Controls(c, res'[p]) /\ Follows(input'[p], res'[p])
  <2>1. \/ pc'[p] = "failed"
        \/ /\ res'[p] \in Resolutions(f, flags) /\ pc'[p] = place[res'[p]]
           /\ Follows(input'[p], res'[p])
    BY <1>2, <1>3, BeginFacts
  <2> QED
    BY <1>2, <2>1
<1>13. Placed(p)'
  BY <1>1, <1>8, <1>12, FailedIsPlaced, ResetIsPlaced
<1>14. Wired(p)'
  BY <1>1, <1>6, <1>8, <1>12 DEF Wired, WireOK
<1> QED
  BY <1>2, <1>3, <1>9, <1>11, <1>13, <1>14, BegunKeeps

LEMMA NotifyBegins ==
  ASSUME Shapes, Locals, NEW p \in Process, StartNotify(p)
  PROVE  /\ Shapes' /\ Locals' /\ \A q \in Process \ {p} : Stays(q)
         /\ UNCHANGED << wire, toggle, spends, cursor >>
         /\ pc'[p] = "watching" => MayWatch(cmd'[p], res'[p])
         /\ pc[p] = "idle" /\ cmd'[p].kind = "notify"
<1>1. PICK c \in Commands[p], f \in Files, bus \in BOOLEAN :
        LET place == [r \in Resolutions(f, c.flags) |->
                        IF MayWatch(c, r) /\ bus THEN "watching" ELSE "failed"] IN
        /\ c.kind = "notify"
        /\ cmd' = [cmd EXCEPT ![p] = c]
        /\ Begin(p, f, c.flags, place)
  BY DEF StartNotify
<1> DEFINE flags == c.flags
           place == [r \in Resolutions(f, flags) |->
                       IF MayWatch(c, r) /\ bus THEN "watching" ELSE "failed"]
<1>2. /\ Begin(p, f, flags, place)
      /\ \A r \in Resolutions(f, flags) :
           place[r] = (IF MayWatch(c, r) /\ bus THEN "watching" ELSE "failed")
  BY <1>1
<1> HIDE DEF flags, place
<1>3. \A r \in Resolutions(f, flags) : place[r] \in Places
  BY <1>2, PlacesAre
<1>4. /\ pc[p] = "idle" /\ asked' = asked /\ touched' = touched /\ calls' = calls /\ wire' = wire
      /\ toggle' = toggle /\ spends' = spends /\ badForm' = badForm /\ cursor' = cursor
  BY DEF StartNotify, At, resets
<1>5. wire'[p] = Silent /\ asked'[p] = {} /\ touched'[p] = {}
  BY <1>4, IdleFacts
<1>6. cmd'[p] = c
  BY <1>1 DEF Shapes
<1>7. Renewed(p)
  <2>1. /\ cmd' = [q \in Process |-> cmd'[q]] /\ \A q \in Process \ {p} : cmd'[q] = cmd[q]
    BY <1>1 DEF Shapes
  <2> QED
    BY <1>4, <2>1 DEF Renewed, Shapes
<1>8. cmd'[p] \in Commands[p] \cup {NoCommand} /\ cmd'[p].kind \notin QueryKinds
  BY <1>1, <1>6 DEF QueryKinds, Queries
<1>9. Obeys(p)'
  BY <1>2, <1>3, <1>5, <1>8, BegunObeys
<1>10. \/ pc'[p] = "failed"
       \/ /\ pc'[p] = "watching" /\ MayWatch(c, res'[p]) /\ Follows(input'[p], res'[p])
  <2>1. \/ pc'[p] = "failed"
        \/ /\ res'[p] \in Resolutions(f, flags) /\ pc'[p] = place[res'[p]]
           /\ Follows(input'[p], res'[p])
    BY <1>2, <1>3, BeginFacts
  <2> QED
    BY <1>2, <2>1
<1>11. Placed(p)'
  BY <1>1, <1>6, <1>10, FailedIsPlaced, WatchIsPlaced DEF MayWatch
<1>12. Wired(p)'
  <2>1. Silent.state = "none"
    BY DEF Silent
  <2> QED
    BY <1>1, <1>5, <1>6, <1>10, <2>1 DEF Wired, WireOK
<1>13. Shapes' /\ Locals'
  BY <1>2, <1>3, <1>7, <1>9, <1>11, <1>12, BegunKeeps
<1>14. \A q \in Process \ {p} : pc'[q] = pc[q] /\ input'[q] = input[q] /\ res'[q] = res[q]
  BY <1>2, <1>3, BeginFacts
<1>15. \A q \in Process \ {p} : Stays(q)
  BY <1>7, <1>14 DEF Renewed, Stays
<1> QED
  BY <1>1, <1>4, <1>6, <1>10, <1>13, <1>15

-----------------------------------------------------------------------------
(* What was spent, and the arm commands that paid for it.                  *)

Owed(r) == spends[r] + (IF toggle[r] = "armed" THEN 1 ELSE 0)
OnItsWay(w) == w.action = "arm" /\ w.state \in {"none", "sent"}

LEMMA LandedIsFinite ==
  \A r : /\ IsFiniteSet(Landed(r)) /\ Cardinality(Landed(r)) \in Nat
         /\ Landed(r) \subseteq Arming(r) /\ IsFiniteSet(Arming(r))
<1>1. \A r : Landed(r) \subseteq Arming(r) /\ Arming(r) \subseteq Process
  BY DEF Landed, Arming
<1>2. IsFiniteSet(Process)
  BY ClientAssumption
<1>3. \A r : IsFiniteSet(Arming(r)) /\ IsFiniteSet(Landed(r))
  BY <1>1, <1>2, FS_Subset
<1> QED
  BY <1>1, <1>3, FS_CardinalityType

LEMMA PaidKept ==
  ASSUME Shapes, Shapes', Paid,
         \A r \in Providers : Landed(r) \subseteq Landed(r)',
         \A r \in Providers : \/ Owed(r)' <= Owed(r)
                              \/ Owed(r)' <= Owed(r) + 1 /\ \E p \in Landed(r)' : p \notin Landed(r)
  PROVE  Paid'
<1>1. ASSUME NEW r \in Providers
      PROVE  Owed(r)' <= Cardinality(Landed(r)')
  <2>1. /\ IsFiniteSet(Landed(r)) /\ Cardinality(Landed(r)) \in Nat
        /\ IsFiniteSet(Landed(r)') /\ Cardinality(Landed(r)') \in Nat
    <3>1. IsFiniteSet(Landed(r)')
      <4>1. Landed(r)' \subseteq Process
        BY DEF Landed, Arming
      <4> QED
        BY <4>1, ClientAssumption, FS_Subset
    <3> QED
      BY <3>1, LandedIsFinite, FS_CardinalityType
  <2>2. Owed(r) \in Nat /\ Owed(r)' \in Nat
    <3>1. spends[r] \in Nat /\ spends'[r] \in Nat
      BY DEF Shapes
    <3> QED
      BY <3>1 DEF Owed
  <2>3. Owed(r) <= Cardinality(Landed(r))
    BY DEF Paid, Owed
  <2>4. CASE Owed(r)' <= Owed(r)
    <3>1. Cardinality(Landed(r)) <= Cardinality(Landed(r)')
      BY <2>1, FS_Subset
    <3> QED
      BY <2>1, <2>2, <2>3, <2>4, <3>1
  <2>5. CASE Owed(r)' <= Owed(r) + 1 /\ \E p \in Landed(r)' : p \notin Landed(r)
    <3>1. PICK p \in Landed(r)' : p \notin Landed(r)
      BY <2>5
    <3>2. Cardinality(Landed(r) \cup {p}) = Cardinality(Landed(r)) + 1 /\ IsFiniteSet(Landed(r) \cup {p})
      BY <2>1, <3>1, FS_AddElement
    <3>3. Landed(r) \cup {p} \subseteq Landed(r)'
      BY <3>1
    <3>4. Cardinality(Landed(r) \cup {p}) <= Cardinality(Landed(r)')
      BY <2>1, <3>3, FS_Subset
    <3> QED
      BY <2>1, <2>2, <2>3, <2>5, <3>2, <3>4
  <2> QED
    BY <2>4, <2>5
<1> QED
  BY <1>1 DEF Paid, Owed

(* A command whose request left for good stays one. *)
LEMMA LandedStays ==
  ASSUME NEW p \in Process, cmd' = cmd,
         \A q \in Process \ {p} : wire'[q] = wire[q],
         OnItsWay(wire'[p]) => OnItsWay(wire[p])
  PROVE  \A r \in Providers : Landed(r) \subseteq Landed(r)'
<1>1. ASSUME NEW r \in Providers, NEW q \in Landed(r)
      PROVE  q \in Landed(r)'
  <2>1. /\ q \in Process /\ cmd[q].kind = "reset-once" /\ cmd[q].action = "arm" /\ cmd[q].provider = r
        /\ ~OnItsWay(wire[q])
    BY DEF Landed, Arming, OnItsWay
  <2>2. ~OnItsWay(wire'[q])
    BY <2>1
  <2> QED
    BY <2>1, <2>2 DEF Landed, Arming, OnItsWay
<1> QED
  BY <1>1

(* A process that was idle is none of them. *)
LEMMA LandedAtStart ==
  ASSUME Shapes, Locals, NEW p \in Process, pc[p] = "idle",
         \A q \in Process \ {p} : cmd'[q] = cmd[q] /\ wire'[q] = wire[q]
  PROVE  \A r \in Providers : Landed(r) \subseteq Landed(r)'
<1>1. cmd[p].kind # "reset-once"
  <2>1. NoCommand.kind = "none"
    BY DEF NoCommand
  <2>2. cmd[p] = NoCommand
    BY IdleFacts
  <2> QED
    BY <2>1, <2>2
<1>2. ASSUME NEW r \in Providers, NEW q \in Landed(r)
      PROVE  q \in Landed(r)'
  <2>1. q # p /\ q \in Process
    BY <1>1 DEF Landed, Arming
  <2> QED
    BY <2>1 DEF Landed, Arming
<1> QED
  BY <1>2

LEMMA OwedStays ==
  ASSUME Shapes, spends' = spends, toggle' = toggle
  PROVE  \A r \in Providers : Owed(r)' <= Owed(r)
BY DEF Owed, Shapes

LEMMA PaidByNothing ==
  ASSUME Shapes, Shapes', Paid, cmd' = cmd, wire' = wire, spends' = spends, toggle' = toggle
  PROVE  Paid'
<1>1. \A r \in Providers : Landed(r)' = Landed(r)
  BY DEF Landed, Arming
<1> QED
  BY <1>1, OwedStays, PaidKept

LEMMA PaidAtStart ==
  ASSUME Shapes, Locals, Shapes', Paid, NEW p \in Process,
         StartQuery(p) \/ StartMCP(p) \/ StartReset(p) \/ StartNotify(p)
  PROVE  Paid'
<1>1. pc[p] = "idle" /\ spends' = spends /\ toggle' = toggle
  BY DEF StartQuery, StartMCP, StartReset, StartNotify, At, resets
<1>2. \A q \in Process \ {p} : cmd'[q] = cmd[q]
  BY DEF StartQuery, StartMCP, StartReset, StartNotify, Shapes
<1>3. \A q \in Process \ {p} : wire'[q] = wire[q]
  BY DEF StartQuery, StartMCP, StartReset, StartNotify, resets, Shapes
<1> QED
  BY <1>1, <1>2, <1>3, LandedAtStart, OwedStays, PaidKept

LEMMA PaidByClient ==
  ASSUME Shapes, Locals, Shapes', Paid, NEW p \in Process,
         Send(p) \/ NotReached(p) \/ Receive(p) \/ Offer(p)
  PROVE  Paid'
<1>1. cmd' = cmd /\ spends' = spends /\ toggle' = toggle
  BY DEF Send, NotReached, Receive, Offer
<1>2. wire[p] \in Wires /\ WireOK(pc[p], cmd[p], res[p], wire[p])
  BY DEF Shapes, Locals, Wired
<1>3. PICK w \in Wires : wire' = [wire EXCEPT ![p] = w] /\ (OnItsWay(w) => OnItsWay(wire[p]))
  <2>1. CASE Send(p)
    <3> DEFINE w == [wire[p] EXCEPT !.state = "sent"]
    <3>1. w \in Wires /\ w.action = wire[p].action
      BY <1>2 DEF Wires
    <3>2. wire' = [wire EXCEPT ![p] = w]
      BY <2>1 DEF Send
    <3>3. wire[p].state = "none"
      BY <1>2, <2>1 DEF Send, At, WireOK
    <3> HIDE DEF w
    <3> QED
      BY <3>1, <3>2, <3>3 DEF OnItsWay
  <2>2. CASE NotReached(p)
    <3> DEFINE w == [wire[p] EXCEPT !.state = "answered", !.answer = "error"]
    <3>1. w \in Wires /\ w.state = "answered"
      BY AnswerIs
    <3>2. wire' = [wire EXCEPT ![p] = w]
      BY <2>2 DEF NotReached
    <3> HIDE DEF w
    <3> QED
      BY <3>1, <3>2 DEF OnItsWay
  <2>3. CASE Receive(p) \/ Offer(p)
    <3> DEFINE w == [Silent EXCEPT !.action = "use-now"]
    <3>1. w \in Wires /\ w.action = "use-now"
      BY DEF Silent, Wires
    <3>2. wire' = [wire EXCEPT ![p] = w] \/ wire' = wire
      BY <2>3 DEF Receive, Offer
    <3>3. wire = [wire EXCEPT ![p] = wire[p]]
      BY DEF Shapes
    <3> HIDE DEF w
    <3> QED
      BY <1>2, <3>1, <3>2, <3>3 DEF OnItsWay
  <2> QED
    BY <2>1, <2>2, <2>3
<1>4. wire'[p] = w /\ \A q \in Process \ {p} : wire'[q] = wire[q]
  BY <1>3 DEF Shapes
<1> QED
  BY <1>1, <1>3, <1>4, LandedStays, OwedStays, PaidKept

LEMMA PaidByGuardedRefresh ==
  ASSUME Shapes, Shapes', Paid, NEW r \in Providers, GuardedRefresh(r)
  PROVE  Paid'
<1>1. PICK o \in Redeemed : /\ toggle' = [toggle EXCEPT ![r] = o[1]]
                            /\ spends' = [spends EXCEPT ![r] = @ + o[2]]
  BY DEF GuardedRefresh
<1>2. toggle[r] = "armed" /\ cmd' = cmd /\ wire' = wire
  BY DEF GuardedRefresh
<1>3. (IF o[1] = "armed" THEN 1 ELSE 0) + o[2] <= 1 /\ o[2] \in {0, 1}
  BY <1>1 DEF Redeemed
<1>4. ASSUME NEW q \in Providers
      PROVE  Owed(q)' <= Owed(q)
  <2>1. spends[q] \in Nat
    BY DEF Shapes
  <2>2. CASE q # r
    BY <1>1, <2>1, <2>2 DEF Owed, Shapes
  <2>3. CASE q = r
    <3>1. spends'[q] = spends[q] + o[2] /\ toggle'[q] = o[1]
      BY <1>1, <2>3 DEF Shapes
    <3> QED
      BY <1>2, <1>3, <2>1, <2>3, <3>1 DEF Owed
  <2> QED
    BY <2>2, <2>3
<1>5. \A q \in Providers : Landed(q)' = Landed(q)
  BY <1>2 DEF Landed, Arming
<1> QED
  BY <1>4, <1>5, PaidKept

LEMMA PaidByHandle ==
  ASSUME Shapes, Locals, Shapes', Paid, NEW p \in Process, Handle(p)
  PROVE  Paid'
<1>1. /\ wire[p].state = "sent" /\ cmd' = cmd
      /\ \/ /\ wire' = [wire EXCEPT ![p] = [wire[p] EXCEPT !.state = "answered", !.answer = "error"]]
            /\ toggle' = toggle /\ spends' = spends
         \/ \E o \in Outcomes(wire[p].action, cmd[p].ack, toggle[cmd[p].provider]) :
              /\ wire' = [wire EXCEPT ![p] = [wire[p] EXCEPT !.state = "answered", !.answer = o[1]]]
              /\ toggle' = [toggle EXCEPT ![cmd[p].provider] = o[1]]
              /\ spends' = [spends EXCEPT ![cmd[p].provider] = @ + o[2]]
  BY Handled
<1>2. WireOK(pc[p], cmd[p], res[p], wire[p]) /\ wire[p] \in Wires
  BY DEF Locals, Wired, Shapes
<1>3. /\ cmd[p].kind = "reset-once" /\ cmd[p].provider \in Providers
      /\ wire[p].action = "arm" => cmd[p].action = "arm"
  BY <1>1, <1>2 DEF WireOK, Controls
<1>4. /\ ~OnItsWay(wire'[p])
      /\ \A q \in Process \ {p} : wire'[q] = wire[q]
  <2>1. ASSUME NEW a, wire' = [wire EXCEPT ![p] = [wire[p] EXCEPT !.state = "answered", !.answer = a]]
        PROVE  /\ ~OnItsWay(wire'[p])
               /\ \A q \in Process \ {p} : wire'[q] = wire[q]
    <3> DEFINE w == [wire[p] EXCEPT !.state = "answered", !.answer = a]
    <3>1. w.state = "answered"
      BY <1>2 DEF Wires
    <3>2. wire' = [wire EXCEPT ![p] = w]
      BY <2>1
    <3> HIDE DEF w
    <3> QED
      BY <3>1, <3>2 DEF Shapes, OnItsWay
  <2> QED
    BY <1>1, <2>1
<1>5. \A r \in Providers : Landed(r) \subseteq Landed(r)'
  BY <1>1, <1>4, LandedStays
<1>6. ASSUME NEW r \in Providers
      PROVE  \/ Owed(r)' <= Owed(r)
             \/ Owed(r)' <= Owed(r) + 1 /\ \E q \in Landed(r)' : q \notin Landed(r)
  <2>1. CASE toggle' = toggle /\ spends' = spends
    BY <2>1, OwedStays
  <2>2. ASSUME NEW o \in Outcomes(wire[p].action, cmd[p].ack, toggle[cmd[p].provider]),
               toggle' = [toggle EXCEPT ![cmd[p].provider] = o[1]],
               spends' = [spends EXCEPT ![cmd[p].provider] = @ + o[2]]
        PROVE  \/ Owed(r)' <= Owed(r)
               \/ Owed(r)' <= Owed(r) + 1 /\ \E q \in Landed(r)' : q \notin Landed(r)
    <3>1. /\ o[2] \in {0, 1}
          /\ o[2] = 1 => toggle[cmd[p].provider] = "armed" /\ o[1] # "armed"
          /\ o[1] = "armed" => toggle[cmd[p].provider] = "armed" \/ wire[p].action = "arm"
      BY <1>3, OutcomeFacts DEF Shapes
    <3>2. spends[r] \in Nat
      BY DEF Shapes
    <3>3. CASE r # cmd[p].provider
      BY <2>2, <3>2, <3>3 DEF Owed, Shapes
    <3>4. CASE r = cmd[p].provider
      <4>1. spends'[r] = spends[r] + o[2] /\ toggle'[r] = o[1]
        BY <1>3, <2>2, <3>4 DEF Shapes
      <4>2. CASE wire[p].action = "arm"
        <5>1. p \in Landed(r)' /\ p \notin Landed(r)
          <6>1. OnItsWay(wire[p])
            BY <1>1, <4>2 DEF OnItsWay
          <6> QED
            BY <1>1, <1>3, <1>4, <3>4, <4>2, <6>1 DEF Landed, Arming, OnItsWay
        <5>2. Owed(r)' <= Owed(r) + 1
          BY <3>1, <3>2, <3>4, <4>1 DEF Owed
        <5> QED
          BY <5>1, <5>2
      <4>3. CASE wire[p].action # "arm"
        BY <3>1, <3>2, <3>4, <4>1, <4>3 DEF Owed
      <4> QED
        BY <4>2, <4>3
    <3> QED
      BY <3>3, <3>4
  <2> QED
    BY <1>1, <2>1, <2>2
<1> QED
  BY <1>5, <1>6, PaidKept

-----------------------------------------------------------------------------
(* State files and their watchers.                                         *)

(* No new watcher, and no state file written. *)
NoNewWatcher == \A q \in Process : pc'[q] = "watching" =>
                  pc[q] = "watching" /\ cmd'[q] = cmd[q] /\ res'[q] = res[q]

LEMMA KeptStays ==
  ASSUME Kept, cursor' = cursor, NoNewWatcher
  PROVE  Kept'
<1>1. \A q \in Process : pc'[q] = "watching" =>
        pc[q] = "watching" /\ FileOf(q)' = FileOf(q) /\ res'[q] = res[q]
  BY DEF NoNewWatcher, FileOf
<1> QED
  BY <1>1 DEF Kept

LEMMA BeginOthers ==
  ASSUME Shapes, NEW p \in Process, NEW file, NEW flags, NEW place, Begin(p, file, flags, place)
  PROVE  \A q \in Process \ {p} : pc'[q] = pc[q] /\ res'[q] = res[q]
<1>1. CASE Resolutions(file, flags) = {}
  BY <1>1 DEF Begin, Goto, Shapes
<1>2. CASE Resolutions(file, flags) # {}
  <2>1. PICK r \in Resolutions(file, flags) : Goto(p, place[r]) /\ res' = [res EXCEPT ![p] = r]
    BY <1>2 DEF Begin
  <2> QED
    BY <2>1 DEF Goto, Shapes
<1> QED
  BY <1>1, <1>2

LEMMA StartsWatchNothing ==
  ASSUME Shapes, Locals, Locals', NEW p \in Process,
         StartQuery(p) \/ StartMCP(p) \/ CallTool(p) \/ StartReset(p)
  PROVE  NoNewWatcher
<1>1. Placed(p)'
  BY DEF Locals
<1>2. cmd'[p].kind # "notify"
  <2>1. CASE StartQuery(p) \/ StartMCP(p) \/ StartReset(p)
    <3>1. PICK c \in Commands[p] : cmd' = [cmd EXCEPT ![p] = c] /\ c.kind # "notify"
      BY <2>1 DEF StartQuery, StartMCP, StartReset, Queries
    <3> QED
      BY <3>1 DEF Shapes
  <2>2. CASE CallTool(p)
    <3>1. cmd' = cmd /\ pc[p] = "serving"
      BY <2>2 DEF CallTool, At
    <3> QED
      BY <3>1 DEF Locals, Placed
  <2> QED
    BY <2>1, <2>2
<1>3. \A q \in Process \ {p} : cmd'[q] = cmd[q]
  BY DEF StartQuery, StartMCP, CallTool, StartReset, Shapes
<1>4. \A q \in Process \ {p} : pc'[q] = pc[q] /\ res'[q] = res[q]
  <2>1. CASE StartQuery(p)
    <3>1. PICK c \in Commands[p], f \in Files : Begin(p, f, c.flags, QueryAt(Resolutions(f, c.flags)))
      BY <2>1 DEF StartQuery
    <3> QED
      BY <3>1, BeginOthers
  <2>2. CASE StartMCP(p)
    BY <2>2 DEF StartMCP, Goto, Shapes
  <2>3. CASE CallTool(p)
    <3>1. PICK f \in Files, offline \in BOOLEAN :
            LET flags == BaseCLIArgs(cmd[p].flags, offline) IN
            Begin(p, f, flags, QueryAt(Resolutions(f, flags)))
      BY <2>3 DEF CallTool
    <3> QED
      BY <3>1, BeginOthers
  <2>4. CASE StartReset(p)
    <3>1. PICK c \in Commands[p], f \in Files :
            Begin(p, f, c.flags, [r \in Resolutions(f, c.flags) |->
                                    IF Controls(c, r) THEN "send" ELSE "failed"])
      BY <2>4 DEF StartReset
    <3> QED
      BY <3>1, BeginOthers
  <2> QED
    BY <2>1, <2>2, <2>3, <2>4
<1>5. pc'[p] # "watching"
  BY <1>1, <1>2 DEF Placed
<1> QED
  BY <1>3, <1>4, <1>5 DEF NoNewWatcher

LEMMA NotifyKeepsFiles ==
  ASSUME Shapes, Locals, Kept, NEW p \in Process, StartNotify(p)
  PROVE  Kept'
<1>1. /\ \A q \in Process \ {p} : Stays(q)
      /\ cursor' = cursor
      /\ pc'[p] = "watching" => MayWatch(cmd'[p], res'[p])
      /\ pc[p] = "idle"
  BY NotifyBegins
<1>2. \A q \in Process \ {p} : pc'[q] = pc[q] /\ FileOf(q)' = FileOf(q) /\ res'[q] = res[q]
  BY <1>1 DEF Stays, FileOf
<1>3. pc'[p] = "watching" =>
        /\ \A q \in Process : ~(pc[q] = "watching" /\ FileOf(q) = FileOf(p)')
        /\ \A k \in cursor : k.file = FileOf(p)' => k.daemon = res'[p].origin
  BY <1>1 DEF MayWatch, Watches, At, FileOf
<1>4. \A k, l \in cursor' : k.file = l.file => k.daemon = l.daemon
  BY <1>1 DEF Kept
<1>5. \A q \in Process : pc'[q] = "watching" =>
        \A k \in cursor' : k.file = FileOf(q)' => k.daemon = res'[q].origin
  BY <1>1, <1>2, <1>3 DEF Kept
<1>6. \A q, r \in Process :
        q # r => ~(pc'[q] = "watching" /\ pc'[r] = "watching" /\ FileOf(q)' = FileOf(r)')
  BY <1>2, <1>3 DEF Kept
<1> QED
  BY <1>4, <1>5, <1>6 DEF Kept

LEMMA PollKeepsFiles ==
  ASSUME Kept, NEW p \in Process, PollEvents(p)
  PROVE  /\ Kept'
         /\ \A k \in cursor, l \in cursor' : k.file = l.file => k.daemon = l.daemon
<1>1. /\ pc[p] = "watching" /\ pc' = pc /\ cmd' = cmd /\ res' = res
      /\ \/ cursor' = cursor
         \/ cursor' = {k \in cursor : k.file # FileOf(p)}
                        \cup {[file |-> FileOf(p), daemon |-> res[p].origin]}
  BY DEF PollEvents, At, FileOf
<1>2. \A q \in Process : FileOf(q)' = FileOf(q)
  BY <1>1 DEF FileOf
<1>3. \A l \in cursor' : \/ l \in cursor
                         \/ l.file = FileOf(p) /\ l.daemon = res[p].origin
  BY <1>1
<1>4. \A k \in cursor : k.file = FileOf(p) => k.daemon = res[p].origin
  BY <1>1 DEF Kept
<1>5. \A k, l \in cursor' : k.file = l.file => k.daemon = l.daemon
  BY <1>3, <1>4 DEF Kept
<1>6. \A q \in Process : pc'[q] = "watching" =>
        \A k \in cursor' : k.file = FileOf(q)' => k.daemon = res'[q].origin
  <2> SUFFICES ASSUME NEW q \in Process, pc'[q] = "watching",
                      NEW k \in cursor', k.file = FileOf(q)'
               PROVE  k.daemon = res'[q].origin
    OBVIOUS
  <2>1. CASE k \in cursor
    BY <1>1, <1>2, <2>1 DEF Kept
  <2>2. CASE k.file = FileOf(p) /\ k.daemon = res[p].origin
    <3>1. q = p
      BY <1>1, <1>2, <2>2 DEF Kept
    <3> QED
      BY <1>1, <2>2, <3>1
  <2> QED
    BY <1>3, <2>1, <2>2
<1>7. \A q, r \in Process :
        q # r => ~(pc'[q] = "watching" /\ pc'[r] = "watching" /\ FileOf(q)' = FileOf(r)')
  BY <1>1, <1>2 DEF Kept
<1>8. \A k \in cursor, l \in cursor' : k.file = l.file => k.daemon = l.daemon
  BY <1>3, <1>4 DEF Kept
<1> QED
  BY <1>5, <1>6, <1>7, <1>8 DEF Kept

-----------------------------------------------------------------------------
(* The invariant is inductive.                                             *)

(* The steps after which nobody watches who did not, and no state file is   *)
(* written.                                                                 *)
LEMMA OthersWatchNothing ==
  ASSUME Shapes, NEW p \in Process, Work(p) \/ EndMCP(p) \/ StopNotify(p) \/ Handle(p) \/ NotReached(p)
  PROVE  NoNewWatcher /\ cursor' = cursor
<1>1. cmd' = cmd /\ res' = res /\ cursor' = cursor
  BY DEF Work, PrimaryAnswers, PrimaryFails, AskAlternate, LoadLocal, LockLocal, RefreshLocal,
         ToolResult, Send, GiveUp, Receive, Offer, EndMCP, StopNotify, Handle, NotReached
<1>2. pc' = pc \/ \E l \in Places \ {"watching"} : pc' = [pc EXCEPT ![p] = l]
  <2>1. CASE Handle(p) \/ NotReached(p)
    BY <2>1 DEF Handle, NotReached
  <2>2. CASE PrimaryAnswers(p) \/ AskAlternate(p) \/ LoadLocal(p) \/ LockLocal(p) \/ RefreshLocal(p)
    BY <2>2, PlacesAre
       DEF PrimaryAnswers, AskAlternate, LoadLocal, LockLocal, RefreshLocal, Goto
  <2>3. CASE PrimaryFails(p)
    BY <2>3, PlacesAre DEF PrimaryFails, Goto
  <2>4. CASE ToolResult(p) \/ Send(p) \/ GiveUp(p) \/ Offer(p) \/ EndMCP(p) \/ StopNotify(p)
    BY <2>4, PlacesAre DEF ToolResult, Send, GiveUp, Offer, EndMCP, StopNotify, Goto
  <2>5. CASE Receive(p)
    BY <2>5, PlacesAre DEF Receive, Goto
  <2> QED
    BY <2>1, <2>2, <2>3, <2>4, <2>5 DEF Work
<1> QED
  BY <1>1, <1>2 DEF NoNewWatcher, Shapes

LEMMA StepKeeps ==
  ASSUME Inv, NEW p \in Process,
         \/ StartQuery(p) \/ StartMCP(p) \/ CallTool(p) \/ EndMCP(p) \/ Work(p)
         \/ StartReset(p) \/ Handle(p) \/ NotReached(p)
         \/ StartNotify(p) \/ PollEvents(p) \/ StopNotify(p)
  PROVE  Inv'
<1>1. Shapes /\ Locals /\ Paid /\ Kept
  BY DEF Inv
<1>2. Shapes' /\ Locals'
  BY <1>1, PrimaryAnswersKeeps, PrimaryFailsKeeps, AskAlternateKeeps, LocalStepsKeep, EndingsKeep,
     SendKeeps, ReceiveKeeps, NotReachedKeeps, HandleKeeps, StartQueryKeeps, StartMCPKeeps,
     CallToolKeeps, StartResetKeeps, NotifyBegins, PollEventsKeeps DEF Work
<1>3. Paid'
  <2>1. CASE StartQuery(p) \/ StartMCP(p) \/ StartReset(p) \/ StartNotify(p)
    BY <1>1, <1>2, <2>1, PaidAtStart
  <2>2. CASE Send(p) \/ NotReached(p) \/ Receive(p) \/ Offer(p)
    BY <1>1, <1>2, <2>2, PaidByClient
  <2>3. CASE Handle(p)
    BY <1>1, <1>2, <2>3, PaidByHandle
  <2>4. CASE \/ PrimaryAnswers(p) \/ PrimaryFails(p) \/ AskAlternate(p)
             \/ LoadLocal(p) \/ LockLocal(p) \/ RefreshLocal(p) \/ ToolResult(p)
             \/ GiveUp(p) \/ CallTool(p) \/ EndMCP(p) \/ PollEvents(p) \/ StopNotify(p)
    <3>1. cmd' = cmd /\ wire' = wire /\ spends' = spends /\ toggle' = toggle
      BY <2>4 DEF PrimaryAnswers, PrimaryFails, AskAlternate, LoadLocal, LockLocal, RefreshLocal,
                  ToolResult, GiveUp, CallTool, EndMCP, PollEvents, StopNotify, resets
    <3> QED
      BY <1>1, <1>2, <3>1, PaidByNothing
  <2> QED
    BY <2>1, <2>2, <2>3, <2>4 DEF Work
<1>4. Kept'
  <2>1. CASE StartQuery(p) \/ StartMCP(p) \/ CallTool(p) \/ StartReset(p)
    <3>1. cursor' = cursor
      BY <2>1 DEF StartQuery, StartMCP, CallTool, StartReset
    <3> QED
      BY <1>1, <1>2, <2>1, <3>1, StartsWatchNothing, KeptStays
  <2>2. CASE StartNotify(p)
    BY <1>1, <2>2, NotifyKeepsFiles
  <2>3. CASE PollEvents(p)
    BY <1>1, <2>3, PollKeepsFiles
  <2>4. CASE Work(p) \/ EndMCP(p) \/ StopNotify(p) \/ Handle(p) \/ NotReached(p)
    BY <1>1, <2>4, OthersWatchNothing, KeptStays
  <2> QED
    BY <2>1, <2>2, <2>3, <2>4
<1> QED
  BY <1>2, <1>3, <1>4 DEF Inv

LEMMA InvHolds == Spec => []Inv
<1>1. Init => Inv
  BY InitHolds
<1>2. Inv /\ [Next]_vars => Inv'
  <2> SUFFICES ASSUME Inv, [Next]_vars
               PROVE  Inv'
    OBVIOUS
  <2>1. ASSUME NEW r \in Providers, GuardedRefresh(r)
        PROVE  Inv'
    <3>1. Shapes /\ Locals /\ Paid /\ Kept
      BY DEF Inv
    <3>2. Shapes' /\ Locals'
      BY <2>1, <3>1, GuardedRefreshKeeps
    <3>3. Paid'
      BY <2>1, <3>1, <3>2, PaidByGuardedRefresh
    <3>4. NoNewWatcher /\ cursor' = cursor
      BY <2>1 DEF GuardedRefresh, NoNewWatcher
    <3> QED
      BY <3>1, <3>2, <3>3, <3>4, KeptStays DEF Inv
  <2>2. CASE Next
    BY <2>1, <2>2, StepKeeps DEF Next
  <2>3. CASE UNCHANGED vars
    <3>1. /\ UNCHANGED << pc, cmd, input, res, asked, touched, calls, cursor >>
          /\ UNCHANGED << wire, toggle, spends, badForm >>
      BY <2>3 DEF vars, resets
    <3>2. Shapes /\ Locals /\ Paid /\ Kept
      BY DEF Inv
    <3>3. Shapes'
      BY <3>1, <3>2 DEF Shapes
    <3>4. ASSUME NEW p \in Process
          PROVE  (Obeys(p) /\ Placed(p) /\ Wired(p))'
      BY <3>1, <3>2 DEF Locals, Obeys, Placed, Wired
    <3>5. Locals'
      BY <3>4 DEF Locals
    <3>6. Paid'
      BY <3>1, <3>2, <3>3, PaidByNothing
    <3>7. Kept'
      BY <3>1, <3>2, KeptStays DEF NoNewWatcher
    <3> QED
      BY <3>3, <3>5, <3>6, <3>7 DEF Inv
  <2> QED
    BY <2>2, <2>3
<1> QED
  BY <1>1, <1>2, PTL DEF Spec

-----------------------------------------------------------------------------
(* The theorems.                                                           *)

(* Whatever the files, the flags and the answers are, a command asks only   *)
(* the daemons it was told of, nothing local and no second daemon under     *)
(* require-daemon, and gives a prefer-daemon query up only after it tried   *)
(* the local snapshot (clientpolicy/policy.go, cli/usage.go, mcp/mcp.go).   *)
THEOREM PolicyHolds == Spec => []PolicyIsKept
<1>1. Inv => PolicyIsKept
  <2> SUFFICES ASSUME Inv
               PROVE  PolicyIsKept
    OBVIOUS
  <2>1. Shapes /\ \A p \in Process : Obeys(p) /\ Placed(p)
    BY DEF Inv, Locals
  <2>2. TypeOK
    <3>1. ASSUME NEW p \in Process
          PROVE  /\ cmd[p] \in Commands[p] \cup {NoCommand}
                 /\ input[p].file \in Files \cup {NoFile} /\ input[p].user \in UserFiles \cup {NoFile}
                 /\ res[p].mode \in Modes
                 /\ pc[p] \in {"primary", "alternate", "send", "wait", "offer", "watching"} =>
                      res[p].origin.scheme \in {"http", "https"}
                 /\ touched[p] \subseteq Local
                 /\ calls[p] \in 0..MaxCalls
                 /\ wire[p].state \in {"none", "sent", "answered"}
      <4>1. Obeys(p) /\ Placed(p)
        BY <2>1
      <4>2. pc[p] \in {"primary", "alternate", "send", "wait", "offer", "watching"} =>
              ~res[p].local /\ Follows(input[p], res[p])
        BY <4>1 DEF Placed, QuerySteps, ResetSteps, Controls
      <4>3. pc[p] \in {"primary", "alternate", "send", "wait", "offer", "watching"} =>
              res[p].origin.scheme \in {"http", "https"}
        BY <4>2 DEF Follows
      <4>4. calls[p] \in 0..MaxCalls /\ wire[p] \in Wires
        BY <2>1 DEF Shapes
      <4> QED
        BY <4>1, <4>3, <4>4 DEF Obeys, Wires
    <3>2. /\ pc \in [Process -> Places]
          /\ toggle \in [Providers -> {"off", "armed", "unknown"}]
          /\ spends \in [Providers -> Nat] /\ badForm \in BOOLEAN
      BY <2>1 DEF Shapes
    <3> QED
      BY <3>1, <3>2 DEF TypeOK
  <2>3. FailsClosed
    <3>1. ASSUME NEW p \in Process, input[p].file.loads, input[p].file.mode = "require-daemon"
          PROVE  touched[p] = {} /\ \A o1, o2 \in asked[p] : o1 = o2
      <4>1. touched[p] = {} /\ asked[p] \subseteq {res[p].origin}
        BY <2>1, <3>1 DEF Obeys
      <4> QED
        BY <4>1
    <3> QED
      BY <3>1 DEF FailsClosed
  <2>4. AsksOnlyWhereTold
    BY <2>1 DEF Obeys, AsksOnlyWhereTold
  <2>5. PreferFallsBack
    BY <2>1 DEF Obeys, PreferFallsBack, At, QueryKinds
  <2> QED
    BY <2>2, <2>3, <2>4, <2>5 DEF PolicyIsKept
<1> QED
  BY <1>1, InvHolds, PTL

(* However many clients run, and whatever is lost, late or refused, each    *)
(* arm command redeems at most one reset (cli/reset_once.go).               *)
THEOREM OneSpendHolds == Spec => []OneSpendPerArm
<1>1. Inv => OneSpendPerArm
  <2> SUFFICES ASSUME Inv, NEW r \in Providers
               PROVE  spends[r] <= Cardinality(Arming(r))
    BY DEF OneSpendPerArm, Arming
  <2>1. spends[r] + (IF toggle[r] = "armed" THEN 1 ELSE 0) <= Cardinality(Landed(r)) /\ spends[r] \in Nat
    BY DEF Inv, Paid, Shapes
  <2>2. /\ IsFiniteSet(Arming(r)) /\ Landed(r) \subseteq Arming(r) /\ Cardinality(Landed(r)) \in Nat
    BY LandedIsFinite
  <2>3. Cardinality(Landed(r)) <= Cardinality(Arming(r)) /\ Cardinality(Arming(r)) \in Nat
    BY <2>2, FS_Subset, FS_CardinalityType
  <2> QED
    BY <2>1, <2>2, <2>3
<1> QED
  BY <1>1, InvHolds, PTL

(* No request of the command is refused by the handlers for its form or for *)
(* where it came from (httpapi/reset_once.go).                              *)
THEOREM FormHolds == Spec => []FormIsAccepted
<1>1. Inv => FormIsAccepted
  BY DEF Inv, Shapes, FormIsAccepted
<1> QED
  BY <1>1, InvHolds, PTL

(* A state file never passes from one daemon to another, and never has two  *)
(* watchers (cli/notify.go).                                                *)
THEOREM CursorHolds == Spec => CursorKeepsItsDaemon
<1>1. Inv /\ Inv' /\ [Next]_vars =>
        [ /\ \A k \in cursor, l \in cursor' : k.file = l.file => k.daemon = l.daemon
          /\ \A p, q \in Process :
               p # q => ~(/\ At(p, "watching")' /\ At(q, "watching")'
                          /\ StateFile(cmd'[p], res'[p]) = StateFile(cmd'[q], res'[q])) ]_vars
  <2> SUFFICES ASSUME Inv, Inv', Next
               PROVE  /\ \A k \in cursor, l \in cursor' : k.file = l.file => k.daemon = l.daemon
                      /\ \A p, q \in Process :
                           p # q => ~(/\ At(p, "watching")' /\ At(q, "watching")'
                                      /\ StateFile(cmd'[p], res'[p]) = StateFile(cmd'[q], res'[q]))
    OBVIOUS
  <2>1. Shapes /\ Locals /\ Kept /\ Kept' /\ Locals'
    BY DEF Inv
  <2>2. \A p, q \in Process :
          p # q => ~(/\ At(p, "watching")' /\ At(q, "watching")'
                     /\ StateFile(cmd'[p], res'[p]) = StateFile(cmd'[q], res'[q]))
    BY <2>1 DEF Kept, At, FileOf
  <2>3. CASE \E p \in Process : PollEvents(p)
    BY <2>1, <2>2, <2>3, PollKeepsFiles
  <2>4. CASE ~ \E p \in Process : PollEvents(p)
    <3>1. cursor' = cursor
      <4>1. ASSUME NEW p \in Process, StartQuery(p) \/ StartMCP(p) \/ CallTool(p) \/ StartReset(p)
                                        \/ StartNotify(p)
            PROVE  cursor' = cursor
        BY <4>1 DEF StartQuery, StartMCP, CallTool, StartReset, StartNotify
      <4>2. ASSUME NEW p \in Process, Work(p) \/ EndMCP(p) \/ StopNotify(p) \/ Handle(p) \/ NotReached(p)
            PROVE  cursor' = cursor
        BY <2>1, <4>2, OthersWatchNothing
      <4>3. ASSUME NEW r \in Providers, GuardedRefresh(r)
            PROVE  cursor' = cursor
        BY <4>3 DEF GuardedRefresh
      <4> QED
        BY <2>4, <4>1, <4>2, <4>3 DEF Next
    <3> QED
      BY <2>1, <2>2, <3>1 DEF Kept
  <2> QED
    BY <2>3, <2>4
<1> QED
  BY <1>1, InvHolds, PTL DEF Spec, CursorKeepsItsDaemon
=============================================================================
