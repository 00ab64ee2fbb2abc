------------------------------- MODULE Policy -------------------------------
(***************************************************************************)
(* Where a client command may ask, and whether it may poll providers       *)
(* itself: config.Normalize, NormalizeClientURL, clientpolicy.Resolve, and *)
(* the argument list the MCP server builds for a tool call.                *)
(*                                                                         *)
(* An optional value is a set of at most one element: the flags keep       *)
(* "given" apart from "empty".  A URL is a record of its scheme, host and  *)
(* port and `rest`, what follows them; an origin has no rest.              *)
(***************************************************************************)
EXTENDS Integers

Modes == {"prefer-daemon", "require-daemon", "local-only"}

Ports == 1..65535

NoURL == [scheme |-> "", host |-> "", port |-> 0, rest |-> ""]

\* The one element of an optional value, or d.
ValueOr(opt, d) == IF opt = {} THEN d ELSE CHOOSE v \in opt : TRUE

(***************************************************************************)
(* Origins.                                                                *)
(***************************************************************************)
Origin(scheme, host, port) == [scheme |-> scheme, host |-> host, port |-> port]

\* {} is an error or the empty URL; the callers that tell them apart ask first.
NormalizeClientURL(raw) ==
  LET scheme == CASE raw.scheme \in {"http", "HTTP"}   -> "http"
                  [] raw.scheme \in {"https", "HTTPS"} -> "https"
                  [] OTHER -> ""
  IN  IF scheme # "" /\ raw.host # "" /\ raw.rest \in {"", "/"}
      THEN {Origin(scheme, raw.host, raw.port)} ELSE {}

\* A wildcard listening address is no destination; brackets are not kept.
ClientHost(host) ==
  CASE host \in {"", "0.0.0.0"} -> "127.0.0.1"
    [] host \in {"::", "[::]", "[::1]"} -> "::1"
    [] OTHER -> host

ServerOrigin(host, port) ==
  IF port \in Ports THEN {Origin("http", ClientHost(host), port)} ELSE {}

(***************************************************************************)
(* Configuration.  A file is [loads, mode, url, host, port]; Load gives    *)
(* the normalized configuration, or nothing.                               *)
(***************************************************************************)
WithDefaults(file) ==
  [mode |-> IF file.mode = "" THEN "prefer-daemon" ELSE file.mode,
   url  |-> NormalizeClientURL(file.url),
   host |-> IF file.host = "" THEN "127.0.0.1" ELSE file.host,
   port |-> file.port]

NormalizeConfig(file) ==
  LET cfg == WithDefaults(file)
  IN  IF /\ file.port \in Ports
         /\ cfg.mode \in Modes
         /\ file.url = NoURL \/ cfg.url # {}
      THEN {cfg} ELSE {}

Load(file) == IF file.loads THEN NormalizeConfig(file) ELSE {}

(***************************************************************************)
(* Resolve: the resolutions the configuration and the flags allow, none    *)
(* when they contradict each other.                                        *)
(***************************************************************************)
NoFlags == [url |-> {}, host |-> {}, port |-> {}, offline |-> FALSE]

Ask(cfg, origins, source) ==
  {[mode |-> cfg.mode, local |-> FALSE, origin |-> o, source |-> source] : o \in origins}

StayLocal(cfg) == {[mode |-> cfg.mode, local |-> TRUE, origin |-> Origin("", "", 0), source |-> "none"]}

Resolve(cfg, flags) ==
  IF flags.url # {}
  THEN IF flags.host # {} \/ flags.port # {} \/ flags.offline \/ cfg.mode = "local-only" THEN {}
       ELSE Ask(cfg, NormalizeClientURL(ValueOr(flags.url, NoURL)), "daemon-url")
  ELSE IF flags.offline
  THEN IF cfg.mode = "require-daemon" THEN {} ELSE StayLocal(cfg)
  ELSE IF cfg.mode = "local-only" THEN StayLocal(cfg)
  ELSE IF flags.host # {} \/ flags.port # {}
  THEN Ask(cfg, ServerOrigin(ValueOr(flags.host, cfg.host), ValueOr(flags.port, cfg.port)), "legacy-host-port")
  ELSE IF cfg.url # {} THEN Ask(cfg, cfg.url, "client-url")
  ELSE Ask(cfg, ServerOrigin(cfg.host, cfg.port), "server")

\* What the MCP server passes on: its own options, and a tool's offline.
BaseCLIArgs(opts, offline) == [opts EXCEPT !.offline = @ \/ offline]

LoopbackHost(host) == host \in {"localhost", "127.0.0.1", "::1"}
=============================================================================
