------------------------------ MODULE MCClient ------------------------------
(* A small instance of Client for TLC. *)
EXTENDS Client

Here(rest)  == [scheme |-> "HTTP", host |-> "localhost", port |-> 8788, rest |-> rest]
There       == [scheme |-> "https", host |-> "lattice", port |-> 443, rest |-> ""]
Elsewhere   == [scheme |-> "ftp", host |-> "lattice", port |-> 21, rest |-> ""]

File(mode, url, host, port) == [loads |-> TRUE, mode |-> mode, url |-> url, host |-> host, port |-> port]

\* Every mode with and without a client URL; a file with an error; no file.
MCFiles ==
  {File("", NoURL, "0.0.0.0", 8788), File("", There, "lattice", 8788),
   File("require-daemon", NoURL, "::", 8788), File("require-daemon", There, "", 8788),
   File("local-only", There, "", 8788), File("prefer-daemon", Elsewhere, "", 8788), NoFile}

\* The user's own file: another daemon's, in another mode, or none.
MCUserFiles == {File("local-only", Here("/"), "", 1), File("require-daemon", NoURL, "lattice", 80), NoFile}

Flags(url, host, port, offline) == [url |-> url, host |-> host, port |-> port, offline |-> offline]

Command(kind, flags) == [NoCommand EXCEPT !.kind = kind, !.flags = flags]

MCFlags ==
  {NoFlags, Flags({Here("/")}, {}, {}, FALSE), Flags({Here("/v1")}, {}, {}, FALSE),
   Flags({There}, {}, {8788}, FALSE), Flags({}, {"[::1]"}, {}, FALSE), Flags({}, {}, {0}, FALSE)}

Offline == {Flags({}, {}, {}, TRUE), Flags({Here("")}, {}, {}, TRUE)}

MCReset(action, provider, now, tty, ack) ==
  [kind |-> "reset-once", flags |-> Flags({Here("")}, {}, {}, FALSE), action |-> action,
   provider |-> provider, now |-> now, tty |-> tty, ack |-> ack, state |-> ""]

\* One process queries, serves an agent, arms or watches; the other arms,
\* cancels or watches meanwhile.
MCCommands(p) ==
  IF p = "c1"
  THEN {Command("usage", f) : f \in MCFlags \cup Offline}
         \cup {Command("mcp", f) : f \in {NoFlags, Flags({Here("/")}, {}, {}, FALSE)}}
         \cup {MCReset("arm", "chatgpt", TRUE, FALSE, FALSE), MCReset("arm", "claude-code", FALSE, TRUE, FALSE),
               [MCReset("status", "chatgpt", FALSE, FALSE, FALSE) EXCEPT !.flags = NoFlags],
               Command("notify", NoFlags), [Command("notify", Flags({}, {"lattice"}, {}, FALSE)) EXCEPT !.state = "s"]}
  ELSE {MCReset("arm", "chatgpt", FALSE, TRUE, FALSE), MCReset("cancel", "chatgpt", FALSE, FALSE, TRUE),
        Command("notify", NoFlags), [Command("notify", NoFlags) EXCEPT !.state = "s"]}

MCCommandLines == [p \in {"c1", "c2"} |-> MCCommands(p)]

\* No state file yet.
MCCursors == {{}}
=============================================================================
