----------------------------- MODULE MCCLIProxy -----------------------------
(* A small instance of CLIProxy for TLC. *)
EXTENDS CLIProxy, TLC

CONSTANTS a1, a2

\* Between them the pools have every shape of an account's calls.
MCVendors == {(a1 :> "codex") @@ (a2 :> "antigravity"), (a1 :> "meta") @@ (a2 :> "xai"),
              (a1 :> "claude") @@ (a2 :> "codex")}
=============================================================================
