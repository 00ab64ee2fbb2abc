--------------------------- MODULE MCClaudeToken ---------------------------
(* Small instances of ClaudeToken for TLC. *)
EXTENDS ClaudeToken, TLC

CONSTANTS p1, p2, l1, l2, a1, a2

\* Both calls were given the same credential path: .oauth_refresh.lock in its
\* directory, then the directory's own .lock.
MCSame == (p1 :> << l1, l2 >>) @@ (p2 :> << l1, l2 >>)
=============================================================================
