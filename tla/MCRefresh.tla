------------------------------ MODULE MCRefresh ------------------------------
(* Small instances of Refresh for TLC: the times are numbers of ticks. *)
EXTENDS Refresh, TLC

CONSTANTS s1, c1, c2, p1, p2

MCShort == (p1 :> 1) @@ (p2 :> 2)
MCLong == (p1 :> 2) @@ (p2 :> 3)
MCOne == (p1 :> 2)
MCOneStale == (p1 :> 3)
\* Clients run the same code and share the file and the lock.
MCClients == Permutations({c1, c2})
=============================================================================
