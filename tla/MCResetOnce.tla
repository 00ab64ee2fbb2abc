---------------------------- MODULE MCResetOnce ----------------------------
(* Small instances of ResetOnce for TLC. *)
EXTENDS ResetOnce, TLC

CONSTANTS d1, d2, w1, w2, a1, a2

\* Two daemons with one worker each; one daemon with two workers; one of each.
MCHomeTwo == (w1 :> d1) @@ (w2 :> d2)
MCHomeOne == (w1 :> d1) @@ (w2 :> d1)
MCHomeSolo == (w1 :> d1)

\* Credit 1 and 2 belong to a1, credit 3 to a2; credit 2 expires first.
MCOwnerTwo == (1 :> a1) @@ (2 :> a2)
MCExpiresTwo == (1 :> 2) @@ (2 :> 1)
\* Swapping the daemons together with their workers maps behaviours to
\* behaviours; so does swapping the workers of one daemon.
MCSymmetryTwo == {(d1 :> d2) @@ (d2 :> d1) @@ (w1 :> w2) @@ (w2 :> w1)}

MCOwnerOne == (1 :> a1) @@ (2 :> a1)
MCOwnerSolo == (1 :> a1)
MCExpiresSolo == (1 :> 2)
MCExpiresOne == (1 :> 2) @@ (2 :> 1)

=============================================================================
