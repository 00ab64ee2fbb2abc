----------------------------- MODULE SpendOnce -----------------------------
(***************************************************************************)
(* What the reset-once toggle promises its user, with no file, lock,       *)
(* process or network in sight: an authority to spend.  The user grants    *)
(* it and may withdraw it; while it stands, at most one request to redeem  *)
(* a credit is sent under it, and none after it was withdrawn.  ResetOnce  *)
(* is shown to implement this module.                                      *)
(***************************************************************************)
EXTENDS Naturals

CONSTANTS
    Credit,   \* banked credits
    Owner     \* the account each belongs to

VARIABLES
    granted,    \* how many authorities were granted; the g-th has number g
    withdrawn,  \* the ones that were taken back, or used up by the user
    spends      \* the requests sent under an authority

vars == <<granted, withdrawn, spends>>

Init == granted = 0 /\ withdrawn = {} /\ spends = {}

(* 0 is the authority that was never granted. *)
Known == 0 .. granted

Used == {s.authority : s \in spends}

Grant == granted' = granted + 1 /\ UNCHANGED <<withdrawn, spends>>

(* An authority that never was, or that has been used, may be withdrawn too. *)
Withdraw(g) ==
    /\ withdrawn' = withdrawn \cup {g}
    /\ UNCHANGED <<granted, spends>>

Spend(g, c) ==
    /\ g > 0 /\ g \notin withdrawn /\ g \notin Used
    /\ spends' = spends \cup {[authority |-> g, credit |-> c, account |-> Owner[c]]}
    /\ UNCHANGED <<granted, withdrawn>>

Next ==
    \/ Grant
    \/ \E g \in Known : Withdraw(g)
    \/ \E g \in Known, c \in Credit : Spend(g, c)

Spec == Init /\ [][Next]_vars
=============================================================================
