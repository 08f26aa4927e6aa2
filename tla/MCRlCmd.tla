------------------------------ MODULE MCRlCmd ------------------------------
(* Small instances of RlCmd for TLC. *)
EXTENDS RlCmd, TLC

CONSTANTS c1, c2

OneCaller  == {c1}
TwoCallers == {c1, c2}

(* No timeout, one poll, two polls. *)
ManyTimeouts == {0, 1, 2}
OnePoll      == {1}

ManyTries    == {-1, 0, 1, 2}
FewTries     == {0, 1}

(* Two callers are interchangeable. *)
Symmetric == Permutations(TwoCallers)

BothChld == {"dfl", "ign"}
=============================================================================
