------------------------------ MODULE MCRlLog ------------------------------
(* Small instances of RlLog for TLC. *)
EXTENDS RlLog, TLC

CONSTANTS p1, p2, t1, t2

OneProc    == {p1}
TwoProcs   == {p1, p2}
TwoThreads == {t1, t2}

(* Two threads of one process, or one thread of each of two. *)
SameProc  == [t \in TwoThreads |-> p1]
EachOwn   == (t1 :> p1) @@ (t2 :> p2)

OneFd     == {0}
TwoFds    == {0, 1}
OneFile   == {1}
TwoFiles  == {1, 2}
OneLevel  == {0}
TwoLevels == {0, 4}

(* The threads of one process are interchangeable. *)
Symmetric == Permutations(TwoThreads)
=============================================================================
