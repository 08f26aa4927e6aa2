------------------------------ MODULE MCRlMem ------------------------------
(* Small instances of RlMem for TLC. *)
EXTENDS RlMem

CONSTANTS t1, t2, a1, a2, a3

OneThread  == {t1}
TwoThreads == {t1, t2}
TwoAddrs   == {a1, a2}
ThreeAddrs == {a1, a2, a3}

OneByte    == {1}
TwoSizes   == {1, 2}

(* One product that fits and one that is exactly 2^w (for Wrap = 8). *)
FitAndWrap == {<<1, 3>>, <<2, 4>>}

(* Threads, and addresses, are interchangeable. *)
Symmetric  == Permutations(TwoThreads) \cup Permutations(ThreeAddrs)
Symmetric2 == Permutations(TwoThreads) \cup Permutations(TwoAddrs)
=============================================================================
