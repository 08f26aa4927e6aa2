---------------------------- MODULE HeapContract ----------------------------
(***************************************************************************)
(* What any allocator promises its callers, and so what the wrappers       *)
(* rl_malloc, rl_calloc, rl_realloc and rl_free must keep promising when   *)
(* they put a trace list between the callers and libc: a block that is     *)
(* given to a caller belongs to nobody else, and only the caller that      *)
(* holds a block can give it back or have it moved.                        *)
(***************************************************************************)
CONSTANTS Threads,   (* the threads of the process that call the allocator *)
          Addr       (* the addresses blocks can have                      *)

VARIABLE held        (* the blocks each thread holds *)

Unheld(a) == \A t \in Threads : a \notin held[t]

Init == held = [t \in Threads |-> {}]

Acquire(t, a) ==
  /\ Unheld(a)
  /\ held' = [held EXCEPT ![t] = @ \cup {a}]

Release(t, a) ==
  /\ a \in held[t]
  /\ held' = [held EXCEPT ![t] = @ \ {a}]

Move(t, a, b) ==
  /\ a \in held[t]
  /\ Unheld(b)
  /\ held' = [held EXCEPT ![t] = (@ \ {a}) \cup {b}]

Next == \E t \in Threads, a \in Addr :
          \/ Acquire(t, a)
          \/ Release(t, a)
          \/ \E b \in Addr : Move(t, a, b)

Spec == Init /\ [][Next]_held
=============================================================================
