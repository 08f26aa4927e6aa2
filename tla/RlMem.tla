------------------------------- MODULE RlMem -------------------------------
(***************************************************************************)
(* rlmem: malloc, calloc, realloc and free with an optional trace list.    *)
(*                                                                         *)
(* The wrappers run in any thread of the host process. While tracing is    *)
(* on, each block has a node in the list g_mem_header, which is read and   *)
(* written under mem_lock; two counters follow the list. The flag          *)
(* rl_memory_trace_state is read without the lock, and the libc calls are  *)
(* made outside it: those are the points where threads interleave, and     *)
(* each is a step of its own here. A critical section is one step that     *)
(* takes the lock and runs the body, and a second one that releases it.    *)
(*                                                                         *)
(* Abstracted: addresses are model values, the call site (file, func,      *)
(* line) of a node is left out, nodes do not use up addresses (their       *)
(* allocation just succeeds or fails), and log output is not modelled. A   *)
(* call that is refused or fails before it changes anything (size 0, NULL  *)
(* to rl_free, libc out of memory) is a stuttering step. rl_realloc(NULL)  *)
(* is rl_malloc.                                                           *)
(***************************************************************************)
EXTENDS Integers, Sequences, SequencesExt

CONSTANTS
  Threads,     (* threads of the host that call the wrappers                *)
  Addr,        (* addresses libc can return                                 *)
  Sizes,       (* sizes asked of rl_malloc and rl_realloc                   *)
  CallocArgs,  (* <<block, count>> pairs asked of rl_calloc                 *)
  Wrap,        (* 2^w for the width w of unsigned int (and of size_t)       *)
  Ops,         (* what the host does, a subset of OpNames                   *)
  NULL,
  NoThread

OpNames == {"calloc", "realloc",
            "external",  (* it also uses blocks from libc's own malloc      *)
            "untraced",  (* it calls the wrappers while tracing is off      *)
            "deinit"}    (* it ends tracing, and may start it again         *)

ASSUME RlMemAssumption ==
  /\ Wrap \in Nat \ {0}
  /\ Sizes \subseteq 1 .. (Wrap - 1)
  /\ CallocArgs \subseteq (Nat \ {0}) \X (Nat \ {0})
  /\ Ops \subseteq OpNames
  /\ NULL \notin Addr
  /\ NoThread \notin Threads

VARIABLES
  heap,         (* libc: the size of the live block at an address, or 0     *)
  trace_state,  (* rl_memory_trace_state                                    *)
  mutex,        (* mem_lock: "zero" (static), "ready" or "destroyed"        *)
  lock,         (* the thread that holds mem_lock, or NoThread              *)
  header,       (* g_mem_header: the nodes, the list's head first           *)
  block_count,  (* g_alloc_block_count                                      *)
  total_bytes,  (* g_alloc_total_bytes                                      *)
  pc,           (* per thread: the next step of the call it is in           *)
  ptr,          (* per thread: the live block its call works on             *)
  old,          (* per thread: the pointer rl_realloc was called with       *)
  size,         (* per thread: the size its call records                    *)
  owned,        (* history: pointers a thread was given and has not freed   *)
  foreign,      (* history: live blocks from libc's own malloc that the     *)
                (* list has not taken over                                  *)
  reported      (* history: blocks and bytes in the leak reports so far     *)

libc  == <<heap>>
trace == <<trace_state, mutex, header, block_count, total_bytes, reported>>
local == <<pc, ptr, old, size, owned, foreign>>
vars  == <<libc, trace, lock, local>>

Word == 0 .. (Wrap - 1)       (* unsigned int *)
Node == [ptr : Addr, size : Word]

Steps == {"idle", "m_check", "m_node", "m_lock", "m_unlock",
          "f_check", "f_lock", "f_unlock", "f_miss", "f_libc",
          "r_check", "r_lock", "r_unlock", "r_miss", "r_node"}

TypeOK ==
  /\ heap \in [Addr -> Nat]
  /\ trace_state \in BOOLEAN
  /\ mutex \in {"zero", "ready", "destroyed"}
  /\ lock \in Threads \cup {NoThread}
  /\ header \in Seq(Node)
  /\ block_count \in Word
  /\ total_bytes \in Word
  /\ pc \in [Threads -> Steps]
  /\ ptr \in [Threads -> Addr \cup {NULL}]
  /\ old \in [Threads -> Addr \cup {NULL}]
  /\ size \in [Threads -> Word]
  /\ owned \in [Threads -> SUBSET Addr]
  /\ foreign \in SUBSET Addr
  /\ reported \in [blocks : Word, bytes : Word]

Init ==
  /\ heap = [a \in Addr |-> 0]
  /\ trace_state = FALSE
  /\ mutex = "zero"
  /\ lock = NoThread
  /\ header = <<>>
  /\ block_count = 0
  /\ total_bytes = 0
  /\ pc = [t \in Threads |-> "idle"]
  /\ ptr = [t \in Threads |-> NULL]
  /\ old = [t \in Threads |-> NULL]
  /\ size = [t \in Threads |-> 0]
  /\ owned = [t \in Threads |-> {}]
  /\ foreign = {}
  /\ reported = [blocks |-> 0, bytes |-> 0]

-----------------------------------------------------------------------------
(* Helpers *)

Free == {a \in Addr : heap[a] = 0}

(* Mutant: the counters do not wrap. *)
PlusUnbounded(x, y) == x + y

(* Unsigned arithmetic of the two counters. *)
Plus(x, y)  == (x + y) % Wrap
Minus(x, y) == (x - y) % Wrap

(* Position of the first node for p from the head of the list, 0 if none.  *)
Find(p) == SelectInSeq(header, LAMBDA n : n.ptr = p)

Goto(t, from, to) == pc[t] = from /\ pc' = [pc EXCEPT ![t] = to]

(* The call returns and the thread keeps the pointers in keep.             *)
Return(t, from, keep) ==
  /\ Goto(t, from, "idle")
  /\ ptr' = [ptr EXCEPT ![t] = NULL]
  /\ old' = [old EXCEPT ![t] = NULL]
  /\ size' = [size EXCEPT ![t] = 0]
  /\ owned' = [owned EXCEPT ![t] = @ \cup keep]

(* The host starts a call: by the comments at rl_memory_trace_init and     *)
(* rl_memory_trace_deinit those two run at program start and program end,  *)
(* so a host calls the wrappers in between, unless it is "untraced".       *)
MayCall(t) == pc[t] = "idle" /\ (trace_state \/ "untraced" \in Ops)

(* pthread_mutex_lock and pthread_mutex_unlock *)
Lock(t)   == lock = NoThread /\ lock' = t
Unlock(t) == lock = t /\ lock' = NoThread

-----------------------------------------------------------------------------
(* Allocation: rl_malloc and rl_calloc                                     *)

(* libc returned the block a of n bytes; recorded is the size to record.   *)
Allocated(t, a, n, recorded) ==
  /\ a \in Free
  /\ heap' = [heap EXCEPT ![a] = n]
  /\ ptr' = [ptr EXCEPT ![t] = a]
  /\ size' = [size EXCEPT ![t] = recorded]
  /\ pc' = [pc EXCEPT ![t] = "m_check"]
  /\ UNCHANGED <<trace, lock, old, owned, foreign>>

rl_malloc(t) ==
  /\ MayCall(t)
  /\ \E n \in Sizes, a \in Addr : Allocated(t, a, n, n)

(* block * count wraps, but libc's calloc refuses a product that does not  *)
(* fit size_t.                                                             *)
rl_calloc(t) ==
  /\ "calloc" \in Ops
  /\ MayCall(t)
  /\ \E arg \in CallocArgs, a \in Addr :
       LET n == arg[1] * arg[2]
       IN  n < Wrap /\ Allocated(t, a, n, n % Wrap)

(* Mutant: the flag is not looked at. *)
alloc_check_always(t) ==
  /\ Goto(t, "m_check", "m_node")
  /\ UNCHANGED <<libc, trace, lock, ptr, old, size, owned, foreign>>

(* The unlocked read of rl_memory_trace_state.                             *)
alloc_check(t) ==
  /\ \/ trace_state /\ Goto(t, "m_check", "m_node")
        /\ UNCHANGED <<ptr, old, size, owned>>
     \/ ~trace_state /\ Return(t, "m_check", {ptr[t]})
  /\ UNCHANGED <<libc, trace, lock, foreign>>

(* Mutant: the block is not given back when its node cannot be allocated. *)
alloc_node_leak(t) ==
  /\ \/ Goto(t, "m_node", "m_lock") /\ UNCHANGED <<ptr, old, size, owned>>
     \/ Return(t, "m_node", {})
  /\ UNCHANGED <<libc, trace, lock, foreign>>

(* Mutant: it is given back, and returned to the caller all the same. *)
alloc_node_stale(t) ==
  /\ \/ Goto(t, "m_node", "m_lock")
        /\ UNCHANGED <<heap, ptr, old, size, owned>>
     \/ Return(t, "m_node", {ptr[t]})
        /\ heap' = [heap EXCEPT ![ptr[t]] = 0]
  /\ UNCHANGED <<trace, lock, foreign>>

(* malloc of the node; when it fails the block is given back.              *)
alloc_node(t) ==
  /\ \/ Goto(t, "m_node", "m_lock")
        /\ UNCHANGED <<heap, ptr, old, size, owned>>
     \/ Return(t, "m_node", {})
        /\ heap' = [heap EXCEPT ![ptr[t]] = 0]
  /\ UNCHANGED <<trace, lock, foreign>>

(* The critical section of rl_malloc, rl_calloc and of rl_realloc's        *)
(* adoption of an unknown block: push a node and count it.                 *)
push_node(t) ==
  /\ Goto(t, "m_lock", "m_unlock")
  /\ Lock(t)
  /\ header' = Cons([ptr |-> ptr[t], size |-> size[t]], header)
  /\ block_count' = Plus(block_count, 1)
  /\ total_bytes' = Plus(total_bytes, size[t])
  /\ UNCHANGED <<libc, trace_state, mutex, reported, ptr, old, size, owned>>
  /\ foreign' = foreign \ {ptr[t]}

push_unlock(t) ==
  /\ Unlock(t)
  /\ Return(t, "m_unlock", {ptr[t]})
  /\ UNCHANGED <<libc, trace, foreign>>

-----------------------------------------------------------------------------
(* rl_free                                                                 *)

rl_free(t) ==
  /\ MayCall(t)
  /\ \E p \in owned[t] :
       /\ ptr' = [ptr EXCEPT ![t] = p]
       /\ owned' = [owned EXCEPT ![t] = @ \ {p}]
  /\ pc' = [pc EXCEPT ![t] = "f_check"]
  /\ UNCHANGED <<libc, trace, lock, old, size, foreign>>

free_check(t) ==
  /\ Goto(t, "f_check", IF trace_state THEN "f_lock" ELSE "f_libc")
  /\ UNCHANGED <<libc, trace, lock, ptr, old, size, owned, foreign>>

(* Mutant: a removed node is not counted off. *)
free_record_uncounted(t) ==
  LET i == Find(ptr[t])
  IN  /\ Lock(t)
      /\ Goto(t, "f_lock", IF i # 0 THEN "f_unlock" ELSE "f_miss")
      /\ header' = IF i # 0 THEN RemoveAt(header, i) ELSE header
      /\ UNCHANGED <<libc, trace_state, mutex, block_count, total_bytes,
                     reported, ptr, old, size, owned, foreign>>

(* Mutant: whatever node is found, it is the list's head that is unlinked. *)
free_record_head(t) ==
  LET i == Find(ptr[t])
  IN  /\ Lock(t)
      /\ \/ /\ i # 0
            /\ Goto(t, "f_lock", "f_unlock")
            /\ header' = Tail(header)
            /\ block_count' = Minus(block_count, 1)
            /\ total_bytes' = Minus(total_bytes, header[i].size)
         \/ /\ i = 0
            /\ Goto(t, "f_lock", "f_miss")
            /\ UNCHANGED <<header, block_count, total_bytes>>
      /\ UNCHANGED <<libc, trace_state, mutex, reported, ptr, old, size,
                     owned, foreign>>

(* Under the lock: unlink and count off the first node for the pointer.    *)
free_record(t) ==
  LET i == Find(ptr[t])
  IN  /\ Lock(t)
      /\ \/ /\ i # 0
            /\ Goto(t, "f_lock", "f_unlock")
            /\ header' = RemoveAt(header, i)
            /\ block_count' = Minus(block_count, 1)
            /\ total_bytes' = Minus(total_bytes, header[i].size)
         \/ /\ i = 0
            /\ Goto(t, "f_lock", "f_miss")
            /\ UNCHANGED <<header, block_count, total_bytes>>
      /\ UNCHANGED <<libc, trace_state, mutex, reported, ptr, old, size,
                     owned, foreign>>

free_unlock(t) ==
  /\ Unlock(t)
  /\ Goto(t, "f_unlock", "f_libc")
  /\ UNCHANGED <<libc, trace, ptr, old, size, owned, foreign>>

(* Mutant: this way out does not unlock. *)
free_refuse_locked(t) ==
  /\ Return(t, "f_miss", {ptr[t]})
  /\ UNCHANGED <<libc, trace, lock, foreign>>

(* No node: RL_FAILED, and the block is not given back to libc.            *)
free_refuse(t) ==
  /\ Unlock(t)
  /\ Return(t, "f_miss", {ptr[t]})
  /\ UNCHANGED <<libc, trace, foreign>>

free_libc(t) ==
  /\ Return(t, "f_libc", {})
  /\ heap' = [heap EXCEPT ![ptr[t]] = 0]
  /\ foreign' = foreign \ {ptr[t]}
  /\ UNCHANGED <<trace, lock>>

-----------------------------------------------------------------------------
(* rl_realloc of a pointer                                                 *)

(* The foreign blocks when the block at p has moved to a.                  *)
Follow(p, a) == IF p \in foreign THEN (foreign \ {p}) \cup {a} ELSE foreign

(* libc's realloc comes first: in place, or to another address, in which   *)
(* case the old address is free from this moment on.                       *)
rl_realloc(t) ==
  /\ "realloc" \in Ops
  /\ MayCall(t)
  /\ \E p \in owned[t], n \in Sizes : \E a \in Free \cup {p} :
       /\ heap' = [heap EXCEPT ![p] = 0, ![a] = n]
       /\ ptr' = [ptr EXCEPT ![t] = a]
       /\ old' = [old EXCEPT ![t] = p]
       /\ size' = [size EXCEPT ![t] = n]
       /\ owned' = [owned EXCEPT ![t] = @ \ {p}]
       /\ foreign' = Follow(p, a)
  /\ pc' = [pc EXCEPT ![t] = "r_check"]
  /\ UNCHANGED <<trace, lock>>

realloc_check(t) ==
  /\ \/ trace_state /\ Goto(t, "r_check", "r_lock")
        /\ UNCHANGED <<ptr, old, size, owned>>
     \/ ~trace_state /\ Return(t, "r_check", {ptr[t]})
  /\ UNCHANGED <<libc, trace, lock, foreign>>

(* Mutant: the node gets the new size but keeps the old address. *)
realloc_record_keep_ptr(t) ==
  LET i == Find(old[t])
  IN  /\ Lock(t)
      /\ Goto(t, "r_lock", IF i # 0 THEN "r_unlock" ELSE "r_miss")
      /\ header' = IF i # 0 THEN [header EXCEPT ![i].size = size[t]] ELSE header
      /\ UNCHANGED <<libc, trace_state, mutex, block_count, total_bytes, reported,
                     ptr, old, size, owned, foreign>>

(* Under the lock: point the first node for the old pointer to the block.  *)
realloc_record(t) ==
  LET i == Find(old[t])
  IN  /\ Lock(t)
      /\ \/ /\ i # 0
            /\ Goto(t, "r_lock", "r_unlock")
            /\ total_bytes' = Plus(Minus(total_bytes, header[i].size), size[t])
            /\ header' = [header EXCEPT ![i] = [ptr  |-> ptr[t],
                                                size |-> size[t]]]
            /\ foreign' = foreign \ {ptr[t]}
         \/ /\ i = 0
            /\ Goto(t, "r_lock", "r_miss")
            /\ UNCHANGED <<header, total_bytes, foreign>>
      /\ UNCHANGED <<libc, trace_state, mutex, block_count, reported, ptr,
                     old, size, owned>>

realloc_unlock(t) ==
  /\ Unlock(t)
  /\ \/ Return(t, "r_unlock", {ptr[t]})
     \/ Goto(t, "r_miss", "r_node") /\ UNCHANGED <<ptr, old, size, owned>>
  /\ UNCHANGED <<libc, trace, foreign>>

(* malloc of a node for the unknown block; when it fails the moved block   *)
(* is freed and the caller is told NULL, as if the old one were intact.    *)
realloc_node(t) ==
  /\ \/ Goto(t, "r_node", "m_lock")
        /\ UNCHANGED <<heap, ptr, old, size, owned, foreign>>
     \/ Return(t, "r_node", {})
        /\ heap' = [heap EXCEPT ![ptr[t]] = 0]
        /\ foreign' = foreign \ {ptr[t]}
  /\ UNCHANGED <<trace, lock>>

-----------------------------------------------------------------------------
(* The host                                                                *)

(* A block that does not come from the wrappers.                           *)
external_malloc(t) ==
  /\ "external" \in Ops
  /\ MayCall(t)
  /\ \E a \in Free, n \in Sizes :
       /\ heap' = [heap EXCEPT ![a] = n]
       /\ owned' = [owned EXCEPT ![t] = @ \cup {a}]
       /\ foreign' = foreign \cup {a}
  /\ UNCHANGED <<trace, lock, pc, ptr, old, size>>

Quiet == \A t \in Threads : pc[t] = "idle"

(* Turning on takes effect only while tracing is off, turning off never:   *)
(* with tracing on the call returns at once, with tracing off it merely    *)
(* destroys the mutex.                                                     *)
rl_memory_trace_init ==
  /\ Quiet
  /\ ~trace_state
  /\ \/ mutex' = "ready" /\ header' = <<>> /\ trace_state' = TRUE
     \/ mutex' = "destroyed" /\ UNCHANGED <<header, trace_state>>
  /\ UNCHANGED <<libc, block_count, total_bytes, reported, lock, local>>

SizeOf == [i \in DOMAIN header |-> header[i].size]

(* Mutant: the list head is not reset after the nodes are freed. *)
rl_memory_trace_deinit_keep ==
  /\ "deinit" \in Ops
  /\ Quiet
  /\ trace_state
  /\ \E leak_bytes \in Word :
       /\ leak_bytes = SumFunction(SizeOf) % Wrap
       /\ reported' = [blocks |-> Plus(reported.blocks, Len(header)),
                       bytes  |-> Plus(reported.bytes, leak_bytes)]
  /\ mutex' = "destroyed"
  /\ trace_state' = FALSE
  /\ UNCHANGED <<libc, header, block_count, total_bytes, lock, local>>

(* The report goes through: every node is printed and freed. The counters  *)
(* keep their values. (A failure before or at fopen changes nothing.)      *)
rl_memory_trace_deinit ==
  /\ "deinit" \in Ops
  /\ Quiet
  /\ trace_state
  /\ header' = <<>>
  /\ \E leak_bytes \in Word :
       /\ leak_bytes = SumFunction(SizeOf) % Wrap
       /\ reported' = [blocks |-> Plus(reported.blocks, Len(header)),
                       bytes  |-> Plus(reported.bytes, leak_bytes)]
  /\ mutex' = "destroyed"
  /\ trace_state' = FALSE
  /\ UNCHANGED <<libc, block_count, total_bytes, lock, local>>

Step(t) ==
  \/ alloc_check(t) \/ alloc_node(t) \/ push_node(t) \/ push_unlock(t)
  \/ free_check(t) \/ free_record(t) \/ free_unlock(t) \/ free_refuse(t)
  \/ free_libc(t)
  \/ realloc_check(t) \/ realloc_record(t) \/ realloc_unlock(t)
  \/ realloc_node(t)

Call(t) == rl_malloc(t) \/ rl_calloc(t) \/ rl_free(t) \/ rl_realloc(t)
           \/ external_malloc(t)

Next ==
  \/ \E t \in Threads : Call(t) \/ Step(t)
  \/ rl_memory_trace_init
  \/ rl_memory_trace_deinit

Spec == Init /\ [][Next]_vars

(* The OS runs every thread that can run: a call that is under way takes    *)
(* its next step unless it waits for the mutex.                            *)
FairSpec == Spec /\ \A t \in Threads : WF_vars(Step(t))

-----------------------------------------------------------------------------
(* Properties                                                              *)

(* The blocks a thread holds: the ones it was given, and the one its       *)
(* current call has from libc.                                             *)
Held(t) == owned[t] \cup ({ptr[t]} \ {NULL})

Contract == INSTANCE HeapContract WITH held <- [t \in Threads |-> Held(t)]

(* The wrappers implement the contract of an allocator: whatever the       *)
(* interleaving and whichever allocation fails, a block is never with two  *)
(* threads, and only its holder frees or moves it.                         *)
ContractHeld == Contract!Spec

(* No block is lost and none is handed out dead: the live blocks of libc   *)
(* are exactly the blocks some thread holds, on every error path too.      *)
HeapAgrees == \A a \in Addr : heap[a] # 0 <=> \E t \in Threads : a \in Held(t)

(* The nodes of the list that carry address a.                             *)
Entries(a) == {i \in DOMAIN header : header[i].ptr = a}

(* Thread t is one that a node for address a is there for: it has the      *)
(* block and its call is before rl_free's removal of the node or past the  *)
(* push, or it is in rl_realloc and has not yet renamed the node.          *)
Claims(t, a) ==
  \/ a \in owned[t]
  \/ pc[t] \in {"f_check", "f_lock", "m_unlock", "r_unlock"} /\ a = ptr[t]
  \/ pc[t] \in {"r_check", "r_lock"} /\ a = old[t]

(* When every block goes through the wrappers with tracing on, the list    *)
(* has as many nodes for an address as there are threads with a claim to   *)
(* one, even while the address is reused under a realloc that has not yet  *)
(* reached the list.                                                       *)
RecordsBalance ==
  \A a \in Addr :
    Cardinality(Entries(a)) = Cardinality({t \in Threads : Claims(t, a)})

(* A search of the list fails only for a block that came from libc's own   *)
(* malloc and that the list has not taken over since: rl_free refuses no   *)
(* other ("maybe double free or external malloc"), and no other block can  *)
(* be one that rl_realloc has moved and then frees for want of a node,     *)
(* answering NULL as if the old pointer were still good.                   *)
MissedIsForeign ==
  \A t \in Threads : pc[t] \in {"f_miss", "r_miss", "r_node"} => ptr[t] \in foreign

(* The leak list tells the truth: whenever no call is under way, a block   *)
(* in use that is not from libc's own malloc has exactly one node, and the *)
(* node has the block's size.                                              *)
RecordsExact ==
  Quiet => \A t \in Threads : \A a \in owned[t] \ foreign :
    \E i \in DOMAIN header : Entries(a) = {i} /\ header[i].size = heap[a]

(* g_alloc_block_count is the length of the list plus all blocks that leak *)
(* reports have dropped from it: the counters survive                      *)
(* rl_memory_trace_deinit.                                                 *)
CountMatches == block_count = Plus(Len(header), reported.blocks)

(* The same for g_alloc_total_bytes and the sizes in the list.             *)
BytesMatch == total_bytes = Plus(SumFunction(SizeOf), reported.bytes)

(* A thread that is about to take or release mem_lock does so on an        *)
(* initialised mutex, although it read the flag before and without it.     *)
LockUsable ==
  \A t \in Threads :
    pc[t] \notin {"idle", "m_check", "f_check", "f_libc", "r_check"}
      => mutex = "ready"

(* A thread that has taken mem_lock gives it back, on every path out of    *)
(* the three functions with a critical section.                            *)
LockReleased == \A t \in Threads : (lock = t) ~> (lock # t)
=============================================================================
