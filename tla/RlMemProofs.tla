---------------------------- MODULE RlMemProofs ----------------------------
(***************************************************************************)
(* Theorems about RlMem, for every number of threads, addresses and sizes. *)
(***************************************************************************)
EXTENDS RlMem, TLAPS, SequenceTheorems, WellFoundedInduction

-----------------------------------------------------------------------------
(* Arithmetic modulo Wrap *)

(* What % gives is a remainder. *)
LEMMA ModType ==
  ASSUME NEW W \in Nat \ {0}, NEW x \in Int
  PROVE  x % W \in 0 .. (W - 1)
OBVIOUS

(* The division theorem of the integers. *)
LEMMA ModDiv ==
  ASSUME NEW W \in Nat \ {0}, NEW x \in Int
  PROVE  x = W * (x \div W) + (x % W)
OBVIOUS

(* A number has only one remainder. *)
LEMMA ModUnique ==
  ASSUME NEW W \in Nat \ {0}, NEW q \in Int, NEW r \in 0 .. (W - 1)
  PROVE  (W * q + r) % W = r
<1> DEFINE y == W * q + r
           p == y \div W
           s == y % W
<1>1. y \in Int /\ p \in Int /\ s \in 0 .. (W - 1)
  BY ModType
<1>2. y = W * p + s
  BY <1>1, ModDiv
<1> HIDE DEF p, s
<1>3. W * (q - p) = s - r
  BY <1>1, <1>2
<1>4. s - r < W /\ s - r > -W
  BY <1>1
<1>5. q - p < 1
  BY <1>1, <1>3, <1>4
<1>6. q - p > -1
  BY <1>1, <1>3, <1>4
<1>7. q = p
  BY <1>1, <1>5, <1>6
<1> QED
  BY <1>1, <1>3, <1>7 DEF s, y

(* A remainder can be taken before an addition: the counters may wrap at every step. *)
LEMMA ModPlus ==
  ASSUME NEW W \in Nat \ {0}, NEW x \in Int, NEW y \in Int
  PROVE  ((x % W) + y) % W = (x + y) % W
<1> DEFINE z == (x % W) + y
           d == x \div W
           e == z \div W
           r == z % W
<1>1. /\ d \in Int /\ z \in Int /\ e \in Int
      /\ r \in 0 .. (W - 1)
      /\ x = W * d + (x % W)
      /\ z = W * e + r
  BY ModType, ModDiv
<1> HIDE DEF d, e, r
<1>2. x + y = W * d + z
  BY <1>1
<1> HIDE DEF z
<1>3. x + y = W * (d + e) + r
  BY <1>1, <1>2
<1>4. (W * (d + e) + r) % W = r
  BY <1>1, ModUnique
<1> QED
  BY <1>3, <1>4 DEF r, z

-----------------------------------------------------------------------------
(* The list *)

(* A non-empty set of positions has a least one. *)
LEMMA MinExists ==
  ASSUME NEW n \in Nat, NEW S \in SUBSET (1 .. n), S # {}
  PROVE  Min(S) \in S
<1>1. S \subseteq Nat
  OBVIOUS
<1>2. PICK x \in S : \A y \in S : ~(<<y, x>> \in OpToRel(<, Nat))
  BY <1>1, WFMin, NatLessThanWellFounded
<1>3. ASSUME NEW y \in S, y < x
      PROVE  <<y, x>> \in OpToRel(<, Nat)
  <2>1. <<y, x>> \in Nat \X Nat /\ <<y, x>>[1] < <<y, x>>[2]
    BY <1>1, <1>3
  <2> QED
    BY <2>1, Zenon DEF OpToRel
<1>4. \A y \in S : ~(y < x)
  BY <1>2, <1>3, Zenon
<1>5. \A y \in S : x <= y
  BY <1>1, <1>4
<1> QED
  BY <1>5 DEF Min

(* Find gives a position of the list, or 0. *)
LEMMA FindType ==
  ASSUME header \in Seq(Node), NEW p
  PROVE  /\ Find(p) \in 0 .. Len(header)
         /\ Find(p) # 0 => header[Find(p)] \in Node
<1> DEFINE I == {i \in 1 .. Len(header) : header[i].ptr = p}
<1>1. I \in SUBSET (1 .. Len(header)) /\ Len(header) \in Nat
  OBVIOUS
<1>2. Find(p) = IF I # {} THEN Min(I) ELSE 0
  BY DEF Find, SelectInSeq
<1>3. I # {} => Min(I) \in I
  BY <1>1, MinExists
<1>4. Find(p) \in 0 .. Len(header)
  BY <1>1, <1>2, <1>3
<1> QED
  BY <1>4

(* A push makes the list one node longer. *)
LEMMA ConsType ==
  ASSUME header \in Seq(Node), NEW n \in Node
  PROVE  Cons(n, header) \in Seq(Node) /\ Len(Cons(n, header)) = Len(header) + 1
BY ConcatProperties DEF Cons

(* Unlinking makes the list one node shorter. *)
LEMMA RemoveType ==
  ASSUME header \in Seq(Node), NEW i \in 1 .. Len(header)
  PROVE  /\ RemoveAt(header, i) \in Seq(Node)
         /\ Len(RemoveAt(header, i)) = Len(header) - 1
<1> DEFINE n == Len(header)
           a == SubSeq(header, 1, i - 1)
           b == SubSeq(header, i + 1, n)
<1>1. n \in Nat /\ \A j \in 1 .. n : header[j] \in Node
  BY LenProperties
<1>2. a \in Seq(Node) /\ Len(a) = i - 1
  BY <1>1, SubSeqProperties
<1>3. b \in Seq(Node) /\ Len(b) = n - i
  BY <1>1, SubSeqProperties
<1>4. RemoveAt(header, i) = a \o b
  BY DEF RemoveAt
<1> HIDE DEF a, b
<1>5. a \o b \in Seq(Node) /\ Len(a \o b) = Len(a) + Len(b)
  BY <1>2, <1>3, ConcatProperties
<1> QED
  BY <1>1, <1>2, <1>3, <1>4, <1>5

(* Unsigned int *)

(* Sizes asked for are positive and fit unsigned int. *)
LEMMA WordFacts ==
  /\ 0 \in Word
  /\ Word \subseteq Int
  /\ Sizes \subseteq Word
  /\ Sizes \subseteq Nat \ {0}
BY RlMemAssumption DEF Word

(* A remainder by Wrap is an unsigned int. *)
LEMMA WordMod ==
  ASSUME NEW x \in Int
  PROVE  x % Wrap \in Word
BY RlMemAssumption, ModType DEF Word

(* The counters' arithmetic stays in unsigned int. *)
LEMMA PlusMinusType ==
  ASSUME NEW x \in Int, NEW y \in Int
  PROVE  Plus(x, y) \in Word /\ Minus(x, y) \in Word
BY WordMod DEF Plus, Minus

(* A value that fits does not wrap. *)
LEMMA PlusZero ==
  ASSUME NEW w \in Word
  PROVE  Plus(0, w) = w
BY RlMemAssumption DEF Plus, Word

(* rl_calloc: the product is positive, what is recorded fits unsigned int. *)
LEMMA CallocSize ==
  ASSUME NEW arg \in CallocArgs
  PROVE  arg[1] * arg[2] \in Nat \ {0} /\ (arg[1] * arg[2]) % Wrap \in Word
<1> DEFINE n == arg[1] * arg[2]
<1>1. arg[1] \in Nat \ {0} /\ arg[2] \in Nat \ {0}
  BY RlMemAssumption
<1>2. n \in Nat \ {0}
  BY <1>1
<1> HIDE DEF n
<1>3. n % Wrap \in Word
  BY <1>2, WordMod
<1> QED
  BY <1>2, <1>3 DEF n

-----------------------------------------------------------------------------
(* The type invariant                                                      *)

(* What a call knows of its own pointers: it has a block of libc exactly   *)
(* while it is under way, and in rl_realloc also the pointer it was given. *)
(* TypeOK is inductive only with this.                                     *)
CallInv ==
  \A t \in Threads :
    /\ pc[t] = "idle" <=> ptr[t] = NULL
    /\ pc[t] \in {"r_check", "r_lock", "r_unlock", "r_miss", "r_node"}
         => old[t] # NULL

TypeInv == TypeOK /\ CallInv

(* TypeInv at program start. *)
LEMMA TypeInit == Init => TypeInv
<1> SUFFICES ASSUME Init PROVE TypeInv
  OBVIOUS
<1>1. header \in Seq(Node)
  BY EmptySeq DEF Init
<1> QED
  BY <1>1, WordFacts DEF Init, TypeInv, TypeOK, CallInv, Steps

(* What every return of a call does to the types. *)
LEMMA ReturnType ==
  ASSUME TypeInv, NEW t \in Threads, NEW from, NEW keep \in SUBSET Addr,
         Return(t, from, keep)
  PROVE  /\ pc' \in [Threads -> Steps]
         /\ ptr' \in [Threads -> Addr \cup {NULL}]
         /\ old' \in [Threads -> Addr \cup {NULL}]
         /\ size' \in [Threads -> Word]
         /\ owned' \in [Threads -> SUBSET Addr]
         /\ CallInv'
BY WordFacts DEF TypeInv, TypeOK, CallInv, Return, Goto, Steps

(* TypeInv: the host starts a call. *)
LEMMA TypeCall ==
  ASSUME TypeInv, NEW t \in Threads, Call(t)
  PROVE  TypeInv'
<1>1. ASSUME NEW a \in Addr, NEW n \in Nat, NEW r \in Word, Allocated(t, a, n, r)
      PROVE  TypeInv'
  BY <1>1, RlMemAssumption
     DEF TypeInv, TypeOK, CallInv, Allocated, Steps, trace
<1>2. CASE rl_malloc(t)
  BY <1>1, <1>2, WordFacts DEF rl_malloc
<1>3. CASE rl_calloc(t)
  BY <1>1, <1>3, CallocSize DEF rl_calloc
<1>4. CASE rl_free(t)
  BY <1>4, RlMemAssumption
     DEF TypeInv, TypeOK, CallInv, rl_free, MayCall, Steps, trace, libc
<1>5. CASE rl_realloc(t)
  <2>1. PICK p \in owned[t], n \in Sizes, a \in Addr :
          /\ heap' = [heap EXCEPT ![p] = 0, ![a] = n]
          /\ ptr' = [ptr EXCEPT ![t] = a]
          /\ old' = [old EXCEPT ![t] = p]
          /\ size' = [size EXCEPT ![t] = n]
          /\ owned' = [owned EXCEPT ![t] = @ \ {p}]
          /\ foreign' = Follow(p, a)
    BY <1>5 DEF rl_realloc, Free, TypeInv, TypeOK
  <2>2. p \in Addr /\ n \in Word /\ n \in Nat
    BY WordFacts DEF TypeInv, TypeOK
  <2>3. heap' \in [Addr -> Nat] /\ size' \in [Threads -> Word] /\ foreign' \in SUBSET Addr
    <3>1. Follow(p, a) \in SUBSET Addr
      BY DEF Follow, TypeInv, TypeOK
    <3> QED
      BY <2>1, <2>2, <3>1, WordFacts DEF TypeInv, TypeOK
  <2>4. /\ ptr' \in [Threads -> Addr \cup {NULL}] /\ old' \in [Threads -> Addr \cup {NULL}]
        /\ owned' \in [Threads -> SUBSET Addr]
    BY <2>1, <2>2 DEF TypeInv, TypeOK
  <2>5. pc' = [pc EXCEPT ![t] = "r_check"] /\ pc' \in [Threads -> Steps]
    BY <1>5 DEF TypeInv, TypeOK, rl_realloc, Steps
  <2>6. CallInv'
    BY <2>1, <2>2, <2>5, RlMemAssumption DEF TypeInv, TypeOK, CallInv
  <2> QED
    BY <1>5, <2>3, <2>4, <2>5, <2>6 DEF TypeInv, TypeOK, rl_realloc, trace
<1>6. CASE external_malloc(t)
  BY <1>6, WordFacts
     DEF TypeInv, TypeOK, CallInv, external_malloc, MayCall, Free, trace
<1> QED
  BY <1>2, <1>3, <1>4, <1>5, <1>6 DEF Call

(* A step that only goes on, between two steps of a call under way. *)
LEMMA GotoType ==
  ASSUME TypeInv, NEW t \in Threads, NEW from, NEW to \in Steps \ {"idle"},
         from # "idle", Goto(t, from, to), UNCHANGED <<ptr, old>>,
         to \in {"r_check", "r_lock", "r_unlock", "r_miss", "r_node"} =>
           from \in {"r_check", "r_lock", "r_unlock", "r_miss", "r_node"}
  PROVE  pc' \in [Threads -> Steps] /\ CallInv'
BY DEF TypeInv, TypeOK, CallInv, Goto

(* TypeInv: a call goes on. *)
LEMMA TypeStep ==
  ASSUME TypeInv, NEW t \in Threads, Step(t)
  PROVE  TypeInv'
<1>0. pc[t] # "idle" => {ptr[t]} \in SUBSET Addr /\ {} \in SUBSET Addr /\ ptr[t] \in Addr
  BY DEF TypeInv, TypeOK, CallInv
<1>a. ASSUME NEW from, NEW to \in Steps \ {"idle"}, from # "idle", Goto(t, from, to),
             to \in {"r_check", "r_lock", "r_unlock", "r_miss", "r_node"} =>
               from \in {"r_check", "r_lock", "r_unlock", "r_miss", "r_node"},
             UNCHANGED <<ptr, old, size, owned>>,
             heap' = heap, mutex' = mutex, trace_state' = trace_state,
             reported' = reported, foreign' \in SUBSET Addr,
             lock' \in Threads \cup {NoThread}, header' \in Seq(Node),
             block_count' \in Word, total_bytes' \in Word
      PROVE  TypeInv'
  <2>1. pc' \in [Threads -> Steps] /\ CallInv'
    BY <1>a, GotoType
  <2> QED
    BY <1>a, <2>1 DEF TypeInv, TypeOK
<1>b. ASSUME NEW from, NEW keep \in {{}, {ptr[t]}}, from # "idle", Return(t, from, keep),
             heap' \in {heap, [heap EXCEPT ![ptr[t]] = 0]},
             UNCHANGED trace,
             lock' \in Threads \cup {NoThread}, foreign' \in SUBSET Addr
      PROVE  TypeInv'
  <2>1. keep \in SUBSET Addr /\ ptr[t] \in Addr
    BY <1>b DEF Return, Goto, TypeInv, TypeOK, CallInv
  <2>2. heap' \in [Addr -> Nat]
    BY <1>b, <2>1 DEF TypeInv, TypeOK
  <2> QED
    BY <1>b, <2>1, <2>2, ReturnType DEF TypeInv, TypeOK, trace
<1>d. foreign' = foreign => foreign' \in SUBSET Addr
  BY DEF TypeInv, TypeOK
<1>1. CASE alloc_check(t)
  BY <1>1, <1>a, <1>d, <1>b DEF alloc_check, TypeInv, TypeOK, Steps, libc, trace
<1>2. CASE alloc_node(t)
  BY <1>2, <1>a, <1>d, <1>b DEF alloc_node, TypeInv, TypeOK, Steps, libc, trace
<1>3. CASE push_node(t)
  <2>1. [ptr |-> ptr[t], size |-> size[t]] \in Node
    BY <1>0, <1>3 DEF push_node, Goto, Node, TypeInv, TypeOK
  <2>2. header' \in Seq(Node)
    BY <1>3, <2>1, ConsType DEF push_node, TypeInv, TypeOK
  <2>3. block_count' \in Word /\ total_bytes' \in Word
    <3>1. block_count \in Int /\ total_bytes \in Int /\ size[t] \in Int
      BY WordFacts DEF TypeInv, TypeOK
    <3> QED
      BY <1>3, <3>1, PlusMinusType DEF push_node
  <2>4. foreign' \in SUBSET Addr
    BY <1>3 DEF push_node, TypeInv, TypeOK
  <2> QED
    BY <1>3, <1>a, <2>2, <2>3, <2>4 DEF push_node, Lock, Steps, libc
<1>4. CASE push_unlock(t)
  BY <1>4, <1>b DEF push_unlock, Unlock, TypeInv, TypeOK, libc
<1>5. CASE free_check(t)
  BY <1>5, <1>a DEF free_check, TypeInv, TypeOK, Steps, libc, trace
<1>6. CASE free_record(t)
  <2> DEFINE i == Find(ptr[t])
  <2>1. CASE i # 0 /\ header' = RemoveAt(header, i)
             /\ block_count' = Minus(block_count, 1)
             /\ total_bytes' = Minus(total_bytes, header[i].size)
             /\ Goto(t, "f_lock", "f_unlock")
    <3>1. i \in 1 .. Len(header) /\ header[i] \in Node
      BY <2>1, FindType DEF TypeInv, TypeOK
    <3>2. header' \in Seq(Node)
      BY <2>1, <3>1, RemoveType DEF TypeInv, TypeOK
    <3>3. block_count' \in Word /\ total_bytes' \in Word
      <4>1. block_count \in Int /\ total_bytes \in Int /\ header[i].size \in Int
        BY <3>1, WordFacts DEF TypeInv, TypeOK, Node
      <4> HIDE DEF i
      <4>2. Minus(block_count, 1) \in Word
        BY <4>1, PlusMinusType
      <4>3. Minus(total_bytes, header[i].size) \in Word
        BY <4>1, PlusMinusType
      <4> QED
        BY <2>1, <4>2, <4>3
    <3> HIDE DEF i
    <3> QED
      BY <1>6, <1>a, <1>d, <2>1, <3>2, <3>3 DEF free_record, Lock, Steps, libc
  <2>2. CASE Goto(t, "f_lock", "f_miss") /\ UNCHANGED <<header, block_count, total_bytes>>
    BY <1>6, <1>a, <1>d, <2>2 DEF free_record, Lock, Steps, libc, TypeInv, TypeOK
  <2> QED
    BY <1>6, <2>1, <2>2 DEF free_record
<1>7. CASE free_unlock(t)
  BY <1>7, <1>a DEF free_unlock, Unlock, Steps, libc, trace, TypeInv, TypeOK
<1>8. CASE free_refuse(t)
  BY <1>8, <1>b DEF free_refuse, Unlock, libc, TypeInv, TypeOK
<1>9. CASE free_libc(t)
  BY <1>9, <1>b DEF free_libc, TypeInv, TypeOK
<1>10. CASE realloc_check(t)
  BY <1>10, <1>a, <1>d, <1>b DEF realloc_check, TypeInv, TypeOK, Steps, libc, trace
<1>11. CASE realloc_record(t)
  <2> DEFINE i == Find(old[t])
             n == [ptr |-> ptr[t], size |-> size[t]]
  <2>1. CASE i # 0 /\ header' = [header EXCEPT ![i] = n]
             /\ total_bytes' = Plus(Minus(total_bytes, header[i].size), size[t])
             /\ Goto(t, "r_lock", "r_unlock")
             /\ foreign' = foreign \ {ptr[t]}
    <3>1. i \in 1 .. Len(header) /\ header[i] \in Node
      BY <2>1, FindType DEF TypeInv, TypeOK
    <3>2. n \in Node
      BY <1>0, <2>1 DEF Goto, Node, TypeInv, TypeOK
    <3>3. header' \in Seq(Node)
      BY <2>1, <3>1, <3>2, ExceptSeq DEF TypeInv, TypeOK
    <3>4. total_bytes' \in Word
      BY <2>1, <3>1, PlusMinusType, WordFacts DEF TypeInv, TypeOK, Node
    <3>5. foreign' \in SUBSET Addr
      BY <2>1 DEF TypeInv, TypeOK
    <3> HIDE DEF i
    <3> QED
      BY <1>11, <1>a, <2>1, <3>3, <3>4, <3>5 DEF realloc_record, Lock, Steps, libc, TypeInv, TypeOK
  <2>2. CASE Goto(t, "r_lock", "r_miss") /\ UNCHANGED <<header, total_bytes, foreign>>
    BY <1>11, <1>a, <1>d, <2>2 DEF realloc_record, Lock, Steps, libc, TypeInv, TypeOK
  <2> QED
    BY <1>11, <2>1, <2>2 DEF realloc_record
<1>12. CASE realloc_unlock(t)
  BY <1>12, <1>a, <1>d, <1>b DEF realloc_unlock, Unlock, Steps, libc, trace, TypeInv, TypeOK
<1>13. CASE realloc_node(t)
  <2>1. CASE Goto(t, "r_node", "m_lock") /\ UNCHANGED <<heap, ptr, old, size, owned, foreign>>
    BY <1>13, <1>a, <1>d, <2>1 DEF realloc_node, Steps, trace, TypeInv, TypeOK
  <2>2. CASE /\ Return(t, "r_node", {})
             /\ heap' = [heap EXCEPT ![ptr[t]] = 0]
             /\ foreign' = foreign \ {ptr[t]}
    BY <1>13, <1>b, <2>2 DEF realloc_node, TypeInv, TypeOK
  <2> QED
    BY <1>13, <2>1, <2>2 DEF realloc_node
<1> QED
  BY <1>1, <1>2, <1>3, <1>4, <1>5, <1>6, <1>7, <1>8, <1>9, <1>10, <1>11, <1>12, <1>13
     DEF Step

(* TypeInv: tracing starts or ends. *)
LEMMA TypeTrace ==
  ASSUME TypeInv, rl_memory_trace_init \/ rl_memory_trace_deinit
  PROVE  TypeInv'
<1>0. header' \in Seq(Node)
  BY EmptySeq DEF rl_memory_trace_init, rl_memory_trace_deinit, TypeInv, TypeOK
<1>1. reported' \in [blocks : Word, bytes : Word]
  <2>0. Len(header) \in Int /\ reported.blocks \in Word /\ reported.bytes \in Word
    BY LenProperties DEF TypeInv, TypeOK
  <2>1. Len(header) \in Int /\ reported.blocks \in Int /\ reported.bytes \in Int
    BY <2>0, WordFacts, Zenon
  <2>2. CASE rl_memory_trace_init
    BY <2>2 DEF rl_memory_trace_init, TypeInv, TypeOK
  <2>3. CASE rl_memory_trace_deinit
    <3>1. PICK n \in Word : reported' = [blocks |-> Plus(reported.blocks, Len(header)),
                                         bytes  |-> Plus(reported.bytes, n)]
      BY <2>3 DEF rl_memory_trace_deinit
    <3>2. n \in Int
      BY WordFacts
    <3>3. Plus(reported.blocks, Len(header)) \in Word /\ Plus(reported.bytes, n) \in Word
      BY <2>1, <3>2, PlusMinusType
    <3> QED
      BY <3>1, <3>3
  <2> QED
    BY <2>2, <2>3
<1> QED
  BY <1>0, <1>1 DEF rl_memory_trace_init, rl_memory_trace_deinit, TypeInv, TypeOK,
                    CallInv, libc, local

(* TypeInv is inductive. *)
LEMMA TypeNext == TypeInv /\ [Next]_vars => TypeInv'
<1> SUFFICES ASSUME TypeInv, [Next]_vars PROVE TypeInv'
  OBVIOUS
<1>1. CASE UNCHANGED vars
  BY <1>1 DEF TypeInv, TypeOK, CallInv, vars, libc, trace, local
<1> QED
  BY <1>1, TypeCall, TypeStep, TypeTrace DEF Next

(* Every variable keeps its C type in every state: in particular both      *)
(* counters stay unsigned int, and no call ever works on or returns a      *)
(* pointer that is not an address.                                         *)
THEOREM TypeCorrect == Spec => []TypeOK
<1>1. TypeInv => TypeOK
  BY DEF TypeInv
<1> QED
  BY TypeInit, TypeNext, <1>1, PTL DEF Spec

-----------------------------------------------------------------------------
(* The mutex and the block counter                                         *)

(* The steps at which a thread does not rely on mem_lock. *)
Unlocked == {"idle", "m_check", "f_check", "f_libc", "r_check"}

(* While tracing is off the mutex is not initialised and the list is       *)
(* empty; this is what makes LockUsable and CountMatches inductive.        *)
TraceInv ==
  /\ TypeInv
  /\ trace_state <=> mutex = "ready"
  /\ ~trace_state => header = <<>>
  /\ LockUsable
  /\ CountMatches

(* Thread t goes to step s, and starts to rely on mem_lock only if it has  *)
(* found the flag set. *)
PcMoves(t, s) ==
  /\ pc' = [pc EXCEPT ![t] = s]
  /\ s \in Unlocked \/ trace_state \/ pc[t] \notin Unlocked

(* A thread's step moves at most its own pc and leaves the tracing state. *)
LEMMA ThreadPc ==
  ASSUME NEW t \in Threads, TypeInv, Call(t) \/ Step(t)
  PROVE  /\ UNCHANGED <<trace_state, mutex, reported>>
         /\ \E s \in Steps : PcMoves(t, s)
<1> USE DEF PcMoves
<1>1. CASE Call(t)
  BY <1>1 DEF Call, rl_malloc, rl_calloc, Allocated, rl_free, rl_realloc,
              external_malloc, MayCall, trace, Steps, Unlocked, TypeInv, TypeOK
<1>2. CASE alloc_check(t) \/ alloc_node(t) \/ push_node(t) \/ push_unlock(t)
  BY <1>2 DEF alloc_check, alloc_node, push_node, push_unlock, Return, Goto, trace,
              Steps, Unlocked
<1>3. CASE \/ free_check(t) \/ free_record(t) \/ free_unlock(t) \/ free_refuse(t)
           \/ free_libc(t)
  BY <1>3 DEF free_check, free_record, free_unlock, free_refuse, free_libc, Return,
              Goto, trace, Steps, Unlocked
<1>4. CASE \/ realloc_check(t) \/ realloc_record(t) \/ realloc_unlock(t)
           \/ realloc_node(t)
  BY <1>4 DEF realloc_check, realloc_record, realloc_unlock, realloc_node, Return,
              Goto, trace, Steps, Unlocked
<1> QED
  BY <1>1, <1>2, <1>3, <1>4 DEF Step

(* A thread's step keeps LockUsable. *)
LEMMA ThreadLock ==
  ASSUME NEW t \in Threads, TraceInv, Call(t) \/ Step(t)
  PROVE  LockUsable'
<1>0. TypeInv
  BY DEF TraceInv
<1>1. UNCHANGED <<trace_state, mutex>>
  BY <1>0, ThreadPc
<1>2a. PICK s \in Steps : PcMoves(t, s)
  BY <1>0, ThreadPc
<1>2. /\ pc' = [pc EXCEPT ![t] = s]
      /\ s \in Unlocked \/ trace_state \/ pc[t] \notin Unlocked
  BY <1>2a DEF PcMoves
<1>3. pc[t] \notin Unlocked => mutex = "ready"
  BY DEF TraceInv, LockUsable, Unlocked
<1>4. s \notin Unlocked => mutex = "ready"
  BY <1>2, <1>3 DEF TraceInv
<1> SUFFICES ASSUME NEW u \in Threads, pc'[u] \notin Unlocked
             PROVE  mutex' = "ready"
  BY DEF LockUsable, Unlocked
<1>5. CASE u = t
  BY <1>1, <1>2, <1>4, <1>5 DEF TraceInv, TypeInv, TypeOK
<1>6. CASE u # t
  BY <1>1, <1>2, <1>6 DEF TraceInv, TypeInv, TypeOK, LockUsable, Unlocked
<1> QED
  BY <1>5, <1>6

(* Modulo Wrap, a counter steps up and down as what it counts does. *)
LEMMA CountUp ==
  ASSUME NEW n \in Int, NEW k \in Int, NEW d \in Int
  PROVE  /\ Plus(Plus(n, k), d) = Plus(n + d, k)
         /\ Minus(Plus(n, k), d) = Plus(n - d, k)
<1> DEFINE m == n + k
           c == m % Wrap
           e == -d
<1>1. Wrap \in Nat \ {0} /\ m \in Int /\ e \in Int
  BY RlMemAssumption
<1>2. m + d = (n + d) + k /\ m + e = (n - d) + k
  OBVIOUS
<1> HIDE DEF m
<1>3. c \in Int
  BY <1>1, WordMod, WordFacts
<1>4. c - d = c + e
  BY <1>3
<1> HIDE DEF e
<1>5. (c + d) % Wrap = (m + d) % Wrap
  BY <1>1, ModPlus
<1>6. (c + e) % Wrap = (m + e) % Wrap
  BY <1>1, ModPlus
<1>7. Plus(n, k) = c
  BY DEF Plus, m
<1> HIDE DEF c
<1> QED
  BY <1>2, <1>4, <1>5, <1>6, <1>7 DEF Plus, Minus

(* A thread's step moves the counter along with the list. *)
LEMMA ThreadCount ==
  ASSUME NEW t \in Threads, TraceInv, Call(t) \/ Step(t)
  PROVE  CountMatches' /\ (~trace_state => header' = header)
<1> DEFINE n == Len(header)
           k == reported.blocks
<1>0. TypeInv
  BY DEF TraceInv
<1>1. n \in Nat /\ k \in Int /\ header \in Seq(Node)
  <2>1. n \in Nat /\ k \in Word
    BY <1>0, LenProperties DEF TypeInv, TypeOK
  <2> QED
    BY <1>0, <2>1, WordFacts, Zenon DEF TypeInv, TypeOK
<1>2. reported' = reported
  BY <1>0, ThreadPc
<1>3. block_count = Plus(n, k)
  BY DEF TraceInv, CountMatches
<1>a. Plus(Plus(n, k), 1) = Plus(n + 1, k) /\ Minus(Plus(n, k), 1) = Plus(n - 1, k)
  <2> HIDE DEF n, k
  <2>1. n \in Int /\ k \in Int /\ 1 \in Int
    BY <1>1
  <2> QED
    BY <2>1, CountUp
<1>4. CASE block_count' = block_count /\ Len(header') = n
           /\ (~trace_state => header' = header)
  BY <1>2, <1>3, <1>4 DEF CountMatches
<1>5. CASE push_node(t)
  <2>1. trace_state
    BY <1>5 DEF push_node, Goto, TraceInv, LockUsable
  <2>2. [ptr |-> ptr[t], size |-> size[t]] \in Node
    BY <1>0, <1>5 DEF push_node, Goto, Node, TypeInv, TypeOK, CallInv
  <2>3. Len(header') = n + 1
    BY <1>1, <1>5, <2>2, ConsType DEF push_node
  <2>4. block_count' = Plus(block_count, 1)
    BY <1>5 DEF push_node
  <2>5. block_count' = Plus(n + 1, k)
    BY <1>3, <1>a, <2>4
  <2> QED
    BY <1>2, <2>1, <2>3, <2>5 DEF CountMatches
<1>6. CASE free_record(t)
  <2> DEFINE i == Find(ptr[t])
  <2>1. trace_state
    BY <1>6 DEF free_record, Goto, TraceInv, LockUsable
  <2>2. CASE i = 0
    BY <1>4, <1>6, <2>2 DEF free_record
  <2>3. CASE i # 0
    <3>1. i \in 1 .. n
      BY <1>1, <2>3, FindType
    <3>2. header' = RemoveAt(header, i) /\ block_count' = Minus(block_count, 1)
      BY <1>6, <2>3 DEF free_record
    <3> HIDE DEF i
    <3>3. Len(header') = n - 1
      BY <1>1, <3>1, <3>2, RemoveType
    <3>4. block_count' = Plus(n - 1, k)
      BY <1>3, <1>a, <3>2
    <3> QED
      BY <1>2, <2>1, <3>3, <3>4 DEF CountMatches
  <2> QED
    BY <2>2, <2>3
<1>7. CASE realloc_record(t)
  <2> DEFINE i == Find(old[t])
             e == [ptr |-> ptr[t], size |-> size[t]]
  <2>1. trace_state
    BY <1>7 DEF realloc_record, Goto, TraceInv, LockUsable
  <2>2. CASE i = 0
    BY <1>4, <1>7, <2>2 DEF realloc_record
  <2>3. CASE i # 0
    <3>1. i \in 1 .. n
      BY <1>1, <2>3, FindType
    <3>2. header' = [header EXCEPT ![i] = e] /\ block_count' = block_count
      BY <1>7, <2>3 DEF realloc_record
    <3>3. e \in Node
      BY <1>0, <1>7 DEF realloc_record, Goto, Node, TypeInv, TypeOK, CallInv
    <3> HIDE DEF i, e
    <3>4. Len(header') = n
      BY <1>1, <3>1, <3>2, <3>3, ExceptSeq
    <3> QED
      BY <1>4, <2>1, <3>2, <3>4
  <2> QED
    BY <2>2, <2>3
<1>8. CASE Call(t)
  BY <1>4, <1>8 DEF Call, rl_malloc, rl_calloc, Allocated, rl_free, rl_realloc,
                    external_malloc, trace
<1>9. CASE alloc_check(t) \/ alloc_node(t) \/ push_unlock(t) \/ free_check(t)
  BY <1>4, <1>9 DEF alloc_check, alloc_node, push_unlock, free_check, trace
<1>10. CASE free_unlock(t) \/ free_refuse(t) \/ free_libc(t)
  BY <1>4, <1>10 DEF free_unlock, free_refuse, free_libc, trace
<1>11. CASE realloc_check(t) \/ realloc_unlock(t) \/ realloc_node(t)
  BY <1>4, <1>11 DEF realloc_check, realloc_unlock, realloc_node, trace
<1> QED
  BY <1>5, <1>6, <1>7, <1>8, <1>9, <1>10, <1>11 DEF Step

(* TraceInv at program start. *)
LEMMA TraceInit == Init => TraceInv
<1> SUFFICES ASSUME Init PROVE TraceInv
  OBVIOUS
<1>1. Plus(0, 0) = 0
  BY RlMemAssumption DEF Plus
<1> QED
  BY <1>1, TypeInit, EmptySeq DEF Init, TraceInv, LockUsable, CountMatches

(* TraceInv is inductive. *)
LEMMA TraceNext == TraceInv /\ [Next]_vars => TraceInv'
<1> SUFFICES ASSUME TraceInv, [Next]_vars PROVE TraceInv'
  OBVIOUS
<1>0. TypeInv /\ TypeInv'
  BY TypeNext DEF TraceInv
<1>1. ASSUME NEW t \in Threads, Call(t) \/ Step(t) PROVE TraceInv'
  <2>1. UNCHANGED <<trace_state, mutex>>
    BY <1>0, <1>1, ThreadPc
  <2>2. LockUsable' /\ CountMatches' /\ (~trace_state => header' = header)
    BY <1>1, ThreadLock, ThreadCount
  <2> QED
    BY <1>0, <2>1, <2>2 DEF TraceInv
<1>2. CASE rl_memory_trace_init
  <2>1. header = <<>> /\ header' = header /\ UNCHANGED <<block_count, reported, pc>>
    BY <1>2 DEF rl_memory_trace_init, TraceInv, local
  <2>2. CountMatches'
    BY <2>1 DEF CountMatches, TraceInv
  <2>3. LockUsable'
    BY <1>2, <2>1 DEF rl_memory_trace_init, Quiet, LockUsable
  <2>4. (trace_state <=> mutex = "ready")'
    BY <1>2 DEF rl_memory_trace_init
  <2> QED
    BY <1>0, <2>1, <2>2, <2>3, <2>4 DEF TraceInv
<1>3. CASE rl_memory_trace_deinit
  <2> DEFINE n == Len(header)
             k == reported.blocks
  <2>1. n \in Int /\ k \in Int
    <3>1. n \in Int /\ k \in Word
      BY <1>0, LenProperties DEF TypeInv, TypeOK
    <3> QED
      BY <3>1, WordFacts, Zenon
  <2>2. header' = <<>> /\ reported'.blocks = Plus(k, n) /\ block_count' = block_count
    BY <1>3 DEF rl_memory_trace_deinit
  <2>3. block_count = Plus(n, k)
    BY DEF TraceInv, CountMatches
  <2>4. Plus(0, Plus(k, n)) = Plus(n, k)
    <3>1. Plus(k, n) \in Word
      BY <2>1, PlusMinusType
    <3>2. Plus(0, Plus(k, n)) = Plus(k, n)
      BY <3>1, PlusZero
    <3>3. k + n = n + k
      BY <2>1
    <3> QED
      BY <3>2, <3>3 DEF Plus
  <2>5. CountMatches'
    BY <2>2, <2>3, <2>4, EmptySeq DEF CountMatches
  <2>6. LockUsable' /\ (trace_state <=> mutex = "ready")'
    BY <1>3 DEF rl_memory_trace_deinit, Quiet, LockUsable, local
  <2> QED
    BY <1>0, <2>2, <2>5, <2>6 DEF TraceInv
<1>4. CASE UNCHANGED vars
  BY <1>0, <1>4 DEF TraceInv, LockUsable, CountMatches, vars, trace, local
<1> QED
  BY <1>1, <1>2, <1>3, <1>4 DEF Next

(* mem_lock is taken and released only while it is initialised, although   *)
(* the flag that says so is read without it.                               *)
THEOREM LockAlwaysUsable == Spec => []LockUsable
<1>1. TraceInv => LockUsable
  BY DEF TraceInv
<1> QED
  BY TraceInit, TraceNext, <1>1, PTL DEF Spec

(* g_alloc_block_count always equals, as an unsigned int, the length of    *)
(* the list plus the blocks all leak reports so far have dropped from it.  *)
THEOREM CountAlwaysMatches == Spec => []CountMatches
<1>1. TraceInv => CountMatches
  BY DEF TraceInv
<1> QED
  BY TraceInit, TraceNext, <1>1, PTL DEF Spec

-----------------------------------------------------------------------------
(* RlMem implements HeapContract, with every failure of an allocation.     *)
(*                                                                         *)
(* Every step of a thread is of one of four kinds, told apart by what it   *)
(* does to the blocks the threads hold and to the live blocks of libc: it  *)
(* keeps both, or it adds, removes or exchanges one block of the thread in *)
(* both. The contract and HeapAgrees follow from the kinds alone.          *)

HeldBy == [t \in Threads |-> Held(t)]
Live   == {a \in Addr : heap[a] # 0}

(* The pointer of a call is not also among the thread's own pointers.      *)
PtrApart == \A t \in Threads : ptr[t] \notin owned[t]

(* No block is with two threads.                                           *)
Disjoint ==
  \A t, u \in Threads : \A a \in Addr : a \in HeldBy[t] /\ a \in HeldBy[u] => t = u

HeapInv == TypeInv /\ PtrApart /\ Disjoint /\ HeapAgrees

Keeps == HeldBy' = HeldBy /\ Live' = Live

Adds(t, a) ==
  /\ a \notin Live
  /\ HeldBy' = [HeldBy EXCEPT ![t] = @ \cup {a}]
  /\ Live' = Live \cup {a}

Drops(t, a) ==
  /\ a \in HeldBy[t]
  /\ HeldBy' = [HeldBy EXCEPT ![t] = @ \ {a}]
  /\ Live' = Live \ {a}

Swaps(t, a, b) ==
  /\ a \in HeldBy[t]
  /\ b \notin Live
  /\ HeldBy' = [HeldBy EXCEPT ![t] = (@ \ {a}) \cup {b}]
  /\ Live' = (Live \ {a}) \cup {b}

(* The four kinds of step. *)
Kind(t) ==
  \/ Keeps
  \/ \E a \in Addr : Adds(t, a)
  \/ \E a \in Addr : Drops(t, a)
  \/ \E a, b \in Addr : Swaps(t, a, b)

(* HeldBy is a function to sets of addresses. *)
LEMMA HeldTyped ==
  ASSUME TypeInv
  PROVE  /\ HeldBy \in [Threads -> SUBSET Addr]
         /\ \A t \in Threads : HeldBy[t] = Held(t)
BY DEF TypeInv, TypeOK, HeldBy, Held

(* HeapAgrees in terms of Live and HeldBy. *)
LEMMA AgreesLive ==
  ASSUME TypeInv
  PROVE  HeapAgrees <=> \A a \in Addr : a \in Live <=> \E t \in Threads : a \in HeldBy[t]
BY HeldTyped DEF HeapAgrees, Live

-----------------------------------------------------------------------------
(* Which action is of which kind *)

(* A return that keeps the block, or gives it back to libc. *)
LEMMA ReturnKind ==
  ASSUME HeapInv, NEW t \in Threads, NEW from, from # "idle"
  PROVE  /\ Return(t, from, {ptr[t]}) /\ heap' = heap => Keeps /\ PtrApart'
         /\ Return(t, from, {}) /\ heap' = [heap EXCEPT ![ptr[t]] = 0]
              => Drops(t, ptr[t]) /\ ptr[t] \in Addr /\ PtrApart'
<1>0. TypeInv /\ TypeOK /\ PtrApart /\ NULL \notin Addr
  BY RlMemAssumption DEF HeapInv, TypeInv
<1>1. ASSUME Return(t, from, {ptr[t]}), heap' = heap
      PROVE  Keeps /\ PtrApart'
  <2>1. PtrApart'
    BY <1>0, <1>1 DEF Return, PtrApart, TypeOK, TypeInv, CallInv, Goto
  <2>2. ptr[t] \in Addr
    BY <1>0, <1>1 DEF Return, Goto, TypeInv, TypeOK, CallInv
  <2>3. ASSUME NEW u \in Threads PROVE Held(u)' = Held(u)
    BY <1>0, <1>1, <2>2 DEF Return, Held, TypeOK
  <2> QED
    BY <1>1, <2>1, <2>3 DEF Keeps, HeldBy, Live
<1>2. ASSUME Return(t, from, {}), heap' = [heap EXCEPT ![ptr[t]] = 0]
      PROVE  Drops(t, ptr[t]) /\ ptr[t] \in Addr /\ PtrApart'
  <2>1. ptr[t] \in Addr
    BY <1>0, <1>2 DEF Return, Goto, TypeInv, TypeOK, CallInv
  <2>2. PtrApart'
    BY <1>0, <1>2 DEF Return, PtrApart, TypeOK
  <2>3. ASSUME NEW u \in Threads
        PROVE  Held(u)' = IF u = t THEN Held(u) \ {ptr[t]} ELSE Held(u)
    BY <1>0, <1>2, <2>1 DEF Return, Held, TypeOK, PtrApart
  <2>4. Live' = Live \ {ptr[t]}
    BY <1>0, <1>2, <2>1 DEF Live, TypeOK
  <2>5. ptr[t] \in HeldBy[t]
    BY <1>0, <2>1 DEF HeldBy, Held
  <2>6. HeldBy' = [HeldBy EXCEPT ![t] = @ \ {ptr[t]}]
    BY <2>3 DEF HeldBy
  <2> QED
    BY <2>1, <2>2, <2>4, <2>5, <2>6 DEF Drops
<1> QED
  BY <1>1, <1>2

(* Every step of a call is of one of the four kinds. *)
LEMMA StepKind ==
  ASSUME HeapInv, NEW t \in Threads, Step(t)
  PROVE  Kind(t) /\ PtrApart'
<1>0. TypeOK /\ PtrApart
  BY DEF HeapInv, TypeInv
<1>1. ASSUME UNCHANGED <<heap, ptr, owned>> PROVE Kind(t) /\ PtrApart'
  BY <1>0, <1>1 DEF Kind, Keeps, HeldBy, Held, Live, PtrApart
<1>2. CASE alloc_check(t) \/ push_unlock(t) \/ free_refuse(t)
  BY <1>1, <1>2, ReturnKind DEF alloc_check, push_unlock, free_refuse, Kind, libc
<1>3. CASE alloc_node(t) \/ free_libc(t) \/ realloc_node(t)
  BY <1>1, <1>3, ReturnKind DEF alloc_node, free_libc, realloc_node, Kind
<1>4. CASE realloc_check(t) \/ realloc_unlock(t)
  BY <1>1, <1>4, ReturnKind DEF realloc_check, realloc_unlock, Kind, libc
<1>5. CASE \/ push_node(t) \/ free_check(t) \/ free_record(t) \/ free_unlock(t)
           \/ realloc_record(t)
  BY <1>1, <1>5 DEF push_node, free_check, free_record, free_unlock, realloc_record, libc
<1> QED
  BY <1>2, <1>3, <1>4, <1>5 DEF Step

(* So is every start of a call. *)
LEMMA CallKind ==
  ASSUME HeapInv, NEW t \in Threads, Call(t)
  PROVE  Kind(t) /\ PtrApart'
<1>0. TypeInv /\ TypeOK /\ PtrApart /\ HeapAgrees /\ NULL \notin Addr
  BY RlMemAssumption DEF HeapInv, TypeInv
<1>1. pc[t] = "idle" => ptr[t] = NULL
  BY <1>0 DEF TypeInv, CallInv
<1>2. \A a \in Free : a \in Addr /\ a \notin Live /\ \A u \in Threads : a \notin Held(u)
  BY <1>0 DEF Free, Live, HeapAgrees
<1>3. ASSUME NEW a \in Addr, NEW n \in Nat \ {0}, NEW r, MayCall(t),
             Allocated(t, a, n, r)
      PROVE  Kind(t) /\ PtrApart'
  <2>1. a \notin Live /\ a \notin owned[t] /\ ptr[t] = NULL
    BY <1>1, <1>2, <1>3 DEF Allocated, MayCall, Held
  <2>2. PtrApart'
    BY <1>0, <1>3, <2>1 DEF Allocated, PtrApart, TypeOK
  <2>3. Live' = Live \cup {a}
    BY <1>0, <1>3 DEF Allocated, Live, TypeOK
  <2>4. ASSUME NEW u \in Threads
        PROVE  Held(u)' = IF u = t THEN Held(u) \cup {a} ELSE Held(u)
    BY <1>0, <1>3, <2>1 DEF Allocated, Held, TypeOK
  <2>5. HeldBy' = [HeldBy EXCEPT ![t] = @ \cup {a}]
    BY <2>4 DEF HeldBy
  <2> QED
    BY <2>1, <2>2, <2>3, <2>5 DEF Kind, Adds
<1>4. CASE rl_malloc(t)
  BY <1>3, <1>4, WordFacts DEF rl_malloc
<1>5. CASE rl_calloc(t)
  BY <1>3, <1>5, CallocSize DEF rl_calloc
<1>6. CASE rl_free(t)
  <2>1. PICK p \in owned[t] : /\ ptr' = [ptr EXCEPT ![t] = p]
                              /\ owned' = [owned EXCEPT ![t] = @ \ {p}]
    BY <1>6 DEF rl_free
  <2>2. p \in Addr /\ ptr[t] = NULL
    BY <1>0, <1>1, <1>6 DEF rl_free, MayCall, TypeOK
  <2>3. PtrApart'
    BY <1>0, <2>1, <2>2 DEF PtrApart, TypeOK
  <2>4. ASSUME NEW u \in Threads PROVE Held(u)' = Held(u)
    BY <1>0, <2>1, <2>2 DEF Held, TypeOK
  <2>5. heap' = heap
    BY <1>6 DEF rl_free, libc
  <2> QED
    BY <2>3, <2>4, <2>5 DEF Kind, Keeps, HeldBy, Live
<1>7. CASE rl_realloc(t)
  <2>1. PICK p \in owned[t], n \in Sizes, a \in Addr :
          /\ a \in Free \cup {p}
          /\ heap' = [heap EXCEPT ![p] = 0, ![a] = n]
          /\ ptr' = [ptr EXCEPT ![t] = a]
          /\ owned' = [owned EXCEPT ![t] = @ \ {p}]
    BY <1>0, <1>7 DEF rl_realloc, Free, TypeOK
  <2>2. p \in Addr /\ a \in Addr /\ ptr[t] = NULL /\ n # 0
    BY <1>0, <1>1, <1>2, <1>7, WordFacts DEF rl_realloc, MayCall, TypeOK
  <2>3. p \in Held(t) /\ heap[p] # 0
    BY <1>0, <2>2 DEF Held, HeapAgrees
  <2>4. a # p => a \notin Live /\ a \notin Held(t)
    BY <1>2, <2>1
  <2>5. PtrApart'
    BY <1>0, <2>1, <2>2, <2>4 DEF PtrApart, TypeOK, Held
  <2>6. \A b \in Addr : heap'[b] = IF b = a THEN n ELSE IF b = p THEN 0 ELSE heap[b]
    BY <1>0, <2>1, <2>2 DEF TypeOK
  <2>7. ASSUME NEW u \in Threads
        PROVE  Held(u)' = IF u = t THEN (Held(u) \ {p}) \cup {a} ELSE Held(u)
    BY <1>0, <2>1, <2>2 DEF Held, TypeOK
  <2>8. CASE a = p
    <3>1. Live' = Live
      BY <2>2, <2>3, <2>6, <2>8 DEF Live
    <3>2. HeldBy' = HeldBy
      BY <2>3, <2>7, <2>8 DEF HeldBy
    <3> QED
      BY <2>5, <3>1, <3>2 DEF Kind, Keeps
  <2>9. CASE a # p
    <3>1. Live' = (Live \ {p}) \cup {a}
      BY <2>2, <2>6, <2>9 DEF Live
    <3>2. HeldBy' = [HeldBy EXCEPT ![t] = (@ \ {p}) \cup {a}]
      BY <2>7 DEF HeldBy
    <3>3. Swaps(t, p, a)
      BY <2>3, <2>4, <2>9, <3>1, <3>2 DEF Swaps, HeldBy
    <3> QED
      BY <2>2, <2>5, <3>3 DEF Kind
  <2> QED
    BY <2>8, <2>9
<1>8. CASE external_malloc(t)
  <2>1. PICK a \in Free, n \in Sizes : /\ heap' = [heap EXCEPT ![a] = n]
                                       /\ owned' = [owned EXCEPT ![t] = @ \cup {a}]
    BY <1>8 DEF external_malloc
  <2>2. a \in Addr /\ a \notin Live /\ ptr[t] = NULL /\ n # 0 /\ ptr' = ptr
    BY <1>1, <1>2, <1>8, WordFacts DEF external_malloc, MayCall
  <2>3. PtrApart'
    BY <1>0, <2>1, <2>2 DEF PtrApart, TypeOK
  <2>4. Live' = Live \cup {a}
    BY <1>0, <2>1, <2>2 DEF Live, TypeOK
  <2>5. ASSUME NEW u \in Threads
        PROVE  Held(u)' = IF u = t THEN Held(u) \cup {a} ELSE Held(u)
    BY <1>0, <2>1, <2>2 DEF Held, TypeOK
  <2>6. HeldBy' = [HeldBy EXCEPT ![t] = @ \cup {a}]
    BY <2>5 DEF HeldBy
  <2> QED
    BY <2>2, <2>3, <2>4, <2>6 DEF Kind, Adds
<1> QED
  BY <1>4, <1>5, <1>6, <1>7, <1>8 DEF Call

-----------------------------------------------------------------------------
(* What follows from the kinds *)

(* A step of one of the four kinds keeps Disjoint and HeapAgrees. *)
LEMMA KindInv ==
  ASSUME HeapInv, TypeInv', NEW t \in Threads, Kind(t)
  PROVE  Disjoint' /\ HeapAgrees'
<1>0. /\ HeldBy \in [Threads -> SUBSET Addr]
      /\ Disjoint
      /\ \A a \in Addr : a \in Live <=> \E u \in Threads : a \in HeldBy[u]
  BY HeldTyped, AgreesLive DEF HeapInv
<1>1. HeapAgrees' <=> (\A a \in Addr : a \in Live' <=> \E u \in Threads : a \in HeldBy'[u])
  <2>1. \A u \in Threads : HeldBy'[u] = Held(u)'
    BY DEF HeldBy
  <2> QED
    BY <2>1 DEF HeapAgrees, Live
<1>2. CASE Keeps
  BY <1>0, <1>1, <1>2 DEF Keeps, Disjoint
<1>3. ASSUME NEW a \in Addr, Adds(t, a) PROVE Disjoint' /\ HeapAgrees'
  BY <1>0, <1>1, <1>3 DEF Adds, Disjoint
<1>4. ASSUME NEW a \in Addr, Drops(t, a) PROVE Disjoint' /\ HeapAgrees'
  BY <1>0, <1>1, <1>4 DEF Drops, Disjoint
<1>5. ASSUME NEW a \in Addr, NEW b \in Addr, Swaps(t, a, b)
      PROVE  Disjoint' /\ HeapAgrees'
  BY <1>0, <1>1, <1>5 DEF Swaps, Disjoint
<1> QED
  BY <1>2, <1>3, <1>4, <1>5 DEF Kind

(* HeapInv at program start. *)
LEMMA HeapInit == Init => HeapInv
<1> SUFFICES ASSUME Init PROVE HeapInv
  OBVIOUS
<1> QED
  BY TypeInit, RlMemAssumption
     DEF Init, HeapInv, PtrApart, Disjoint, HeapAgrees, HeldBy, Held

(* HeapInv is inductive. *)
LEMMA HeapNext == HeapInv /\ [Next]_vars => HeapInv'
<1> SUFFICES ASSUME HeapInv, [Next]_vars PROVE HeapInv'
  OBVIOUS
<1>0. TypeInv /\ TypeInv'
  BY TypeNext DEF HeapInv
<1>1. ASSUME NEW t \in Threads, Call(t) \/ Step(t) PROVE HeapInv'
  BY <1>0, <1>1, CallKind, StepKind, KindInv DEF HeapInv
<1>2. ASSUME UNCHANGED <<heap, ptr, owned>> PROVE HeapInv'
  BY <1>0, <1>2 DEF HeapInv, PtrApart, Disjoint, HeapAgrees, HeldBy, Held
<1>3. CASE rl_memory_trace_init \/ rl_memory_trace_deinit \/ UNCHANGED vars
  BY <1>2, <1>3 DEF rl_memory_trace_init, rl_memory_trace_deinit, vars, libc, local
<1> QED
  BY <1>1, <1>3 DEF Next

(* No block is lost or handed out dead: the live blocks of libc are always *)
(* exactly the blocks that some thread holds.                              *)
THEOREM HeapAlwaysAgrees == Spec => []HeapAgrees
<1>1. HeapInv => HeapAgrees
  BY DEF HeapInv
<1> QED
  BY HeapInit, HeapNext, <1>1, PTL DEF Spec

(* The wrappers implement the contract of an allocator.                    *)
THEOREM ImplementsContract == Spec => ContractHeld
<1>1. Init => Contract!Init
  BY RlMemAssumption DEF Init, Contract!Init, Held
<1>2. HeapInv /\ HeapInv' /\ [Next]_vars => [Contract!Next]_HeldBy
  <2> SUFFICES ASSUME HeapInv, HeapInv', [Next]_vars
               PROVE  Contract!Next \/ HeldBy' = HeldBy
    OBVIOUS
  <2>0. /\ HeldBy \in [Threads -> SUBSET Addr]
        /\ \A a \in Addr : a \in Live <=> \E u \in Threads : a \in HeldBy[u]
    BY HeldTyped, AgreesLive DEF HeapInv
  <2>1. ASSUME NEW t \in Threads, Kind(t) PROVE Contract!Next \/ HeldBy' = HeldBy
    <3>1. ASSUME NEW a \in Addr, Adds(t, a) PROVE Contract!Acquire(t, a)
      BY <2>0, <3>1 DEF Adds, Contract!Acquire, Contract!Unheld, HeldBy
    <3>2. ASSUME NEW a \in Addr, Drops(t, a) PROVE Contract!Release(t, a)
      BY <3>2 DEF Drops, Contract!Release, HeldBy
    <3>3. ASSUME NEW a \in Addr, NEW b \in Addr, Swaps(t, a, b) PROVE Contract!Move(t, a, b)
      BY <2>0, <3>3 DEF Swaps, Contract!Move, Contract!Unheld, HeldBy
    <3> QED
      BY <2>1, <3>1, <3>2, <3>3 DEF Kind, Keeps, Contract!Next
  <2>2. CASE rl_memory_trace_init \/ rl_memory_trace_deinit \/ UNCHANGED vars
    BY <2>2 DEF rl_memory_trace_init, rl_memory_trace_deinit, vars, libc, local,
                HeldBy, Held
  <2> QED
    BY <2>1, <2>2, CallKind, StepKind DEF Next
<1> QED
  BY <1>1, <1>2, HeapInit, HeapNext, PTL
     DEF Spec, ContractHeld, Contract!Spec, HeldBy
=============================================================================
