---------------------------- MODULE RlMemRecords ----------------------------
(***************************************************************************)
(* Theorems about the trace list of RlMem, for every set of addresses and  *)
(* of sizes: with any number of threads it has as many nodes for a block   *)
(* as there are threads with a claim to one, with one thread it is exact;  *)
(* and the sizes in it add up to the counter of the bytes.                 *)
(***************************************************************************)
EXTENDS RlMemProofs, FiniteSetTheorems

-----------------------------------------------------------------------------
(* Counting the nodes for an address                                       *)

(* The positions in the list h of the nodes for a.                         *)
On(h, a) == {i \in 1 .. Len(h) : h[i].ptr = a}

(* What a list operation adds to a count.                                  *)
One(b) == IF b THEN 1 ELSE 0

(* A list has finitely many nodes.                                         *)
LEMMA OnFinite ==
  ASSUME NEW h \in Seq(Node), NEW a
  PROVE  /\ IsFiniteSet(On(h, a)) /\ Cardinality(On(h, a)) \in Nat
         /\ On(h, a) \subseteq 1 .. Len(h) /\ Len(h) \in Nat
<1>1. Len(h) \in Nat
  BY LenProperties
<1>2. IsFiniteSet(1 .. Len(h))
  BY <1>1, FS_Interval
<1>3. On(h, a) \subseteq 1 .. Len(h)
  BY DEF On
<1> QED
  BY <1>1, <1>2, <1>3, FS_Subset, FS_CardinalityType

(* Two sets that are matched one to one have the same number of elements.  *)
LEMMA SameCount ==
  ASSUME NEW S, IsFiniteSet(S), NEW T, NEW f \in [S -> T],
         \A x, y \in S : f[x] = f[y] => x = y,
         \A z \in T : \E x \in S : f[x] = z
  PROVE  IsFiniteSet(T) /\ Cardinality(T) = Cardinality(S)
<1>1. f \in Bijection(S, T)
  BY DEF Bijection, Injection, Surjection, IsInjective
<1>2. ExistsBijection(S, T)
  BY <1>1 DEF ExistsBijection
<1> QED
  BY <1>2, FS_Bijection

(* One more or one less element.                                           *)
LEMMA CountWithout ==
  ASSUME NEW S, IsFiniteSet(S), NEW x
  PROVE  Cardinality(S) = Cardinality(S \ {x}) + One(x \in S)
<1>1. IsFiniteSet(S \ {x}) /\ Cardinality(S) \in Nat /\ Cardinality(S \ {x}) \in Nat
  BY FS_RemoveElement, FS_CardinalityType
<1>2. Cardinality(S \ {x}) = IF x \in S THEN Cardinality(S) - 1 ELSE Cardinality(S)
  BY FS_RemoveElement
<1> QED
  BY <1>1, <1>2 DEF One

(* Cons puts one node before the others.                                   *)
LEMMA ConsItems ==
  ASSUME NEW h \in Seq(Node), NEW n \in Node
  PROVE  LET g == Cons(n, h)
         IN  /\ g \in Seq(Node) /\ Len(g) = Len(h) + 1 /\ Len(h) \in Nat
             /\ g[1] = n
             /\ \A i \in 1 .. Len(h) : g[i + 1] = h[i]
<1> DEFINE g == Cons(n, h)
<1>1. <<n>> \in Seq(Node) /\ Len(<<n>>) = 1 /\ <<n>>[1] = n
  OBVIOUS
<1>2. /\ <<n>> \o h \in Seq(Node)
      /\ Len(<<n>> \o h) = 1 + Len(h)
      /\ \A i \in 1 .. 1 + Len(h) :
           (<<n>> \o h)[i] = IF i <= 1 THEN <<n>>[i] ELSE h[i - 1]
  BY <1>1, ConcatProperties
<1>3. Len(h) \in Nat
  BY LenProperties
<1>4. g = <<n>> \o h
  BY DEF Cons
<1> HIDE DEF g
<1>5. g[1] = n
  BY <1>1, <1>2, <1>3, <1>4
<1>6. ASSUME NEW i \in 1 .. Len(h) PROVE g[i + 1] = h[i]
  <2>1. i + 1 \in 1 .. 1 + Len(h) /\ ~(i + 1 <= 1) /\ (i + 1) - 1 = i
    BY <1>3
  <2> QED
    BY <1>2, <1>4, <2>1
<1> QED
  BY <1>2, <1>3, <1>4, <1>5, <1>6 DEF g

(* So it adds to the count of one address.                                 *)
LEMMA ConsCount ==
  ASSUME NEW h \in Seq(Node), NEW n \in Node, NEW a
  PROVE  Cardinality(On(Cons(n, h), a)) = Cardinality(On(h, a)) + One(n.ptr = a)
<1> DEFINE g == Cons(n, h)
<1>1. /\ g \in Seq(Node) /\ Len(g) = Len(h) + 1 /\ Len(h) \in Nat
      /\ g[1] = n
      /\ \A i \in 1 .. Len(h) : g[i + 1] = h[i]
  BY ConsItems
<1> HIDE DEF g
<1> DEFINE S == On(h, a)
           T == On(g, a) \ {1}
           f == [i \in S |-> i + 1]
<1>2. IsFiniteSet(S) /\ IsFiniteSet(On(g, a)) /\ Cardinality(S) \in Nat
  BY <1>1, OnFinite
<1>3. Cardinality(T) = Cardinality(S)
  <2>1. f \in [S -> T]
    BY <1>1 DEF On
  <2>2. \A x, y \in S : f[x] = f[y] => x = y
    BY <1>1 DEF On
  <2>3. ASSUME NEW z \in T PROVE \E x \in S : f[x] = z
    <3>1. z \in 1 .. Len(h) + 1 /\ z # 1 /\ g[z].ptr = a
      BY <1>1 DEF On
    <3>2. z - 1 \in 1 .. Len(h) /\ (z - 1) + 1 = z
      BY <1>1, <3>1
    <3>3. g[(z - 1) + 1] = h[z - 1]
      BY <1>1, <3>2
    <3>4. z - 1 \in S
      BY <3>1, <3>2, <3>3 DEF On
    <3> QED
      BY <3>2, <3>4
  <2> HIDE DEF S, T, f
  <2> QED
    BY <1>2, <2>1, <2>2, <2>3, SameCount DEF S
<1>4. 1 \in On(g, a) <=> n.ptr = a
  BY <1>1 DEF On
<1>5. Cardinality(On(g, a)) = Cardinality(T) + One(1 \in On(g, a))
  BY <1>2, CountWithout
<1> QED
  BY <1>3, <1>4, <1>5 DEF g, One

(* RemoveAt closes the gap.                                                *)
LEMMA RemoveItems ==
  ASSUME NEW h \in Seq(Node), NEW i \in 1 .. Len(h)
  PROVE  LET g == RemoveAt(h, i)
         IN  /\ g \in Seq(Node) /\ Len(g) = Len(h) - 1 /\ Len(h) \in Nat
             /\ \A j \in 1 .. Len(h) - 1 : g[j] = IF j < i THEN h[j] ELSE h[j + 1]
<1> DEFINE n == Len(h)
           u == SubSeq(h, 1, i - 1)
           v == SubSeq(h, i + 1, n)
<1>1. n \in Nat /\ i \in Nat /\ \A j \in 1 .. n : h[j] \in Node
  BY LenProperties
<1>2. u \in Seq(Node) /\ Len(u) = i - 1 /\ \A j \in 1 .. i - 1 : u[j] = h[j]
  <2>1. \A j \in 1 .. i - 1 : h[j] \in Node
    BY <1>1
  <2>2. \A j \in 1 .. (i - 1) - 1 + 1 : u[j] = h[1 + j - 1]
    BY <1>1, <2>1, SubSeqProperties
  <2>3. u \in Seq(Node) /\ Len(u) = i - 1
    BY <1>1, <2>1, SubSeqProperties
  <2> HIDE DEF u
  <2>4. ASSUME NEW j \in 1 .. i - 1 PROVE u[j] = h[j]
    <3>1. j \in 1 .. (i - 1) - 1 + 1 /\ 1 + j - 1 = j
      BY <1>1
    <3> QED
      BY <2>2, <3>1
  <2> QED
    BY <2>3, <2>4
<1>3. v \in Seq(Node) /\ Len(v) = n - i /\ \A j \in 1 .. n - i : v[j] = h[i + j]
  <2>1. \A j \in i + 1 .. n : h[j] \in Node
    BY <1>1
  <2>2. \A j \in 1 .. n - (i + 1) + 1 : v[j] = h[i + 1 + j - 1]
    BY <1>1, <2>1, SubSeqProperties
  <2>3. v \in Seq(Node) /\ Len(v) = n - i
    BY <1>1, <2>1, SubSeqProperties
  <2> HIDE DEF v
  <2>4. ASSUME NEW j \in 1 .. n - i PROVE v[j] = h[i + j]
    <3>1. j \in 1 .. n - (i + 1) + 1 /\ i + 1 + j - 1 = i + j
      BY <1>1
    <3> QED
      BY <2>2, <3>1
  <2> QED
    BY <2>3, <2>4
<1>4. RemoveAt(h, i) = u \o v
  BY DEF RemoveAt
<1> HIDE DEF u, v
<1>5. /\ u \o v \in Seq(Node) /\ Len(u \o v) = n - 1
      /\ \A j \in 1 .. n - 1 : (u \o v)[j] = IF j <= i - 1 THEN u[j] ELSE v[j - (i - 1)]
  <2>1. /\ u \o v \in Seq(Node) /\ Len(u \o v) = Len(u) + Len(v)
        /\ \A j \in 1 .. Len(u) + Len(v) :
             (u \o v)[j] = IF j <= Len(u) THEN u[j] ELSE v[j - Len(u)]
    BY <1>2, <1>3, ConcatProperties
  <2>2. Len(u) + Len(v) = n - 1
    BY <1>1, <1>2, <1>3
  <2> QED
    BY <1>2, <2>1, <2>2
<1>6. ASSUME NEW j \in 1 .. n - 1
      PROVE  (u \o v)[j] = IF j < i THEN h[j] ELSE h[j + 1]
  <2>1. CASE j < i
    BY <1>1, <1>2, <1>5, <2>1
  <2>2. CASE ~(j < i)
    <3>1. j - (i - 1) \in 1 .. n - i /\ i + (j - (i - 1)) = j + 1 /\ ~(j <= i - 1)
      BY <1>1, <2>2
    <3>2. v[j - (i - 1)] = h[j + 1]
      BY <1>3, <3>1
    <3> QED
      BY <1>5, <2>2, <3>1, <3>2
  <2> QED
    BY <2>1, <2>2
<1> QED
  BY <1>1, <1>4, <1>5, <1>6

(* RemoveAt takes one node away.                                           *)
LEMMA RemoveCount ==
  ASSUME NEW h \in Seq(Node), NEW i \in 1 .. Len(h), NEW a
  PROVE  Cardinality(On(h, a)) = Cardinality(On(RemoveAt(h, i), a)) + One(h[i].ptr = a)
<1> DEFINE g == RemoveAt(h, i)
<1>a. /\ g \in Seq(Node) /\ Len(g) = Len(h) - 1 /\ Len(h) \in Nat
      /\ \A j \in 1 .. Len(h) - 1 : g[j] = IF j < i THEN h[j] ELSE h[j + 1]
  BY RemoveItems, Zenon
<1> HIDE DEF g
<1>1. /\ g \in Seq(Node) /\ Len(g) = Len(h) - 1 /\ Len(h) \in Nat /\ i \in Nat
      /\ \A j \in 1 .. Len(h) - 1 : g[j] = IF j < i THEN h[j] ELSE h[j + 1]
  BY <1>a
<1> DEFINE S == On(h, a) \ {i}
           T == On(g, a)
           f == [j \in S |-> IF j < i THEN j ELSE j - 1]
<1>2. IsFiniteSet(On(h, a)) /\ IsFiniteSet(S) /\ Cardinality(S) \in Nat
  <2>1. IsFiniteSet(On(h, a))
    BY OnFinite
  <2> QED
    BY <2>1, FS_RemoveElement, FS_CardinalityType
<1>3. Cardinality(T) = Cardinality(S)
  <2>1. ASSUME NEW j \in S PROVE f[j] \in T
    <3>1. j \in 1 .. Len(h) /\ j # i /\ h[j].ptr = a /\ j \in Nat
      BY <1>1 DEF On
    <3>2. CASE j < i
      <4>1. j \in 1 .. Len(h) - 1 /\ g[j] = h[j]
        BY <1>1, <3>1, <3>2
      <4> QED
        BY <1>1, <3>1, <3>2, <4>1 DEF On
    <3>3. CASE j > i
      <4>1. j - 1 \in 1 .. Len(h) - 1 /\ ~(j - 1 < i) /\ (j - 1) + 1 = j /\ ~(j < i)
        BY <1>1, <3>1, <3>3
      <4>2. g[j - 1] = h[j]
        BY <1>1, <4>1
      <4> QED
        BY <1>1, <3>1, <4>1, <4>2 DEF On
    <3> QED
      BY <1>1, <3>1, <3>2, <3>3
  <2>2. ASSUME NEW x \in S, NEW y \in S, f[x] = f[y] PROVE x = y
    <3>1. x \in Nat /\ y \in Nat /\ x # i /\ y # i
      BY <1>1 DEF On
    <3> QED
      BY <1>1, <2>2, <3>1
  <2>3. ASSUME NEW z \in T PROVE \E x \in S : f[x] = z
    <3>1. z \in 1 .. Len(h) - 1 /\ g[z].ptr = a /\ z \in Nat
      BY <1>1 DEF On
    <3>2. CASE z < i
      <4>1. z \in S /\ f[z] = z
        BY <1>1, <3>1, <3>2 DEF On
      <4> QED
        BY <4>1
    <3>3. CASE ~(z < i)
      <4>1. z + 1 \in 1 .. Len(h) /\ z + 1 # i /\ ~(z + 1 < i) /\ (z + 1) - 1 = z
        BY <1>1, <3>1, <3>3
      <4>2. h[z + 1].ptr = a
        BY <1>1, <3>1, <3>3
      <4>3. z + 1 \in S
        BY <4>1, <4>2 DEF On
      <4>4. f[z + 1] = z
        BY <4>1, <4>3
      <4> QED
        BY <4>3, <4>4
    <3> QED
      BY <3>2, <3>3
  <2>4. f \in [S -> T]
    BY <2>1
  <2> HIDE DEF S, T, f
  <2> QED
    BY <1>2, <2>2, <2>3, <2>4, SameCount
<1>4. i \in On(h, a) <=> h[i].ptr = a
  BY DEF On
<1>5. Cardinality(On(h, a)) = Cardinality(S) + One(i \in On(h, a))
  BY <1>2, CountWithout
<1> QED
  BY <1>3, <1>4, <1>5 DEF g, One

(* g is h with n for its node i.                                           *)
Repointed(g, h, i, n) == g = [h EXCEPT ![i] = n]

(* A node that is pointed to another block moves from one count to another. *)
LEMMA RenameCount ==
  ASSUME NEW h \in Seq(Node), NEW i \in 1 .. Len(h), NEW n \in Node, NEW a,
         NEW g, Repointed(g, h, i, n)
  PROVE  /\ g \in Seq(Node)
         /\ Cardinality(On(g, a)) + One(h[i].ptr = a)
              = Cardinality(On(h, a)) + One(n.ptr = a)
<1>1. /\ g \in Seq(Node) /\ Len(g) = Len(h)
      /\ \A j \in 1 .. Len(h) : g[j] = IF j = i THEN n ELSE h[j]
  BY ExceptSeq DEF Repointed
<1>2. On(g, a) \ {i} = On(h, a) \ {i}
  BY <1>1 DEF On
<1>3. /\ i \in On(h, a) <=> h[i].ptr = a
      /\ i \in On(g, a) <=> n.ptr = a
  BY <1>1 DEF On
<1>4. /\ IsFiniteSet(On(g, a)) /\ IsFiniteSet(On(h, a))
      /\ Cardinality(On(h, a) \ {i}) \in Nat
  BY <1>1, OnFinite, FS_RemoveElement, FS_CardinalityType
<1>5. Cardinality(On(h, a)) = Cardinality(On(h, a) \ {i}) + One(i \in On(h, a))
  BY <1>4, CountWithout
<1>6. Cardinality(On(g, a)) = Cardinality(On(g, a) \ {i}) + One(i \in On(g, a))
  BY <1>4, CountWithout
<1>7. Cardinality(On(g, a) \ {i}) = Cardinality(On(h, a) \ {i})
  BY <1>2
<1> QED
  BY <1>1, <1>3, <1>4, <1>5, <1>6, <1>7 DEF One

(* Find gives a node for the pointer if there is one.                      *)
LEMMA FindSound ==
  ASSUME header \in Seq(Node), NEW p
  PROVE  /\ Entries(p) = On(header, p)
         /\ Find(p) = 0 => On(header, p) = {}
         /\ Find(p) # 0 => Find(p) \in 1 .. Len(header) /\ header[Find(p)].ptr = p
<1> DEFINE I == {i \in 1 .. Len(header) : header[i].ptr = p}
<1>1. I \in SUBSET (1 .. Len(header)) /\ Len(header) \in Nat /\ DOMAIN header = 1 .. Len(header)
  OBVIOUS
<1>2. Find(p) = IF I # {} THEN Min(I) ELSE 0
  BY DEF Find, SelectInSeq
<1>3. I # {} => Min(I) \in I
  BY <1>1, MinExists
<1>4. I = On(header, p) /\ Entries(p) = I
  BY <1>1 DEF On, Entries
<1>5. I = {} \/ Find(p) \in I
  BY <1>2, <1>3
<1>6. I = {} => Find(p) = 0
  BY <1>2
<1>7. 0 \notin I
  BY <1>1
<1> QED
  BY <1>4, <1>5, <1>6, <1>7

-----------------------------------------------------------------------------
(* A host that calls the wrappers while tracing is on                      *)

(* The host keeps to the comments at rl_memory_trace_init and              *)
(* rl_memory_trace_deinit: tracing starts before its first call, and the   *)
(* program ends with it.                                                   *)
Traced == "untraced" \notin Ops /\ "deinit" \notin Ops

(* Before tracing starts no call is made and no block is in use.           *)
OnceOn == ~trace_state => \A t \in Threads : pc[t] = "idle" /\ owned[t] = {}

(* A step of t changes nothing of another thread's.                        *)
LEMMA OthersSame ==
  ASSUME TypeInv, NEW t \in Threads, Call(t) \/ Step(t), NEW u \in Threads, u # t
  PROVE  /\ pc'[u] = pc[u] /\ ptr'[u] = ptr[u] /\ old'[u] = old[u]
         /\ owned'[u] = owned[u]
<1> USE DEF TypeInv, TypeOK
<1>1. CASE Call(t)
  BY <1>1 DEF Call, rl_malloc, rl_calloc, Allocated, rl_free, rl_realloc, external_malloc
<1>2. CASE alloc_check(t) \/ alloc_node(t) \/ push_node(t) \/ push_unlock(t)
  BY <1>2 DEF alloc_check, alloc_node, push_node, push_unlock, Return, Goto
<1>3. CASE \/ free_check(t) \/ free_record(t) \/ free_unlock(t) \/ free_refuse(t)
           \/ free_libc(t)
  BY <1>3 DEF free_check, free_record, free_unlock, free_refuse, free_libc, Return, Goto
<1>4. CASE \/ realloc_check(t) \/ realloc_record(t) \/ realloc_unlock(t)
           \/ realloc_node(t)
  BY <1>4 DEF realloc_check, realloc_record, realloc_unlock, realloc_node, Return, Goto
<1> QED
  BY <1>1, <1>2, <1>3, <1>4 DEF Step

(* A step belongs to a call under way.                                     *)
LEMMA StepBusy ==
  ASSUME NEW t \in Threads, Step(t)
  PROVE  pc[t] # "idle"
BY DEF Step, alloc_check, alloc_node, push_node, push_unlock, free_check, free_record,
       free_unlock, free_refuse, free_libc, realloc_check, realloc_record,
       realloc_unlock, realloc_node, Return, Goto

(* So a thread takes steps only after tracing has started.                 *)
LEMMA MovesTraced ==
  ASSUME Traced, OnceOn, NEW t \in Threads, Call(t) \/ Step(t)
  PROVE  trace_state
<1>1. CASE Call(t)
  BY <1>1 DEF Call, rl_malloc, rl_calloc, rl_free, rl_realloc, external_malloc, MayCall, Traced
<1>2. CASE Step(t)
  BY <1>2, StepBusy DEF OnceOn
<1> QED
  BY <1>1, <1>2

(* OnceOn holds throughout.                                                *)
LEMMA OnceAlways ==
  ASSUME Traced
  PROVE  Spec => []OnceOn
<1>1. Init => OnceOn
  BY DEF Init, OnceOn
<1>2. TraceInv /\ OnceOn /\ [Next]_vars => OnceOn'
  <2> SUFFICES ASSUME TraceInv, OnceOn, [Next]_vars PROVE OnceOn'
    OBVIOUS
  <2>1. ASSUME NEW t \in Threads, Call(t) \/ Step(t) PROVE OnceOn'
    <3>1. trace_state
      BY <2>1, MovesTraced
    <3>2. trace_state' = trace_state
      BY <2>1, ThreadPc DEF TraceInv
    <3> QED
      BY <3>1, <3>2 DEF OnceOn
  <2>2. CASE rl_memory_trace_init
    BY <2>2 DEF rl_memory_trace_init, OnceOn, local
  <2>3. CASE rl_memory_trace_deinit
    BY <2>3 DEF rl_memory_trace_deinit, Traced
  <2>4. CASE UNCHANGED vars
    BY <2>4 DEF vars, trace, local, OnceOn
  <2> QED
    BY <2>1, <2>2, <2>3, <2>4 DEF Next
<1> QED
  BY <1>1, <1>2, TraceInit, TraceNext, PTL DEF Spec

-----------------------------------------------------------------------------
(* One node for each claim                                                 *)

(* The threads a node for a is there for.                                  *)
ClaimSet(a) == {t \in Threads : Claims(t, a)}

(* No search fails. rl_realloc's old pointer is no longer its caller's.    *)
BalanceInv ==
  /\ RecordsBalance
  /\ \A t \in Threads :
       /\ pc[t] \notin {"f_miss", "r_miss", "r_node"}
       /\ pc[t] \in {"r_check", "r_lock"} => old[t] \notin owned[t]

(* A step of t that changes the count of nodes for a by as much as its own *)
(* claim keeps the balance for a.                                          *)
LEMMA BalanceMove ==
  ASSUME IsFiniteSet(Threads), TypeInv, TypeInv', NEW t \in Threads, Call(t) \/ Step(t),
         NEW a, Cardinality(Entries(a)) = Cardinality(ClaimSet(a)),
         Cardinality(On(header', a)) + One(Claims(t, a))
           = Cardinality(On(header, a)) + One(Claims(t, a)')
  PROVE  Cardinality(Entries(a)') = Cardinality(ClaimSet(a)')
<1>1. header \in Seq(Node) /\ header' \in Seq(Node)
  BY DEF TypeInv, TypeOK
<1>2. Entries(a) = On(header, a) /\ Entries(a)' = On(header', a)
  <2>1. DOMAIN header = 1 .. Len(header) /\ DOMAIN header' = 1 .. Len(header')
    BY <1>1
  <2> QED
    BY <2>1 DEF Entries, On
<1>3. \A u \in Threads \ {t} : Claims(u, a)' <=> Claims(u, a)
  BY OthersSame DEF Claims
<1>4. ClaimSet(a)' \ {t} = ClaimSet(a) \ {t}
  BY <1>3 DEF ClaimSet
<1>5. IsFiniteSet(ClaimSet(a)) /\ IsFiniteSet(ClaimSet(a)')
  BY FS_Subset DEF ClaimSet
<1>6. Cardinality(ClaimSet(a)) = Cardinality(ClaimSet(a) \ {t}) + One(Claims(t, a))
  <2>1. t \in ClaimSet(a) <=> Claims(t, a)
    BY DEF ClaimSet
  <2> QED
    BY <1>5, <2>1, CountWithout DEF One
<1>7. Cardinality(ClaimSet(a)') = Cardinality(ClaimSet(a)' \ {t}) + One(Claims(t, a)')
  <2>1. t \in ClaimSet(a)' <=> Claims(t, a)'
    BY DEF ClaimSet
  <2> QED
    BY <1>5, <2>1, CountWithout DEF One
<1>8. Cardinality(ClaimSet(a)' \ {t}) = Cardinality(ClaimSet(a) \ {t})
  BY <1>4
<1>9. /\ Cardinality(ClaimSet(a) \ {t}) \in Nat
      /\ Cardinality(On(header, a)) \in Nat /\ Cardinality(On(header', a)) \in Nat
  BY <1>1, <1>5, OnFinite, FS_RemoveElement, FS_CardinalityType
<1>10. One(Claims(t, a)) \in Nat /\ One(Claims(t, a)') \in Nat
  BY DEF One
<1> QED
  BY <1>2, <1>6, <1>7, <1>8, <1>9, <1>10

(* Outside the three critical sections a thread's claims stay as they are. *)
LEMMA ClaimsKept ==
  ASSUME "external" \notin Ops, TypeInv, trace_state, NEW t \in Threads,
         pc[t] \notin {"f_miss", "r_miss", "r_node"},
         Call(t) \/ Step(t), ~push_node(t), ~free_record(t), ~realloc_record(t), NEW a
  PROVE  header' = header /\ (Claims(t, a)' <=> Claims(t, a))
<1> USE DEF TypeInv, TypeOK
<1>a. ASSUME NEW from, Return(t, from, {})
      PROVE  pc[t] = from /\ pc' = [pc EXCEPT ![t] = "idle"] /\ owned'[t] = owned[t]
  <2>1. owned' = [owned EXCEPT ![t] = owned[t] \cup {}] /\ owned[t] \cup {} = owned[t]
    BY <1>a DEF Return
  <2> QED
    BY <1>a, <2>1 DEF Return, Goto
<1> USE DEF Claims
<1>1. CASE rl_malloc(t) \/ rl_calloc(t)
  BY <1>1 DEF rl_malloc, rl_calloc, Allocated, MayCall, trace
<1>2. CASE rl_free(t)
  BY <1>2 DEF rl_free, MayCall, trace
<1>3. CASE rl_realloc(t)
  <2>1. PICK p \in owned[t] : /\ old' = [old EXCEPT ![t] = p]
                              /\ owned' = [owned EXCEPT ![t] = @ \ {p}]
    BY <1>3 DEF rl_realloc
  <2>2. pc[t] = "idle" /\ pc' = [pc EXCEPT ![t] = "r_check"] /\ header' = header
    BY <1>3 DEF rl_realloc, MayCall, trace
  <2> QED
    BY <2>1, <2>2
<1>0. ASSUME NEW from \in {"m_check", "m_node", "f_unlock", "f_libc"},
             NEW to \in {"m_node", "m_lock", "f_libc", "idle"},
             pc[t] = from, pc' = [pc EXCEPT ![t] = to], owned'[t] = owned[t]
      PROVE  Claims(t, a)' <=> Claims(t, a)
  BY <1>0
<1>4. CASE alloc_check(t) \/ alloc_node(t)
  <2>1. /\ pc[t] \in {"m_check", "m_node"} /\ header' = header
        /\ owned'[t] = owned[t]
        /\ \E to \in {"m_node", "m_lock", "idle"} : pc' = [pc EXCEPT ![t] = to]
    BY <1>4, <1>a DEF alloc_check, alloc_node, Goto, trace
  <2> QED
    BY <1>0, <2>1
<1>5. CASE push_unlock(t)
  BY <1>5 DEF push_unlock, Return, Goto, trace
<1>6. CASE free_check(t)
  BY <1>6 DEF free_check, Goto, trace
<1>7. CASE free_unlock(t) \/ free_refuse(t) \/ free_libc(t)
  <2>1. /\ pc[t] \in {"f_unlock", "f_libc"} /\ header' = header
        /\ owned'[t] = owned[t]
        /\ \E to \in {"f_libc", "idle"} : pc' = [pc EXCEPT ![t] = to]
    BY <1>7, <1>a DEF free_unlock, free_refuse, free_libc, Goto, trace, Return
  <2> QED
    BY <1>0, <2>1
<1>8. CASE realloc_check(t)
  BY <1>8 DEF realloc_check, Return, Goto, trace
<1>9. CASE realloc_unlock(t) \/ realloc_node(t)
  <2>1. Return(t, "r_unlock", {ptr[t]}) /\ header' = header
    BY <1>9 DEF realloc_unlock, realloc_node, Return, Goto, trace
  <2>2. /\ pc[t] = "r_unlock" /\ pc'[t] = "idle" /\ owned'[t] = owned[t] \cup {ptr[t]}
    BY <2>1 DEF Return, Goto
  <2> QED
    BY <2>1, <2>2
<1> QED
  BY <1>1, <1>2, <1>3, <1>4, <1>5, <1>6, <1>7, <1>8, <1>9
     DEF Call, Step, external_malloc

(* A claim to a block has a node to show for it.                           *)
LEMMA ClaimFound ==
  ASSUME IsFiniteSet(Threads), TypeInv, RecordsBalance, NEW t \in Threads, NEW a \in Addr,
         Claims(t, a)
  PROVE  Find(a) # 0
<1>1. header \in Seq(Node)
  BY DEF TypeInv, TypeOK
<1>2. IsFiniteSet(ClaimSet(a)) /\ ClaimSet(a) # {}
  BY FS_Subset DEF ClaimSet
<1>3. Cardinality(ClaimSet(a)) # 0
  BY <1>2, FS_EmptySet
<1>4. Cardinality(On(header, a)) # 0
  BY <1>1, <1>3, FindSound DEF RecordsBalance, ClaimSet
<1> QED
  BY <1>1, <1>4, FindSound, FS_EmptySet

(* In the critical sections the list follows the claims.                   *)
LEMMA ClaimsFollowed ==
  ASSUME IsFiniteSet(Threads), HeapInv, BalanceInv, NEW t \in Threads,
         push_node(t) \/ free_record(t) \/ realloc_record(t), NEW a
  PROVE  /\ Cardinality(On(header', a)) + One(Claims(t, a))
              = Cardinality(On(header, a)) + One(Claims(t, a)')
         /\ pc'[t] \notin {"f_miss", "r_miss"}
<1>1. TypeInv /\ TypeOK /\ PtrApart
  BY DEF HeapInv, TypeInv
<1>2. header \in Seq(Node) /\ Len(header) \in Nat
  BY <1>1, LenProperties DEF TypeOK
<1>3. Cardinality(On(header, a)) \in Nat
  BY <1>2, OnFinite
<1>4. pc[t] # "idle" => ptr[t] \in Addr /\ ptr[t] \notin owned[t]
  BY <1>1 DEF TypeInv, TypeOK, CallInv, PtrApart
<1>5. CASE push_node(t)
  <2> DEFINE n == [ptr |-> ptr[t], size |-> size[t]]
  <2>1. /\ header' = Cons(n, header) /\ pc[t] = "m_lock" /\ pc'[t] = "m_unlock"
        /\ UNCHANGED <<ptr, old, owned>>
    BY <1>1, <1>5 DEF push_node, Goto, TypeOK
  <2>2. n \in Node /\ n.ptr = ptr[t]
    BY <1>1, <1>4, <2>1 DEF Node, TypeOK
  <2> HIDE DEF n
  <2>3. Cardinality(On(header', a)) = Cardinality(On(header, a)) + One(a = ptr[t])
    BY <1>2, <2>1, <2>2, ConsCount DEF One
  <2>4. Claims(t, a) <=> a \in owned[t]
    BY <2>1 DEF Claims
  <2>5. Claims(t, a)' <=> a \in owned[t] \/ a = ptr[t]
    BY <2>1 DEF Claims
  <2> QED
    BY <1>3, <1>4, <2>1, <2>3, <2>4, <2>5 DEF One
<1>6. CASE free_record(t)
  <2>1. pc[t] = "f_lock" /\ UNCHANGED <<ptr, old, owned>>
    BY <1>6 DEF free_record, Goto
  <2>2. ptr[t] \in Addr /\ Claims(t, ptr[t])
    BY <1>4, <2>1 DEF Claims
  <2>3. Find(ptr[t]) # 0
    BY <1>1, <2>2, ClaimFound DEF BalanceInv
  <2>4. PICK i \in 1 .. Len(header) : i = Find(ptr[t]) /\ header[i].ptr = ptr[t]
    BY <1>2, <2>3, FindSound
  <2>5. header' = RemoveAt(header, i) /\ pc'[t] = "f_unlock"
    BY <1>1, <1>6, <2>3, <2>4 DEF free_record, Goto, TypeOK
  <2>6. Cardinality(On(header, a)) = Cardinality(On(header', a)) + One(a = ptr[t])
    BY <1>2, <2>4, <2>5, RemoveCount DEF One
  <2>7. Claims(t, a) <=> a \in owned[t] \/ a = ptr[t]
    BY <2>1 DEF Claims
  <2>8. Claims(t, a)' <=> a \in owned[t]
    BY <2>1, <2>5 DEF Claims
  <2>9. Cardinality(On(header', a)) \in Nat
    <3>1. header' \in Seq(Node)
      BY <1>2, <2>4, <2>5, RemoveType
    <3> QED
      BY <3>1, OnFinite
  <2> QED
    BY <1>3, <1>4, <2>1, <2>5, <2>6, <2>7, <2>8, <2>9 DEF One
<1>7. CASE realloc_record(t)
  <2> DEFINE n == [ptr |-> ptr[t], size |-> size[t]]
  <2>1. pc[t] = "r_lock" /\ UNCHANGED <<ptr, old, owned>>
    BY <1>7 DEF realloc_record, Goto
  <2>2. old[t] \in Addr /\ Claims(t, old[t]) /\ old[t] \notin owned[t]
    BY <1>1, <2>1 DEF Claims, TypeInv, TypeOK, CallInv, BalanceInv
  <2>3. Find(old[t]) # 0
    BY <1>1, <2>2, ClaimFound DEF BalanceInv
  <2>4. PICK i \in 1 .. Len(header) : i = Find(old[t]) /\ header[i].ptr = old[t]
    BY <1>2, <2>3, FindSound
  <2>5. header' = [header EXCEPT ![i] = n] /\ pc'[t] = "r_unlock"
    BY <1>1, <1>7, <2>3, <2>4 DEF realloc_record, Goto, TypeOK
  <2>6. n \in Node /\ n.ptr = ptr[t]
    BY <1>1, <1>4, <2>1 DEF Node, TypeOK
  <2> HIDE DEF n
  <2>7. Cardinality(On(header', a)) + One(a = old[t])
          = Cardinality(On(header, a)) + One(a = ptr[t])
    <3>1. Cardinality(On(header', a)) + One(header[i].ptr = a)
            = Cardinality(On(header, a)) + One(n.ptr = a)
      <4>1. Repointed(header', header, i, n)
        BY <2>5 DEF Repointed
      <4> QED
        BY <1>2, <2>6, <4>1, RenameCount
    <3>2. One(header[i].ptr = a) = One(a = old[t]) /\ One(n.ptr = a) = One(a = ptr[t])
      BY <2>4, <2>6 DEF One
    <3> QED
      BY <3>1, <3>2
  <2>8. Claims(t, a) <=> a \in owned[t] \/ a = old[t]
    BY <2>1 DEF Claims
  <2>9. Claims(t, a)' <=> a \in owned[t] \/ a = ptr[t]
    BY <2>1, <2>5 DEF Claims
  <2>10. Cardinality(On(header', a)) \in Nat
    <3>1. header' \in Seq(Node)
      BY <1>2, <2>4, <2>5, <2>6, ExceptSeq
    <3> QED
      BY <3>1, OnFinite
  <2> QED
    BY <1>3, <1>4, <2>1, <2>2, <2>5, <2>7, <2>8, <2>9, <2>10 DEF One
<1> QED
  BY <1>5, <1>6, <1>7

(* The old pointer of a rl_realloc is not its caller's, and no thread gets *)
(* past a search that failed.                                              *)
LEMMA BalanceCalls ==
  ASSUME Traced, "external" \notin Ops, TypeInv, trace_state, BalanceInv, NEW t \in Threads,
         Call(t) \/ Step(t), pc'[t] \notin {"f_miss", "r_miss"}
  PROVE  /\ pc'[t] # "r_node"
         /\ pc'[t] \in {"r_check", "r_lock"} => old'[t] \notin owned'[t]
<1> USE DEF TypeInv, TypeOK, BalanceInv
<1>1. CASE rl_malloc(t) \/ rl_calloc(t)
  BY <1>1 DEF rl_malloc, rl_calloc, Allocated
<1>2. CASE rl_free(t)
  BY <1>2 DEF rl_free
<1>3. CASE rl_realloc(t)
  <2>1. PICK p \in owned[t] : /\ old' = [old EXCEPT ![t] = p]
                              /\ owned' = [owned EXCEPT ![t] = @ \ {p}]
    BY <1>3 DEF rl_realloc
  <2>2. pc' = [pc EXCEPT ![t] = "r_check"]
    BY <1>3 DEF rl_realloc
  <2> QED
    BY <2>1, <2>2
<1>4. CASE alloc_check(t) \/ alloc_node(t) \/ push_node(t) \/ push_unlock(t)
  BY <1>4 DEF alloc_check, alloc_node, push_node, push_unlock, Return, Goto
<1>5. CASE \/ free_check(t) \/ free_record(t) \/ free_unlock(t) \/ free_refuse(t)
           \/ free_libc(t)
  BY <1>5 DEF free_check, free_record, free_unlock, free_refuse, free_libc, Return, Goto
<1>6. CASE realloc_check(t) \/ realloc_record(t)
  BY <1>6 DEF realloc_check, realloc_record, Return, Goto
<1>7. CASE realloc_unlock(t) \/ realloc_node(t)
  BY <1>7 DEF realloc_unlock, realloc_node, Return, Goto
<1> QED
  BY <1>1, <1>2, <1>3, <1>4, <1>5, <1>6, <1>7 DEF Call, Step, external_malloc

(* BalanceInv holds throughout.                                            *)
LEMMA BalanceAlways ==
  ASSUME Traced, "external" \notin Ops, IsFiniteSet(Threads)
  PROVE  Spec => []BalanceInv
<1>1. Init => BalanceInv
  <2> SUFFICES ASSUME Init PROVE BalanceInv
    OBVIOUS
  <2>1. ASSUME NEW a \in Addr
        PROVE  Entries(a) = {} /\ {t \in Threads : Claims(t, a)} = {}
    BY DEF Init, Entries, Claims
  <2>2. RecordsBalance
    BY <2>1 DEF RecordsBalance
  <2> QED
    BY <2>2 DEF Init, BalanceInv
<1>2. TraceInv /\ HeapInv /\ HeapInv' /\ OnceOn /\ BalanceInv /\ [Next]_vars => BalanceInv'
  <2> SUFFICES ASSUME TraceInv, HeapInv, HeapInv', OnceOn, BalanceInv, [Next]_vars
               PROVE  BalanceInv'
    OBVIOUS
  <2>0. TypeInv /\ TypeInv'
    BY DEF HeapInv
  <2>1. ASSUME NEW t \in Threads, Call(t) \/ Step(t) PROVE BalanceInv'
    <3>1. trace_state
      BY <2>1, MovesTraced
    <3>2. ASSUME NEW a
          PROVE  /\ Cardinality(On(header', a)) + One(Claims(t, a))
                      = Cardinality(On(header, a)) + One(Claims(t, a)')
                 /\ pc'[t] \notin {"f_miss", "r_miss"}
      <4>1. CASE push_node(t) \/ free_record(t) \/ realloc_record(t)
        BY <4>1, ClaimsFollowed
      <4>2. CASE ~push_node(t) /\ ~free_record(t) /\ ~realloc_record(t)
        <5>1. header' = header /\ (Claims(t, a)' <=> Claims(t, a))
          BY <2>0, <2>1, <3>1, <4>2, ClaimsKept DEF BalanceInv
        <5>2. One(Claims(t, a)') = One(Claims(t, a))
          BY <5>1 DEF One
        <5>3. pc'[t] \notin {"f_miss", "r_miss"}
          BY <2>0, <2>1, <4>2 DEF Step, Call, rl_malloc, rl_calloc, Allocated, rl_free,
             rl_realloc, external_malloc, alloc_check, alloc_node, push_unlock, free_check,
             free_unlock, free_refuse, free_libc, realloc_check, realloc_unlock,
             realloc_node, Return, Goto, TypeInv, TypeOK
        <5> QED
          BY <5>1, <5>2, <5>3
      <4> QED
        BY <4>1, <4>2
    <3>3. RecordsBalance'
      <4>1. ASSUME NEW a \in Addr
            PROVE  Cardinality(Entries(a)') = Cardinality(ClaimSet(a)')
        <5>1. Cardinality(Entries(a)) = Cardinality(ClaimSet(a))
          BY DEF BalanceInv, RecordsBalance, ClaimSet
        <5> QED
          BY <2>0, <2>1, <3>2, <5>1, BalanceMove
      <4> QED
        BY <4>1 DEF RecordsBalance, ClaimSet
    <3>4. /\ pc'[t] \notin {"f_miss", "r_miss", "r_node"}
          /\ pc'[t] \in {"r_check", "r_lock"} => old'[t] \notin owned'[t]
      BY <2>0, <2>1, <3>1, <3>2, BalanceCalls
    <3>5. ASSUME NEW u \in Threads
          PROVE  /\ pc'[u] \notin {"f_miss", "r_miss", "r_node"}
                 /\ pc'[u] \in {"r_check", "r_lock"} => old'[u] \notin owned'[u]
      BY <2>0, <2>1, <3>4, OthersSame DEF BalanceInv
    <3> QED
      BY <3>3, <3>4, <3>5 DEF BalanceInv
  <2>2. ASSUME UNCHANGED <<header, local>> PROVE BalanceInv'
    BY <2>2 DEF BalanceInv, RecordsBalance, Entries, Claims, local
  <2>3. CASE rl_memory_trace_init
    BY <2>2, <2>3 DEF rl_memory_trace_init, TraceInv
  <2>4. CASE rl_memory_trace_deinit
    BY <2>4 DEF rl_memory_trace_deinit, Traced
  <2> QED
    BY <2>1, <2>2, <2>3, <2>4 DEF Next, vars, trace
<1> QED
  BY <1>1, <1>2, TraceInit, TraceNext, HeapInit, HeapNext, OnceAlways, PTL DEF Spec

(* In a traced program whose blocks all come from the wrappers the list    *)
(* has as many nodes for an address as there are threads with a claim to   *)
(* one, also while the address is used again under a rl_realloc that has   *)
(* not yet reached the list: any number of threads, in any order.          *)
THEOREM RecordsAlwaysBalance ==
  ASSUME Traced, "external" \notin Ops, IsFiniteSet(Threads)
  PROVE  Spec => []RecordsBalance
<1>1. BalanceInv => RecordsBalance
  BY DEF BalanceInv
<1> QED
  BY <1>1, BalanceAlways, PTL


-----------------------------------------------------------------------------
(* The list as a set of nodes                                              *)

Nodes(h) == {h[i] : i \in 1 .. Len(h)}

(* No address has two nodes.                                               *)
Distinct(h) == \A i, j \in 1 .. Len(h) : h[i].ptr = h[j].ptr => i = j

(* The nodes of a list are nodes.                                          *)
LEMMA NodesTyped ==
  ASSUME NEW h \in Seq(Node), NEW n \in Nodes(h)
  PROVE  n \in Node
BY DEF Nodes

(* Cons adds its node.                                                     *)
LEMMA ConsNodes ==
  ASSUME NEW h \in Seq(Node), NEW n \in Node
  PROVE  /\ Nodes(Cons(n, h)) = Nodes(h) \cup {n}
         /\ Distinct(h) /\ (\A m \in Nodes(h) : m.ptr # n.ptr) => Distinct(Cons(n, h))
<1>1. PICK g : g = Cons(n, h)
  OBVIOUS
<1>2. /\ g \in Seq(Node) /\ Len(g) = Len(h) + 1 /\ Len(h) \in Nat
      /\ g[1] = n
      /\ \A i \in 1 .. Len(h) : g[i + 1] = h[i]
  BY <1>1, ConsItems
<1>3. ASSUME NEW j \in 1 .. Len(g), j # 1
      PROVE  j - 1 \in 1 .. Len(h) /\ g[j] = h[j - 1]
  <2>1. j - 1 \in 1 .. Len(h) /\ (j - 1) + 1 = j
    BY <1>2, <1>3
  <2> QED
    BY <1>2, <2>1
<1>4. Nodes(g) \subseteq Nodes(h) \cup {n}
  BY <1>2, <1>3 DEF Nodes
<1>5. Nodes(h) \cup {n} \subseteq Nodes(g)
  <2>1. ASSUME NEW i \in 1 .. Len(h) PROVE i + 1 \in 1 .. Len(g) /\ h[i] = g[i + 1]
    BY <1>2
  <2>2. 1 \in 1 .. Len(g)
    BY <1>2
  <2> QED
    BY <1>2, <2>1, <2>2 DEF Nodes
<1>6. ASSUME Distinct(h), \A m \in Nodes(h) : m.ptr # n.ptr,
             NEW i \in 1 .. Len(g), NEW j \in 1 .. Len(g), g[i].ptr = g[j].ptr
      PROVE  i = j
  <2>1. CASE i = 1 /\ j # 1
    <3>1. g[j] \in Nodes(h)
      BY <1>3, <2>1 DEF Nodes
    <3> QED
      BY <1>2, <1>6, <2>1, <3>1
  <2>2. CASE i # 1 /\ j = 1
    <3>1. g[i] \in Nodes(h)
      BY <1>3, <2>2 DEF Nodes
    <3> QED
      BY <1>2, <1>6, <2>2, <3>1
  <2>3. CASE i # 1 /\ j # 1
    <3>1. i - 1 = j - 1
      BY <1>3, <1>6, <2>3 DEF Distinct
    <3> QED
      BY <1>2, <3>1
  <2> QED
    BY <2>1, <2>2, <2>3
<1> QED
  BY <1>1, <1>4, <1>5, <1>6 DEF Distinct

(* RemoveAt takes one node away.                                           *)
LEMMA RemoveNodes ==
  ASSUME NEW h \in Seq(Node), Distinct(h), NEW i \in 1 .. Len(h)
  PROVE  /\ Nodes(RemoveAt(h, i)) = {m \in Nodes(h) : m.ptr # h[i].ptr}
         /\ Distinct(RemoveAt(h, i))
<1>1. PICK g : g = RemoveAt(h, i)
  OBVIOUS
<1>2. /\ g \in Seq(Node) /\ Len(g) = Len(h) - 1 /\ Len(h) \in Nat
      /\ \A j \in 1 .. Len(h) - 1 : g[j] = IF j < i THEN h[j] ELSE h[j + 1]
  BY <1>1, RemoveItems
<1> DEFINE from(j) == IF j < i THEN j ELSE j + 1
<1>3. ASSUME NEW j \in 1 .. Len(g)
      PROVE  from(j) \in 1 .. Len(h) /\ from(j) # i /\ g[j] = h[from(j)]
  BY <1>2
<1>4. ASSUME NEW k \in 1 .. Len(h), k # i
      PROVE  \E j \in 1 .. Len(g) : from(j) = k
  <2>1. CASE k < i
    BY <1>2, <2>1
  <2>2. CASE ~(k < i)
    <3>1. k - 1 \in 1 .. Len(g) /\ from(k - 1) = k
      BY <1>2, <1>4, <2>2
    <3> QED
      BY <3>1
  <2> QED
    BY <2>1, <2>2
<1>5. \A j, k \in 1 .. Len(g) : from(j) = from(k) => j = k
  BY <1>2
<1> HIDE DEF from
<1>6. Nodes(g) \subseteq {m \in Nodes(h) : m.ptr # h[i].ptr}
  BY <1>3 DEF Nodes, Distinct
<1>7. {m \in Nodes(h) : m.ptr # h[i].ptr} \subseteq Nodes(g)
  <2>1. ASSUME NEW k \in 1 .. Len(h), h[k].ptr # h[i].ptr PROVE h[k] \in Nodes(g)
    <3>1. PICK j \in 1 .. Len(g) : from(j) = k
      BY <1>4, <2>1
    <3>2. g[j] = h[k]
      BY <1>3, <3>1
    <3> QED
      BY <3>2 DEF Nodes
  <2> QED
    BY <2>1 DEF Nodes
<1>8. Distinct(g)
  BY <1>3, <1>5 DEF Distinct
<1> QED
  BY <1>1, <1>6, <1>7, <1>8

(* A node that is pointed to a block that has no other.                    *)
LEMMA RepointNodes ==
  ASSUME NEW h \in Seq(Node), Distinct(h), NEW i \in 1 .. Len(h), NEW n \in Node,
         \A m \in Nodes(h) : m.ptr = n.ptr => m.ptr = h[i].ptr,
         NEW g, Repointed(g, h, i, n)
  PROVE  /\ Nodes(g) = {m \in Nodes(h) : m.ptr # h[i].ptr} \cup {n}
         /\ Distinct(g)
<1>1. /\ g \in Seq(Node) /\ Len(g) = Len(h)
      /\ \A j \in 1 .. Len(h) : g[j] = IF j = i THEN n ELSE h[j]
  BY ExceptSeq DEF Repointed
<1>2. \A j \in 1 .. Len(h) : h[j] \in Nodes(h)
  BY DEF Nodes
<1>3. ASSUME NEW j \in 1 .. Len(h), j # i
      PROVE  h[j].ptr # h[i].ptr /\ h[j].ptr # n.ptr
  BY <1>2, <1>3 DEF Distinct
<1>4. Nodes(g) \subseteq {m \in Nodes(h) : m.ptr # h[i].ptr} \cup {n}
  BY <1>1, <1>2, <1>3 DEF Nodes
<1>5. {m \in Nodes(h) : m.ptr # h[i].ptr} \cup {n} \subseteq Nodes(g)
  <2>1. n = g[i] /\ i \in 1 .. Len(g)
    BY <1>1
  <2>2. ASSUME NEW k \in 1 .. Len(h), h[k].ptr # h[i].ptr
        PROVE  k \in 1 .. Len(g) /\ h[k] = g[k]
    BY <1>1, <2>2
  <2> QED
    BY <2>1, <2>2 DEF Nodes
<1>6. Distinct(g)
  BY <1>1, <1>3 DEF Distinct
<1> QED
  BY <1>4, <1>5, <1>6

(* Find among the nodes.                                                   *)
LEMMA FindNode ==
  ASSUME header \in Seq(Node), NEW p
  PROVE  /\ Find(p) = 0 => \A m \in Nodes(header) : m.ptr # p
         /\ Find(p) # 0 => Find(p) \in 1 .. Len(header) /\ header[Find(p)].ptr = p
BY FindSound DEF Nodes, On

-----------------------------------------------------------------------------
(* A host with one thread                                                  *)

(* The block a of t's, not from libc's own malloc, has its node: it is     *)
(* with the caller, or in a call that has yet to remove the node or has    *)
(* put it there.                                                           *)
Recorded(t, a) ==
  \/ a \in owned[t] \ foreign
  \/ pc[t] \in {"f_check", "f_lock"} /\ a = ptr[t] /\ a \notin foreign
  \/ pc[t] \in {"m_unlock", "r_unlock"} /\ a = ptr[t]

(* rl_realloc has yet to look for the node of the pointer it was given.    *)
Stale(t, a) == pc[t] \in {"r_check", "r_lock"} /\ a = old[t]

(* The list has a node for each recorded block, with the block's size, and *)
(* besides only the one that a rl_realloc is about to move, which is there *)
(* unless the block is foreign.                                            *)
ListExact(t) ==
  /\ Distinct(header)
  /\ \A n \in Nodes(header) : Recorded(t, n.ptr) \/ Stale(t, n.ptr)
  /\ \A a \in Addr : Recorded(t, a) => [ptr |-> a, size |-> heap[a]] \in Nodes(header)
  /\ \A a \in Addr : Stale(t, a) /\ ptr[t] \notin foreign => \E n \in Nodes(header) : n.ptr = a

(* Where a call may work on a block from libc's own malloc: in rl_free,    *)
(* and in rl_realloc up to the node that takes it over.                    *)
Under == {"f_check", "f_lock", "f_miss", "f_libc",
          "r_check", "r_lock", "r_miss", "r_node", "m_lock"}

(* A call knows the size of its block until the node has it. Blocks from   *)
(* libc's own malloc are with the caller or in such a call, and only for   *)
(* them a search fails.                                                    *)
CallExact(t) ==
  /\ pc[t] \in {"m_check", "m_node", "m_lock", "r_check", "r_lock", "r_miss", "r_node"}
       => size[t] = heap[ptr[t]]
  /\ pc[t] \in {"r_check", "r_lock"} => old[t] \notin owned[t]
  /\ \A a \in foreign :
       \/ a \in owned[t]
       \/ pc[t] \in Under /\ a = ptr[t]
  /\ pc[t] \in {"f_miss", "r_miss", "r_node"} => ptr[t] \in foreign

ExactInv(t) == ListExact(t) /\ CallExact(t)

(* What a return does to the thread.                                       *)
LEMMA ReturnTo ==
  ASSUME TypeOK, NEW t \in Threads, NEW from, NEW keep, Return(t, from, keep)
  PROVE  /\ pc[t] = from /\ pc'[t] = "idle"
         /\ ptr'[t] = NULL /\ owned'[t] = owned[t] \cup keep
BY DEF TypeOK, Return, Goto

(* A return without a block.                                               *)
LEMMA ReturnNone ==
  ASSUME TypeOK, NEW t \in Threads, NEW from, Return(t, from, {})
  PROVE  /\ pc[t] = from /\ pc'[t] = "idle"
         /\ ptr'[t] = NULL /\ owned'[t] = owned[t]
<1>1. owned[t] \cup {} = owned[t]
  OBVIOUS
<1> QED
  BY <1>1, ReturnTo

(* What going on does.                                                     *)
LEMMA GotoTo ==
  ASSUME TypeOK, NEW t \in Threads, NEW from, NEW to, Goto(t, from, to)
  PROVE  pc[t] = from /\ pc'[t] = to
BY DEF TypeOK, Goto

(* With one thread the live blocks are its blocks.                         *)
LEMMA OneHolder ==
  ASSUME NEW t, Threads = {t}, HeapInv
  PROVE  /\ TypeOK /\ t \in Threads /\ ptr[t] \notin owned[t]
         /\ header \in Seq(Node) /\ owned[t] \subseteq Addr
         /\ pc[t] # "idle" => ptr[t] \in Addr
         /\ pc[t] = "idle" => ptr[t] = NULL
         /\ NULL \notin Addr
         /\ heap \in [Addr -> Nat]
         /\ \A a \in Addr : heap[a] # 0 <=> a \in owned[t] \/ a = ptr[t]
<1>1. TypeOK /\ CallInv /\ t \in Threads /\ ptr[t] \notin owned[t]
  BY DEF HeapInv, TypeInv, PtrApart
<1>2. \A a \in Addr : heap[a] # 0 <=> a \in Held(t)
  BY DEF HeapInv, HeapAgrees
<1>3. NULL \notin Addr
  BY RlMemAssumption
<1> QED
  BY <1>1, <1>2, <1>3 DEF TypeOK, CallInv, Held

(* A number below the word size is its own remainder.                      *)
LEMMA SmallMod ==
  ASSUME NEW n \in Nat, n < Wrap
  PROVE  n % Wrap = n
BY RlMemAssumption

(* The allocations: a new block has no node yet.                           *)
LEMMA ExactAlloc ==
  ASSUME NEW t, Threads = {t}, HeapInv, ExactInv(t),
         \/ rl_malloc(t) \/ rl_calloc(t) \/ external_malloc(t)
         \/ (trace_state /\ alloc_check(t)) \/ alloc_node(t) \/ push_node(t) \/ push_unlock(t)
  PROVE  ExactInv(t)'
<1>0. /\ TypeOK /\ t \in Threads /\ ptr[t] \notin owned[t]
      /\ header \in Seq(Node) /\ owned[t] \subseteq Addr
      /\ pc[t] # "idle" => ptr[t] \in Addr
      /\ pc[t] = "idle" => ptr[t] = NULL
      /\ NULL \notin Addr
      /\ heap \in [Addr -> Nat]
      /\ \A a \in Addr : heap[a] # 0 <=> a \in owned[t] \/ a = ptr[t]
  BY OneHolder
<1> USE DEF ExactInv, ListExact, CallExact, Recorded, Stale, Under
<1>1. CASE rl_malloc(t) \/ rl_calloc(t)
  <2>1. PICK a \in Addr, n \in Nat : Allocated(t, a, n, n) /\ pc[t] = "idle"
    <3>1. ASSUME NEW arg \in CallocArgs, arg[1] * arg[2] < Wrap
          PROVE  /\ arg[1] * arg[2] \in Nat
                 /\ (arg[1] * arg[2]) % Wrap = arg[1] * arg[2]
      BY <3>1, CallocSize, SmallMod, RlMemAssumption
    <3>2. \A n \in Sizes : n \in Nat
      BY RlMemAssumption
    <3>3. CASE rl_malloc(t)
      BY <3>2, <3>3 DEF rl_malloc, MayCall
    <3>4. CASE rl_calloc(t)
      <4>1. PICK arg \in CallocArgs, a \in Addr :
              /\ arg[1] * arg[2] < Wrap
              /\ Allocated(t, a, arg[1] * arg[2], (arg[1] * arg[2]) % Wrap)
        BY <3>4 DEF rl_calloc
      <4> QED
        BY <3>1, <3>4, <4>1 DEF rl_calloc, MayCall
    <3> QED
      BY <1>1, <3>3, <3>4
  <2>2. /\ heap[a] = 0 /\ heap' = [heap EXCEPT ![a] = n]
        /\ ptr'[t] = a /\ size'[t] = n /\ pc'[t] = "m_check"
        /\ header' = header /\ owned' = owned /\ foreign' = foreign
    BY <1>0, <2>1 DEF Allocated, Free, trace, TypeOK
  <2> QED
    BY <1>0, <2>1, <2>2
<1>2. CASE external_malloc(t)
  <2>1. PICK a \in Addr, n \in Sizes :
          /\ heap[a] = 0
          /\ heap' = [heap EXCEPT ![a] = n]
          /\ owned'[t] = owned[t] \cup {a}
          /\ foreign' = foreign \cup {a}
          /\ pc[t] = "idle" /\ UNCHANGED <<header, pc, ptr, old, size>>
    BY <1>0, <1>2 DEF external_malloc, MayCall, Free, trace, TypeOK
  <2> QED
    BY <1>0, <2>1
<1>3. CASE trace_state /\ alloc_check(t)
  <2>1. /\ pc[t] = "m_check" /\ pc'[t] = "m_node"
        /\ UNCHANGED <<header, heap, ptr, old, size, owned, foreign>>
    BY <1>0, <1>3, GotoTo DEF alloc_check, libc, trace
  <2> QED
    BY <1>0, <2>1
<1>4. CASE alloc_node(t)
  <2>1. CASE /\ Goto(t, "m_node", "m_lock")
             /\ UNCHANGED <<header, heap, ptr, old, size, owned, foreign>>
    <3>1. pc[t] = "m_node" /\ pc'[t] = "m_lock"
      BY <1>0, <2>1, GotoTo
    <3> QED
      BY <1>0, <2>1, <3>1
  <2>2. CASE /\ Return(t, "m_node", {})
             /\ heap' = [heap EXCEPT ![ptr[t]] = 0]
             /\ UNCHANGED <<header, foreign>>
    <3>1. /\ pc[t] = "m_node" /\ pc'[t] = "idle"
          /\ ptr'[t] = NULL /\ owned'[t] = owned[t]
      BY <1>0, <2>2, ReturnNone
    <3> QED
      BY <1>0, <2>2, <3>1
  <2> QED
    BY <1>4, <2>1, <2>2 DEF alloc_node, trace
<1>5. CASE push_node(t)
  <2>1. PICK n : n = [ptr |-> ptr[t], size |-> size[t]]
    OBVIOUS
  <2>2. /\ pc[t] = "m_lock" /\ pc'[t] = "m_unlock" /\ header' = Cons(n, header)
        /\ UNCHANGED <<heap, ptr, old, size, owned>>
        /\ foreign' = foreign \ {ptr[t]}
    BY <1>0, <1>5, <2>1, GotoTo DEF push_node, libc
  <2>3. n \in Node /\ n.ptr = ptr[t] /\ n.size = heap[ptr[t]]
    BY <1>0, <2>1, <2>2 DEF Node, TypeOK
  <2>4. \A m \in Nodes(header) : m.ptr # n.ptr
    BY <1>0, <2>2, <2>3
  <2>5. Nodes(header') = Nodes(header) \cup {n} /\ Distinct(header')
    BY <1>0, <2>2, <2>3, <2>4, ConsNodes
  <2> QED
    BY <1>0, <2>1, <2>2, <2>3, <2>5
<1>6. CASE push_unlock(t)
  <2>1. /\ pc[t] = "m_unlock" /\ pc'[t] = "idle"
        /\ ptr'[t] = NULL /\ owned'[t] = owned[t] \cup {ptr[t]}
        /\ UNCHANGED <<header, heap, foreign>>
    BY <1>0, <1>6, ReturnTo DEF push_unlock, libc, trace
  <2>2. ptr[t] \notin foreign
    BY <1>0, <2>1
  <2> QED
    BY <1>0, <2>1, <2>2
<1> QED
  BY <1>1, <1>2, <1>3, <1>4, <1>5, <1>6

(* rl_free: a node goes exactly when its block does, and a block without   *)
(* one is foreign.                                                         *)
LEMMA ExactFree ==
  ASSUME NEW t, Threads = {t}, HeapInv, ExactInv(t),
         \/ rl_free(t) \/ (trace_state /\ free_check(t)) \/ free_record(t)
         \/ free_unlock(t) \/ free_refuse(t) \/ free_libc(t)
  PROVE  ExactInv(t)'
<1>0. /\ TypeOK /\ t \in Threads /\ ptr[t] \notin owned[t]
      /\ header \in Seq(Node) /\ owned[t] \subseteq Addr
      /\ pc[t] # "idle" => ptr[t] \in Addr
      /\ pc[t] = "idle" => ptr[t] = NULL
      /\ NULL \notin Addr
      /\ heap \in [Addr -> Nat]
      /\ \A a \in Addr : heap[a] # 0 <=> a \in owned[t] \/ a = ptr[t]
  BY OneHolder
<1> USE DEF ExactInv, ListExact, CallExact, Recorded, Stale, Under
<1>1. CASE rl_free(t)
  <2>1. PICK p \in owned[t] :
          /\ ptr'[t] = p /\ owned'[t] = owned[t] \ {p}
          /\ pc[t] = "idle" /\ pc'[t] = "f_check"
          /\ UNCHANGED <<header, heap, old, size, foreign>>
    BY <1>0, <1>1 DEF rl_free, MayCall, libc, trace, TypeOK
  <2> QED
    BY <1>0, <2>1
<1>2. CASE trace_state /\ free_check(t)
  <2>1. /\ pc[t] = "f_check" /\ pc'[t] = "f_lock"
        /\ UNCHANGED <<header, heap, ptr, old, size, owned, foreign>>
    BY <1>0, <1>2, GotoTo DEF free_check, libc, trace
  <2> QED
    BY <1>0, <2>1
<1>3. CASE free_record(t)
  <2>1. /\ pc[t] = "f_lock"
        /\ UNCHANGED <<heap, ptr, old, size, owned, foreign>>
    BY <1>0, <1>3, GotoTo DEF free_record, libc
  <2>2. CASE Find(ptr[t]) = 0
    <3>1. pc'[t] = "f_miss" /\ header' = header
      BY <1>0, <1>3, <2>2, GotoTo DEF free_record
    <3>2. \A m \in Nodes(header) : m.ptr # ptr[t]
      BY <1>0, <2>2, FindNode
    <3>3. ptr[t] \in foreign
      BY <1>0, <2>1, <3>2
    <3> QED
      BY <1>0, <2>1, <3>1, <3>2, <3>3
  <2>3. CASE Find(ptr[t]) # 0
    <3>1. PICK i \in 1 .. Len(header) : i = Find(ptr[t]) /\ header[i].ptr = ptr[t]
      BY <1>0, <2>3, FindNode
    <3>2. pc'[t] = "f_unlock" /\ header' = RemoveAt(header, i)
      BY <1>0, <1>3, <2>3, <3>1, GotoTo DEF free_record
    <3>3. /\ Nodes(header') = {m \in Nodes(header) : m.ptr # ptr[t]}
          /\ Distinct(header')
      BY <1>0, <3>1, <3>2, RemoveNodes
    <3>4. ptr[t] \notin foreign
      <4>1. header[i] \in Nodes(header)
        BY DEF Nodes
      <4> QED
        BY <1>0, <2>1, <3>1, <4>1
    <3> QED
      BY <1>0, <2>1, <3>2, <3>3, <3>4
  <2> QED
    BY <2>2, <2>3
<1>4. CASE free_unlock(t)
  <2>1. /\ pc[t] = "f_unlock" /\ pc'[t] = "f_libc"
        /\ UNCHANGED <<header, heap, ptr, old, size, owned, foreign>>
    BY <1>0, <1>4, GotoTo DEF free_unlock, libc, trace
  <2> QED
    BY <1>0, <2>1
<1>5. CASE free_refuse(t)
  <2>1. /\ pc[t] = "f_miss" /\ pc'[t] = "idle"
        /\ ptr'[t] = NULL /\ owned'[t] = owned[t] \cup {ptr[t]}
        /\ UNCHANGED <<header, heap, foreign>>
    BY <1>0, <1>5, ReturnTo DEF free_refuse, libc, trace
  <2> QED
    BY <1>0, <2>1
<1>6. CASE free_libc(t)
  <2>1. /\ pc[t] = "f_libc" /\ pc'[t] = "idle"
        /\ ptr'[t] = NULL /\ owned'[t] = owned[t]
        /\ heap' = [heap EXCEPT ![ptr[t]] = 0] /\ foreign' = foreign \ {ptr[t]}
        /\ header' = header
    BY <1>0, <1>6, ReturnNone DEF free_libc, trace
  <2> QED
    BY <1>0, <2>1
<1> QED
  BY <1>1, <1>2, <1>3, <1>4, <1>5, <1>6

(* rl_realloc: the node follows the block, or the block is adopted.        *)
LEMMA ExactRealloc ==
  ASSUME NEW t, Threads = {t}, HeapInv, ExactInv(t),
         \/ rl_realloc(t) \/ (trace_state /\ realloc_check(t)) \/ realloc_record(t)
         \/ realloc_unlock(t) \/ realloc_node(t)
  PROVE  ExactInv(t)'
<1>0. /\ TypeOK /\ t \in Threads /\ ptr[t] \notin owned[t]
      /\ header \in Seq(Node) /\ owned[t] \subseteq Addr
      /\ pc[t] # "idle" => ptr[t] \in Addr
      /\ pc[t] = "idle" => ptr[t] = NULL
      /\ NULL \notin Addr
      /\ heap \in [Addr -> Nat]
      /\ \A a \in Addr : heap[a] # 0 <=> a \in owned[t] \/ a = ptr[t]
  BY OneHolder
<1> USE DEF ExactInv, ListExact, CallExact, Recorded, Stale, Under
<1>1. CASE rl_realloc(t)
  <2>1. PICK p \in owned[t], a \in Addr, n \in Nat :
          /\ heap[a] = 0 \/ a = p
          /\ heap' = [heap EXCEPT ![p] = 0, ![a] = n]
          /\ ptr'[t] = a /\ old'[t] = p /\ size'[t] = n
          /\ owned'[t] = owned[t] \ {p} /\ foreign' = Follow(p, a)
          /\ pc[t] = "idle" /\ pc'[t] = "r_check"
          /\ header' = header
    <3>1. \A n \in Sizes : n \in Nat
      BY RlMemAssumption
    <3> QED
      BY <1>0, <1>1, <3>1 DEF rl_realloc, MayCall, Free, trace, TypeOK
  <2>2. /\ heap'[a] = n
        /\ \A b \in Addr : b # a /\ b # p => heap'[b] = heap[b]
    BY <1>0, <2>1
  <2>3. ASSUME NEW b \in owned'[t]
        PROVE  b \in owned[t] /\ heap'[b] = heap[b]
    BY <1>0, <2>1, <2>2
  <2>4. foreign \subseteq owned[t] /\ (p \notin foreign => a \notin foreign)
    BY <1>0, <2>1
  <2>5. CASE p \in foreign
    <3>1. foreign' = (foreign \ {p}) \cup {a}
      BY <2>1, <2>5 DEF Follow
    <3> QED
      BY <1>0, <2>1, <2>2, <2>3, <2>4, <2>5, <3>1
  <2>6. CASE p \notin foreign
    <3>1. foreign' = foreign
      BY <2>1, <2>6 DEF Follow
    <3>2. \E m \in Nodes(header) : m.ptr = p
      <4>1. [ptr |-> p, size |-> heap[p]] \in Nodes(header)
        BY <1>0, <2>1, <2>6
      <4> QED
        BY <4>1
    <3> QED
      BY <1>0, <2>1, <2>2, <2>3, <2>4, <2>6, <3>1, <3>2
  <2> QED
    BY <2>5, <2>6
<1>2. CASE trace_state /\ realloc_check(t)
  <2>1. /\ pc[t] = "r_check" /\ pc'[t] = "r_lock"
        /\ UNCHANGED <<header, heap, ptr, old, size, owned, foreign>>
    BY <1>0, <1>2, GotoTo DEF realloc_check, libc, trace
  <2> QED
    BY <1>0, <2>1
<1>3. CASE realloc_record(t)
  <2>1. /\ pc[t] = "r_lock"
        /\ UNCHANGED <<heap, ptr, old, size, owned>>
    BY <1>0, <1>3, GotoTo DEF realloc_record, libc
  <2>2. CASE Find(old[t]) = 0
    <3>1. pc'[t] = "r_miss" /\ header' = header /\ foreign' = foreign
      BY <1>0, <1>3, <2>2, GotoTo DEF realloc_record
    <3>2. \A m \in Nodes(header) : m.ptr # old[t]
      BY <1>0, <2>2, FindNode
    <3>3. old[t] \in Addr
      BY <1>0, <2>1 DEF HeapInv, TypeInv, TypeOK, CallInv
    <3>4. ptr[t] \in foreign
      BY <1>0, <2>1, <3>2, <3>3
    <3> QED
      BY <1>0, <2>1, <3>1, <3>2, <3>4
  <2>3. CASE Find(old[t]) # 0
    <3>1. PICK i \in 1 .. Len(header) : i = Find(old[t]) /\ header[i].ptr = old[t]
      BY <1>0, <2>3, FindNode
    <3>2. PICK n : n = [ptr |-> ptr[t], size |-> size[t]]
      OBVIOUS
    <3>3. /\ pc'[t] = "r_unlock" /\ Repointed(header', header, i, n)
          /\ foreign' = foreign \ {ptr[t]}
      BY <1>0, <1>3, <2>3, <3>1, <3>2, GotoTo DEF realloc_record, Repointed
    <3>4. n \in Node /\ n.ptr = ptr[t] /\ n.size = heap[ptr[t]]
      BY <1>0, <2>1, <3>2 DEF Node, TypeOK
    <3>5. \A m \in Nodes(header) : m.ptr = n.ptr => m.ptr = header[i].ptr
      BY <1>0, <2>1, <3>1, <3>4
    <3>6. /\ Nodes(header') = {m \in Nodes(header) : m.ptr # old[t]} \cup {n}
          /\ Distinct(header')
      BY <1>0, <3>1, <3>3, <3>4, <3>5, RepointNodes
    <3>7. n = [ptr |-> ptr[t], size |-> heap[ptr[t]]]
      BY <2>1, <3>2
    <3> QED
      BY <1>0, <2>1, <3>3, <3>4, <3>6, <3>7
  <2> QED
    BY <2>2, <2>3
<1>4. CASE realloc_unlock(t)
  <2>1. CASE Return(t, "r_unlock", {ptr[t]}) /\ UNCHANGED <<header, heap, foreign>>
    <3>1. /\ pc[t] = "r_unlock" /\ pc'[t] = "idle"
          /\ ptr'[t] = NULL /\ owned'[t] = owned[t] \cup {ptr[t]}
      BY <1>0, <2>1, ReturnTo
    <3>2. ptr[t] \notin foreign
      BY <1>0, <3>1
    <3> QED
      BY <1>0, <2>1, <3>1, <3>2
  <2>2. CASE /\ Goto(t, "r_miss", "r_node")
             /\ UNCHANGED <<header, heap, ptr, old, size, owned, foreign>>
    <3>1. pc[t] = "r_miss" /\ pc'[t] = "r_node"
      BY <1>0, <2>2, GotoTo
    <3> QED
      BY <1>0, <2>2, <3>1
  <2> QED
    BY <1>4, <2>1, <2>2 DEF realloc_unlock, libc, trace
<1>5. CASE realloc_node(t)
  <2>1. CASE /\ Goto(t, "r_node", "m_lock")
             /\ UNCHANGED <<header, heap, ptr, old, size, owned, foreign>>
    <3>1. pc[t] = "r_node" /\ pc'[t] = "m_lock"
      BY <1>0, <2>1, GotoTo
    <3> QED
      BY <1>0, <2>1, <3>1
  <2>2. CASE /\ Return(t, "r_node", {})
             /\ heap' = [heap EXCEPT ![ptr[t]] = 0]
             /\ header' = header /\ foreign' = foreign \ {ptr[t]}
    <3>1. /\ pc[t] = "r_node" /\ pc'[t] = "idle"
          /\ ptr'[t] = NULL /\ owned'[t] = owned[t]
      BY <1>0, <2>2, ReturnNone
    <3> QED
      BY <1>0, <2>2, <3>1
  <2> QED
    BY <1>5, <2>1, <2>2 DEF realloc_node, trace
<1> QED
  BY <1>1, <1>2, <1>3, <1>4, <1>5

(* ExactInv holds throughout.                                              *)
LEMMA ExactAlways ==
  ASSUME NEW t, Threads = {t}, Traced
  PROVE  Spec => []ExactInv(t)
<1>1. Init => ExactInv(t)
  BY DEF Init, ExactInv, ListExact, CallExact, Nodes, Distinct, Recorded, Stale
<1>2. TraceInv /\ HeapInv /\ OnceOn /\ ExactInv(t) /\ [Next]_vars => ExactInv(t)'
  <2> SUFFICES ASSUME TraceInv, HeapInv, OnceOn, ExactInv(t), [Next]_vars
               PROVE  ExactInv(t)'
    OBVIOUS
  <2>1. ASSUME Call(t) \/ Step(t) PROVE ExactInv(t)'
    <3>1. trace_state
      BY <2>1, MovesTraced
    <3>2. CASE \/ rl_malloc(t) \/ rl_calloc(t) \/ external_malloc(t)
               \/ alloc_check(t) \/ alloc_node(t) \/ push_node(t) \/ push_unlock(t)
      BY <3>1, <3>2, ExactAlloc
    <3>3. CASE \/ rl_free(t) \/ free_check(t) \/ free_record(t) \/ free_unlock(t)
               \/ free_refuse(t) \/ free_libc(t)
      BY <3>1, <3>3, ExactFree
    <3>4. CASE \/ rl_realloc(t) \/ realloc_check(t) \/ realloc_record(t)
               \/ realloc_unlock(t) \/ realloc_node(t)
      BY <3>1, <3>4, ExactRealloc
    <3> QED
      BY <2>1, <3>2, <3>3, <3>4 DEF Call, Step
  <2>2. ASSUME UNCHANGED <<header, heap, local>> PROVE ExactInv(t)'
    BY <2>2 DEF ExactInv, ListExact, CallExact, Recorded, Stale, local
  <2>3. CASE rl_memory_trace_init
    <3>1. CASE UNCHANGED header
      BY <2>2, <2>3, <3>1 DEF rl_memory_trace_init, libc
    <3>2. CASE header' = <<>> /\ ~trace_state
      <4>1. pc[t] = "idle" /\ owned[t] = {} /\ UNCHANGED <<heap, local>>
        BY <2>3, <3>2 DEF OnceOn, rl_memory_trace_init, libc
      <4>2. Nodes(header') = {} /\ Distinct(header')
        BY <3>2 DEF Nodes, Distinct
      <4> QED
        BY <4>1, <4>2 DEF ExactInv, ListExact, CallExact, Recorded, Stale, local
    <3> QED
      BY <2>3, <3>1, <3>2 DEF rl_memory_trace_init
  <2>4. CASE rl_memory_trace_deinit
    BY <2>4 DEF rl_memory_trace_deinit, Traced
  <2> QED
    BY <2>1, <2>2, <2>3, <2>4 DEF Next, vars, trace, libc
<1> QED
  BY <1>1, <1>2, TraceInit, TraceNext, HeapInit, HeapNext, OnceAlways, PTL DEF Spec

(* The leak list of a traced program with one thread tells the truth:      *)
(* between its calls each block in use that came from the wrappers has one *)
(* node, which has its size, whichever allocation of a block or of a node  *)
(* failed, whatever rl_free refused and whatever rl_realloc adopted. (With *)
(* two threads it does not.)                                               *)
THEOREM RecordsAlwaysExact ==
  ASSUME NEW t, Threads = {t}, Traced
  PROVE  Spec => []RecordsExact
<1>1. HeapInv /\ ExactInv(t) => RecordsExact
  <2> SUFFICES ASSUME HeapInv, ExactInv(t), NEW a \in owned[t] \ foreign
               PROVE  \E i \in DOMAIN header :
                        Entries(a) = {i} /\ header[i].size = heap[a]
    BY DEF RecordsExact
  <2>1. a \in Addr /\ DOMAIN header = 1 .. Len(header)
    BY OneHolder
  <2>2. [ptr |-> a, size |-> heap[a]] \in Nodes(header) /\ Distinct(header)
    BY <2>1 DEF ExactInv, ListExact, Recorded
  <2>3. PICK i \in 1 .. Len(header) : header[i] = [ptr |-> a, size |-> heap[a]]
    BY <2>2 DEF Nodes
  <2>4. header[i].ptr = a /\ header[i].size = heap[a]
    BY <2>3
  <2>5. Entries(a) = {i}
    BY <2>1, <2>2, <2>4 DEF Entries, Distinct
  <2> QED
    BY <2>1, <2>4, <2>5
<1> QED
  BY <1>1, ExactAlways, HeapInit, HeapNext, PTL DEF Spec

(* In such a program a search of the list fails only for a block that came *)
(* from libc's own malloc and that the list has not taken over: rl_free    *)
(* refuses no other, and rl_realloc frees no other after moving it.        *)
THEOREM MissedAlwaysForeign ==
  ASSUME NEW t, Threads = {t}, Traced
  PROVE  Spec => []MissedIsForeign
<1>1. ExactInv(t) => MissedIsForeign
  BY DEF ExactInv, CallExact, MissedIsForeign
<1> QED
  BY <1>1, ExactAlways, PTL

-----------------------------------------------------------------------------
(* The sum of the sizes                                                    *)

(* The element a fold takes out of a set first.                            *)
AnyOf(s) == CHOOSE x \in s : TRUE

(* it has for each part of D the sum of f over that part (the recursion of *)
(* SumFunction).                                                           *)
IsSums(it, f, D) ==
  it = [s \in SUBSET D |-> IF s = {} THEN 0 ELSE f[AnyOf(s)] + it[s \ {AnyOf(s)}]]

Sums(f, D) == CHOOSE it : IsSums(it, f, D)

(* The sum of f over the part s of its domain.                             *)
SumOver(f, s) == Sums(f, DOMAIN f)[s]

(* Numbers of which there is one have a least one.                         *)
LEMMA LeastExists ==
  ASSUME NEW S \in SUBSET Nat, S # {}
  PROVE  \E n \in S : \A m \in S : n <= m
<1>1. PICK x \in S : \A y \in S : ~(<<y, x>> \in OpToRel(<, Nat))
  BY WFMin, NatLessThanWellFounded
<1>2. ASSUME NEW y \in S, y < x
      PROVE  <<y, x>> \in OpToRel(<, Nat)
  <2>1. <<y, x>> \in Nat \X Nat /\ <<y, x>>[1] < <<y, x>>[2]
    BY <1>2
  <2> QED
    BY <2>1, Zenon DEF OpToRel
<1>3. \A y \in S : ~(y < x)
  BY <1>1, <1>2, Zenon
<1>4. \A y \in S : x <= y
  BY <1>3
<1> QED
  BY <1>4

(* Of finite sets of which there is one, one has no smaller one.           *)
LEMMA SmallestExists ==
  ASSUME NEW D, IsFiniteSet(D), NEW B \in SUBSET SUBSET D, B # {}
  PROVE  \E s \in B : /\ IsFiniteSet(s)
                      /\ \A x \in s : s \ {x} \notin B
<1>1. ASSUME NEW s \in SUBSET D
      PROVE  IsFiniteSet(s) /\ Cardinality(s) \in Nat
  BY <1>1, FS_Subset, FS_CardinalityType
<1> DEFINE N == {Cardinality(s) : s \in B}
<1>2. N \in SUBSET Nat /\ N # {}
  BY <1>1
<1>3. PICK n \in N : \A m \in N : n <= m
  BY <1>2, LeastExists
<1>4. PICK s \in B : Cardinality(s) = n
  BY <1>3
<1>5. ASSUME NEW x \in s, s \ {x} \in B PROVE FALSE
  <2>1. Cardinality(s \ {x}) = Cardinality(s) - 1 /\ Cardinality(s) \in Nat
    BY <1>1, <1>4, FS_RemoveElement
  <2>2. Cardinality(s) <= Cardinality(s \ {x})
    BY <1>3, <1>4, <1>5
  <2> QED
    BY <2>1, <2>2
<1> QED
  BY <1>1, <1>4, <1>5

(* it is right for the parts of D with at most n elements.                 *)
SumsUpTo(it, f, D, n) ==
  /\ it \in [SUBSET D -> Int]
  /\ \A s \in SUBSET D : Cardinality(s) <= n =>
       it[s] = IF s = {} THEN 0 ELSE f[AnyOf(s)] + it[s \ {AnyOf(s)}]

(* Right for n, it can be made right for n + 1.                            *)
LEMMA SumsNext ==
  ASSUME NEW D, IsFiniteSet(D), NEW f \in [D -> Int], NEW n \in Nat,
         NEW it, SumsUpTo(it, f, D, n)
  PROVE  \E g : SumsUpTo(g, f, D, n + 1)
<1> DEFINE g == [s \in SUBSET D |-> IF s = {} THEN 0 ELSE f[AnyOf(s)] + it[s \ {AnyOf(s)}]]
<1>1. ASSUME NEW s \in SUBSET D, s # {}
      PROVE  AnyOf(s) \in s /\ AnyOf(s) \in D /\ s \ {AnyOf(s)} \in SUBSET D
  BY <1>1 DEF AnyOf
<1>2. g \in [SUBSET D -> Int]
  BY <1>1 DEF SumsUpTo
<1>3. ASSUME NEW s \in SUBSET D, Cardinality(s) <= n + 1, s # {}
      PROVE  g[s] = f[AnyOf(s)] + g[s \ {AnyOf(s)}]
  <2> DEFINE r == s \ {AnyOf(s)}
  <2>1. r \in SUBSET D /\ AnyOf(s) \in s /\ IsFiniteSet(s)
    BY <1>1, <1>3, FS_Subset
  <2>2. Cardinality(r) = Cardinality(s) - 1 /\ Cardinality(s) \in Nat
    BY <2>1, FS_RemoveElement, FS_CardinalityType
  <2>3. Cardinality(r) <= n
    BY <1>3, <2>2
  <2>4. it[r] = g[r]
    BY <2>1, <2>3 DEF SumsUpTo
  <2> QED
    BY <1>3, <2>4
<1>4. g[{}] = 0
  OBVIOUS
<1> HIDE DEF g
<1>5. SumsUpTo(g, f, D, n + 1)
  BY <1>2, <1>3, <1>4 DEF SumsUpTo
<1> QED
  BY <1>5

(* The sums of a function with a finite domain exist.                      *)
LEMMA SumsExist ==
  ASSUME NEW D, IsFiniteSet(D), NEW f \in [D -> Int]
  PROVE  IsSums(Sums(f, D), f, D)
<1> DEFINE Bad == {n \in Nat : ~ \E it : SumsUpTo(it, f, D, n)}
<1>1. Bad = {}
  <2> SUFFICES ASSUME Bad # {} PROVE FALSE
    OBVIOUS
  <2>1. PICK n \in Bad : \A m \in Bad : n <= m
    BY LeastExists
  <2>2. n # 0
    <3> DEFINE z == [s \in SUBSET D |-> 0]
    <3>1. ASSUME NEW s \in SUBSET D, Cardinality(s) <= 0 PROVE s = {}
      <4>1. IsFiniteSet(s) /\ Cardinality(s) \in Nat
        BY FS_Subset, FS_CardinalityType
      <4>2. Cardinality(s) = 0
        BY <3>1, <4>1
      <4> QED
        BY <4>1, <4>2, FS_EmptySet
    <3>2. SumsUpTo(z, f, D, 0)
      BY <3>1 DEF SumsUpTo
    <3> HIDE DEF z
    <3> QED
      BY <3>2
  <2>3. n - 1 \in Nat /\ n - 1 \notin Bad /\ (n - 1) + 1 = n
    BY <2>1, <2>2
  <2>4. PICK it : SumsUpTo(it, f, D, n - 1)
    BY <2>3
  <2>5. \E g : SumsUpTo(g, f, D, n)
    BY <2>3, <2>4, SumsNext
  <2> QED
    BY <2>5
<1>2. Cardinality(D) \in Nat
  BY FS_CardinalityType
<1>3. PICK it : SumsUpTo(it, f, D, Cardinality(D))
  BY <1>1, <1>2
<1>4. \A s \in SUBSET D : Cardinality(s) <= Cardinality(D)
  BY FS_Subset
<1>5. IsSums(it, f, D)
  BY <1>3, <1>4 DEF IsSums, SumsUpTo
<1> QED
  BY <1>5 DEF Sums

(* A sum does not depend on the order in which the fold takes the elements. *)
LEMMA SumFacts ==
  ASSUME NEW f, NEW D, IsFiniteSet(D), f \in [D -> Int]
  PROVE  /\ SumFunction(f) = SumOver(f, D)
         /\ SumOver(f, {}) = 0
         /\ \A s \in SUBSET D :
              /\ SumOver(f, s) \in Int
              /\ \A x \in s : SumOver(f, s) = f[x] + SumOver(f, s \ {x})
<1> DEFINE it == Sums(f, D)
<1>1. DOMAIN f = D
  OBVIOUS
<1>2. SumFunction(f) = SumOver(f, D)
  BY <1>1 DEF SumFunction, SumFunctionOnSet, FoldFunctionOnSet, MapThenFoldSet,
              SumOver, Sums, IsSums, AnyOf
<1>3. IsSums(it, f, D)
  BY SumsExist
<1>4. \A s : SumOver(f, s) = it[s]
  BY <1>1 DEF SumOver
<1> HIDE DEF it
<1>5. it[{}] = 0
  BY <1>3 DEF IsSums
<1>6. ASSUME NEW s \in SUBSET D, s # {}
      PROVE  /\ AnyOf(s) \in s
             /\ it[s] = f[AnyOf(s)] + it[s \ {AnyOf(s)}]
  BY <1>3, <1>6 DEF IsSums, AnyOf
<1>7. \A s \in SUBSET D : it[s] \in Int
  <2> DEFINE Bad == {s \in SUBSET D : it[s] \notin Int}
  <2> SUFFICES ASSUME Bad # {} PROVE FALSE
    OBVIOUS
  <2>1. PICK s \in Bad : \A x \in s : s \ {x} \notin Bad
    BY SmallestExists
  <2>2. s # {} /\ s \in SUBSET D
    BY <1>5, <2>1
  <2>3. AnyOf(s) \in s /\ it[s] = f[AnyOf(s)] + it[s \ {AnyOf(s)}]
    BY <1>6, <2>2
  <2>4. it[s \ {AnyOf(s)}] \in Int /\ f[AnyOf(s)] \in Int
    BY <2>1, <2>2, <2>3
  <2> QED
    BY <2>1, <2>3, <2>4
<1> DEFINE Good(s) == \A x \in s : it[s] = f[x] + it[s \ {x}]
           Bad == {s \in SUBSET D : ~Good(s)}
<1>8. Bad = {}
  <2> SUFFICES ASSUME Bad # {} PROVE FALSE
    OBVIOUS
  <2>1. PICK s \in Bad : \A x \in s : s \ {x} \notin Bad
    BY SmallestExists
  <2>2. s \in SUBSET D /\ s # {} /\ \A x \in s : Good(s \ {x})
    BY <2>1
  <2> DEFINE p == AnyOf(s)
  <2>3. p \in s /\ it[s] = f[p] + it[s \ {p}]
    BY <1>6, <2>2
  <2> HIDE DEF p
  <2>4. ASSUME NEW x \in s, x # p PROVE it[s] = f[x] + it[s \ {x}]
    <3> DEFINE r == s \ {x, p}
    <3>1. (s \ {p}) \ {x} = r /\ (s \ {x}) \ {p} = r
      OBVIOUS
    <3> HIDE DEF r
    <3>2. it[s \ {p}] = f[x] + it[r]
      BY <2>2, <2>3, <2>4, <3>1
    <3>3. it[s \ {x}] = f[p] + it[r]
      BY <2>2, <2>3, <2>4, <3>1
    <3>4. f[x] \in Int /\ f[p] \in Int
      BY <2>2, <2>3, <2>4
    <3>5. it[r] \in Int
      BY <1>7, <2>2 DEF r
    <3> QED
      BY <2>3, <3>2, <3>3, <3>4, <3>5
  <2> QED
    BY <2>1, <2>3, <2>4
<1> QED
  BY <1>2, <1>4, <1>5, <1>7, <1>8

(* One element at a time.                                                  *)
LEMMA SumSplit ==
  ASSUME NEW f, NEW D, IsFiniteSet(D), f \in [D -> Int], NEW s \in SUBSET D, NEW x \in s
  PROVE  SumOver(f, s) = f[x] + SumOver(f, s \ {x})
BY SumFacts

(* The whole sum, without one element and with it.                         *)
LEMMA SumWithout ==
  ASSUME NEW f, NEW D, IsFiniteSet(D), f \in [D -> Int], NEW x \in D
  PROVE  SumOver(f, D) = f[x] + SumOver(f, D \ {x}) /\ SumOver(f, D \ {x}) \in Int
<1>1. D \in SUBSET D /\ D \ {x} \in SUBSET D
  OBVIOUS
<1>2. SumOver(f, D) = f[x] + SumOver(f, D \ {x})
  BY <1>1, SumSplit
<1>3. SumOver(f, D \ {x}) \in Int
  BY <1>1, SumFacts
<1> QED
  BY <1>2, <1>3

(* Where b takes the elements of s.                                        *)
Moved(b, s) == {b[x] : x \in s}

(* b carries f to g, injectively.                                          *)
Carries(b, f, D, g, E) ==
  /\ IsFiniteSet(D) /\ f \in [D -> Int]
  /\ IsFiniteSet(E) /\ g \in [E -> Int]
  /\ b \in [D -> E] /\ \A x, y \in D : b[x] = b[y] => x = y

(* The sum of f over A is that of g over where b takes A, when the values  *)
(* agree there.                                                            *)
LEMMA SumMoved ==
  ASSUME NEW f, NEW D, NEW g, NEW E, NEW b, Carries(b, f, D, g, E),
         NEW A \in SUBSET D, \A x \in A : g[b[x]] = f[x]
  PROVE  SumOver(f, A) = SumOver(g, Moved(b, A))
<1>b. /\ IsFiniteSet(D) /\ f \in [D -> Int]
      /\ IsFiniteSet(E) /\ g \in [E -> Int]
      /\ b \in [D -> E] /\ \A x, y \in D : b[x] = b[y] => x = y
  BY DEF Carries
<1>a. \A s \in SUBSET E : \A x \in s : SumOver(g, s) = g[x] + SumOver(g, s \ {x})
  BY <1>b, SumSplit
<1> DEFINE Bad == {s \in SUBSET A : SumOver(f, s) # SumOver(g, Moved(b, s))}
<1>1. Bad = {}
  <2> SUFFICES ASSUME Bad # {} PROVE FALSE
    OBVIOUS
  <2>1. PICK s \in Bad : \A x \in s : s \ {x} \notin Bad
    BY <1>b, SmallestExists
  <2>2. s \in SUBSET A /\ SumOver(f, s) # SumOver(g, Moved(b, s))
    BY <2>1
  <2>3. CASE s = {}
    <3>1. Moved(b, s) = {}
      BY <2>3 DEF Moved
    <3> QED
      BY <1>b, <2>2, <2>3, <3>1, SumFacts
  <2>4. CASE s # {}
    <3>1. PICK p \in s : TRUE
      BY <2>4
    <3> DEFINE T == Moved(b, s)
    <3>2. Moved(b, s \ {p}) = T \ {b[p]}
      BY <1>b, <2>2 DEF Moved
    <3>3. T \in SUBSET E /\ b[p] \in T
      BY <1>b, <2>2 DEF Moved
    <3>4. SumOver(f, s \ {p}) = SumOver(g, T \ {b[p]})
      <4>1. s \ {p} \in SUBSET A /\ s \ {p} \notin Bad
        BY <2>1, <2>2
      <4> QED
        BY <3>2, <4>1
    <3> HIDE DEF T
    <3>5. SumOver(g, T) = g[b[p]] + SumOver(g, T \ {b[p]})
      BY <1>a, <3>3
    <3>6. SumOver(f, s) = f[p] + SumOver(f, s \ {p})
      BY <1>b, <2>2, SumSplit
    <3>7. SumOver(f, s) = SumOver(g, T)
      BY <2>2, <3>4, <3>5, <3>6
    <3> QED
      BY <2>2, <3>7 DEF T
  <2> QED
    BY <2>3, <2>4
<1> QED
  BY <1>1

(* The bytes in the list h.                                                *)
Bytes(h) == SumFunction([i \in DOMAIN h |-> h[i].size])

(* The sizes by position.                                                  *)
SizesIn(h) == [i \in 1 .. Len(h) |-> h[i].size]

(* It is a sum over positions.                                             *)
LEMMA BytesIs ==
  ASSUME NEW h \in Seq(Node)
  PROVE  /\ Bytes(h) = SumOver(SizesIn(h), 1 .. Len(h)) /\ Bytes(h) \in Int
         /\ SizesIn(h) \in [1 .. Len(h) -> Int] /\ IsFiniteSet(1 .. Len(h))
         /\ \A i \in 1 .. Len(h) : SizesIn(h)[i] = h[i].size
         /\ Len(h) \in Nat
<1>1. Len(h) \in Nat /\ DOMAIN h = 1 .. Len(h) /\ \A i \in 1 .. Len(h) : h[i] \in Node
  BY LenProperties
<1>2. \A n \in Node : n.size \in Int
  BY WordFacts DEF Node
<1>3. SizesIn(h) \in [1 .. Len(h) -> Int]
  BY <1>1, <1>2 DEF SizesIn
<1>4. IsFiniteSet(1 .. Len(h))
  BY <1>1, FS_Interval
<1>5. Bytes(h) = SumFunction(SizesIn(h))
  BY <1>1 DEF Bytes, SizesIn
<1>6. \A i \in 1 .. Len(h) : SizesIn(h)[i] = h[i].size
  BY DEF SizesIn
<1>7. /\ SumFunction(SizesIn(h)) = SumOver(SizesIn(h), 1 .. Len(h))
      /\ SumOver(SizesIn(h), 1 .. Len(h)) \in Int
  BY <1>3, <1>4, SumFacts
<1> QED
  BY <1>1, <1>3, <1>4, <1>5, <1>6, <1>7

(* The empty list has none.                                                *)
LEMMA BytesEmpty == Bytes(<<>>) = 0
<1>1. 1 .. Len(<<>>) = {} /\ <<>> \in Seq(Node)
  OBVIOUS
<1>2. /\ Bytes(<<>>) = SumOver(SizesIn(<<>>), {})
      /\ SizesIn(<<>>) \in [{} -> Int] /\ IsFiniteSet({})
  BY <1>1, BytesIs
<1> QED
  BY <1>2, SumFacts

(* A push adds the size of the new node.                                   *)
LEMMA BytesCons ==
  ASSUME NEW h \in Seq(Node), NEW n \in Node
  PROVE  Bytes(Cons(n, h)) = Bytes(h) + n.size
<1> DEFINE g == Cons(n, h)
<1>1. /\ g \in Seq(Node) /\ Len(g) = Len(h) + 1 /\ Len(h) \in Nat
      /\ g[1] = n
      /\ \A i \in 1 .. Len(h) : g[i + 1] = h[i]
  BY ConsItems
<1> HIDE DEF g
<1> DEFINE f == SizesIn(h)
           k == SizesIn(g)
           D == 1 .. Len(h)
           E == 1 .. Len(g)
           b == [i \in D |-> i + 1]
<1>2. /\ Bytes(h) = SumOver(f, D) /\ f \in [D -> Int] /\ IsFiniteSet(D)
      /\ \A i \in D : f[i] = h[i].size
  BY BytesIs
<1>3. /\ Bytes(g) = SumOver(k, E) /\ k \in [E -> Int] /\ IsFiniteSet(E)
      /\ \A i \in E : k[i] = g[i].size
  BY <1>1, BytesIs
<1>4. b \in [D -> E] /\ \A x, y \in D : b[x] = b[y] => x = y
  BY <1>1
<1>5. Moved(b, D) = E \ {1}
  <2>1. ASSUME NEW z \in E, z # 1 PROVE z - 1 \in D /\ b[z - 1] = z
    BY <1>1, <2>1
  <2>2. ASSUME NEW x \in D PROVE b[x] \in E /\ b[x] # 1
    BY <1>1
  <2> HIDE DEF b, D, E
  <2> QED
    BY <2>1, <2>2 DEF Moved
<1>6. 1 \in E /\ k[1] = n.size
  BY <1>1, <1>3
<1>7. \A x \in D : k[b[x]] = f[x]
  <2> SUFFICES ASSUME NEW x \in D PROVE k[b[x]] = f[x]
    OBVIOUS
  <2>1. b[x] = x + 1 /\ x + 1 \in E /\ g[x + 1] = h[x]
    BY <1>1
  <2> HIDE DEF f, k, D, E, b
  <2> QED
    BY <1>2, <1>3, <2>1
<1> HIDE DEF f, k, D, E, b
<1>8. SumOver(f, D) = SumOver(k, E \ {1})
  <2>1. D \in SUBSET D
    OBVIOUS
  <2>3. Carries(b, f, D, k, E)
    BY <1>2, <1>3, <1>4 DEF Carries
  <2>2. SumOver(f, D) = SumOver(k, Moved(b, D))
    BY <1>7, <2>1, <2>3, SumMoved
  <2> QED
    BY <1>5, <2>2
<1>9. SumOver(k, E) = k[1] + SumOver(k, E \ {1}) /\ SumOver(k, E \ {1}) \in Int
  BY <1>3, <1>6, SumWithout
<1>10. k[1] \in Int
  BY <1>3, <1>6
<1>11. Bytes(g) = Bytes(h) + n.size
  BY <1>2, <1>3, <1>6, <1>8, <1>9, <1>10
<1> QED
  BY <1>11 DEF g
(* Unlinking a node takes its size away.                                   *)
LEMMA BytesRemove ==
  ASSUME NEW h \in Seq(Node), NEW i \in 1 .. Len(h)
  PROVE  Bytes(RemoveAt(h, i)) = Bytes(h) - h[i].size
<1> DEFINE g == RemoveAt(h, i)
<1>1. /\ g \in Seq(Node) /\ Len(g) = Len(h) - 1 /\ Len(h) \in Nat
      /\ \A j \in 1 .. Len(h) - 1 : g[j] = IF j < i THEN h[j] ELSE h[j + 1]
  BY RemoveItems, Zenon
<1> HIDE DEF g
<1> DEFINE f == SizesIn(g)
           k == SizesIn(h)
           D == 1 .. Len(g)
           E == 1 .. Len(h)
           b == [j \in D |-> IF j < i THEN j ELSE j + 1]
<1>2. /\ Bytes(g) = SumOver(f, D) /\ f \in [D -> Int] /\ IsFiniteSet(D)
      /\ \A j \in D : f[j] = g[j].size
  BY <1>1, BytesIs
<1>3. /\ Bytes(h) = SumOver(k, E) /\ k \in [E -> Int] /\ IsFiniteSet(E)
      /\ \A j \in E : k[j] = h[j].size
  BY BytesIs
<1>4. b \in [D -> E] /\ \A x, y \in D : b[x] = b[y] => x = y
  BY <1>1
<1>5. Moved(b, D) = E \ {i}
  <2>1. ASSUME NEW z \in E, z # i PROVE \E x \in D : b[x] = z
    <3>1. CASE z < i
      <4>1. z \in D /\ b[z] = z
        BY <1>1, <3>1
      <4> QED
        BY <4>1
    <3>2. CASE ~(z < i)
      <4>1. z - 1 \in D /\ ~(z - 1 < i) /\ (z - 1) + 1 = z
        BY <1>1, <2>1, <3>2
      <4>2. b[z - 1] = z
        BY <4>1
      <4> QED
        BY <4>1, <4>2
    <3> QED
      BY <3>1, <3>2
  <2>2. ASSUME NEW x \in D PROVE b[x] \in E /\ b[x] # i
    BY <1>1
  <2> HIDE DEF b, D, E
  <2> QED
    BY <2>1, <2>2 DEF Moved
<1>6. i \in E /\ k[i] = h[i].size
  BY <1>3
<1>7. \A x \in D : k[b[x]] = f[x]
  <2> SUFFICES ASSUME NEW x \in D PROVE k[b[x]] = f[x]
    OBVIOUS
  <2>1. b[x] \in E /\ g[x] = h[b[x]]
    BY <1>1
  <2> HIDE DEF f, k, D, E, b
  <2> QED
    BY <1>2, <1>3, <2>1
<1> HIDE DEF f, k, D, E, b
<1>8. SumOver(f, D) = SumOver(k, E \ {i})
  <2>1. D \in SUBSET D
    OBVIOUS
  <2>2. Carries(b, f, D, k, E)
    BY <1>2, <1>3, <1>4 DEF Carries
  <2>3. SumOver(f, D) = SumOver(k, Moved(b, D))
    BY <1>7, <2>1, <2>2, SumMoved
  <2> QED
    BY <1>5, <2>3
<1>9. SumOver(k, E) = k[i] + SumOver(k, E \ {i}) /\ SumOver(k, E \ {i}) \in Int
  BY <1>3, <1>6, SumWithout
<1>10. k[i] \in Int
  BY <1>3, <1>6
<1>11. Bytes(g) = Bytes(h) - h[i].size
  BY <1>2, <1>3, <1>6, <1>8, <1>9, <1>10
<1> QED
  BY <1>11 DEF g

(* A node that is pointed to another block gets the size of that one.      *)
LEMMA BytesRepoint ==
  ASSUME NEW h \in Seq(Node), NEW i \in 1 .. Len(h), NEW n \in Node,
         NEW g, Repointed(g, h, i, n)
  PROVE  Bytes(g) = Bytes(h) - h[i].size + n.size
<1>1. /\ g \in Seq(Node) /\ Len(g) = Len(h)
      /\ \A j \in 1 .. Len(h) : g[j] = IF j = i THEN n ELSE h[j]
  BY ExceptSeq DEF Repointed
<1> DEFINE f == SizesIn(g)
           k == SizesIn(h)
           E == 1 .. Len(h)
           A == E \ {i}
           b == [j \in E |-> j]
<1>2. /\ Bytes(g) = SumOver(f, E) /\ f \in [E -> Int] /\ IsFiniteSet(E)
      /\ \A j \in E : f[j] = g[j].size
  BY <1>1, BytesIs
<1>3. /\ Bytes(h) = SumOver(k, E) /\ k \in [E -> Int]
      /\ \A j \in E : k[j] = h[j].size
  BY BytesIs
<1>4. i \in E /\ k[i] = h[i].size /\ f[i] = n.size
  BY <1>1, <1>2, <1>3
<1>5. Moved(b, A) = A
  BY DEF Moved
<1>6. \A x \in A : k[b[x]] = f[x]
  <2> SUFFICES ASSUME NEW x \in A PROVE k[b[x]] = f[x]
    OBVIOUS
  <2>1. b[x] = x /\ x \in E /\ g[x] = h[x]
    BY <1>1
  <2> HIDE DEF f, k, A, E, b
  <2> QED
    BY <1>2, <1>3, <2>1
<1>7. b \in [E -> E] /\ (\A x, y \in E : b[x] = b[y] => x = y) /\ A \in SUBSET E
  OBVIOUS
<1> HIDE DEF f, k, E, b
<1>8. SumOver(f, A) = SumOver(k, A)
  <2>1. Carries(b, f, E, k, E)
    BY <1>2, <1>3, <1>7 DEF Carries
  <2> HIDE DEF A
  <2> QED
    BY <1>5, <1>6, <1>7, <2>1, SumMoved
<1>9. A = E \ {i}
  OBVIOUS
<1> HIDE DEF A
<1>10. /\ SumOver(k, E) = k[i] + SumOver(k, A) /\ SumOver(k, A) \in Int
       /\ SumOver(f, E) = f[i] + SumOver(f, A)
  <2>1. SumOver(k, E) = k[i] + SumOver(k, E \ {i}) /\ SumOver(k, E \ {i}) \in Int
    BY <1>2, <1>3, <1>4, SumWithout
  <2>2. SumOver(f, E) = f[i] + SumOver(f, E \ {i})
    <3>1. IsFiniteSet(E) /\ f \in [E -> Int] /\ i \in E
      BY <1>2, <1>4
    <3> QED
      BY <3>1, SumWithout
  <2> QED
    BY <1>9, <2>1, <2>2
<1>11. k[i] \in Int /\ f[i] \in Int
  BY <1>2, <1>3, <1>4
<1> QED
  BY <1>2, <1>3, <1>4, <1>8, <1>10, <1>11

(* A thread's step moves the counter of the bytes along with the list. *)
LEMMA ThreadBytes ==
  ASSUME NEW t \in Threads, TraceInv, BytesMatch, Call(t) \/ Step(t)
  PROVE  BytesMatch'
<1> DEFINE n == Bytes(header)
           k == reported.bytes
<1>0. TypeInv
  BY DEF TraceInv
<1>1. n \in Int /\ k \in Int /\ header \in Seq(Node)
  <2>1. k \in Word /\ header \in Seq(Node)
    BY <1>0 DEF TypeInv, TypeOK
  <2>2. n \in Int
    BY <2>1, BytesIs
  <2> QED
    BY <2>1, <2>2, WordFacts, Zenon
<1>2. reported' = reported
  BY <1>0, ThreadPc
<1>3. total_bytes = Plus(n, k)
  BY DEF BytesMatch, Bytes, SizeOf
<1>a. ASSUME total_bytes' = Plus(Bytes(header'), k) PROVE BytesMatch'
  BY <1>2, <1>a DEF BytesMatch, Bytes, SizeOf
<1>4. CASE total_bytes' = total_bytes /\ header' = header
  BY <1>3, <1>4, <1>a
<1> HIDE DEF n, k
<1>5. CASE push_node(t)
  <2> DEFINE e == [ptr |-> ptr[t], size |-> size[t]]
  <2>1. e \in Node /\ size[t] \in Word
    BY <1>0, <1>5 DEF push_node, Goto, Node, TypeInv, TypeOK, CallInv
  <2>2. header' = Cons(e, header) /\ total_bytes' = Plus(total_bytes, size[t])
    BY <1>5 DEF push_node
  <2>3. e.size = size[t] /\ size[t] \in Int
    BY <2>1, WordFacts
  <2> HIDE DEF e
  <2>4. Bytes(header') = n + size[t]
    BY <1>1, <2>1, <2>2, <2>3, BytesCons DEF n
  <2>5. total_bytes' = Plus(n + size[t], k)
    BY <1>1, <1>3, <2>2, <2>3, CountUp
  <2> QED
    BY <1>a, <2>4, <2>5
<1>6. CASE free_record(t)
  <2> DEFINE i == Find(ptr[t])
  <2>2. CASE i = 0
    BY <1>4, <1>6, <2>2 DEF free_record
  <2>3. CASE i # 0
    <3>1. i \in 1 .. Len(header) /\ header[i] \in Node
      BY <1>1, <2>3, FindType
    <3>2. header' = RemoveAt(header, i) /\ total_bytes' = Minus(total_bytes, header[i].size)
      BY <1>6, <2>3 DEF free_record
    <3>3. header[i].size \in Int
      BY <3>1, WordFacts DEF Node
    <3> HIDE DEF i
    <3>4. Bytes(header') = n - header[i].size
      BY <1>1, <3>1, <3>2, BytesRemove DEF n
    <3>5. total_bytes' = Plus(n - header[i].size, k)
      BY <1>1, <1>3, <3>2, <3>3, CountUp
    <3> QED
      BY <1>a, <3>4, <3>5
  <2> QED
    BY <2>2, <2>3
<1>7. CASE realloc_record(t)
  <2> DEFINE i == Find(old[t])
             e == [ptr |-> ptr[t], size |-> size[t]]
  <2>2. CASE i = 0
    BY <1>4, <1>7, <2>2 DEF realloc_record
  <2>3. CASE i # 0
    <3>1. i \in 1 .. Len(header) /\ header[i] \in Node
      BY <1>1, <2>3, FindType
    <3>2. /\ Repointed(header', header, i, e)
          /\ total_bytes' = Plus(Minus(total_bytes, header[i].size), size[t])
      BY <1>7, <2>3 DEF realloc_record, Repointed
    <3>3. e \in Node /\ size[t] \in Word
      BY <1>0, <1>7 DEF realloc_record, Goto, Node, TypeInv, TypeOK, CallInv
    <3>4. header[i].size \in Int /\ size[t] \in Int /\ e.size = size[t]
      BY <3>1, <3>3, WordFacts DEF Node
    <3> HIDE DEF i, e
    <3> DEFINE d == header[i].size
               m == n - d
    <3>5. Bytes(header') = (n - d) + size[t]
      BY <1>1, <3>1, <3>2, <3>3, <3>4, BytesRepoint DEF n
    <3>6. Minus(total_bytes, d) = Plus(n - d, k)
      BY <1>1, <1>3, <3>4, CountUp
    <3>7. m \in Int
      BY <1>1, <3>4
    <3> HIDE DEF m
    <3>8. Plus(Plus(m, k), size[t]) = Plus(m + size[t], k)
      BY <1>1, <3>4, <3>7, CountUp
    <3> QED
      BY <1>a, <3>2, <3>5, <3>6, <3>8 DEF m
  <2> QED
    BY <2>2, <2>3
<1>8. CASE Call(t)
  BY <1>4, <1>8 DEF Call, rl_malloc, rl_calloc, Allocated, rl_free, rl_realloc,
                    external_malloc, trace
<1>9. CASE alloc_check(t) \/ alloc_node(t) \/ push_unlock(t) \/ free_check(t)
  BY <1>4, <1>9 DEF alloc_check, alloc_node, push_unlock, free_check, trace
<1>10. CASE free_unlock(t) \/ free_refuse(t) \/ free_libc(t)
  BY <1>4, <1>10 DEF free_unlock, free_refuse, free_libc, trace
<1>11. CASE realloc_check(t) \/ realloc_unlock(t) \/ realloc_node(t)
  BY <1>4, <1>11 DEF realloc_check, realloc_unlock, realloc_node, trace
<1> QED
  BY <1>5, <1>6, <1>7, <1>8, <1>9, <1>10, <1>11 DEF Step

(* BytesMatch is kept by every step. *)
LEMMA BytesNext == TraceInv /\ BytesMatch /\ [Next]_vars => BytesMatch'
<1> SUFFICES ASSUME TraceInv, BytesMatch, [Next]_vars PROVE BytesMatch'
  OBVIOUS
<1>0. TypeInv
  BY DEF TraceInv
<1>1. ASSUME NEW t \in Threads, Call(t) \/ Step(t) PROVE BytesMatch'
  BY <1>1, ThreadBytes
<1>2. CASE rl_memory_trace_init
  <2>1. header = <<>> /\ header' = header /\ UNCHANGED <<total_bytes, reported>>
    BY <1>2 DEF rl_memory_trace_init, TraceInv
  <2> QED
    BY <2>1 DEF BytesMatch, SizeOf
<1>3. CASE rl_memory_trace_deinit
  <2> DEFINE n == Bytes(header)
             k == reported.bytes
             l == n % Wrap
  <2>1. n \in Int /\ k \in Int
    <3>1. k \in Word /\ header \in Seq(Node)
      BY <1>0 DEF TypeInv, TypeOK
    <3>2. n \in Int
      BY <3>1, BytesIs
    <3> QED
      BY <3>1, <3>2, WordFacts, Zenon
  <2>2. header' = <<>> /\ reported'.bytes = Plus(k, l) /\ total_bytes' = total_bytes
    BY <1>3 DEF rl_memory_trace_deinit, Bytes, SizeOf
  <2>3. total_bytes = Plus(n, k)
    BY DEF BytesMatch, Bytes, SizeOf
  <2> HIDE DEF n, k
  <2>4. l \in Int
    BY <2>1, WordMod, WordFacts
  <2>5. Plus(l, k) = Plus(n, k)
    BY <2>1, ModPlus, RlMemAssumption DEF Plus
  <2> HIDE DEF l
  <2>6. Plus(k, l) = Plus(l, k) /\ Plus(k, l) \in Word
    <3>1. k + l = l + k
      BY <2>1, <2>4
    <3> QED
      BY <2>1, <2>4, <3>1, PlusMinusType DEF Plus
  <2>7. Plus(0, Plus(k, l)) = Plus(n, k)
    BY <2>5, <2>6, PlusZero
  <2>8. Bytes(header') = 0
    BY <2>2, BytesEmpty
  <2>9. total_bytes' = Plus(Bytes(header'), reported'.bytes)
    BY <2>2, <2>3, <2>7, <2>8
  <2> QED
    BY <2>9 DEF BytesMatch, Bytes, SizeOf
<1>4. CASE UNCHANGED vars
  BY <1>4 DEF BytesMatch, SizeOf, vars, trace
<1> QED
  BY <1>1, <1>2, <1>3, <1>4 DEF Next

(* g_alloc_total_bytes always equals, as an unsigned int, the sum of the   *)
(* sizes in the list and in all leak reports so far, for any sizes and     *)
(* however often it has wrapped.                                           *)
THEOREM BytesAlwaysMatch == Spec => []BytesMatch
<1>1. Init => BytesMatch
  <2> SUFFICES ASSUME Init PROVE BytesMatch
    OBVIOUS
  <2>1. Bytes(header) = 0 /\ Plus(0, 0) = 0
    BY BytesEmpty, RlMemAssumption DEF Init, Plus
  <2> QED
    BY <2>1 DEF Init, BytesMatch, Bytes, SizeOf
<1> QED
  BY <1>1, TraceInit, TraceNext, BytesNext, PTL DEF Spec

=============================================================================
