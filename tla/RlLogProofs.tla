---------------------------- MODULE RlLogProofs ----------------------------
(***************************************************************************)
(* Theorems about RlLog, for any number of processes and threads, any size *)
(* limit and lines of any length.                                          *)
(***************************************************************************)
EXTENDS RlLog, SequenceTheorems, FiniteSetTheorems, TLAPS

Bytes == [by : Threads, at : 1 .. MaxLen]

(* k bytes of a line of t, from its byte i on.                             *)
Chunk(t, i, k) == [b \in 1 .. k |-> [by |-> t, at |-> i + b]]

-----------------------------------------------------------------------------
(* Types                                                                   *)

(* A piece of a line is a sequence of bytes.                               *)
LEMMA ChunkIsSeq ==
  ASSUME NEW t \in Threads, NEW i \in Nat, NEW k \in Nat, i + k <= MaxLen
  PROVE  Chunk(t, i, k) \in Seq(Bytes) /\ Len(Chunk(t, i, k)) = k
<1>1. MaxLen \in Nat BY RlLogAssumption
<1>2. \A b \in 1 .. k : [by |-> t, at |-> i + b] \in Bytes
  BY <1>1 DEF Bytes
<1>3. Chunk(t, i, k) \in [1 .. k -> Bytes]
  BY <1>2 DEF Chunk
<1>4. QED BY <1>3

(* A file that a piece is appended to stays a sequence of bytes.           *)
LEMMA AppendedType ==
  ASSUME TypeOK, NEW t \in Threads, NEW f,
         NEW k \in Nat, written[t] + k <= MaxLen, Append_bytes(t, f, written[t], k)
  PROVE  content' \in [Inodes -> Seq(Bytes)]
<1> DEFINE c == Chunk(t, written[t], k)
<1>1. c \in Seq(Bytes)
  BY ChunkIsSeq DEF TypeOK
<1>2. content \in [Inodes -> Seq(Bytes)]
  BY DEF TypeOK, Bytes
<1>3. \A j \in Inodes : content[j] \o c \in Seq(Bytes)
  BY <1>1, <1>2, ConcatProperties
<1>4. content' = [j \in Inodes |-> IF j = f THEN content[j] \o c ELSE content[j]]
  BY DEF Append_bytes, Chunk
<1> HIDE DEF c
<1>5. QED BY <1>2, <1>3, <1>4

(* The steps of a call keep the types.                                     *)
LEMMA CallTyped ==
  ASSUME TypeOK, NEW t \in Threads, rl_log(t) \/ Step(t)
  PROVE  TypeOK'
<1>1. MaxLen \in Nat /\ ProcOf[t] \in Procs /\ NoThread \notin Threads
  BY RlLogAssumption
<1> USE <1>1 DEF TypeOK, Goto, Lock, Unlock, Return, file, proc, thread
<1>2. CASE rl_log(t)
  BY <1>2 DEF rl_log
<1>3. CASE stat_log(t)
  BY <1>3 DEF stat_log
<1>4. CASE clear_log(t)
  <2>1. content' \in [Inodes -> Seq([by : Threads, at : 1 .. MaxLen])]
    <3>1. <<>> \in Seq([by : Threads, at : 1 .. MaxLen])
      BY EmptySeq
    <3>2. PICK f : f = Target(ProcOf[t]) OBVIOUS
    <3>3. \/ content' = [i \in Inodes |-> IF i = f THEN <<>> ELSE content[i]]
          \/ content' = content
      BY <1>4, <3>2 DEF clear_log
    <3>4. QED BY <3>1, <3>3
  <2>2. stray' \in BOOLEAN /\ pc' \in [Threads -> {"idle", "lock", "clear", "write", "fail"}]
    BY <1>4 DEF clear_log
  <2>3. QED BY <1>4, <2>1, <2>2 DEF clear_log
<1>5. CASE write_log(t)
  <2>1. CASE UNCHANGED <<file, proc, mutex, len, written, stray>> /\ Goto(t, "write", "fail")
    BY <2>1
  <2>2. ASSUME NEW k \in 1 .. (len[t] - written[t]),
               Append_bytes(t, Target(ProcOf[t]), written[t], k)
        PROVE  TypeOK'
    <3>1. k \in Nat /\ written[t] + k <= MaxLen /\ written[t] + k \in 0 .. MaxLen
      OBVIOUS
    <3>2. content' \in [Inodes -> Seq([by : Threads, at : 1 .. MaxLen])]
      BY <2>2, <3>1, AppendedType DEF Bytes
    <3>3. QED BY <2>2, <3>1, <3>2 DEF Append_bytes
  <2>3. QED BY <1>5, <2>1, <2>2 DEF write_log
<1>6. ASSUME NEW from, Unlock(t), Return(t, from) PROVE TypeOK'
  <2>1. 0 \in 0 .. MaxLen OBVIOUS
  <2>2. len' \in [Threads -> 0 .. MaxLen] /\ written' \in [Threads -> 0 .. MaxLen]
    BY <1>6, <2>1
  <2>3. mutex' \in [Procs -> Threads \cup {NoThread}]
    BY <1>6
  <2>4. QED BY <1>6, <2>2, <2>3
<1>7. CASE write_done(t) \/ write_failed(t)
  BY <1>6, <1>7 DEF write_done, write_failed
<1>8. QED BY <1>2, <1>3, <1>4, <1>5, <1>7 DEF Step

(* Giving a descriptor another meaning keeps the table a table.            *)
LEMMA TableTyped ==
  ASSUME TypeOK, NEW p \in Procs, NEW d \in Fds, NEW v \in Inodes \cup {Closed, Other}
  PROVE  [fdtab EXCEPT ![p][d] = v] \in [Procs -> [Fds -> Inodes \cup {Closed, Other}]]
<1>1. fdtab \in [Procs -> [Fds -> Inodes \cup {Closed, Other}]] BY DEF TypeOK
<1>2. [fdtab[p] EXCEPT ![d] = v] \in [Fds -> Inodes \cup {Closed, Other}] BY <1>1
<1>3. QED BY <1>1, <1>2

(* So do the steps of the main thread and of the rest of the system.       *)
LEMMA HostTyped ==
  ASSUME TypeOK, NEW p \in Procs,
         \/ rl_log_init(p) \/ rl_log_deint(p) \/ deint_done(p)
         \/ host_open(p) \/ host_close(p)
  PROVE  TypeOK'
<1> USE DEF TypeOK, file, proc, thread
<1>1. CASE rl_log_init(p)
  <2>1. cur_level' \in [Procs -> Levels \cup {0}]
    BY <1>1 DEF rl_log_init
  <2>2. fdtab' \in [Procs -> [Fds -> Inodes \cup {Closed, Other}]]
    <3>1. ASSUME NEW d \in Fds, NEW f \in Inodes, fdtab' = [fdtab EXCEPT ![p][d] = f]
          PROVE  fdtab' \in [Procs -> [Fds -> Inodes \cup {Closed, Other}]]
      BY <3>1, TableTyped
    <3>2. \/ \E d \in Fds, f \in Inodes : fdtab' = [fdtab EXCEPT ![p][d] = f]
          \/ UNCHANGED fdtab
      BY <1>1 DEF rl_log_init
    <3>3. QED BY <3>1, <3>2
  <2>3. log_file_fd' \in [Procs -> Fds \cup {-1}] /\ path' \in Inodes \cup {0}
    BY <1>1 DEF rl_log_init, Lowest
  <2>4. QED BY <1>1, <2>1, <2>2, <2>3 DEF rl_log_init
<1>2. CASE rl_log_deint(p)
  <2>1. log_file_fd[p] \in Fds
    BY <1>2 DEF rl_log_deint, Target
  <2>2. fdtab' \in [Procs -> [Fds -> Inodes \cup {Closed, Other}]]
    BY <1>2, <2>1, TableTyped DEF rl_log_deint
  <2>3. QED BY <1>2, <2>2 DEF rl_log_deint
<1>3. CASE deint_done(p)
  BY <1>3 DEF deint_done
<1>4. CASE host_open(p)
  <2>1. fdtab' \in [Procs -> [Fds -> Inodes \cup {Closed, Other}]]
    BY <1>4, TableTyped DEF host_open, Lowest
  <2>2. QED BY <1>4, <2>1 DEF host_open
<1>5. CASE host_close(p)
  <2>1. fdtab' \in [Procs -> [Fds -> Inodes \cup {Closed, Other}]]
    BY <1>5, TableTyped DEF host_close
  <2>2. QED BY <1>5, <2>1 DEF host_close
<1>6. QED BY <1>1, <1>2, <1>3, <1>4, <1>5

(* Every variable keeps its C type, whatever fails and whoever interferes. *)
THEOREM LogTypes == Spec => []TypeOK
<1>1. Init => TypeOK
  <2> SUFFICES ASSUME Init PROVE TypeOK OBVIOUS
  <2>1. content \in [Inodes -> Seq([by : Threads, at : 1 .. MaxLen])]
    BY DEF Init
  <2>2. len \in [Threads -> 0 .. MaxLen] /\ written \in [Threads -> 0 .. MaxLen]
    BY RlLogAssumption DEF Init
  <2>3. QED BY <2>1, <2>2 DEF Init, TypeOK
<1>2. TypeOK /\ [Next]_vars => TypeOK'
  <2> SUFFICES ASSUME TypeOK, [Next]_vars PROVE TypeOK' OBVIOUS
  <2>1. CASE UNCHANGED vars
    BY <2>1 DEF vars, file, proc, thread, TypeOK
  <2>2. CASE unlink_log
    BY <2>2 DEF unlink_log, proc, thread, TypeOK
  <2>3. QED BY <2>1, <2>2, CallTyped, HostTyped DEF Next
<1>3. QED BY <1>1, <1>2, PTL DEF Spec

-----------------------------------------------------------------------------
(* The mutex                                                               *)

(* A thread has rl_log_mutex exactly between stat and the return, and      *)
(* bytes of its line are written only then.                                *)
HolderInv ==
  \A t \in Threads :
    /\ pc[t] \in {"clear", "write", "fail"} <=> mutex[ProcOf[t]] = t
    /\ pc[t] \in {"idle", "lock", "clear"} => written[t] = 0
    /\ written[t] <= len[t]

(* Every step keeps this.                                                  *)
LEMMA HolderStep ==
  ASSUME TypeOK, TypeOK', HolderInv, [Next]_vars
  PROVE  HolderInv'
<1>0. NoThread \notin Threads /\ ProcOf \in [Threads -> Procs] /\ MaxLen \in Nat
  BY RlLogAssumption
<1> USE <1>0 DEF TypeOK, HolderInv, Goto, Lock, Unlock, Return, file, proc, thread
<1>1. CASE UNCHANGED vars
  BY <1>1 DEF vars
<1>2. ASSUME NEW t \in Threads, rl_log(t) \/ Step(t)
      PROVE  HolderInv'
  <2>1. CASE rl_log(t)
    BY <2>1 DEF rl_log
  <2>2. CASE stat_log(t)
    BY <2>2 DEF stat_log
  <2>3. CASE clear_log(t)
    BY <2>3 DEF clear_log
  <2>4. CASE write_log(t)
    BY <2>4 DEF write_log, Append_bytes
  <2>5. CASE write_done(t)
    BY <2>5 DEF write_done
  <2>6. CASE write_failed(t)
    BY <2>6 DEF write_failed
  <2>7. QED BY <1>2, <2>1, <2>2, <2>3, <2>4, <2>5, <2>6 DEF Step
<1>3. ASSUME NEW p \in Procs,
             \/ rl_log_init(p) \/ rl_log_deint(p) \/ deint_done(p)
             \/ host_open(p) \/ host_close(p)
      PROVE  UNCHANGED <<pc, mutex, written, len>>
  BY <1>3 DEF rl_log_init, rl_log_deint, deint_done, host_open, host_close
<1>4. ASSUME UNCHANGED <<pc, mutex, written, len>>
      PROVE  HolderInv'
  BY <1>4
<1>5. CASE unlink_log
  BY <1>5 DEF unlink_log
<1>6. QED BY <1>1, <1>2, <1>3, <1>4, <1>5 DEF Next

(* HolderInv holds throughout.                                             *)
LEMMA HolderAlways == Spec => []HolderInv
<1>1. Init => HolderInv
  <2> SUFFICES ASSUME Init PROVE HolderInv OBVIOUS
  <2>1. ProcOf \in [Threads -> Procs] /\ NoThread \notin Threads BY RlLogAssumption
  <2>2. QED BY <2>1 DEF Init, HolderInv
<1>2. QED BY <1>1, HolderStep, LogTypes, PTL DEF Spec

-----------------------------------------------------------------------------
(* The descriptor, in a host that does not log while rl_log_deint runs and *)
(* where close does not fail                                               *)

Steady == "late" \notin Ops /\ "close_error" \notin Ops

(* log_file_fd is -1 or open on a log file, but for the moment in which    *)
(* rl_log_deint has closed it and no call is under way.                    *)
OpenInv ==
  \A p \in Procs :
    /\ log_file_fd[p] # -1 /\ ~closing[p] => fdtab[p][log_file_fd[p]] \in Inodes
    /\ \A t \in Threads : ProcOf[t] = p /\ pc[t] # "idle"
                            => log_file_fd[p] # -1 /\ ~closing[p]

(* Inode numbers are not the numbers of Closed and Other.                  *)
LEMMA InodesApart == Closed \notin Inodes /\ Other \notin Inodes /\ Closed # Other
BY RlLogAssumption DEF Closed, Other

(* Every step keeps this.                                                  *)
LEMMA OpenStep ==
  ASSUME Steady, TypeOK, TypeOK', OpenInv, [Next]_vars
  PROVE  OpenInv'
<1>0. ProcOf \in [Threads -> Procs]
  BY RlLogAssumption
<1> USE <1>0, InodesApart DEF TypeOK, OpenInv, Goto, file, proc, thread
<1>1. CASE UNCHANGED vars
  BY <1>1 DEF vars
<1>2. ASSUME NEW t \in Threads, rl_log(t) \/ Step(t)
      PROVE  OpenInv'
  <2>1. CASE rl_log(t)
    BY <2>1 DEF rl_log, Steady
  <2>2. CASE Step(t)
    <3>1. /\ UNCHANGED proc
          /\ pc[t] # "idle"
          /\ \A u \in Threads \ {t} : pc'[u] = pc[u]
      BY <2>2 DEF Step, stat_log, clear_log, write_log, Append_bytes, write_done,
                  write_failed, Return
    <3>2. QED BY <3>1
  <2>3. QED BY <1>2, <2>1, <2>2
<1>3. ASSUME NEW p \in Procs, rl_log_init(p)
      PROVE  OpenInv'
  <2>1. log_file_fd[p] = -1 /\ ~closing[p] /\ UNCHANGED <<closing, pc>>
    BY <1>3 DEF rl_log_init, Target
  <2>2. CASE \E d \in Fds, f \in Inodes : /\ fdtab[p][d] = Closed
                                          /\ fdtab' = [fdtab EXCEPT ![p][d] = f]
                                          /\ log_file_fd' = [log_file_fd EXCEPT ![p] = d]
    BY <2>1, <2>2
  <2>3. CASE /\ log_file_fd' \in {log_file_fd, [log_file_fd EXCEPT ![p] = -1]}
             /\ UNCHANGED fdtab
    BY <2>1, <2>3
  <2>4. QED BY <1>3, <2>2, <2>3 DEF rl_log_init, Lowest
<1>4. ASSUME NEW p \in Procs, rl_log_deint(p)
      PROVE  OpenInv'
  <2>1. /\ ~closing[p] /\ log_file_fd[p] # -1
        /\ closing' = [closing EXCEPT ![p] = TRUE]
        /\ UNCHANGED <<log_file_fd, pc>>
        /\ \A t \in Threads : ProcOf[t] = p => pc[t] = "idle"
    BY <1>4 DEF rl_log_deint, Target, Quiet, Steady
  <2>2. \A q \in Procs \ {p} : fdtab'[q] = fdtab[q]
    BY <1>4 DEF rl_log_deint
  <2>3. QED BY <2>1, <2>2
<1>5. ASSUME NEW p \in Procs, deint_done(p)
      PROVE  OpenInv'
  BY <1>5 DEF deint_done
<1>6. ASSUME NEW p \in Procs, host_open(p) \/ host_close(p)
      PROVE  OpenInv'
  <2>1. UNCHANGED <<log_file_fd, closing, pc>>
    BY <1>6 DEF host_open, host_close
  <2>2. PICK d \in Fds : \E v \in {Closed, Other} : /\ fdtab[p][d] \notin Inodes
                                                    /\ fdtab' = [fdtab EXCEPT ![p][d] = v]
    BY <1>6 DEF host_open, host_close, Lowest
  <2>3. \A q \in Procs, e \in Fds : fdtab[q][e] \in Inodes => fdtab'[q][e] = fdtab[q][e]
    BY <2>2
  <2>4. QED BY <2>1, <2>3
<1>7. CASE unlink_log
  BY <1>7 DEF unlink_log
<1>8. QED BY <1>1, <1>2, <1>3, <1>4, <1>5, <1>6, <1>7 DEF Next

(* OpenInv holds throughout, in a steady host.                             *)
LEMMA OpenAlways ==
  ASSUME Steady
  PROVE  Spec => []OpenInv
<1>1. Init => OpenInv
  BY DEF Init, OpenInv
<1>2. TypeOK /\ TypeOK' /\ OpenInv /\ [Next]_vars => OpenInv'
  BY OpenStep
<1>3. QED BY <1>1, <1>2, LogTypes, PTL DEF Spec

(* While a call is under way its log_file_fd is open on a log file.        *)
LEMMA TargetIsLog ==
  ASSUME OpenInv, NEW t \in Threads, pc[t] # "idle"
  PROVE  /\ Target(ProcOf[t]) \in Inodes
         /\ log_file_fd[ProcOf[t]] # -1 /\ ~closing[ProcOf[t]]
BY RlLogAssumption DEF OpenInv, Target

(* The logger never writes, empties or closes a file that is not the log,  *)
(* whatever the host opens and closes meanwhile, for any number of         *)
(* processes, in a host that stops its threads before rl_log_deint (its    *)
(* close takes no lock) and where close does not fail.                     *)
THEOREM NeverStray ==
  ASSUME Steady
  PROVE  Spec => []NoStray
<1>1. Init => NoStray
  BY DEF Init, NoStray
<1>2. TypeOK /\ OpenInv /\ NoStray /\ [Next]_vars => NoStray'
  <2> SUFFICES ASSUME TypeOK, OpenInv, NoStray, [Next]_vars, stray' # stray PROVE FALSE
    BY DEF NoStray, TypeOK
  <2> USE InodesApart DEF NoStray, TypeOK, file, proc, thread
  <2>1. ASSUME NEW t \in Threads, clear_log(t) \/ write_log(t) PROVE FALSE
    <3>1. Target(ProcOf[t]) \in Inodes
      BY <2>1, TargetIsLog DEF clear_log, write_log, Append_bytes, Goto
    <3>2. PICK f : f = Target(ProcOf[t]) OBVIOUS
    <3>3. QED BY <2>1, <3>1, <3>2 DEF clear_log, write_log, Append_bytes
  <2>2. ASSUME NEW p \in Procs, rl_log_deint(p) PROVE FALSE
    <3>1. Target(p) \in Inodes
      BY <2>2 DEF rl_log_deint, Target, OpenInv
    <3>2. QED BY <2>2, <3>1 DEF rl_log_deint
  <2>3. ASSUME NEW t \in Threads, rl_log(t) \/ stat_log(t) \/ write_done(t) \/ write_failed(t)
        PROVE  FALSE
    BY <2>3 DEF rl_log, stat_log, write_done, write_failed, Return
  <2>4. ASSUME NEW p \in Procs, rl_log_init(p) \/ deint_done(p) \/ host_open(p) \/ host_close(p)
        PROVE  FALSE
    BY <2>4 DEF rl_log_init, deint_done, host_open, host_close
  <2>5. QED BY <2>1, <2>2, <2>3, <2>4 DEF Next, Step, vars, unlink_log
<1>3. QED BY <1>1, <1>2, LogTypes, OpenAlways, PTL DEF Spec

-----------------------------------------------------------------------------
(* Lines                                                                   *)

(* What a write call does to the file it writes to.                        *)
LEMMA AppendEffect ==
  ASSUME TypeOK, NEW t \in Threads, NEW f, NEW k \in Nat,
         written[t] + k <= MaxLen, Append_bytes(t, f, written[t], k)
  PROVE  /\ \A g \in Inodes : g # f => content'[g] = content[g]
         /\ f \in Inodes =>
              /\ Len(content'[f]) = Len(content[f]) + k
              /\ \A i \in 1 .. Len(content[f]) : content'[f][i] = content[f][i]
              /\ \A i \in Len(content[f]) + 1 .. Len(content[f]) + k :
                   content'[f][i] = [by |-> t, at |-> written[t] + (i - Len(content[f]))]
<1> DEFINE c == Chunk(t, written[t], k)
<1>1. c \in Seq(Bytes) /\ Len(c) = k
  BY ChunkIsSeq DEF TypeOK
<1>2. \A b \in 1 .. k : c[b] = [by |-> t, at |-> written[t] + b]
  BY DEF Chunk
<1>3. content' = [j \in Inodes |-> IF j = f THEN content[j] \o c ELSE content[j]]
  BY DEF Append_bytes, Chunk
<1> HIDE DEF c
<1>4. ASSUME f \in Inodes
      PROVE  /\ content'[f] = content[f] \o c
             /\ Len(content[f] \o c) = Len(content[f]) + k
             /\ \A i \in 1 .. Len(content[f]) + k :
                  (content[f] \o c)[i] = IF i <= Len(content[f]) THEN content[f][i]
                                         ELSE c[i - Len(content[f])]
  <2>1. content[f] \in Seq(Bytes)
    BY <1>4 DEF TypeOK, Bytes
  <2>2. content'[f] = content[f] \o c
    BY <1>3, <1>4
  <2>3. QED BY <1>1, <2>1, <2>2, ConcatProperties
<1>5. ASSUME f \in Inodes PROVE Len(content[f]) \in Nat
  BY <1>5, LenProperties DEF TypeOK
<1>6. ASSUME f \in Inodes
      PROVE  /\ Len(content'[f]) = Len(content[f]) + k
             /\ \A i \in 1 .. Len(content[f]) : content'[f][i] = content[f][i]
  <2>1. Len(content'[f]) = Len(content[f]) + k
    BY <1>4, <1>6
  <2>2. ASSUME NEW i \in 1 .. Len(content[f])
        PROVE  content'[f][i] = content[f][i]
    <3>1. i \in 1 .. Len(content[f]) + k /\ i <= Len(content[f])
      BY <1>5, <1>6
    <3>2. QED BY <1>4, <1>6, <3>1
  <2>3. QED BY <2>1, <2>2
<1>7. ASSUME f \in Inodes, NEW i \in Len(content[f]) + 1 .. Len(content[f]) + k
      PROVE  content'[f][i] = [by |-> t, at |-> written[t] + (i - Len(content[f]))]
  <2>1. i - Len(content[f]) \in 1 .. k /\ ~(i <= Len(content[f]))
        /\ i \in 1 .. Len(content[f]) + k
    BY <1>5, <1>7
  <2>2. content'[f][i] = c[i - Len(content[f])]
    BY <1>4, <1>7, <2>1
  <2>3. QED BY <1>2, <2>1, <2>2
<1>8. \A g \in Inodes : g # f => content'[g] = content[g]
  BY <1>3
<1>9. QED BY <1>6, <1>7, <1>8

(* A file is changed by a call that empties it or that writes to it, and   *)
(* by nothing else.                                                        *)
LEMMA ContentSteps ==
  ASSUME TypeOK, [Next]_vars
  PROVE  \/ UNCHANGED content
         \/ \E t \in Threads : clear_log(t)
         \/ \E t \in Threads : \E k \in 1 .. (len[t] - written[t]) :
              /\ k = len[t] - written[t] \/ "short" \in Ops
              /\ Append_bytes(t, Target(ProcOf[t]), written[t], k)
<1> USE DEF file, proc, thread
<1>1. ASSUME NEW t \in Threads, write_log(t)
      PROVE  \/ UNCHANGED content
             \/ \E k \in 1 .. (len[t] - written[t]) :
                  /\ k = len[t] - written[t] \/ "short" \in Ops
                  /\ Append_bytes(t, Target(ProcOf[t]), written[t], k)
  BY <1>1 DEF write_log
<1>2. ASSUME NEW t \in Threads, rl_log(t) \/ stat_log(t) \/ write_done(t) \/ write_failed(t)
      PROVE  UNCHANGED content
  BY <1>2 DEF rl_log, stat_log, write_done, write_failed, Return
<1>3. ASSUME NEW p \in Procs,
             \/ rl_log_init(p) \/ rl_log_deint(p) \/ deint_done(p)
             \/ host_open(p) \/ host_close(p)
      PROVE  UNCHANGED content
  BY <1>3 DEF rl_log_init, rl_log_deint, deint_done, host_open, host_close
<1>4. QED BY <1>1, <1>2, <1>3 DEF Next, Step, vars, unlink_log

(* While a call is under way its log_file_fd keeps its meaning.            *)
LEMMA TargetKept ==
  ASSUME Steady, TypeOK, OpenInv, [Next]_vars, NEW t \in Threads, pc[t] # "idle"
  PROVE  Target(ProcOf[t])' = Target(ProcOf[t])
<1> DEFINE q == ProcOf[t]
<1>0. /\ q \in Procs /\ log_file_fd[q] \in Fds /\ log_file_fd[q] # -1 /\ ~closing[q]
      /\ fdtab[q][log_file_fd[q]] \in Inodes
  BY RlLogAssumption DEF OpenInv, TypeOK
<1> HIDE DEF q
<1> SUFFICES log_file_fd'[q] = log_file_fd[q]
             /\ fdtab'[q][log_file_fd[q]] = fdtab[q][log_file_fd[q]]
  BY <1>0 DEF Target, q
<1> USE <1>0, InodesApart DEF TypeOK, file, proc, thread
<1>1. ASSUME NEW u \in Threads, rl_log(u) \/ Step(u)
      PROVE  UNCHANGED <<fdtab, log_file_fd>>
  BY <1>1 DEF rl_log, Step, stat_log, clear_log, write_log, Append_bytes, write_done,
              write_failed, Return
<1>2. ASSUME NEW p \in Procs, rl_log_init(p)
      PROVE  fdtab'[q] = fdtab[q] /\ log_file_fd'[q] = log_file_fd[q]
  <2>1. p # q
    BY <1>2 DEF rl_log_init, Target
  <2>2. QED BY <1>2, <2>1 DEF rl_log_init
<1>3. ASSUME NEW p \in Procs, rl_log_deint(p)
      PROVE  fdtab'[q] = fdtab[q] /\ log_file_fd'[q] = log_file_fd[q]
  <2>1. p # q
    BY <1>3 DEF rl_log_deint, Steady, Quiet, q
  <2>2. QED BY <1>3, <2>1 DEF rl_log_deint
<1>4. ASSUME NEW p \in Procs, deint_done(p)
      PROVE  fdtab'[q] = fdtab[q] /\ log_file_fd'[q] = log_file_fd[q]
  <2>1. p # q
    BY <1>4 DEF deint_done
  <2>2. QED BY <1>4, <2>1 DEF deint_done
<1>5. ASSUME NEW p \in Procs, host_open(p) \/ host_close(p)
      PROVE  /\ log_file_fd' = log_file_fd
             /\ fdtab'[q][log_file_fd[q]] = fdtab[q][log_file_fd[q]]
  <2>1. PICK d \in Fds : \E v \in {Closed, Other} : /\ fdtab[p][d] \notin Inodes
                                                    /\ fdtab' = [fdtab EXCEPT ![p][d] = v]
    BY <1>5 DEF host_open, host_close, Lowest
  <2>2. log_file_fd' = log_file_fd
    BY <1>5 DEF host_open, host_close
  <2>3. QED BY <2>1, <2>2
<1>6. CASE unlink_log
  BY <1>6 DEF unlink_log
<1>7. CASE UNCHANGED vars
  BY <1>7 DEF vars
<1>8. QED BY <1>1, <1>2, <1>3, <1>4, <1>5, <1>6, <1>7 DEF Next

(* The threads that log are those of one process.                          *)
SameProcess == \A t, u \in Threads : ProcOf[t] = ProcOf[u]

(* The file ends with what a call in its write loop has written so far.    *)
SuffixInv ==
  \A t \in Threads : pc[t] = "write" =>
    LET c == content[Target(ProcOf[t])]
    IN  /\ Len(c) >= written[t]
        /\ \A i \in 1 .. written[t] :
             c[Len(c) - written[t] + i] = [by |-> t, at |-> i]

(* Under one mutex no two threads are between stat and the return.         *)
LEMMA OneHolder ==
  ASSUME SameProcess, HolderInv, NEW t \in Threads, NEW u \in Threads,
         pc[t] \in {"clear", "write", "fail"}, pc[u] \in {"clear", "write", "fail"}
  PROVE  t = u
BY DEF SameProcess, HolderInv

(* How a thread comes to be in the write loop.                             *)
LEMMA WriteMoves ==
  ASSUME TypeOK, HolderInv, [Next]_vars, NEW u \in Threads, pc'[u] = "write"
  PROVE  \/ pc[u] \in {"lock", "clear"} /\ written'[u] = 0
         \/ pc[u] = "write" /\ written'[u] = written[u] /\ len'[u] = len[u]
         \/ \E k \in 1 .. (len[u] - written[u]) :
              /\ k = len[u] - written[u] \/ "short" \in Ops
              /\ Append_bytes(u, Target(ProcOf[u]), written[u], k)
<1> USE DEF TypeOK, HolderInv, Goto, file, proc, thread
<1>1. ASSUME UNCHANGED thread
      PROVE  pc[u] = "write" /\ written'[u] = written[u] /\ len'[u] = len[u]
  BY <1>1
<1>2. ASSUME NEW p \in Procs,
             \/ rl_log_init(p) \/ rl_log_deint(p) \/ deint_done(p)
             \/ host_open(p) \/ host_close(p)
      PROVE  UNCHANGED thread
  BY <1>2 DEF rl_log_init, rl_log_deint, deint_done, host_open, host_close
<1>3. ASSUME NEW t \in Threads \ {u}, rl_log(t) \/ Step(t)
      PROVE  pc[u] = "write" /\ written'[u] = written[u] /\ len'[u] = len[u]
  BY <1>3 DEF rl_log, Step, stat_log, clear_log, write_log, Append_bytes, write_done,
              write_failed, Return
<1>4. CASE rl_log(u) \/ write_done(u) \/ write_failed(u)
  BY <1>4 DEF rl_log, write_done, write_failed, Return
<1>5. CASE stat_log(u) \/ clear_log(u)
  BY <1>5 DEF stat_log, clear_log
<1>6. CASE write_log(u)
  BY <1>6 DEF write_log
<1>7. QED
  BY <1>1, <1>2, <1>3, <1>4, <1>5, <1>6 DEF Next, Step, vars, unlink_log

(* Every step keeps this, with the threads of one process.                 *)
LEMMA SuffixStep ==
  ASSUME Steady, SameProcess, TypeOK, TypeOK', HolderInv, OpenInv, OpenInv',
         SuffixInv, [Next]_vars
  PROVE  SuffixInv'
<1> SUFFICES ASSUME NEW u \in Threads, pc'[u] = "write"
             PROVE  LET c == content'[Target(ProcOf[u])']
                    IN  /\ Len(c) >= written'[u]
                        /\ \A i \in 1 .. written'[u] :
                             c[Len(c) - written'[u] + i] = [by |-> u, at |-> i]
  BY DEF SuffixInv
<1>1. pc[u] # "idle"
  BY WriteMoves DEF Append_bytes, Goto
<1>2. PICK f \in Inodes : f = Target(ProcOf[u])
  BY <1>1, TargetIsLog
<1>3. Target(ProcOf[u])' = f
  BY <1>1, <1>2, TargetKept
<1> SUFFICES /\ Len(content'[f]) >= written'[u]
             /\ \A i \in 1 .. written'[u] :
                  content'[f][Len(content'[f]) - written'[u] + i] = [by |-> u, at |-> i]
  BY <1>3
<1>4. Len(content[f]) \in Nat /\ Len(content'[f]) \in Nat /\ written[u] \in Nat /\ MaxLen \in Nat
  BY LenProperties, RlLogAssumption DEF TypeOK
<1>5. CASE written'[u] = 0
  BY <1>4, <1>5
<1>6. CASE pc[u] = "write" /\ written'[u] = written[u]
  <2>1. CASE content' = content
    BY <1>2, <1>6, <2>1 DEF SuffixInv
  <2>2. ASSUME NEW t \in Threads, clear_log(t)
        PROVE  FALSE
    BY <1>6, <2>2, OneHolder DEF clear_log, Goto, TypeOK
  <2>3. ASSUME NEW t \in Threads, NEW k \in 1 .. (len[t] - written[t]),
               Append_bytes(t, Target(ProcOf[t]), written[t], k)
        PROVE  FALSE
    <3>1. t = u
      BY <1>6, <2>3, OneHolder DEF Append_bytes, Goto
    <3>2. QED BY <1>6, <2>3, <3>1 DEF Append_bytes, TypeOK
  <2>4. QED BY <2>1, <2>2, <2>3, ContentSteps
<1>7. ASSUME NEW k \in 1 .. (len[u] - written[u]),
             Append_bytes(u, Target(ProcOf[u]), written[u], k)
      PROVE  /\ Len(content'[f]) >= written'[u]
             /\ \A i \in 1 .. written'[u] :
                  content'[f][Len(content'[f]) - written'[u] + i] = [by |-> u, at |-> i]
  <2>1. k \in Nat /\ written[u] + k <= MaxLen /\ written'[u] = written[u] + k /\ pc[u] = "write"
    BY <1>4, <1>7 DEF Append_bytes, TypeOK, Goto
  <2>2. /\ Len(content'[f]) = Len(content[f]) + k
        /\ \A i \in 1 .. Len(content[f]) : content'[f][i] = content[f][i]
        /\ \A i \in Len(content[f]) + 1 .. Len(content[f]) + k :
             content'[f][i] = [by |-> u, at |-> written[u] + (i - Len(content[f]))]
    BY <1>2, <1>7, <2>1, AppendEffect
  <2>3. /\ Len(content[f]) >= written[u]
        /\ \A i \in 1 .. written[u] :
             content[f][Len(content[f]) - written[u] + i] = [by |-> u, at |-> i]
    BY <1>2, <2>1 DEF SuffixInv
  <2>4. Len(content'[f]) >= written'[u]
    BY <1>4, <2>1, <2>2, <2>3
  <2>5. ASSUME NEW i \in 1 .. written'[u]
        PROVE  content'[f][Len(content'[f]) - written'[u] + i] = [by |-> u, at |-> i]
    <3>1. PICK j \in Nat : j = Len(content[f]) - written[u] + i
      BY <1>4, <2>3
    <3>2. Len(content'[f]) - written'[u] + i = j
      BY <1>4, <2>1, <2>2, <3>1
    <3>3. CASE i \in 1 .. written[u]
      <4>1. j \in 1 .. Len(content[f])
        BY <1>4, <2>3, <3>1, <3>3
      <4>2. content'[f][j] = content[f][j]
        BY <2>2, <4>1
      <4>3. content[f][j] = [by |-> u, at |-> i]
        BY <2>3, <3>1, <3>3
      <4>4. QED BY <3>2, <4>2, <4>3
    <3>4. CASE i > written[u]
      <4>1. j \in Len(content[f]) + 1 .. Len(content[f]) + k
        BY <1>4, <2>1, <3>1, <3>4
      <4>2. written[u] + (j - Len(content[f])) = i
        BY <1>4, <3>1
      <4>3. QED BY <2>2, <3>2, <4>1, <4>2
    <3>5. QED BY <1>4, <2>1, <3>3, <3>4
  <2>6. QED BY <2>4, <2>5
<1>8. QED BY <1>5, <1>6, <1>7, WriteMoves

(* SuffixInv holds throughout, with the threads of one process.            *)
LEMMA SuffixAlways ==
  ASSUME Steady, SameProcess
  PROVE  Spec => []SuffixInv
<1>1. Init => SuffixInv
  BY DEF Init, SuffixInv
<1>2. TypeOK /\ TypeOK' /\ HolderInv /\ OpenInv /\ OpenInv' /\ SuffixInv /\ [Next]_vars
        => SuffixInv'
  BY SuffixStep
<1>3. QED BY <1>1, <1>2, LogTypes, HolderAlways, OpenAlways, PTL DEF Spec

(* When a call is about to answer RL_SUCCESS, the file ends with its line, *)
(* in however many pieces write took it (rllog.c: the write loop), if one  *)
(* process logs and stops its threads before rl_log_deint.                 *)
THEOREM SuccessAlwaysLogged ==
  ASSUME Steady, SameProcess
  PROVE  Spec => []SuccessIsLogged
<1>1. TypeOK /\ HolderInv /\ SuffixInv => SuccessIsLogged
  <2> SUFFICES ASSUME TypeOK, HolderInv, SuffixInv,
                      NEW t \in Threads, pc[t] = "write", written[t] >= len[t]
               PROVE  LET c == content[Target(ProcOf[t])]
                      IN  /\ Len(c) >= len[t]
                          /\ \A i \in 1 .. len[t] :
                               c[Len(c) - len[t] + i] = [by |-> t, at |-> i]
    BY DEF SuccessIsLogged
  <2>1. written[t] = len[t]
    BY RlLogAssumption DEF HolderInv, TypeOK
  <2>2. QED BY <2>1 DEF SuffixInv
<1>2. QED BY <1>1, LogTypes, HolderAlways, SuffixAlways, PTL

(* A call that has written a part of its line, and not all, has its part   *)
(* at the end of the file.                                                 *)
TailInv ==
  \A t \in Threads :
    pc[t] = "write" /\ written[t] > 0 /\ written[t] < len[t] =>
      LET c == content[Target(ProcOf[t])]
      IN  Len(c) > 0 /\ c[Len(c)] = [by |-> t, at |-> written[t]]

(* Without short counts no call has written a part of its line.            *)
WholeInv == \A t \in Threads : pc[t] = "write" => written[t] \in {0, len[t]}

(* Every step keeps this.                                                  *)
LEMMA WholeStep ==
  ASSUME "short" \notin Ops, TypeOK, HolderInv, WholeInv, [Next]_vars
  PROVE  WholeInv'
<1> SUFFICES ASSUME NEW t \in Threads, pc'[t] = "write"
             PROVE  written'[t] \in {0, len'[t]}
  BY DEF WholeInv
<1>1. ASSUME Append_bytes(t, Target(ProcOf[t]), written[t], len[t] - written[t])
      PROVE  written'[t] = len'[t]
  BY <1>1, RlLogAssumption DEF Append_bytes, TypeOK
<1>2. QED BY <1>1, WriteMoves DEF WholeInv

(* TailInv holds for calls that write their line in one piece, and for     *)
(* those of one process.                                                   *)
LEMMA TailAlways ==
  ASSUME "short" \notin Ops \/ (Steady /\ SameProcess)
  PROVE  Spec => []TailInv
<1>1. CASE "short" \notin Ops
  <2>1. Init => WholeInv
    BY DEF Init, WholeInv
  <2>2. TypeOK /\ HolderInv /\ WholeInv /\ [Next]_vars => WholeInv'
    BY <1>1, WholeStep
  <2>3. TypeOK /\ WholeInv => TailInv
    <3> SUFFICES ASSUME TypeOK, WholeInv, NEW t \in Threads,
                        pc[t] = "write", written[t] > 0, written[t] < len[t]
                 PROVE  FALSE
      BY DEF TailInv
    <3>1. written[t] \in Int /\ len[t] \in Int /\ written[t] \in {0, len[t]}
      BY RlLogAssumption DEF WholeInv, TypeOK
    <3>2. QED BY <3>1
  <2>4. QED BY <2>1, <2>2, <2>3, LogTypes, HolderAlways, PTL DEF Spec
<1>2. CASE Steady /\ SameProcess
  <2>1. TypeOK /\ SuffixInv => TailInv
    <3> SUFFICES ASSUME TypeOK, SuffixInv, NEW t \in Threads,
                        pc[t] = "write", written[t] > 0, written[t] < len[t]
                 PROVE  LET c == content[Target(ProcOf[t])]
                        IN  Len(c) > 0 /\ c[Len(c)] = [by |-> t, at |-> written[t]]
      BY DEF TailInv
    <3>1. PICK c : c = content[Target(ProcOf[t])] OBVIOUS
    <3>2. /\ Len(c) >= written[t]
          /\ \A i \in 1 .. written[t] : c[Len(c) - written[t] + i] = [by |-> t, at |-> i]
      BY <3>1 DEF SuffixInv
    <3>3. written[t] \in 1 .. written[t]
      BY RlLogAssumption DEF TypeOK
    <3>4. c[Len(c) - written[t] + written[t]] = [by |-> t, at |-> written[t]]
      BY <3>2, <3>3
    <3>5. QED BY <3>1, <3>2, <3>3, <3>4
  <2>2. QED BY <1>2, <2>1, LogTypes, SuffixAlways, PTL
<1>3. QED BY <1>1, <1>2

(* Every step keeps the lines whole.                                       *)
LEMMA LinesStep ==
  ASSUME TypeOK, TypeOK', HolderInv, TailInv, LinesIntact, [Next]_vars
  PROVE  LinesIntact'
<1> DEFINE Follows(c, i) == c[i].at > 1 => i > 1 /\ c[i - 1] = [c[i] EXCEPT !.at = @ - 1]
<1> SUFFICES ASSUME NEW g \in Inodes, NEW i \in DOMAIN content'[g]
             PROVE  Follows(content'[g], i)
  BY DEF LinesIntact
<1>1. \A j \in DOMAIN content[g] : Follows(content[g], j)
  BY DEF LinesIntact
<1>2. /\ Len(content[g]) \in Nat /\ DOMAIN content[g] = 1 .. Len(content[g])
      /\ Len(content'[g]) \in Nat /\ DOMAIN content'[g] = 1 .. Len(content'[g])
      /\ \A j \in 1 .. Len(content[g]) : content[g][j] \in Bytes
  BY LenProperties, ElementOfSeq DEF TypeOK, Bytes
<1>3. CASE UNCHANGED content
  BY <1>1, <1>3
<1>4. ASSUME NEW t \in Threads, clear_log(t)
      PROVE  Follows(content'[g], i)
  <2>1. PICK f : f = Target(ProcOf[t]) OBVIOUS
  <2>2. content'[g] = <<>> \/ content'[g] = content[g]
    BY <1>4, <2>1 DEF clear_log
  <2>3. QED BY <1>1, <1>2, <2>2
<1>5. ASSUME NEW t \in Threads, NEW k \in 1 .. (len[t] - written[t]),
             Append_bytes(t, Target(ProcOf[t]), written[t], k)
      PROVE  Follows(content'[g], i)
  <2>1. /\ k \in Nat /\ written[t] + k <= MaxLen /\ MaxLen \in Nat
        /\ written[t] \in Nat /\ len[t] \in Nat /\ written[t] < len[t] /\ pc[t] = "write"
    BY <1>5, RlLogAssumption DEF Append_bytes, TypeOK, Goto
  <2>2. PICK f : f = Target(ProcOf[t]) OBVIOUS
  <2>3. CASE g # f
    <3>1. content'[g] = content[g]
      BY <1>5, <2>2, <2>3 DEF Append_bytes
    <3>2. QED BY <1>1, <3>1
  <2>4. CASE g = f
    <3>1. /\ Len(content'[g]) = Len(content[g]) + k
          /\ \A j \in 1 .. Len(content[g]) : content'[g][j] = content[g][j]
          /\ \A j \in Len(content[g]) + 1 .. Len(content[g]) + k :
               content'[g][j] = [by |-> t, at |-> written[t] + (j - Len(content[g]))]
      BY <1>5, <2>1, <2>2, <2>4, AppendEffect
    <3>0. i \in 1 .. Len(content[g]) + k /\ i \in Nat
      BY <1>2, <2>1, <3>1
    <3>2. CASE i <= Len(content[g])
      <4>1. i \in 1 .. Len(content[g]) /\ content'[g][i] = content[g][i]
        BY <1>2, <3>1, <3>2
      <4>2. i > 1 => content'[g][i - 1] = content[g][i - 1]
        BY <1>2, <3>1, <4>1
      <4>3. QED BY <1>1, <1>2, <4>1, <4>2
    <3>3. CASE i = Len(content[g]) + 1
      <4>1. content'[g][i] = [by |-> t, at |-> written[t] + 1]
        <5>1. i \in Len(content[g]) + 1 .. Len(content[g]) + k /\ i - Len(content[g]) = 1
          BY <1>2, <2>1, <3>3
        <5>2. QED BY <3>1, <5>1
      <4>2. CASE written[t] = 0
        BY <4>1, <4>2
      <4>3. CASE written[t] > 0
        <5>1. Len(content[g]) > 0 /\ content[g][Len(content[g])] = [by |-> t, at |-> written[t]]
          BY <2>1, <2>2, <2>4, <4>3 DEF TailInv
        <5>2. content'[g][i - 1] = [by |-> t, at |-> written[t]]
          BY <1>2, <3>1, <3>3, <5>1
        <5>3. [content'[g][i] EXCEPT !.at = @ - 1] = [by |-> t, at |-> written[t]]
          BY <2>1, <4>1
        <5>4. QED BY <1>2, <3>3, <5>1, <5>2, <5>3
      <4>4. QED BY <2>1, <4>2, <4>3
    <3>4. CASE i > Len(content[g]) + 1
      <4>1. PICK d \in Nat : d = i - Len(content[g])
        <5>1. i - Len(content[g]) \in Nat BY <1>2, <3>0, <3>4
        <5>2. QED BY <5>1
      <4>2. content'[g][i] = [by |-> t, at |-> written[t] + d]
        <5>1. i \in Len(content[g]) + 1 .. Len(content[g]) + k
          BY <1>2, <3>0, <3>4
        <5>2. QED BY <3>1, <4>1, <5>1
      <4>3. content'[g][i - 1] = [by |-> t, at |-> written[t] + (d - 1)]
        <5>1. /\ i - 1 \in Len(content[g]) + 1 .. Len(content[g]) + k
              /\ (i - 1) - Len(content[g]) = d - 1
          BY <1>2, <2>1, <3>0, <3>4, <4>1
        <5>2. QED BY <3>1, <5>1
      <4>4. [content'[g][i] EXCEPT !.at = @ - 1] = [by |-> t, at |-> written[t] + (d - 1)]
        BY <2>1, <4>1, <4>2
      <4>5. QED BY <1>2, <3>4, <4>3, <4>4
    <3>5. QED BY <1>2, <3>0, <3>2, <3>3, <3>4
  <2>5. QED BY <2>3, <2>4
<1>6. QED BY <1>3, <1>4, <1>5, ContentSteps

(* No line is broken up by another one: for any number of processes whose  *)
(* write calls return no short count, and, short counts included, for the  *)
(* threads of one process (rl_log_mutex).                                  *)
THEOREM LinesAlwaysIntact ==
  ASSUME "short" \notin Ops \/ (Steady /\ SameProcess)
  PROVE  Spec => []LinesIntact
<1>1. Init => LinesIntact
  BY DEF Init, LinesIntact
<1>2. TypeOK /\ TypeOK' /\ HolderInv /\ TailInv /\ LinesIntact /\ [Next]_vars => LinesIntact'
  BY LinesStep
<1>3. QED BY <1>1, <1>2, LogTypes, HolderAlways, TailAlways, PTL DEF Spec

-----------------------------------------------------------------------------
(* The file is emptied when it is full, and else never loses a line        *)

(* A process with an open log has had it open before, or opens the file    *)
(* that the path names.                                                    *)
LEMMA TargetMoves ==
  ASSUME Steady, TypeOK, OpenInv, [Next]_vars, NEW q \in Procs,
         log_file_fd'[q] # -1, ~closing'[q]
  PROVE  \/ path' = Target(q)' /\ UNCHANGED content
         \/ log_file_fd[q] # -1 /\ ~closing[q] /\ Target(q)' = Target(q)
<1> USE InodesApart DEF TypeOK, file, proc, thread
<1>1. ASSUME UNCHANGED <<fdtab, log_file_fd, closing>>
      PROVE  log_file_fd[q] # -1 /\ ~closing[q] /\ Target(q)' = Target(q)
  BY <1>1 DEF Target
<1>2. ASSUME NEW t \in Threads, rl_log(t) \/ Step(t)
      PROVE  UNCHANGED <<fdtab, log_file_fd, closing>>
  BY <1>2 DEF rl_log, Step, stat_log, clear_log, write_log, Append_bytes, write_done,
              write_failed, Return
<1>3. ASSUME NEW p \in Procs, p # q,
             rl_log_init(p) \/ rl_log_deint(p) \/ deint_done(p)
      PROVE  log_file_fd[q] # -1 /\ ~closing[q] /\ Target(q)' = Target(q)
  <2>1. /\ fdtab'[q] = fdtab[q] /\ log_file_fd'[q] = log_file_fd[q]
        /\ closing'[q] = closing[q]
    <3>1. CASE rl_log_init(p) BY <1>3, <3>1 DEF rl_log_init
    <3>2. CASE rl_log_deint(p) BY <1>3, <3>2 DEF rl_log_deint
    <3>3. CASE deint_done(p) BY <1>3, <3>3 DEF deint_done
    <3>4. QED BY <1>3, <3>1, <3>2, <3>3
  <2>2. QED BY <2>1 DEF Target
<1>4. CASE rl_log_init(q)
  <2>1. log_file_fd[q] = -1
    BY <1>4 DEF rl_log_init, Target, OpenInv
  <2>2. PICK d \in Fds, f \in Inodes : /\ fdtab' = [fdtab EXCEPT ![q][d] = f]
                                       /\ log_file_fd' = [log_file_fd EXCEPT ![q] = d]
                                       /\ path' = f
    BY <1>4, <2>1 DEF rl_log_init
  <2>3. log_file_fd'[q] = d /\ fdtab'[q][d] = f
    BY <2>2
  <2>4. QED BY <1>4, <2>2, <2>3 DEF Target, rl_log_init
<1>5. ~rl_log_deint(q)
  BY DEF rl_log_deint, Steady
<1>6. ~deint_done(q)
  BY DEF deint_done
<1>7. ASSUME NEW p \in Procs, host_open(p) \/ host_close(p)
      PROVE  log_file_fd[q] # -1 /\ ~closing[q] /\ Target(q)' = Target(q)
  <2>1. PICK d \in Fds : \E v \in {Closed, Other} : /\ fdtab[p][d] \notin Inodes
                                                    /\ fdtab' = [fdtab EXCEPT ![p][d] = v]
    BY <1>7 DEF host_open, host_close, Lowest
  <2>2. UNCHANGED <<log_file_fd, closing>>
    BY <1>7 DEF host_open, host_close
  <2>3. log_file_fd[q] \in Fds /\ fdtab[q][log_file_fd[q]] \in Inodes
    BY <2>2 DEF OpenInv
  <2>4. fdtab'[q][log_file_fd[q]] = fdtab[q][log_file_fd[q]]
    BY <2>1, <2>3
  <2>5. QED BY <2>2, <2>4 DEF Target
<1>8. CASE unlink_log
  BY <1>8, <1>1 DEF unlink_log
<1>9. CASE UNCHANGED vars
  BY <1>9, <1>1 DEF vars
<1>10. QED
  BY <1>1, <1>2, <1>3, <1>4, <1>5, <1>6, <1>7, <1>8, <1>9 DEF Next

(* What becomes of the path.                                               *)
LEMMA PathMoves ==
  ASSUME TypeOK, [Next]_vars
  PROVE  \/ path' = path
         \/ path' = 0 /\ UNCHANGED content
         \/ path = 0 /\ path' \in Inodes /\ Fresh(path') /\ UNCHANGED <<content, thread>>
<1> USE DEF file, proc, thread
<1>1. ASSUME NEW t \in Threads, rl_log(t) \/ Step(t)
      PROVE  path' = path
  BY <1>1 DEF rl_log, Step, stat_log, clear_log, write_log, Append_bytes, write_done,
              write_failed, Return
<1>2. ASSUME NEW p \in Procs, rl_log_deint(p) \/ deint_done(p) \/ host_open(p) \/ host_close(p)
      PROVE  path' = path
  BY <1>2 DEF rl_log_deint, deint_done, host_open, host_close
<1>3. ASSUME NEW p \in Procs, rl_log_init(p)
      PROVE  \/ path' = path
             \/ path = 0 /\ path' \in Inodes /\ Fresh(path') /\ UNCHANGED <<content, thread>>
  <2>1. \/ UNCHANGED path
        \/ \E f \in Inodes : (f = path \/ (path = 0 /\ Fresh(f))) /\ path' = f
    BY <1>3 DEF rl_log_init
  <2>2. ASSUME NEW f \in Inodes, path = 0, Fresh(f), path' = f
        PROVE  path' \in Inodes /\ Fresh(path')
    BY <2>2
  <2>3. QED BY <1>3, <2>1, <2>2 DEF rl_log_init
<1>4. CASE unlink_log
  BY <1>4 DEF unlink_log
<1>5. QED BY <1>1, <1>2, <1>3, <1>4 DEF Next, vars

(* The path names the open log, or nothing, or a file that was made anew   *)
(* and is empty; so what stat found too large is what ftruncate empties.   *)
FullInv ==
  \A t \in Threads :
    /\ log_file_fd[ProcOf[t]] # -1 /\ ~closing[ProcOf[t]]
         => path \in {0, Target(ProcOf[t])} \/ content[path] = <<>>
    /\ pc[t] = "clear" => Len(content[Target(ProcOf[t])]) > Limit

(* A call comes to empty the file only from a stat that found it too       *)
(* large.                                                                  *)
LEMMA ClearMoves ==
  ASSUME TypeOK, [Next]_vars, NEW u \in Threads, pc'[u] = "clear"
  PROVE  \/ pc[u] = "clear"
         \/ pc[u] = "lock" /\ OverLimit /\ UNCHANGED <<file, proc>>
<1> USE DEF TypeOK, Goto, file, proc, thread
<1>1. ASSUME UNCHANGED pc PROVE pc[u] = "clear"
  BY <1>1
<1>2. ASSUME NEW p \in Procs,
             \/ rl_log_init(p) \/ rl_log_deint(p) \/ deint_done(p)
             \/ host_open(p) \/ host_close(p)
      PROVE  UNCHANGED pc
  BY <1>2 DEF rl_log_init, rl_log_deint, deint_done, host_open, host_close
<1>3. ASSUME NEW t \in Threads \ {u}, rl_log(t) \/ Step(t)
      PROVE  pc[u] = "clear"
  BY <1>3 DEF rl_log, Step, stat_log, clear_log, write_log, Append_bytes, write_done,
              write_failed, Return
<1>4. ASSUME rl_log(u) \/ clear_log(u) \/ write_log(u) \/ write_done(u) \/ write_failed(u)
      PROVE  FALSE
  BY <1>4 DEF rl_log, clear_log, write_log, Append_bytes, write_done, write_failed, Return
<1>5. CASE stat_log(u)
  BY <1>5 DEF stat_log
<1>6. QED BY <1>1, <1>2, <1>3, <1>4, <1>5 DEF Next, Step, vars, unlink_log

(* Every step keeps this, with the threads of one process.                 *)
LEMMA FullStep ==
  ASSUME Steady, SameProcess, TypeOK, TypeOK', HolderInv, OpenInv, OpenInv',
         FullInv, [Next]_vars
  PROVE  FullInv'
<1>0. ProcOf \in [Threads -> Procs] /\ Limit \in Nat
  BY RlLogAssumption
<1>1. ASSUME NEW u \in Threads, log_file_fd'[ProcOf[u]] # -1, ~closing'[ProcOf[u]]
      PROVE  path' \in {0, Target(ProcOf[u])'} \/ content'[path'] = <<>>
  <2> DEFINE q == ProcOf[u]
  <2>1. q \in Procs
    BY <1>0
  <2>2. CASE log_file_fd[q] # -1 /\ ~closing[q] /\ Target(q)' = Target(q)
    <3>1. PICK f : f = Target(q) OBVIOUS
    <3>2. \A t \in Threads : Target(ProcOf[t]) = f
      BY <3>1 DEF SameProcess
    <3>3. CASE path' = path
      <4>1. CASE path \in {0, f}
        BY <2>2, <3>1, <3>3, <4>1
      <4>2. CASE path \notin {0, f}
        <5>1. path \in Inodes /\ content[path] = <<>>
          BY <2>2, <3>1, <4>2 DEF FullInv, TypeOK
        <5>2. content'[path] = content[path]
          <6>1. ASSUME NEW t \in Threads, clear_log(t)
                PROVE  content'[path] = content[path]
            BY <3>2, <4>2, <5>1, <6>1 DEF clear_log
          <6>2. ASSUME NEW t \in Threads, NEW k,
                       Append_bytes(t, Target(ProcOf[t]), written[t], k)
                PROVE  content'[path] = content[path]
            BY <3>2, <4>2, <5>1, <6>2 DEF Append_bytes
          <6>3. QED BY <6>1, <6>2, ContentSteps
        <5>3. QED BY <3>3, <5>1, <5>2
      <4>3. QED BY <4>1, <4>2
    <3>4. CASE path = 0 /\ path' \in Inodes /\ Fresh(path') /\ UNCHANGED content
      BY <3>4 DEF Fresh
    <3>5. QED BY <3>3, <3>4, PathMoves
  <2>3. QED BY <1>1, <2>1, <2>2, TargetMoves
<1>2. ASSUME NEW u \in Threads, pc'[u] = "clear"
      PROVE  Len(content'[Target(ProcOf[u])']) > Limit
  <2>1. pc[u] # "idle"
    BY <1>2, ClearMoves
  <2>2. PICK f \in Inodes : f = Target(ProcOf[u])
    BY <2>1, TargetIsLog
  <2>3. Target(ProcOf[u])' = f
    BY <2>1, <2>2, TargetKept
  <2>4. CASE pc[u] = "clear"
    <3>1. ASSUME NEW t \in Threads, clear_log(t) PROVE FALSE
      BY <1>2, <2>4, <3>1, OneHolder DEF clear_log, Goto, TypeOK
    <3>2. ASSUME NEW t \in Threads, NEW k, Append_bytes(t, Target(ProcOf[t]), written[t], k)
          PROVE  FALSE
      BY <2>4, <3>2, OneHolder DEF Append_bytes, Goto
    <3>3. UNCHANGED content
      BY <3>1, <3>2, ContentSteps
    <3>4. QED BY <2>2, <2>3, <2>4, <3>3 DEF FullInv
  <2>5. CASE OverLimit /\ UNCHANGED content
    <3>1. path # 0 /\ path \in Inodes /\ Len(content[path]) > Limit
      BY <2>5 DEF OverLimit, TypeOK
    <3>2. content[path] # <<>>
      BY <1>0, <3>1
    <3>3. path = f
      BY <2>1, <2>2, <3>1, <3>2, TargetIsLog DEF FullInv
    <3>4. QED BY <2>3, <2>5, <3>1, <3>3
  <2>6. QED BY <1>2, <2>4, <2>5, ClearMoves DEF file
<1>3. QED BY <1>1, <1>2 DEF FullInv

(* FullInv holds throughout.                                               *)
LEMMA FullAlways ==
  ASSUME Steady, SameProcess
  PROVE  Spec => []FullInv
<1>1. Init => FullInv
  BY DEF Init, FullInv
<1>2. TypeOK /\ TypeOK' /\ HolderInv /\ OpenInv /\ OpenInv' /\ FullInv /\ [Next]_vars
        => FullInv'
  BY FullStep
<1>3. QED BY <1>1, <1>2, LogTypes, HolderAlways, OpenAlways, PTL DEF Spec

(* The comment at the size check of write_rl_log: a file is emptied when   *)
(* it is over the limit, and else never loses a line; also when somebody   *)
(* has removed /tmp/Messages and the path names another file, or none.     *)
THEOREM ClearedOnlyOverLimit ==
  ASSUME Steady, SameProcess
  PROVE  Spec => ClearedOnlyWhenFull
<1>1. TypeOK /\ HolderInv /\ OpenInv /\ FullInv /\ [Next]_vars
        => [\A f \in Inodes : Len(content'[f]) < Len(content[f])
                                => Len(content[f]) > Limit]_vars
  <2> SUFFICES ASSUME TypeOK, HolderInv, OpenInv, FullInv, [Next]_vars,
                      NEW f \in Inodes, Len(content'[f]) < Len(content[f])
               PROVE  Len(content[f]) > Limit
    OBVIOUS
  <2>1. Len(content[f]) \in Nat
    BY LenProperties DEF TypeOK
  <2>2. ASSUME NEW t \in Threads, clear_log(t)
        PROVE  Len(content[f]) > Limit
    <3>1. PICK g : g = Target(ProcOf[t]) OBVIOUS
    <3>2. f = g
      BY <2>1, <2>2, <3>1 DEF clear_log
    <3>3. QED BY <2>2, <3>1, <3>2 DEF clear_log, Goto, FullInv
  <2>3. ASSUME NEW t \in Threads, NEW k \in 1 .. (len[t] - written[t]),
               Append_bytes(t, Target(ProcOf[t]), written[t], k)
        PROVE  FALSE
    <3>1. PICK g : g = Target(ProcOf[t]) OBVIOUS
    <3>2. k \in Nat /\ written[t] + k <= MaxLen
      BY RlLogAssumption DEF TypeOK
    <3>3. content'[f] = content[f] \/ Len(content'[f]) = Len(content[f]) + k
      <4>1. Append_bytes(t, g, written[t], k)
        BY <2>3, <3>1
      <4>2. CASE f = g
        BY <3>2, <4>1, <4>2, AppendEffect
      <4>3. CASE f # g
        BY <4>1, <4>3 DEF Append_bytes
      <4>4. QED BY <4>2, <4>3
    <3>4. QED BY <2>1, <3>2, <3>3
  <2>4. QED BY <2>1, <2>2, <2>3, ContentSteps
<1>2. QED
  BY <1>1, LogTypes, HolderAlways, OpenAlways, FullAlways, PTL DEF Spec, ClearedOnlyWhenFull

-----------------------------------------------------------------------------
(* The size of the log                                                     *)

(* No call empties a file of the host: log_file_fd never names one in a    *)
(* steady host, and there is none when the host opens no files.            *)
ClearInv == \A t \in Threads : pc[t] = "clear" => Target(ProcOf[t]) # Other

(* Without files of the host there is no descriptor on one.                *)
LEMMA NoOtherStep ==
  ASSUME "host_file" \notin Ops, TypeOK, [Next]_vars,
         \A p \in Procs, d \in Fds : fdtab[p][d] # Other
  PROVE  \A p \in Procs, d \in Fds : fdtab'[p][d] # Other
<1> USE InodesApart DEF TypeOK, file, proc, thread
<1>1. ASSUME NEW t \in Threads, rl_log(t) \/ Step(t)
      PROVE  UNCHANGED fdtab
  BY <1>1 DEF rl_log, Step, stat_log, clear_log, write_log, Append_bytes, write_done,
              write_failed, Return
<1>2. ASSUME NEW p \in Procs, rl_log_init(p) PROVE \A d \in Fds : fdtab'[p][d] # Other
  BY <1>2 DEF rl_log_init
<1>3. ASSUME NEW p \in Procs, rl_log_init(p), NEW q \in Procs \ {p}
      PROVE  fdtab'[q] = fdtab[q]
  BY <1>3 DEF rl_log_init
<1>4. ASSUME NEW p \in Procs, rl_log_deint(p), NEW q \in Procs, NEW d \in Fds
      PROVE  fdtab'[q][d] \in {fdtab[q][d], Closed}
  BY <1>4 DEF rl_log_deint
<1>5. ASSUME NEW p \in Procs, deint_done(p) \/ host_open(p) \/ host_close(p)
      PROVE  UNCHANGED fdtab
  BY <1>5 DEF deint_done, host_open, host_close
<1>6. CASE unlink_log
  BY <1>6 DEF unlink_log
<1>7. CASE UNCHANGED vars
  BY <1>7 DEF vars
<1>8. QED BY <1>1, <1>2, <1>3, <1>4, <1>5, <1>6, <1>7 DEF Next

(* ClearInv holds in either case.                                          *)
LEMMA ClearAlways ==
  ASSUME Steady \/ "host_file" \notin Ops
  PROVE  Spec => []ClearInv
<1> DEFINE NoOther == \A p \in Procs, d \in Fds : fdtab[p][d] # Other
<1>1. CASE Steady
  <2>1. OpenInv => ClearInv
    BY TargetIsLog, InodesApart DEF ClearInv
  <2>2. QED BY <1>1, <2>1, OpenAlways, PTL
<1>2. CASE "host_file" \notin Ops
  <2>1. Init => NoOther
    BY InodesApart DEF Init
  <2>2. TypeOK /\ NoOther /\ [Next]_vars => NoOther'
    BY <1>2, NoOtherStep
  <2>3. TypeOK /\ NoOther => ClearInv
    BY RlLogAssumption, InodesApart DEF ClearInv, Target, TypeOK
  <2> HIDE DEF NoOther
  <2>4. QED BY <2>1, <2>2, <2>3, LogTypes, PTL DEF Spec
<1>3. QED BY <1>1, <1>2

(* The processes whose bytes can reach the file that the path names:       *)
(* log_file_fd is not open on another file.                                *)
Attached(p) == Target(p) \notin Inodes \ {path}

(* Each of them may write one line after it has found the file small       *)
(* enough. This is the part of it that has been written, or given up: what *)
(* no call under way can still write.                                      *)
Spent ==
  {x \in Procs \X (1 .. MaxLen) :
     /\ Attached(x[1])
     /\ \A t \in Threads : ProcOf[t] = x[1] /\ pc[t] = "write"
                             => x[2] \notin written[t] + 1 .. len[t]}

(* The file is over the limit by no more than that.                        *)
SizeInv == path # 0 => Len(content[path]) <= Limit + Cardinality(Spent)

(* A part of the lines of all processes has no more bytes than the lines.  *)
LEMMA SpentFinite ==
  ASSUME NEW S \in SUBSET (Procs \X (1 .. MaxLen))
  PROVE  /\ IsFiniteSet(S)
         /\ Cardinality(S) \in Nat
         /\ Cardinality(S) <= Cardinality(Procs) * MaxLen
<1>1. IsFiniteSet(Procs) /\ MaxLen \in Nat
  BY RlLogAssumption
<1>2. IsFiniteSet(1 .. MaxLen) /\ Cardinality(1 .. MaxLen) = MaxLen
  BY <1>1, FS_Interval
<1>3. /\ IsFiniteSet(Procs \X (1 .. MaxLen))
      /\ Cardinality(Procs \X (1 .. MaxLen)) = Cardinality(Procs) * MaxLen
  BY <1>1, <1>2, FS_Product
<1>4. QED BY <1>3, FS_Subset, FS_CardinalityType

(* A process stays attached while the path stays.                          *)
LEMMA AttachedKept ==
  ASSUME TypeOK, [Next]_vars, path # 0, path' = path, NEW q \in Procs, Attached(q)
  PROVE  Attached(q)'
<1> USE InodesApart DEF TypeOK, Attached, file, proc, thread
<1>1. ASSUME UNCHANGED <<fdtab, log_file_fd>> PROVE Attached(q)'
  BY <1>1 DEF Target
<1>2. ASSUME NEW t \in Threads, rl_log(t) \/ Step(t)
      PROVE  UNCHANGED <<fdtab, log_file_fd>>
  BY <1>2 DEF rl_log, Step, stat_log, clear_log, write_log, Append_bytes, write_done,
              write_failed, Return
<1>3. ASSUME NEW p \in Procs, p # q, rl_log_init(p) \/ rl_log_deint(p) \/ deint_done(p)
      PROVE  Attached(q)'
  <2>1. fdtab'[q] = fdtab[q] /\ log_file_fd'[q] = log_file_fd[q]
    <3>1. CASE rl_log_init(p) BY <1>3, <3>1 DEF rl_log_init
    <3>2. CASE rl_log_deint(p) BY <1>3, <3>2 DEF rl_log_deint
    <3>3. CASE deint_done(p) BY <1>3, <3>3 DEF deint_done
    <3>4. QED BY <1>3, <3>1, <3>2, <3>3
  <2>2. QED BY <2>1 DEF Target
<1>4. CASE rl_log_init(q)
  <2>1. ASSUME NEW d \in Fds, fdtab' = [fdtab EXCEPT ![q][d] = path],
               log_file_fd' = [log_file_fd EXCEPT ![q] = d]
        PROVE  Target(q)' = path
    <3>1. log_file_fd'[q] = d /\ fdtab'[q][d] = path /\ d # -1
      BY <2>1, RlLogAssumption
    <3>2. QED BY <3>1 DEF Target
  <2>2. ASSUME log_file_fd' \in {log_file_fd, [log_file_fd EXCEPT ![q] = -1]},
               UNCHANGED fdtab
        PROVE  Target(q)' \in {Target(q), Closed}
    BY <2>2 DEF Target
  <2>3. QED BY <1>4, <2>1, <2>2 DEF rl_log_init
<1>5. CASE rl_log_deint(q)
  <2>1. log_file_fd[q] # -1 /\ log_file_fd'[q] = log_file_fd[q]
        /\ fdtab'[q][log_file_fd[q]] = Closed
    BY <1>5 DEF rl_log_deint, Target
  <2>2. QED BY <2>1 DEF Target
<1>6. CASE deint_done(q)
  BY <1>6 DEF deint_done, Target
<1>7. ASSUME NEW p \in Procs, host_open(p) \/ host_close(p)
      PROVE  Attached(q)'
  <2>1. PICK d \in Fds, v \in {Closed, Other} : fdtab' = [fdtab EXCEPT ![p][d] = v]
    BY <1>7 DEF host_open, host_close
  <2>2. log_file_fd' = log_file_fd
    BY <1>7 DEF host_open, host_close
  <2>3. Target(q)' \in {Target(q), Closed, Other}
    BY <2>1, <2>2 DEF Target
  <2>4. QED BY <2>3
<1>8. CASE UNCHANGED vars
  BY <1>8, <1>1 DEF vars
<1>9. QED BY <1>1, <1>2, <1>3, <1>4, <1>5, <1>6, <1>7, <1>8 DEF Next, unlink_log

(* What is spent stays spent, but for a process that comes to write.       *)
LEMMA SpentGrows ==
  ASSUME TypeOK, TypeOK', [Next]_vars, path # 0, path' = path,
         \A t \in Threads :
           pc'[t] = "write" =>
             \/ pc[t] = "write" /\ written'[t] >= written[t] /\ len'[t] = len[t]
             \/ ~Attached(ProcOf[t])
  PROVE  Spent \subseteq Spent'
<1> SUFFICES ASSUME NEW x \in Spent PROVE x \in Spent'
  OBVIOUS
<1>1. x \in Procs \X (1 .. MaxLen) /\ Attached(x[1])
  BY DEF Spent
<1>2. x[1] \in Procs /\ x[2] \in 1 .. MaxLen /\ MaxLen \in Nat
  BY <1>1, RlLogAssumption
<1>3. Attached(x[1])'
  BY <1>1, <1>2, AttachedKept
<1>4. ASSUME NEW t \in Threads, ProcOf[t] = x[1], pc'[t] = "write"
      PROVE  x[2] \notin written'[t] + 1 .. len'[t]
  <2>1. pc[t] = "write" /\ written'[t] >= written[t] /\ len'[t] = len[t]
    BY <1>1, <1>4
  <2>2. x[2] \notin written[t] + 1 .. len[t]
    BY <1>4, <2>1 DEF Spent
  <2>3. written[t] \in Nat /\ len[t] \in Nat /\ written'[t] \in Nat
    BY <1>2 DEF TypeOK
  <2>4. QED BY <1>2, <2>1, <2>2, <2>3
<1>5. QED BY <1>1, <1>3, <1>4 DEF Spent

(* What an attached process writes is spent.                               *)
LEMMA WriteSpends ==
  ASSUME TypeOK, TypeOK', HolderInv, [Next]_vars, path # 0,
         NEW t \in Threads, Attached(ProcOf[t]), NEW k \in 1 .. (len[t] - written[t]),
         Append_bytes(t, Target(ProcOf[t]), written[t], k)
  PROVE  Cardinality(Spent') >= Cardinality(Spent) + k
<1> DEFINE p == ProcOf[t]
           W == written[t] + 1 .. written[t] + k
<1>1. /\ ProcOf \in [Threads -> Procs] /\ p \in Procs /\ MaxLen \in Nat /\ k \in Nat
      /\ written[t] \in Nat /\ len[t] \in Nat /\ len[t] <= MaxLen
  BY RlLogAssumption DEF TypeOK
<1>2. /\ path' = path /\ UNCHANGED len /\ pc' = pc /\ pc[t] = "write"
      /\ written'[t] = written[t] + k
      /\ \A u \in Threads \ {t} : written'[u] = written[u]
  BY DEF Append_bytes, Goto, TypeOK
<1>3. Spent \subseteq Spent'
  <2>1. \A u \in Threads : written[u] \in Int
    BY <1>1 DEF TypeOK
  <2>2. \A u \in Threads : written'[u] >= written[u]
    BY <1>1, <1>2, <2>1
  <2>3. QED BY <1>2, <2>2, SpentGrows
<1>4. {p} \X W \subseteq Spent'
  <2>1. ASSUME NEW j \in W
        PROVE  <<p, j>> \in Spent'
    <3>1. j \in 1 .. MaxLen
      BY <1>1
    <3>2. Attached(p)'
      BY <1>1, <1>2, AttachedKept
    <3>3. ASSUME NEW u \in Threads, ProcOf[u] = p, pc'[u] = "write"
          PROVE  j \notin written'[u] + 1 .. len'[u]
      <4>1. u = t
        BY <1>2, <3>3 DEF HolderInv
      <4>2. QED BY <1>1, <1>2, <4>1
    <3>4. QED BY <1>1, <3>1, <3>2, <3>3 DEF Spent
  <2>2. QED BY <2>1
<1>5. Spent \cap ({p} \X W) = {}
  <2>1. ASSUME NEW j \in W, <<p, j>> \in Spent
        PROVE  FALSE
    <3>1. j \notin written[t] + 1 .. len[t]
      BY <1>2, <2>1 DEF Spent
    <3>2. QED BY <1>1, <3>1
  <2>2. QED BY <2>1
<1>6. IsFiniteSet({p} \X W) /\ Cardinality({p} \X W) = k
  <2>1. IsFiniteSet(W) /\ Cardinality(W) = k
    <3>1. PICK a \in Int, b \in Int : a = written[t] + 1 /\ b = written[t] + k
      BY <1>1
    <3>2. ~(a > b) /\ b - a + 1 = k
      BY <1>1, <3>1
    <3>3. IsFiniteSet(a .. b) /\ Cardinality(a .. b) = k
      BY <3>2, FS_Interval
    <3>4. QED BY <3>1, <3>3
  <2>2. IsFiniteSet({p}) /\ Cardinality({p}) = 1
    BY FS_Singleton
  <2>3. Cardinality({p} \X W) = 1 * k /\ IsFiniteSet({p} \X W)
    BY <2>1, <2>2, FS_Product
  <2>4. QED BY <1>1, <2>3
<1>7. Spent \in SUBSET (Procs \X (1 .. MaxLen)) /\ Spent' \in SUBSET (Procs \X (1 .. MaxLen))
  BY DEF Spent
<1>8. IsFiniteSet(Spent) /\ IsFiniteSet(Spent')
      /\ Cardinality(Spent) \in Nat /\ Cardinality(Spent') \in Nat
  BY <1>7, SpentFinite
<1> HIDE DEF p, W
<1>9. Cardinality(Spent \cup ({p} \X W)) = Cardinality(Spent) + k
  <2>1. Cardinality(Spent \cup ({p} \X W)) =
          Cardinality(Spent) + Cardinality({p} \X W) - Cardinality(Spent \cap ({p} \X W))
    BY <1>6, <1>8, FS_Union
  <2>2. Cardinality(Spent \cap ({p} \X W)) = 0
    BY <1>5, FS_EmptySet
  <2>3. QED BY <1>1, <1>6, <1>8, <2>1, <2>2
<1>10. Cardinality(Spent \cup ({p} \X W)) <= Cardinality(Spent')
  BY <1>3, <1>4, <1>8, FS_Subset
<1>11. QED BY <1>9, <1>10

(* Every step keeps the bound.                                             *)
LEMMA SizeStep ==
  ASSUME TypeOK, TypeOK', HolderInv, ClearInv, SizeInv, [Next]_vars
  PROVE  SizeInv'
<1> SUFFICES ASSUME path' # 0
             PROVE  Len(content'[path']) <= Limit + Cardinality(Spent')
  BY DEF SizeInv
<1>1. Spent \in SUBSET (Procs \X (1 .. MaxLen)) /\ Spent' \in SUBSET (Procs \X (1 .. MaxLen))
  BY DEF Spent
<1>2. /\ IsFiniteSet(Spent) /\ IsFiniteSet(Spent') /\ Limit \in Nat
      /\ Cardinality(Spent) \in Nat /\ Cardinality(Spent') \in Nat
  BY <1>1, SpentFinite, RlLogAssumption
<1>3. CASE Len(content'[path']) = 0
  BY <1>2, <1>3
<1>4. CASE Fresh(path') /\ UNCHANGED content
  <2>1. content'[path'] = <<>>
    BY <1>4 DEF Fresh
  <2>2. QED BY <1>3, <2>1
<1>5. CASE path' = path
  <2> USE <1>5
  <2>1. /\ path \in Inodes /\ Len(content[path]) \in Nat
        /\ Len(content[path]) <= Limit + Cardinality(Spent)
    BY LenProperties DEF SizeInv, TypeOK
  <2> USE DEF Goto
  <2>2. ASSUME UNCHANGED content,
               \A t \in Threads :
                 pc'[t] = "write" =>
                   \/ pc[t] = "write" /\ written'[t] >= written[t] /\ len'[t] = len[t]
                   \/ ~Attached(ProcOf[t])
        PROVE  Len(content'[path']) <= Limit + Cardinality(Spent')
    <3>1. Spent \subseteq Spent'
      BY <2>2, SpentGrows
    <3>2. Cardinality(Spent) <= Cardinality(Spent')
      BY <1>2, <3>1, FS_Subset
    <3>3. QED BY <1>2, <2>1, <2>2, <3>2
  <2>3. ASSUME UNCHANGED <<content, written, len>>,
               \A t \in Threads : pc'[t] = "write" => pc[t] = "write"
        PROVE  Len(content'[path']) <= Limit + Cardinality(Spent')
    <3>1. \A t \in Threads : written[t] \in Int
      BY RlLogAssumption DEF TypeOK
    <3>2. QED BY <2>2, <2>3, <3>1
  <2>4. ASSUME NEW t \in Threads, Step(t)
        PROVE  Len(content'[path']) <= Limit + Cardinality(Spent')
    <3>1. CASE stat_log(t)
      <4>1. CASE OverLimit
        BY <2>3, <3>1, <4>1 DEF stat_log, TypeOK, file
      <4>2. CASE ~OverLimit
        BY <1>2, <2>1, <3>1, <4>2 DEF stat_log, OverLimit, file
      <4>3. QED BY <4>1, <4>2
    <3>2. CASE clear_log(t)
      <4>1. PICK f : f = Target(ProcOf[t]) OBVIOUS
      <4>2. CASE f = path
        <5>1. path # Closed
          BY <2>1, InodesApart
        <5>2. CASE content'[path] = <<>>
          BY <1>3, <5>2
        <5>3. CASE UNCHANGED content /\ Goto(t, "clear", "fail")
          BY <2>3, <3>2, <5>3 DEF clear_log, TypeOK
        <5>4. QED BY <2>1, <3>2, <4>1, <4>2, <5>2, <5>3 DEF clear_log
      <4>3. CASE f = Closed
        BY <2>3, <3>2, <4>1, <4>3 DEF clear_log, TypeOK
      <4>4. CASE f # path /\ f # Closed
        <5>1. f # Other
          BY <3>2, <4>1 DEF ClearInv, clear_log
        <5>2. ~Attached(ProcOf[t])
          <6>1. ProcOf[t] \in Procs
            BY RlLogAssumption
          <6>2. f \in Inodes \cup {Closed, Other}
            BY <4>1, <6>1 DEF Target, TypeOK
          <6>3. QED BY <4>1, <4>4, <5>1, <6>2 DEF Attached
        <5>3. content'[path] = content[path]
          BY <2>1, <3>2, <4>1, <4>4 DEF clear_log
        <5>4. \A u \in Threads :
                 pc'[u] = "write" =>
                   \/ pc[u] = "write" /\ written'[u] >= written[u] /\ len'[u] = len[u]
                   \/ ~Attached(ProcOf[u])
          <6>1. \A u \in Threads \ {t} : pc'[u] = pc[u]
            BY <3>2 DEF clear_log, TypeOK
          <6>2. \A u \in Threads : written[u] \in Int
            BY RlLogAssumption DEF TypeOK
          <6>3. QED BY <3>2, <5>2, <6>1, <6>2 DEF clear_log
        <5>5. Spent \subseteq Spent'
          BY <5>4, SpentGrows
        <5>6. Cardinality(Spent) <= Cardinality(Spent')
          BY <1>2, <5>5, FS_Subset
        <5>7. QED BY <1>2, <2>1, <5>3, <5>6
      <4>5. QED BY <4>2, <4>3, <4>4
    <3>3. CASE write_log(t)
      <4>1. CASE UNCHANGED <<content, written, len>> /\ Goto(t, "write", "fail")
        BY <2>3, <4>1 DEF TypeOK
      <4>2. ASSUME NEW k \in 1 .. (len[t] - written[t]),
                   Append_bytes(t, Target(ProcOf[t]), written[t], k)
            PROVE  Len(content'[path']) <= Limit + Cardinality(Spent')
        <5>1. PICK f : f = Target(ProcOf[t]) OBVIOUS
        <5>2. k \in Nat /\ written[t] + k <= MaxLen /\ Append_bytes(t, f, written[t], k)
          BY <4>2, <5>1, RlLogAssumption DEF TypeOK
        <5>3. CASE f = path
          <6>1. Len(content'[path]) = Len(content[path]) + k
            BY <2>1, <5>2, <5>3, AppendEffect
          <6>2. Attached(ProcOf[t])
            BY <5>1, <5>3 DEF Attached
          <6>3. Cardinality(Spent') >= Cardinality(Spent) + k
            BY <4>2, <6>2, WriteSpends
          <6>4. QED BY <1>2, <2>1, <5>2, <6>1, <6>3
        <5>4. CASE f # path
          <6>1. content'[path] = content[path]
            BY <2>1, <5>2, <5>4 DEF Append_bytes
          <6>2. \A u \in Threads : written[u] \in Int /\ written'[u] \in Int
            BY RlLogAssumption DEF TypeOK
          <6>3. \A u \in Threads :
                  /\ pc'[u] = pc[u]
                  /\ written'[u] >= written[u]
                  /\ len'[u] = len[u]
            BY <5>2, <6>2 DEF Append_bytes, TypeOK
          <6>4. Spent \subseteq Spent'
            BY <6>3, SpentGrows
          <6>5. Cardinality(Spent) <= Cardinality(Spent')
            BY <1>2, <6>4, FS_Subset
          <6>6. QED BY <1>2, <2>1, <6>1, <6>5
        <5>5. QED BY <5>3, <5>4
      <4>3. QED BY <3>3, <4>1, <4>2 DEF write_log, file
    <3>4. CASE write_done(t) \/ write_failed(t)
      <4>1. UNCHANGED content /\ \A u \in Threads : pc'[u] = "write" =>
              pc[u] = "write" /\ written'[u] = written[u] /\ len'[u] = len[u]
        BY <3>4 DEF write_done, write_failed, Return, file, TypeOK
      <4>2. \A u \in Threads : written[u] \in Int
        BY RlLogAssumption DEF TypeOK
      <4>3. QED BY <2>2, <4>1, <4>2
    <3>5. QED BY <2>4, <3>1, <3>2, <3>3, <3>4 DEF Step
  <2>5. ASSUME NEW t \in Threads, rl_log(t)
        PROVE  Len(content'[path']) <= Limit + Cardinality(Spent')
    <3>1. UNCHANGED content /\ \A u \in Threads : pc'[u] = "write" =>
            pc[u] = "write" /\ written'[u] = written[u] /\ len'[u] = len[u]
      BY <2>5 DEF rl_log, file, TypeOK
    <3>2. \A u \in Threads : written[u] \in Int
      BY RlLogAssumption DEF TypeOK
    <3>3. QED BY <2>2, <3>1, <3>2
  <2>6. ASSUME NEW p \in Procs,
               \/ rl_log_init(p) \/ rl_log_deint(p) \/ deint_done(p)
               \/ host_open(p) \/ host_close(p)
        PROVE  UNCHANGED <<content, thread>>
    BY <2>6 DEF rl_log_init, rl_log_deint, deint_done, host_open, host_close, file
  <2>7. CASE unlink_log
    BY <2>1, <2>7, InodesApart DEF unlink_log
  <2>8. CASE UNCHANGED vars
    BY <2>3, <2>8 DEF vars, file, thread
  <2>9. ASSUME UNCHANGED <<content, thread>>
        PROVE  Len(content'[path']) <= Limit + Cardinality(Spent')
    BY <2>3, <2>9 DEF thread
  <2>10. QED BY <2>4, <2>5, <2>6, <2>7, <2>8, <2>9 DEF Next
<1>6. QED BY <1>4, <1>5, PathMoves

(* The log stays within its limit and one line of each process, for any    *)
(* number of processes and threads, short counts, failing system calls and *)
(* removals of the file included (the size check of write_rl_log, which    *)
(* another process does not see), in a steady host or one without files of *)
(* its own.                                                                *)
THEOREM SizeAlwaysBounded ==
  ASSUME Steady \/ "host_file" \notin Ops
  PROVE  Spec => []SizeBound
<1>1. Init => SizeInv
  BY DEF Init, SizeInv
<1>2. TypeOK /\ TypeOK' /\ HolderInv /\ ClearInv /\ SizeInv /\ [Next]_vars => SizeInv'
  BY SizeStep
<1>3. TypeOK /\ SizeInv => SizeBound
  <2>1. Spent \in SUBSET (Procs \X (1 .. MaxLen))
    BY DEF Spent
  <2>2. /\ Cardinality(Spent) \in Nat
        /\ Cardinality(Spent) <= Cardinality(Procs) * MaxLen
    BY <2>1, SpentFinite
  <2> SUFFICES ASSUME TypeOK, SizeInv, path # 0
               PROVE  Len(content[path]) <= Limit + Cardinality(Procs) * MaxLen
    BY DEF SizeBound
  <2>3. Len(content[path]) <= Limit + Cardinality(Spent)
    BY DEF SizeInv
  <2>4. Len(content[path]) \in Nat
    BY LenProperties DEF TypeOK
  <2>5. PICK n \in Nat : n = Cardinality(Procs) * MaxLen
    <3>1. Cardinality(Procs) \in Nat /\ MaxLen \in Nat
      BY FS_CardinalityType, RlLogAssumption
    <3>2. QED BY <3>1
  <2>6. Limit \in Nat
    BY RlLogAssumption
  <2>7. QED BY <2>2, <2>3, <2>4, <2>5, <2>6
<1>4. QED BY <1>1, <1>2, <1>3, LogTypes, HolderAlways, ClearAlways, PTL DEF Spec
=============================================================================
