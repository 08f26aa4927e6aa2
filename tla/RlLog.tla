------------------------------- MODULE RlLog -------------------------------
(***************************************************************************)
(* rllog: the log file /tmp/Messages, to which every thread of every       *)
(* process that uses the library appends lines.                            *)
(*                                                                         *)
(* Each process has its own log_file_fd and rl_log_mutex; the file is one  *)
(* for all. write_rl_log looks at log_file_fd without the mutex, then,     *)
(* under it, stats the path, empties the file when it is over the limit,   *)
(* and writes the line in as many write calls as it takes. rl_log_init and *)
(* rl_log_deint take no lock.                                              *)
(*                                                                         *)
(* Abstracted: a byte is named by its writer and its place in the line;    *)
(* the text and its prefix are a length. A call that is refused before it  *)
(* takes the mutex (level, log_file_fd = -1, a message of RL_LOG_BUF_SIZE  *)
(* bytes or more) writes to stderr only: a stuttering step.                *)
(***************************************************************************)
EXTENDS Integers, Sequences, FiniteSets

CONSTANTS
  Procs,      (* processes that link the library                           *)
  Threads,    (* their threads that log                                    *)
  ProcOf,     (* the process of a thread                                   *)
  Fds,        (* descriptor numbers of a process                           *)
  Inodes,     (* files that /tmp/Messages can name in turn                 *)
  Limit,      (* RL_LOG_FILE_SIZE                                          *)
  MaxLen,     (* bytes of the longest line                                 *)
  Levels,     (* 0 .. RL_LOG_LEVEL_DEBUG                                   *)
  MaxFile,    (* bound: no call starts while a file is longer than this    *)
  Ops,        (* what happens, a subset of OpNames                         *)
  NoThread

OpNames == {"short",     (* write returns less than it was asked for       *)
            "io_error",  (* a system call on an open descriptor fails      *)
            "close_error", (* close fails                                  *)
            "host_file", (* the host opens and closes a file of its own    *)
            "late",      (* threads log while rl_log_deint runs            *)
            "unlink"}    (* somebody removes /tmp/Messages                 *)

ASSUME RlLogAssumption ==
  /\ ProcOf \in [Threads -> Procs]
  /\ IsFiniteSet(Procs)
  /\ Fds \subseteq Nat
  /\ Inodes \subseteq Nat \ {0}
  /\ Limit \in Nat
  /\ MaxLen \in Nat
  /\ MaxFile \in Nat
  /\ Levels \subseteq Nat
  /\ Ops \subseteq OpNames
  /\ NoThread \notin Threads

VARIABLES
  content,      (* the bytes of each file                                  *)
  path,         (* the file /tmp/Messages names, or 0                      *)
  fdtab,        (* per process and descriptor: a file, Closed or Other     *)
  log_file_fd,  (* per process, -1 when there is none                      *)
  cur_level,    (* per process: cur_rl_log_level                           *)
  closing,      (* per process: rl_log_deint has closed, not yet reset     *)
  mutex,        (* per process: the holder of rl_log_mutex                 *)
  pc,           (* per thread: its next step                               *)
  len,          (* per thread: log_len                                     *)
  written,      (* per thread: bytes_written                               *)
  stray         (* history: the logger has changed a file of the host      *)

file   == <<content, path>>
proc   == <<fdtab, log_file_fd, cur_level, closing>>
thread == <<pc, len, written>>
vars   == <<file, proc, mutex, thread, stray>>

Closed == 0
Other  == -1     (* a file of the host *)

TypeOK ==
  /\ content \in [Inodes -> Seq([by : Threads, at : 1 .. MaxLen])]
  /\ path \in Inodes \cup {0}
  /\ fdtab \in [Procs -> [Fds -> Inodes \cup {Closed, Other}]]
  /\ log_file_fd \in [Procs -> Fds \cup {-1}]
  /\ cur_level \in [Procs -> Levels \cup {0}]
  /\ closing \in [Procs -> BOOLEAN]
  /\ mutex \in [Procs -> Threads \cup {NoThread}]
  /\ pc \in [Threads -> {"idle", "lock", "clear", "write", "fail"}]
  /\ len \in [Threads -> 0 .. MaxLen]
  /\ written \in [Threads -> 0 .. MaxLen]
  /\ stray \in BOOLEAN

Init ==
  /\ content = [f \in Inodes |-> <<>>]
  /\ path = 0
  /\ fdtab = [p \in Procs |-> [d \in Fds |-> Closed]]
  /\ log_file_fd = [p \in Procs |-> -1]
  /\ cur_level = [p \in Procs |-> 0]
  /\ closing = [p \in Procs |-> FALSE]
  /\ mutex = [p \in Procs |-> NoThread]
  /\ pc = [t \in Threads |-> "idle"]
  /\ len = [t \in Threads |-> 0]
  /\ written = [t \in Threads |-> 0]
  /\ stray = FALSE

-----------------------------------------------------------------------------
(* Helpers *)

(* What log_file_fd of process p refers to.                                *)
Target(p) == IF log_file_fd[p] = -1 THEN Closed ELSE fdtab[p][log_file_fd[p]]

(* open returns the lowest descriptor that is closed.                      *)
Lowest(p, d) == /\ d \in Fds /\ fdtab[p][d] = Closed
                /\ \A e \in Fds : fdtab[p][e] = Closed => d <= e

(* A file that was never used.                                             *)
Fresh(f) == content[f] = <<>> /\ f # path /\ \A p \in Procs, d \in Fds : fdtab[p][d] # f

Quiet(p) == \A t \in Threads : ProcOf[t] = p => pc[t] = "idle"

Goto(t, from, to) == pc[t] = from /\ pc' = [pc EXCEPT ![t] = to]

(* Mutant: the mutex does not exclude. *)
LockOpen(t) == mutex' = [mutex EXCEPT ![ProcOf[t]] = t]

Lock(t)   == mutex[ProcOf[t]] = NoThread /\ mutex' = [mutex EXCEPT ![ProcOf[t]] = t]
Unlock(t) == mutex[ProcOf[t]] = t /\ mutex' = [mutex EXCEPT ![ProcOf[t]] = NoThread]

-----------------------------------------------------------------------------
(* write_rl_log                                                            *)

(* The front functions and rl_log_generic, up to the mutex.                *)
rl_log(t) ==
  LET p == ProcOf[t]
  IN  /\ \A f \in Inodes : Len(content[f]) <= MaxFile
      /\ "late" \in Ops \/ ~closing[p]
      /\ log_file_fd[p] # -1
      /\ \E l \in Levels : l <= cur_level[p]
      /\ Goto(t, "idle", "lock")
      /\ \E n \in 0 .. MaxLen : len' = [len EXCEPT ![t] = n]
      /\ UNCHANGED <<file, proc, mutex, written, stray>>

(* Mutants: the file is emptied when it just reaches the limit; the size   *)
(* is not looked at.                                                       *)
OverLimitEarly == path # 0 /\ Len(content[path]) >= Limit
OverLimitNever == FALSE

(* stat finds the path, and the file it names is too large.                *)
OverLimit == path # 0 /\ Len(content[path]) > Limit

stat_log(t) ==
  /\ Lock(t)
  /\ Goto(t, "lock", IF OverLimit THEN "clear" ELSE "write")
  /\ UNCHANGED <<file, proc, len, written, stray>>

(* ftruncate and lseek. The second moves nothing that matters, as the file *)
(* is open with O_APPEND, but its failure ends the call.                   *)
clear_log(t) ==
  LET f == Target(ProcOf[t])
  IN  /\ \/ /\ f # Closed
            /\ \/ Goto(t, "clear", "write")
               \/ "io_error" \in Ops /\ Goto(t, "clear", "fail")
            /\ content' = [i \in Inodes |-> IF i = f THEN <<>> ELSE content[i]]
            /\ stray' = (stray \/ f = Other)
         \/ /\ f = Closed \/ "io_error" \in Ops
            /\ Goto(t, "clear", "fail")
            /\ UNCHANGED <<content, stray>>
      /\ UNCHANGED <<path, proc, mutex, len, written>>

(* k bytes of the line, from byte i of log_buf on, go to the end of f.     *)
Append_bytes(t, f, i, k) ==
  /\ content' = [j \in Inodes |->
                   IF j = f THEN content[j] \o [b \in 1 .. k |-> [by |-> t, at |-> i + b]]
                   ELSE content[j]]
  /\ written' = [written EXCEPT ![t] = @ + k]
  /\ stray' = (stray \/ f = Other)
  /\ Goto(t, "write", "write")
  /\ UNCHANGED <<path, proc, mutex, len>>

(* Mutant: write is asked for the whole line again after a short count. *)
write_log_overrun(t) ==
  /\ written[t] < len[t]
  /\ Target(ProcOf[t]) # Closed
  /\ \E k \in 1 .. len[t] : Append_bytes(t, Target(ProcOf[t]), 0, k)

(* Mutant: the text and the line end are written by two calls. *)
write_log_split(t) ==
  /\ written[t] < len[t]
  /\ Target(ProcOf[t]) # Closed
  /\ Append_bytes(t, Target(ProcOf[t]), written[t], 1)

(* One turn of the write loop.                                             *)
write_log(t) ==
  LET f    == Target(ProcOf[t])
      rest == len[t] - written[t]
  IN  /\ rest > 0
      /\ \/ /\ f # Closed
            /\ \E k \in 1 .. rest : /\ k = rest \/ "short" \in Ops
                                    /\ Append_bytes(t, f, written[t], k)
         \/ /\ f = Closed \/ "io_error" \in Ops
            /\ Goto(t, "write", "fail")
            /\ UNCHANGED <<file, proc, mutex, len, written, stray>>

(* The call returns.                                                       *)
Return(t, from) ==
  /\ Goto(t, from, "idle")
  /\ len' = [len EXCEPT ![t] = 0]
  /\ written' = [written EXCEPT ![t] = 0]
  /\ UNCHANGED <<file, proc, stray>>

(* RL_SUCCESS: the whole line is written.                                  *)
write_done(t) == written[t] >= len[t] /\ Unlock(t) /\ Return(t, "write")

(* Mutant: this way out does not unlock. *)
write_failed_locked(t) == Return(t, "fail") /\ UNCHANGED mutex

(* RL_FAILED, from any of the three error paths.                           *)
write_failed(t) == Unlock(t) /\ Return(t, "fail")

-----------------------------------------------------------------------------
(* The main thread: rl_log_init and rl_log_deint                           *)

(* A host starts the log once, and again only after rl_log_deint. The      *)
(* level is set first; when open fails log_file_fd is -1, when the process *)
(* name cannot be read it is as before.                                    *)
rl_log_init(p) ==
  /\ Target(p) = Closed
  /\ ~closing[p]
  /\ \E l \in Levels : cur_level' = [cur_level EXCEPT ![p] = l]
  /\ \/ \E d \in Fds, f \in Inodes :
          /\ Lowest(p, d)
          /\ f = path \/ (path = 0 /\ Fresh(f))
          /\ fdtab' = [fdtab EXCEPT ![p][d] = f]
          /\ log_file_fd' = [log_file_fd EXCEPT ![p] = d]
          /\ path' = f
     \/ /\ "io_error" \in Ops
        /\ log_file_fd' \in {log_file_fd, [log_file_fd EXCEPT ![p] = -1]}
        /\ UNCHANGED <<fdtab, path>>
  /\ UNCHANGED <<content, closing, mutex, thread, stray>>

(* fsync and close. A failing fsync changes nothing; a failing close has   *)
(* closed the descriptor all the same, but log_file_fd will not be reset.  *)
rl_log_deint(p) ==
  /\ ~closing[p]
  /\ Target(p) # Closed
  /\ "late" \in Ops \/ Quiet(p)
  /\ fdtab' = [fdtab EXCEPT ![p][log_file_fd[p]] = Closed]
  /\ \/ closing' = [closing EXCEPT ![p] = TRUE]
     \/ "close_error" \in Ops /\ UNCHANGED closing
  /\ stray' = (stray \/ Target(p) = Other)
  /\ UNCHANGED <<file, log_file_fd, cur_level, mutex, thread>>

(* Mutant: log_file_fd keeps the closed descriptor. *)
deint_done_stale(p) ==
  /\ closing[p]
  /\ closing' = [closing EXCEPT ![p] = FALSE]
  /\ UNCHANGED <<file, fdtab, log_file_fd, cur_level, mutex, thread, stray>>

deint_done(p) ==
  /\ closing[p]
  /\ closing' = [closing EXCEPT ![p] = FALSE]
  /\ log_file_fd' = [log_file_fd EXCEPT ![p] = -1]
  /\ UNCHANGED <<file, fdtab, cur_level, mutex, thread, stray>>

-----------------------------------------------------------------------------
(* The rest of the host, and other users of /tmp                           *)

host_open(p) ==
  /\ "host_file" \in Ops
  /\ \E d \in Fds : Lowest(p, d) /\ fdtab' = [fdtab EXCEPT ![p][d] = Other]
  /\ UNCHANGED <<file, log_file_fd, cur_level, closing, mutex, thread, stray>>

host_close(p) ==
  /\ \E d \in Fds : /\ fdtab[p][d] = Other
                    /\ fdtab' = [fdtab EXCEPT ![p][d] = Closed]
  /\ UNCHANGED <<file, log_file_fd, cur_level, closing, mutex, thread, stray>>

unlink_log ==
  /\ "unlink" \in Ops
  /\ path # 0
  /\ \E f \in Inodes : Fresh(f)
  /\ path' = 0
  /\ UNCHANGED <<content, proc, mutex, thread, stray>>

Step(t) == stat_log(t) \/ clear_log(t) \/ write_log(t) \/ write_done(t) \/ write_failed(t)

Next ==
  \/ \E t \in Threads : rl_log(t) \/ Step(t)
  \/ \E p \in Procs : \/ rl_log_init(p) \/ rl_log_deint(p) \/ deint_done(p)
                      \/ host_open(p) \/ host_close(p)
  \/ unlink_log

Spec == Init /\ [][Next]_vars

(* The OS runs every thread that does not wait for the mutex.              *)
FairSpec == Spec /\ \A t \in Threads : WF_vars(Step(t))

-----------------------------------------------------------------------------
(* Properties                                                              *)

(* The log stays near its limit: over it by at most one line of each       *)
(* process, as a process that has found it small enough writes one line.   *)
(* (Said of the file that /tmp/Messages names: one that was removed while  *)
(* it is open has no bound, as stat no longer finds it.)                   *)
SizeBound ==
  path # 0 => Len(content[path]) <= Limit + Cardinality(Procs) * MaxLen

(* No line is broken up by another one: a byte that does not start a line  *)
(* follows its predecessor in the same line.                               *)
LinesIntact ==
  \A f \in Inodes : \A i \in DOMAIN content[f] :
    LET byte == content[f][i]
    IN  byte.at > 1 => i > 1 /\ content[f][i - 1] = [byte EXCEPT !.at = @ - 1]

(* When a call is about to answer RL_SUCCESS, the file ends with its line. *)
SuccessIsLogged ==
  \A t \in Threads : pc[t] = "write" /\ written[t] >= len[t] =>
    LET c == content[Target(ProcOf[t])]
    IN  /\ Len(c) >= len[t]
        /\ \A i \in 1 .. len[t] : c[Len(c) - len[t] + i] = [by |-> t, at |-> i]

(* The logger never writes, empties or closes a file that is not the log.  *)
NoStray == ~stray

(* The comment at the size check: the file is emptied if it is over the    *)
(* limit, and else never loses a line.                                     *)
ClearedOnlyWhenFull ==
  [][\A f \in Inodes : Len(content'[f]) < Len(content[f])
                         => Len(content[f]) > Limit]_vars

(* A thread that has taken rl_log_mutex gives it back, on every path.      *)
LogLockReleased == \A t \in Threads : (mutex[ProcOf[t]] = t) ~> (mutex[ProcOf[t]] # t)
=============================================================================
