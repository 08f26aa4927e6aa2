------------------------------- MODULE RlSys -------------------------------
(***************************************************************************)
(* rlsys: what the process can learn of itself and of the machine: CPU     *)
(* usage between two calls, temperature, memory, its name and paths, its   *)
(* open descriptors, elapsed time.                                         *)
(*                                                                         *)
(* A file is opened, read and closed in three steps, and a directory is    *)
(* read entry by entry, while other threads open and close files.          *)
(*                                                                         *)
(* Abstracted: the seven counters of /proc/stat are two, busy and idle     *)
(* with iowait; the files under /proc and /sys have their kernel's form.   *)
(***************************************************************************)
EXTENDS Descriptors, RlStr, SequencesExt

CONSTANTS
  Word,        (* the range of unsigned long long                          *)
  Permille,    (* 1000: the unit of the usage                              *)
  MaxJiffies,  (* bound: how far a counter moves from its start            *)
  Second,      (* tv_nsec is below this                                    *)
  MaxTime,     (* bound: the monotonic clock ends here                     *)
  Readings,    (* the temperature file: its text, and the value meant      *)
  TempBuf,     (* sizeof buf in rl_get_cpu_temperature                     *)
  Garbage,     (* codes the stack may hold                                 *)
  Exes,        (* absolute paths of the program                            *)
  DirBuf,      (* sizeof temp_buf in rl_get_file_abs_path                  *)
  Files,       (* arguments file_path                                      *)
  Names,       (* the process name, as in /proc/self/comm                  *)
  Lens,        (* arguments len                                            *)
  Sizes        (* values of VmRSS                                          *)

SLASH == 47

(* One line that fits the buffer, and the number in it, if it is one.      *)
IsReading(r) ==
  /\ r.text \in Seq(Nat) /\ r.value \in Int
  /\ Len(r.text) \in 1 .. TempBuf - 1 /\ Last(r.text) = NEWLINE
  /\ \A i \in 1 .. Len(r.text) - 1 : r.text[i] \notin {NUL, NEWLINE}
  /\ rl_str_isdigit(Front(r.text)) = RL_TRUE => rl_str_atoi(Front(r.text)) = r.value

(* The path of a file as the kernel gives it: absolute, each slash before  *)
(* a name.                                                                 *)
IsPath(p) ==
  /\ p \in Seq(Nat) /\ p # <<>>
  /\ Head(p) = SLASH /\ Last(p) # SLASH
  /\ \A i \in 1 .. Len(p) - 1 : p[i] = SLASH => p[i + 1] # SLASH

ASSUME RlSysAssumption ==
  /\ {Word, Permille, Second, TempBuf, DirBuf} \subseteq Nat \ {0}
  /\ MaxTime \in Nat /\ MaxJiffies \in Nat /\ MaxJiffies + 3 < Word
  /\ 2 * MaxJiffies * Permille < Word
  /\ \A r \in Readings : IsReading(r)
  /\ \A p \in Exes : IsPath(p)
  /\ Files \cup Names \subseteq Seq(Nat)
  /\ Lens \subseteq Nat /\ Sizes \subseteq Nat

VARIABLES
  spc,       (* the next step of the call                                  *)
  sfn,       (* the function called last                                   *)
  sfd,       (* the descriptor in hand, -1 if there is none                *)
  sret,      (* the value of the last call                                 *)
  machine,   (* the counters of the kernel, unbounded                      *)
  tracker,   (* cpu_usage_t                                                *)
  sample,    (* what was read: counters of /proc/stat                      *)
  cells,     (* ... buf of rl_get_cpu_temperature, and one code behind it  *)
  rss,       (* ... VmRSS, -1 when there is none                           *)
  mono,      (* CLOCK_MONOTONIC                                            *)
  start,     (* the start of a measurement                                 *)
  exe,       (* where the program lies                                     *)
  path,      (* the caller's text buffer                                   *)
  plen,      (* argument len of the last call                              *)
  scan,      (* the walk through /proc/<pid>/fd: entry and count           *)
  truth      (* history, see Truth                                         *)

usagevars  == <<machine, tracker, sample>>
pathvars   == <<exe, path, plen>>
readervars == <<cells, rss, mono, start, scan, pathvars>>
sysvars    == <<spc, sfn, sfd, sret, usagevars, readervars, truth>>

(* read, sampled: the counters as this call has read them, and as the last *)
(* sample did; growth: how they had moved since the sample before. Of the  *)
(* last call, value: what the file says; elapsed: the time since start;    *)
(* file: the file asked for; wrote: it wrote to the caller's buffer;       *)
(* always, ever: the descriptors open all through the walk, and at some    *)
(* moment of it.                                                           *)
Kernel == [busy : Int, idle : Int]

Truth == [read : Kernel, sampled : Kernel, growth : Kernel,
          value : Int, elapsed : Nat, file : Files \cup {<<>>}, wrote : BOOLEAN,
          always : SUBSET Fds, ever : SUBSET Fds]

Counters == [total : 0 .. Word - 1, idle : 0 .. Word - 1]

SysTypeOK ==
  /\ spc \in {"idle", "read", "convert", "close", "scan", "closedir"}
  /\ sfn \in {"none", "usage", "temperature", "memory", "name", "path", "dir",
              "abs", "fds", "time"}
  /\ sfd \in Fds \cup {-1}
  /\ sret \in Int
  /\ machine \in Kernel
  /\ tracker \in [last_total : 0 .. Word - 1, last_idle : 0 .. Word - 1, valid : BOOLEAN]
  /\ sample \in Counters
  /\ DOMAIN cells = 0 .. TempBuf /\ cells[TempBuf] = NUL
  /\ rss \in Sizes \cup {-1}
  /\ mono \in 0 .. MaxTime /\ start \in 0 .. mono
  /\ exe \in Exes
  /\ plen \in Lens \cup {0}
  /\ scan \in [entry : Int, count : Nat]
  /\ truth \in Truth

NoSample == [total |-> 0, idle |-> 0]

Blank == [i \in 0 .. TempBuf |-> NUL]

SysInit ==
  /\ spc = "idle" /\ sfn = "none" /\ sfd = -1 /\ sret = 0
  /\ \E b \in {0, Word - 2} : machine = [busy |-> b, idle |-> 0]
  /\ tracker = [last_total |-> 0, last_idle |-> 0, valid |-> FALSE]
  /\ sample = NoSample
  /\ cells = Blank
  /\ rss = -1
  /\ mono = 0 /\ start = 0
  /\ exe \in Exes
  /\ path = <<>> /\ plen = 0
  /\ scan = [entry |-> 0, count |-> 0]
  /\ truth = [read |-> machine, sampled |-> machine, growth |-> [busy |-> 0, idle |-> 0],
              value |-> 0, elapsed |-> 0, file |-> <<>>, wrote |-> FALSE,
              always |-> {}, ever |-> {}]

(* The history of a new call.                                              *)
Fresh == [truth EXCEPT !.growth = [busy |-> 0, idle |-> 0], !.value = 0, !.elapsed = 0,
                       !.file = <<>>, !.wrote = FALSE, !.always = {}, !.ever = {}]

(* fopen, open: the call goes on, or answers RL_FAILED.                    *)
OpenFile(f) ==
  /\ spc = "idle"
  /\ sfn' = f
  /\ \/ /\ \E d \in Fds : Opened("rlsys", d) /\ sfd' = d
        /\ spc' = "read"
        /\ UNCHANGED sret
     \/ /\ sret' = RL_FAILED
        /\ UNCHANGED <<fdtab, spc, sfd>>

ReadFile(f, to) ==
  /\ spc = "read" /\ sfn = f
  /\ spc' = to
  /\ UNCHANGED <<fdtab, sfn, sfd, sret>>

(* The file is closed, and the call returns v.                             *)
CloseFile(f, at, v) ==
  /\ spc = at /\ sfn = f
  /\ spc' = "idle"
  /\ Closed(sfd)
  /\ sfd' = -1
  /\ sret' = v
  /\ UNCHANGED sfn

-----------------------------------------------------------------------------
(* CPU usage                                                               *)

rl_get_cpu_usage ==
  OpenFile("usage") /\ truth' = Fresh /\ UNCHANGED <<usagevars, readervars>>

usage_read ==
  \/ /\ ReadFile("usage", "convert")
     /\ sample' = [total |-> (machine.busy + machine.idle) % Word,
                   idle  |-> machine.idle % Word]
     /\ truth' = [truth EXCEPT !.read = machine]
     /\ UNCHANGED <<machine, tracker, readervars>>
  \/ /\ ReadFile("usage", "close")
     /\ UNCHANGED <<usagevars, readervars, truth>>

(* fgets or fclose has failed.                                             *)
usage_failed ==
  /\ \E at \in {"close", "convert"} : CloseFile("usage", at, RL_FAILED)
  /\ sample' = NoSample
  /\ truth' = [truth EXCEPT !.read = truth.sampled]
  /\ UNCHANGED <<machine, tracker, readervars>>

(* Mutant: a counter that is below its last value counts as unchanged. *)
DiffSaturated(a, b) == IF a < b THEN 0 ELSE a - b

(* a - b, unsigned.                                                        *)
Diff(a, b) == (a - b) % Word

Usage ==
  LET total_diff == Diff(sample.total, tracker.last_total)
      idle_diff  == Diff(sample.idle, tracker.last_idle)
  IN  IF ~tracker.valid \/ total_diff = 0 THEN 0
      ELSE ((Diff(total_diff, idle_diff) * Permille) % Word) \div total_diff

(* History: how far a counter is from the last sample.                     *)
Moved(c) == IF tracker.valid THEN truth.read[c] - truth.sampled[c] ELSE 0

usage_convert ==
  /\ CloseFile("usage", "convert", Usage)
  /\ tracker' = [last_total |-> sample.total, last_idle |-> sample.idle, valid |-> TRUE]
  /\ truth' = [truth EXCEPT !.sampled = truth.read,
                            !.growth = [busy |-> Moved("busy"), idle |-> Moved("idle")]]
  /\ sample' = NoSample
  /\ UNCHANGED <<machine, readervars>>

-----------------------------------------------------------------------------
(* Temperature, memory, name                                               *)

rl_get_cpu_temperature ==
  OpenFile("temperature") /\ truth' = Fresh /\ UNCHANGED <<usagevars, readervars>>

(* read puts the text into buf and nothing behind it.                      *)
temperature_read ==
  \/ \E r \in Readings, g \in [1 .. TempBuf -> Garbage] :
       /\ ReadFile("temperature", "convert")
       /\ cells' = [i \in 0 .. TempBuf |->
                      IF i = TempBuf THEN NUL
                      ELSE IF i < Len(r.text) THEN r.text[i + 1] ELSE g[i + 1]]
       /\ truth' = [truth EXCEPT !.value = r.value]
       /\ UNCHANGED <<rss, mono, start, scan, pathvars, usagevars>>
  \/ /\ ReadFile("temperature", "close")
     /\ UNCHANGED <<usagevars, readervars, truth>>

Temperature(m) ==
  LET text == Str(rl_str_rm_line(m).mem)
  IN  IF rl_str_isdigit(text) = RL_TRUE THEN rl_str_atoi(text) ELSE RL_FAILED

temperature_convert ==
  /\ \/ CloseFile("temperature", "convert", Temperature(cells))
     \/ CloseFile("temperature", "close", RL_FAILED)
  /\ cells' = Blank
  /\ UNCHANGED <<rss, mono, start, scan, pathvars, usagevars, truth>>

rl_get_memory_usage ==
  OpenFile("memory") /\ truth' = Fresh /\ UNCHANGED <<usagevars, readervars>>

(* The lines of the file up to VmRSS, or all.                              *)
memory_read ==
  /\ ReadFile("memory", "close")
  /\ rss' \in Sizes \cup {-1}
  /\ UNCHANGED <<cells, mono, start, scan, pathvars, usagevars, truth>>

(* memory_usage is -1 when VmRSS was not found, and so is RL_FAILED.       *)
memory_close ==
  /\ CloseFile("memory", "close", IF rss = -1 THEN RL_FAILED ELSE rss)
  /\ rss' = -1
  /\ UNCHANGED <<cells, mono, start, scan, pathvars, usagevars, truth>>

rl_get_proc_name ==
  /\ truth' = Fresh
  /\ \/ /\ spc = "idle" /\ sfn' = "name" /\ plen' = 0
        /\ sret' = RL_FAILED
        /\ UNCHANGED <<fdtab, spc, sfd>>
     \/ OpenFile("name") /\ plen' \in Lens \ {0}
  /\ UNCHANGED <<cells, rss, mono, start, scan, exe, path, usagevars>>

(* fgets takes len - 1 characters; the newline is cut off.                 *)
name_read ==
  \/ \E n \in Names :
       /\ ReadFile("name", "convert")
       /\ path' = Cut(n, plen - 1)
       /\ UNCHANGED <<cells, rss, mono, start, scan, exe, plen, usagevars, truth>>
  \/ ReadFile("name", "close") /\ UNCHANGED <<usagevars, readervars, truth>>

name_close ==
  /\ \/ CloseFile("name", "convert", RL_SUCCESS)
     \/ CloseFile("name", "close", RL_FAILED)
  /\ UNCHANGED <<usagevars, readervars, truth>>

-----------------------------------------------------------------------------
(* Paths                                                                   *)

(* Mutant: room for the terminator is not set aside. *)
ReadLinkFull(len) == IF len = 0 THEN {<<>>} ELSE {Cut(exe, len), <<>>}

(* readlink of /proc/self/exe into len - 1 codes: what fits, without a     *)
(* notice; <<>> stands for failure, of which a size of 0 is one.           *)
ReadLink(len) == IF len = 1 THEN {<<>>} ELSE {Cut(exe, len - 1), <<>>}

(* dirname of an absolute path, which may end in one slash.                *)
dirname(p) ==
  LET q     == IF Len(p) > 1 /\ Last(p) = SLASH THEN Front(p) ELSE p
      slash == Max({i \in DOMAIN q : q[i] = SLASH})
  IN  SubSeq(q, 1, Max({1, slash - 1}))

(* A call that opens nothing: the answer, and the text it writes, if any.  *)
Returns(f, len, v) ==
  /\ spc = "idle"
  /\ sfn' = f
  /\ plen' = len
  /\ sret' = v
  /\ UNCHANGED <<fdtab, spc, sfd, exe, cells, rss, mono, start, scan, usagevars>>

Writes(text, file) == path' = text /\ truth' = [Fresh EXCEPT !.wrote = TRUE, !.file = file]

WritesNothing == path' = path /\ truth' = Fresh

(* A length of 0 is refused; on failure the buffer is emptied.             *)
rl_get_proc_path ==
  \E len \in Lens :
    \/ len = 0 /\ Returns("path", len, RL_FAILED) /\ WritesNothing
    \/ /\ len > 0
       /\ \E link \in ReadLink(len) :
            /\ Returns("path", len, IF link = <<>> THEN RL_FAILED ELSE RL_SUCCESS)
            /\ Writes(link, <<>>)

rl_get_proc_dir ==
  \E len \in Lens :
    \/ len = 0 /\ Returns("dir", len, RL_FAILED) /\ WritesNothing
    \/ /\ len > 0
       /\ \E link \in ReadLink(len) :
            \/ link = <<>> /\ Returns("dir", len, RL_FAILED) /\ Writes(<<>>, <<>>)
            \/ link # <<>> /\ Returns("dir", len, RL_SUCCESS) /\ Writes(dirname(link), <<>>)

(* A length of 0 is not looked for: snprintf writes nothing then, and that *)
(* is no failure, but a failure empties the buffer whatever its size. A    *)
(* null file and a path that cannot be read end alike.                     *)
rl_get_file_abs_path ==
  \E len \in Lens, file \in Files, link \in ReadLink(DirBuf) :
    \/ link = <<>> /\ Returns("abs", len, RL_FAILED) /\ Writes(<<>>, file)
    \/ /\ link # <<>>
       /\ Returns("abs", len, RL_SUCCESS)
       /\ \/ len = 0 /\ WritesNothing
          \/ len > 0 /\ Writes(Cut(dirname(link) \o <<SLASH>> \o file, len - 1), file)

-----------------------------------------------------------------------------
(* Open descriptors, elapsed time                                          *)

rl_get_fd_count ==
  /\ spc = "idle"
  /\ sfn' = "fds"
  /\ \/ /\ \E d \in Fds : Opened("rlsys", d) /\ sfd' = d
        /\ spc' = "scan"
        /\ scan' = [entry |-> -2, count |-> 0]
        /\ truth' = [Fresh EXCEPT !.always = OpenFds', !.ever = OpenFds']
        /\ UNCHANGED sret
     \/ /\ sret' = RL_FAILED
        /\ truth' = Fresh
        /\ UNCHANGED <<fdtab, spc, sfd, scan>>
  /\ UNCHANGED <<cells, rss, mono, start, pathvars, usagevars>>

(* Mutant: "." and ".." are counted. *)
CountedAll(e) == e < 0 \/ e \in OpenFds

(* The entries -2 and -1 are "." and "..".                                 *)
Counted(e) == e \in OpenFds

(* readdir gives the numbers in order, each if it is open at that moment.  *)
read_entry ==
  /\ spc = "scan"
  /\ \/ /\ scan.entry <= Max(Fds)
        /\ scan' = [entry |-> scan.entry + 1,
                    count |-> scan.count + IF Counted(scan.entry) THEN 1 ELSE 0]
        /\ UNCHANGED spc
     \/ /\ scan.entry > Max(Fds)
        /\ spc' = "closedir"
        /\ UNCHANGED scan
  /\ UNCHANGED <<fdtab, sfn, sfd, sret, cells, rss, mono, start, pathvars, usagevars, truth>>

close_dir ==
  /\ \E v \in {scan.count, RL_FAILED} : CloseFile("fds", "closedir", v)
  /\ scan' = [entry |-> 0, count |-> 0]
  /\ UNCHANGED <<cells, rss, mono, start, pathvars, usagevars, truth>>

(* The difference of two timespecs, in the unit of tv_nsec.                *)
Elapsed(b, e) ==
  LET sec_diff  == (e \div Second) - (b \div Second)
      nsec_diff == (e % Second) - (b % Second)
  IN  IF nsec_diff < 0 THEN (sec_diff - 1) * Second + nsec_diff + Second
                       ELSE sec_diff * Second + nsec_diff

rl_calcuate_run_time_ms ==
  /\ spc = "idle"
  /\ sfn' = "time"
  /\ sret' = Elapsed(start, mono)
  /\ truth' = [Fresh EXCEPT !.elapsed = mono - start]
  /\ UNCHANGED <<fdtab, spc, sfd, usagevars, readervars>>

-----------------------------------------------------------------------------
(* The world outside                                                       *)

(* The kernel counts; iowait may also fall.                                *)
jiffy ==
  /\ \E b, i \in {-1, 0, 1} :
       /\ b >= 0
       /\ machine' = [busy |-> machine.busy + b, idle |-> machine.idle + i]
  /\ machine'.busy \in 0 .. MaxJiffies \cup Word - 2 .. Word - 2 + MaxJiffies
  /\ machine'.idle \in 0 .. MaxJiffies
  /\ machine' # machine
  /\ UNCHANGED <<fdtab, spc, sfn, sfd, sret, tracker, sample, readervars, truth>>

time_passes ==
  /\ mono < MaxTime
  /\ mono' = mono + 1
  /\ start' \in {start, mono}
  /\ UNCHANGED <<fdtab, spc, sfn, sfd, sret, usagevars, cells, rss, scan, pathvars, truth>>

(* Another thread of the host opens or closes a file.                      *)
host_files ==
  /\ host_opens \/ host_closes
  /\ truth' = IF spc = "scan"
              THEN [truth EXCEPT !.always = @ \cap OpenFds', !.ever = @ \cup OpenFds']
              ELSE truth
  /\ UNCHANGED <<spc, sfn, sfd, sret, usagevars, readervars>>

UsageNext ==
  \/ rl_get_cpu_usage \/ usage_read \/ usage_failed \/ usage_convert
  \/ jiffy

FileNext ==
  \/ rl_get_cpu_temperature \/ temperature_read \/ temperature_convert
  \/ rl_get_memory_usage \/ memory_read \/ memory_close
  \/ rl_get_fd_count \/ read_entry \/ close_dir
  \/ host_files

PathNext ==
  \/ rl_get_proc_name \/ name_read \/ name_close
  \/ rl_get_proc_path \/ rl_get_proc_dir \/ rl_get_file_abs_path
  \/ rl_calcuate_run_time_ms
  \/ time_passes

-----------------------------------------------------------------------------
(* Properties                                                              *)

Gave(f) == spc = "idle" /\ sfn = f /\ sret # RL_FAILED

(* A call has one descriptor while it reads, and none when it has returned. *)
ReaderDescriptors ==
  /\ {d \in Fds : fdtab[d] = "rlsys"} = {sfd} \ {-1}
  /\ spc = "idle" => sfd = -1

(* The usage is that of the time since the last sample that succeeded,     *)
(* across the wrap of the counters, across failed calls, and again as soon *)
(* as a fall of iowait is over.                                            *)
CpuUsageExact ==
  Gave("usage") /\ truth.growth.busy >= 0 /\ truth.growth.idle >= 0 =>
    LET all == truth.growth.busy + truth.growth.idle
    IN  sret = IF all = 0 THEN 0 ELSE (truth.growth.busy * Permille) \div all

(* d is a directory above the file p.                                      *)
Above(d, p) == d = <<SLASH>> \/ (IsPrefix(d \o <<SLASH>>, p) /\ Last(d) # SLASH)

Directory(p) == CHOOSE d \in {SubSeq(p, 1, n) : n \in 1 .. Len(p)} :
                  Above(d, p) /\ \A n \in Len(d) + 1 .. Len(p) : ~Above(SubSeq(p, 1, n), p)

(* A text is written with its terminator into the size it is given. One    *)
(* call does otherwise: rl_get_file_abs_path of a size of 0 that fails     *)
(* writes the terminator behind the buffer (rlsys.c:164, 171). A path that *)
(* does not fit is cut off, and the directory is then one above the        *)
(* program's, never one beside it; with room for the path of the program   *)
(* both are exact.                                                         *)
PathSound ==
  /\ sfn \in {"path", "dir", "abs"} /\ truth.wrote =>
       Len(path) < plen \/ (sfn = "abs" /\ sret = RL_FAILED /\ path = <<>> /\ plen = 0)
  /\ Gave("name") => Len(path) < plen
  /\ Gave("path") => /\ IsPrefix(path, exe)
                     /\ plen > Len(exe) => path = exe
  /\ Gave("dir")  => /\ Above(path, exe)
                     /\ plen > Len(exe) => path = Directory(exe)
  /\ Gave("abs") /\ plen > 0 =>
       \E n \in 1 .. Len(exe) :
         LET d == SubSeq(exe, 1, n)
         IN  /\ Above(d, exe)
             /\ DirBuf > Len(exe) => d = Directory(exe)
             /\ path = Cut(d \o <<SLASH>> \o truth.file, plen - 1)

(* What rlsys says of the machine and the process is so. The temperature   *)
(* is the number in the file, whatever the stack held behind it, as read   *)
(* leaves the buffer unterminated. The count of descriptors lies between   *)
(* those open all through the walk, its own among them, and those open at  *)
(* some moment of it. The elapsed time is right across a second.           *)
ReadingsExact ==
  /\ Gave("temperature") => sret = truth.value
  /\ Gave("fds") => /\ Cardinality(truth.always) <= sret
                    /\ sret <= Cardinality(truth.ever)
  /\ Gave("time") => sret = truth.elapsed
=============================================================================
